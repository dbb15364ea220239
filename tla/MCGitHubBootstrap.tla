-------------------------- MODULE MCGitHubBootstrap --------------------------
(* GitHubBootstrap for TLC. *)
EXTENDS GitHubBootstrap, TLC

\* Processes differ only by name, and so do projects.
BootstrapSymmetry == Permutations(Bootstraps) \union Permutations(ProjectNames)
==============================================================================
