---------------------------- MODULE AgentBranches ----------------------------
(***************************************************************************)
(* The git side of scripts/github/agent_workflow.py, composed with the     *)
(* tracker side (AgentWorkflow): every worker runs the helper in a clone   *)
(* of its own, `next` and `claim` leave it on the branch of the issue, and *)
(* `post-plan`, `revise-plan` and `commit-push` commit there and push.     *)
(* A branch is the sequence of its commits.  The commands of the tracker   *)
(* that run no git are AgentWorkflow's.                                    *)
(***************************************************************************)
EXTENDS AgentWorkflow

Seqs == INSTANCE SequencesExt

CONSTANTS
    AgentOf,   \* the agent name each worker passes to the helper
    MaxCommits \* bound: commits on a branch of a clone

ASSUME BranchesAssumption ==
    /\ DOMAIN AgentOf = Workers
    /\ MaxCommits \in Nat

VARIABLES
    origin, \* branches on GitHub
    remote, \* each clone's remote-tracking branches
    local,  \* each clone's own branches
    head,   \* the branch each clone has checked out
    dirty,  \* the issue whose files each worktree has uncommitted, or 0
    git,    \* the git call a command makes next
    target, \* the branch a claim is going to check out
    posted, \* per issue, the branch the last plan comment links and, unless its
            \* command was given --no-git, the plan commit it pushed
    localOnly \* history: issues a plan was published of with --no-git

gitVars == <<origin, remote, local, head, dirty, git, target, posted, localOnly>>

Main == <<"main", 0>>

\* branch_name; titles do not change here.
BranchName(w, i) == <<AgentOf[w], i>>

Branches == {Main} \union { BranchName(w, i) : w \in Workers, i \in Issues }

\* A commit names its issue, what it changes, and who made it as which one.
Commits ==
    [issue : Issues, file : {"plan", "work"}, by : Workers, nr : Nat]

NoCommit == [issue |-> 0]

\* The value of a branch a repository does not have
Absent == <<NoCommit>>

Exists(refs, b) == refs[b] # Absent

OnlyMain == [b \in Branches |-> IF b = Main THEN <<>> ELSE Absent]

PlanCommits(history, i) ==
    { k \in DOMAIN history : history[k].issue = i /\ history[k].file = "plan" }

HasPlanFile(history, i) == PlanCommits(history, i) # {}

LastPlan(history, i) ==
    history[CHOOSE k \in PlanCommits(history, i) : \A j \in PlanCommits(history, i) : j <= k]

Holds(history, commit) == \E k \in DOMAIN history : history[k] = commit

Unposted == [branch |-> Main, commit |-> NoCommit]

BranchesInit ==
    /\ Init
    /\ origin = OnlyMain
    /\ remote = [w \in Workers |-> OnlyMain]
    /\ local = [w \in Workers |-> OnlyMain]
    /\ head = [w \in Workers |-> Main]
    /\ dirty = [w \in Workers |-> 0]
    /\ git = [w \in Workers |-> "none"]
    /\ target = [w \in Workers |-> Main]
    /\ posted = [i \in Issues |-> Unposted]
    /\ localOnly = {}

-------------------------------------------------------------------------------
(* `next` and `claim` *)

Related(a, b) == Seqs!IsPrefix(a, b) \/ Seqs!IsPrefix(b, a)

PreflightWithoutFetch(w) ==
    /\ dirty[w] = 0
    /\ head' = [head EXCEPT ![w] = Main]
    /\ UNCHANGED <<origin, remote, local, dirty, git, posted, localOnly>>

\* _repo_preflight: a clean worktree, switch to main, fetch, fast-forward.  A
\* main that has diverged makes the command fail before its first call.
Preflight(w) ==
    /\ dirty[w] = 0
    /\ Related(local[w][Main], origin[Main])
    /\ head' = [head EXCEPT ![w] = Main]
    /\ remote' = [remote EXCEPT ![w] = origin]
    /\ local' = IF Len(local[w][Main]) < Len(origin[Main])
                THEN [local EXCEPT ![w][Main] = origin[Main]]
                ELSE local
    /\ UNCHANGED <<origin, dirty, git, posted, localOnly>>

NextInClone(w) ==
    /\ git[w] = "none"
    /\ NextCommand(w)
    /\ Preflight(w)
    /\ UNCHANGED target

\* `claim` without --branch
ClaimInClone(w, i) ==
    /\ git[w] = "none"
    /\ ClaimCommand(w, i)
    /\ Preflight(w)
    /\ target' = [target EXCEPT ![w] = BranchName(w, i)]

\* _workflow_branch, of the item `next` is about to claim: the branch of the
\* latest plan comment, or a new one for planning.
WorkflowBranch(w, i, stage) ==
    IF stage = "Planning" THEN BranchName(w, i) ELSE posted[i].branch

SelectInClone(w) ==
    /\ Select(w)
    /\ target' = IF pc'[w] = "claim"
                 THEN [target EXCEPT ![w] =
                         WorkflowBranch(w, job'[w].issue, job'[w].seen.stage)]
                 ELSE target
    /\ UNCHANGED <<origin, remote, local, head, dirty, git, posted, localOnly>>

EnsureBranchTracksOnly(w) ==
    LET b == target[w] IN
    /\ head' = [head EXCEPT ![w] = b]
    /\ local' = IF Exists(remote[w], b) /\ ~ Exists(local[w], b)
                THEN [local EXCEPT ![w][b] = remote[w][b]] ELSE local

\* _ensure_branch: switch to a branch the clone has, as it is there; else track
\* the one on origin; else create it from the branch checked out.
EnsureBranch(w) ==
    LET b == target[w] IN
    /\ head' = [head EXCEPT ![w] = b]
    /\ local' = IF Exists(local[w], b) THEN local
                ELSE [local EXCEPT ![w][b] =
                        IF Exists(remote[w], b) THEN remote[w][b] ELSE local[w][head[w]]]

\* _ensure_plan_file leaves an untracked file where the branch has no plan.
Scaffold(w, i, stage) ==
    dirty' = IF stage = "Planning" /\ ~ HasPlanFile(local'[w][head'[w]], i)
             THEN [dirty EXCEPT ![w] = i] ELSE dirty

\* The end of a claim: the label, then the branch and the plan file.
LabelAndCheckOut(w) ==
    /\ AddOwnLabel(w)
    /\ EnsureBranch(w)
    /\ Scaffold(w, job[w].issue, job[w].seen.stage)
    /\ UNCHANGED <<origin, remote, git, target, posted, localOnly>>

-------------------------------------------------------------------------------
(* The agent in its clone (external). *)

\* It edits the files its task is about.
Edit(w) ==
    /\ pc[w] = "idle" /\ git[w] = "none"
    /\ task[w].action \in {"plan", "implement"}
    /\ dirty[w] = 0
    /\ dirty' = [dirty EXCEPT ![w] = task[w].issue]
    /\ UNCHANGED <<vars, origin, remote, local, head, git, target, posted, localOnly>>

\* It stashes or drops them, as the preflight's error asks.
CleanWorktree(w) ==
    /\ pc[w] = "idle" /\ git[w] = "none"
    /\ dirty[w] # 0
    /\ dirty' = [dirty EXCEPT ![w] = 0]
    /\ UNCHANGED <<vars, origin, remote, local, head, git, target, posted, localOnly>>

-------------------------------------------------------------------------------
(* `post-plan`, `revise-plan`: add, commit if anything is staged, push, and    *)
(* only then the transition and the comment.                                   *)

MayCommit(w) == Len(local[w][head[w]]) < MaxCommits

\* The plan file must be there, or stripping its metadata fails.
PlanFileThere(w, i) == dirty[w] = i \/ HasPlanFile(local[w][head[w]], i)

\* _commit_and_push_plan: given --no-git it returns before the first git call.
GitOption(w, i) ==
    \/ /\ MayCommit(w)
       /\ git' = [git EXCEPT ![w] = "commit"]
       /\ UNCHANGED localOnly
    \/ /\ git' = [git EXCEPT ![w] = "no-git"]
       /\ localOnly' = localOnly \union {i}

PostPlanInClone(w) ==
    /\ git[w] = "none"
    /\ PostPlan(w)
    /\ PlanFileThere(w, task[w].issue)
    /\ GitOption(w, task[w].issue)
    /\ UNCHANGED <<origin, remote, local, head, dirty, target, posted>>

RevisePlanInClone(w, i) ==
    /\ git[w] = "none"
    /\ RevisePlan(w, i)
    /\ PlanFileThere(w, i)
    /\ GitOption(w, i)
    /\ UNCHANGED <<origin, remote, local, head, dirty, target, posted>>

Commit(w, i, file) ==
    local' = [local EXCEPT ![w][head[w]] =
                Append(@, [issue |-> i, file |-> file, by |-> w, nr |-> Len(@)])]

CommitPlanPushesNewOnly(w) ==
    /\ git[w] = "commit"
    /\ IF dirty[w] = job[w].issue
       THEN /\ Commit(w, job[w].issue, "plan")
            /\ dirty' = [dirty EXCEPT ![w] = 0]
            /\ git' = [git EXCEPT ![w] = "push"]
       ELSE git' = [git EXCEPT ![w] = "none"] /\ UNCHANGED <<local, dirty>>
    /\ UNCHANGED <<vars, origin, remote, head, target, posted, localOnly>>

CommitPlan(w) ==
    /\ git[w] = "commit"
    /\ IF dirty[w] = job[w].issue
       THEN Commit(w, job[w].issue, "plan") /\ dirty' = [dirty EXCEPT ![w] = 0]
       ELSE UNCHANGED <<local, dirty>>
    /\ git' = [git EXCEPT ![w] = "push"]
    /\ UNCHANGED <<vars, origin, remote, head, target, posted, localOnly>>

AcceptsAny(w) == TRUE

\* GitHub takes a push that creates the branch or fast-forwards it.
Accepts(w) ==
    LET b == head[w]
    IN  Exists(origin, b) => Seqs!IsPrefix(origin[b], local[w][b])

Pushed(w) ==
    /\ origin' = [origin EXCEPT ![head[w]] = local[w][head[w]]]
    /\ remote' = [remote EXCEPT ![w][head[w]] = local[w][head[w]]]

PushPlan(w) ==
    /\ git[w] = "push"
    /\ git' = [git EXCEPT ![w] = "none"]
    /\ IF Accepts(w)
       THEN Pushed(w) /\ UNCHANGED vars
       ELSE Return(w) /\ UNCHANGED <<tracker, task, faults, origin, remote>>
    /\ UNCHANGED <<local, head, dirty, target, posted, localOnly>>

PatchBeforePush(w) ==
    /\ PatchTransition(w)
    /\ UNCHANGED gitVars

\* The tracker part of the command waits for the push, if there is one.
GitDone(w) == git[w] \in {"none", "no-git"}

PatchAfterPush(w) ==
    /\ GitDone(w)
    /\ PatchTransition(w)
    /\ UNCHANGED gitVars

\* The comment links the branch checked out, pushed or not.
PublishLink(w) ==
    /\ GitDone(w)
    /\ PublishPlan(w)
    /\ posted' = [posted EXCEPT ![job[w].issue] =
                    [branch |-> head[w],
                     commit |-> IF git[w] = "no-git" THEN NoCommit
                                ELSE LastPlan(local[w][head[w]], job[w].issue)]]
    /\ git' = [git EXCEPT ![w] = "none"]
    /\ UNCHANGED <<origin, remote, local, head, dirty, target, localOnly>>

-------------------------------------------------------------------------------
(* `commit-push`, `pr-create` *)

CommitWork(w) ==
    LET i == task[w].issue IN
    /\ pc[w] = "idle" /\ git[w] = "none"
    /\ task[w].action = "implement"
    /\ head[w] # Main
    /\ MayCommit(w)
    /\ IF dirty[w] = i
       THEN Commit(w, i, "work") /\ dirty' = [dirty EXCEPT ![w] = 0]
       ELSE UNCHANGED <<local, dirty>>
    /\ git' = [git EXCEPT ![w] = "push-work"]
    /\ UNCHANGED <<vars, origin, remote, head, target, posted, localOnly>>

PushWork(w) ==
    /\ git[w] = "push-work"
    /\ git' = [git EXCEPT ![w] = "none"]
    /\ IF Accepts(w) THEN Pushed(w) ELSE UNCHANGED <<origin, remote>>
    /\ UNCHANGED <<vars, local, head, dirty, target, posted, localOnly>>

\* GitHub opens a pull request of a pushed branch other than main.
PullRequestInClone(w) ==
    /\ git[w] = "none"
    /\ head[w] # Main
    /\ Exists(origin, head[w])
    /\ CreatePullRequest(w)
    /\ UNCHANGED gitVars

\* The process dies, between two calls of either kind.
FailInClone(w) ==
    \/ /\ Fail(w)
       /\ git' = [git EXCEPT ![w] = "none"]
       /\ UNCHANGED <<origin, remote, local, head, dirty, target, posted, localOnly>>
    \/ /\ git[w] = "push-work"
       /\ faults < MaxFaults
       /\ faults' = faults + 1
       /\ git' = [git EXCEPT ![w] = "none"]
       /\ UNCHANGED <<tracker, pc, job, nextVars, task,
                      origin, remote, local, head, dirty, target, posted, localOnly>>

\* Commands and calls without git
TrackerStep(w) ==
    /\ \/ \E i \in Issues :
             \/ ApprovalCommand(w, i)
             \/ RecordDecision(w, i)
             \/ ResetCommand(w, i)
       \/ StageReview(w)
       \/ Complete(w)
       \/ ReadItem(w)
       \/ ReadComments(w)
       \/ RemoveLabel(w)
       \/ AssignOwner(w)
       \/ NextReadItem(w)
       \/ ClaimPatch(w)
       \/ ResetPatch(w)
       \/ ResetAssignee(w)
       \/ ResetDone(w)
    /\ GitDone(w)
    /\ UNCHANGED gitVars

BranchesNext ==
    \/ \E i \in Issues : HumanComment(i) /\ UNCHANGED gitVars
    \/ \E w \in Workers :
          \/ TrackerStep(w)
          \/ NextInClone(w)
          \/ SelectInClone(w)
          \/ \E i \in Issues : ClaimInClone(w, i) \/ RevisePlanInClone(w, i)
          \/ LabelAndCheckOut(w)
          \/ Edit(w)
          \/ CleanWorktree(w)
          \/ PostPlanInClone(w)
          \/ CommitPlan(w)
          \/ PushPlan(w)
          \/ PatchAfterPush(w)
          \/ PublishLink(w)
          \/ CommitWork(w)
          \/ PushWork(w)
          \/ PullRequestInClone(w)
          \/ FailInClone(w)

allVars == <<vars, gitVars>>

BranchesSpec == BranchesInit /\ [][BranchesNext]_allVars

-------------------------------------------------------------------------------
(* Properties *)

Histories == { Absent } \union Seq(Commits)

\* The values each variable ranges over; only tracker commands that publish a
\* plan have git calls to make.
BranchesTypeOK ==
    /\ TypeOK
    /\ origin \in [Branches -> Histories]
    /\ remote \in [Workers -> [Branches -> Histories]]
    /\ local \in [Workers -> [Branches -> Histories]]
    /\ head \in [Workers -> Branches]
    /\ dirty \in [Workers -> Issues \union {0}]
    /\ git \in [Workers -> {"none", "commit", "push", "push-work", "no-git"}]
    /\ target \in [Workers -> Branches]
    /\ posted \in [Issues -> [branch : Branches, commit : Commits \union {NoCommit}]]
    /\ \A w \in Workers :
          /\ Exists(local[w], head[w])
          /\ git[w] \in {"commit", "push"} => pc[w] \in {"patch", "publish"}
          /\ git[w] = "no-git" => pc[w] \in {"patch", "release", "publish"}
    /\ localOnly \subseteq Issues

\* The plan comment posted last links a branch that has that plan on GitHub,
\* wherever an earlier `post-plan` died between its commit, its push and its
\* comment, unless the command that posted it was given --no-git.
LinkedPlanIsPushed ==
    \A i \in Issues : posted[i].commit # NoCommit =>
        Holds(origin[posted[i].branch], posted[i].commit)

PlanStages == {"PlanReview", "PlanApproval"}

PlanIsPushed(i) == \E b \in Branches : Exists(origin, b) /\ HasPlanFile(origin[b], i)

\* An issue waits for a review or an approval of its plan only with a plan on
\* GitHub, also before the comment that links it, and whatever --no-git does to
\* other issues.
WaitingPlanIsPushed ==
    \A i \in Issues \ localOnly : item[i].stage \in PlanStages => PlanIsPushed(i)

\* What one worker pushed is never lost to another's push from an older copy of
\* the branch.
PushedIsKept ==
    [][\A b \in Branches :
          Exists(origin, b) => Exists(origin', b) /\ Seqs!IsPrefix(origin[b], origin'[b])]_allVars

\* `next` ends the claim of an approved implementation whose plan was pushed.
TakesUpImplementation(w, i) ==
    /\ pc[w] = "relabel" /\ pc'[w] = "idle" /\ job[w].issue = i
    /\ job[w].command = "next" /\ job[w].seen.stage = "Implementation"
    /\ task'[w].action = "implement"
    /\ posted[i].commit # NoCommit

IsBehind(w, b) == Exists(local[w], b) /\ ~ Seqs!IsPrefix(remote[w][b], local[w][b])

\* A worker that takes up an approved implementation starts from the plan posted
\* last, in a clone without a branch of that name as in one whose branch is not
\* behind what the clone has fetched.
ImplementationStartsFromPlan ==
    [][\A w \in Workers : \A i \in Issues :
          TakesUpImplementation(w, i) /\ ~ IsBehind(w, target[w]) =>
              Holds(local'[w][head'[w]], posted[i].commit)]_allVars

\* When `next` returns planning work, the branch of the issue is checked out
\* (.agents/skills/plan-workflow/SKILL.md).
PlanningHasBranch ==
    \A w \in Workers : task[w].action = "plan" => head[w] # Main

-------------------------------------------------------------------------------
(* The inductive invariant of AgentBranches_proofs. *)

\* main is never removed, in no repository that has it.
MainExists == Exists(origin, Main) /\ \A w \in Workers : Exists(local[w], Main)

\* Which command goes on from a call it shares with others
KnowsCommand(w) ==
    /\ pc[w] \in {"read", "comments", "sync"} => job[w].command # "post-plan"
    /\ \/ job[w].signal = "plan-posted"
       \/ pc[w] = "publish"
       => job[w].command = "post-plan"

\* A copy, however old, that shows an issue waiting for its plan's review or
\* approval was made after the plan was pushed.
KnowsPlan(w) ==
    /\ job[w].issue \in Issues \ localOnly /\ job[w].seen.stage \in PlanStages =>
          PlanIsPushed(job[w].issue)
    /\ \A i \in Issues \ localOnly : view[w][i].stage \in PlanStages => PlanIsPushed(i)

\* Once its git calls are made, a command that publishes a plan has the branch it
\* stands on, with the plan in it, on GitHub.
PlanComesFirst(w) ==
    LET i == job[w].issue  history == local[w][head[w]]
    IN  /\ git[w] = "commit" => PlanFileThere(w, i)
        /\ git[w] = "push" => HasPlanFile(history, i)
        /\ git[w] = "push-work" => pc[w] = "idle"
        /\ git[w] = "no-git" => job[w].command = "post-plan" /\ i \in localOnly
        /\ /\ git[w] = "none" /\ job[w].command = "post-plan"
           /\ pc[w] \in {"patch", "release", "publish"}
           => /\ HasPlanFile(history, i)
              /\ Exists(origin, head[w]) /\ Seqs!IsPrefix(history, origin[head[w]])

BranchesInv ==
    /\ IndInv
    /\ BranchesTypeOK
    /\ MainExists
    /\ LinkedPlanIsPushed
    /\ WaitingPlanIsPushed
    /\ \A w \in Workers : KnowsCommand(w) /\ KnowsPlan(w) /\ PlanComesFirst(w)

(* Without overlap: `next` fetches what the claim it ends with checks out. *)

OneCommand == \A v, w \in Workers : pc[v] # "idle" /\ pc[w] # "idle" => v = w

\* While `next` runs, its clone has fetched the plans that are linked, the agent
\* has no task, and the claim goes to the linked branch.
TakesUpPlan(w) ==
    /\ git[w] \in {"commit", "push"} => job[w].command = "post-plan"
    /\ pc[w] # "idle" /\ job[w].command = "next" =>
          /\ task[w].action = "none"
          /\ \A i \in Issues : posted[i].commit # NoCommit =>
                Holds(remote[w][posted[i].branch], posted[i].commit)
          /\ pc[w] \in {"claim", "relabel"} /\ job[w].seen.stage # "Planning" =>
                target[w] = posted[job[w].issue].branch

ExclusiveBranchesInv ==
    /\ OneCommand
    /\ \A w \in Workers : TakesUpPlan(w)
==============================================================================
