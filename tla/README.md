# Hoisa: verification development

TLA+ models of the parts of Hoisa that decide something, TLC configurations that
check them on small instances, and TLAPS proofs of the properties that matter
most. Source paths below are relative to the repository; `agent_workflow.py`
stands for `scripts/github/agent_workflow.py`.

1. [The system](#1-the-system)
2. [Modules](#2-modules)
3. [How the models correspond to the code](#3-how-the-models-correspond-to-the-code)
4. [Runs](#4-runs)
5. [Bounds](#5-bounds)
6. [Fairness](#6-fairness)
7. [Plausible mistakes](#7-plausible-mistakes)
8. [Disagreements between the code and its documents](#8-disagreements-between-the-code-and-its-documents)
9. [Proofs](#9-proofs)
10. [Not modelled](#10-not-modelled)
11. [Plan](#11-plan)

## 1. The system

Hoisa runs coding agents over the issues of a GitHub Project. An issue goes
through a stage machine; agents own four of its stages (Planning, Plan Review,
Implementation, Implementation Review) and the human approver two (Plan Approval,
Implemented). GitHub holds all state of a running workflow. Durable records of
projects, runs, events and tool policies go to a document store (MongoDB through
Antonic, or an in-memory store with the same contract).

| Component | State it keeps | Operations | What is hard | What makes it correct |
|---|---|---|---|---|
| Stage machine (`src/hoisa/domain/workflow_transitions.py`) | none | `transition_workflow` | the review route changes the target of two rows | every decision leads to a stage of the machine, with the owner that stage has; a human stage is left only by a human signal |
| Work selection (`src/hoisa/app/workflows/select_next_work.py`) | none | eligibility, ownership, order, mode | precedence of owned work; deterministic order can starve what is behind the head | a worker resumes before it takes; no human-stage, blocked or linked planning item is offered |
| Workflow helper (`agent_workflow.py`) | issue fields, labels, assignee, comments, linked pull requests, all on GitHub | `next`, `claim`, `approval`, `approve`, `request-changes`, `request-review`, `post-plan`, `revise-plan`, `review-ready`, `review-changes`, `pr-create`, `complete`, `reset-for-next`, reports | every command is a sequence of REST calls with no lock and no compare-and-set: stale copies, overlapping commands, commands that die half way, comments that arrive in between | no implementation without approval; the decision is about the plan that was posted; ownership is explicit; decisions take effect; work is served |
| Workflow helper, git side (`agent_workflow.py`) | a clone per worker, branches on GitHub | preflight, branch check-out, plan file, commit and push of plans and work | commits, pushes and tracker calls are separate; clones are behind; agents of one name share branches | a linked or waiting plan is on GitHub; nobody's push loses another's; implementation starts from the plan, unless `--no-git` or a clone that is behind is in the way |
| Project fields (`agent_workflow.py`) | the fields of the Project and their values per item | create missing fields, fill blank values, `migrate-workflow-stages` | one read, then one patch per item, while other commands write; items with blank fields | migration keeps the meaning of items, leaves none unreadable and can be run again |
| Issue quality (`src/hoisa/app/services/issue_quality.py`) and the gate of `next` | none | classify, risk, trust, readiness; refusal of an implementation | rules over headings, labels and authors, evaluated twice on different copies; a refused or blocked issue keeps others waiting | the gate and the report agree; a refusal names what to do; what is cleared is taken up, what is blocked is not |
| Document store (`src/hoisa/adapters/persistence/memory.py`, `antonic.py`, `ports/persistence.py`) | buckets of versioned documents | insert, save, get, find | concurrent savers of one version; unique, sparse and partial indexes | no lost update; a version names one content; unique keys stay unique |
| Record repository (`src/hoisa/adapters/persistence/core.py`) | the store's documents | append_event, find_runnable_work, lease, gate and event queries | leases at the moment they expire; state that overrides the item | a lease is active or expired, never both; what is offered was runnable in the form in which it was found |
| GitHub bootstrap (`src/hoisa/app/services/github_connection_bootstrap.py`) | project, repository, source and tool connection, policies, sync cursor | validate, apply | a sequence of get-then-write upserts without a transaction; crash and rerun; two at once | a rerun completes what a crash left, duplicates nothing and keeps the cursor |
| GitHub adapter (`src/hoisa/adapters/external_sources/github.py`) | installation token cache | validate_repository | token used near its expiry | a cached token outlives the call it is used for |
| Credentials (`src/hoisa/adapters/filesystem/github_credentials.py`) | none | resolve | malformed files | shape checks before use |
| Docker proof of concept (`scripts/poc_docker_agent_run.py`) | run and event records | run_poc | timeout; crash between the two writes | every recorded event names a recorded run |
| Coding handoff, domain records, schemas | none | formatting, validation | | |

How they interact: `next` switches the worker's clone to main, creates missing
Project fields, reads every project item, syncs the approver's decisions
(comments) into the stage machine, asks for blockers, hands the resulting copy
to the selection policy, puts an implementation through the quality gate, and
claims what the policy chose, which checks its branch out. The agent works,
commits, and calls the command that ends its task. The only channel between
workers, and between a worker and the approver, is GitHub: its issues and its
branches. The bootstrap and the docker run are the only writers of the document
store so far; they keep to different collections.

## 2. Modules

| Module | What it is |
|---|---|
| `WorkflowTransitions` | the stage machine as a table of rows, one per branch of `transition_workflow` |
| `SelectNextWork` | the pure selection policy; extends `WorkflowTransitions` for the stages |
| `IssueLifecycle` | abstract specification: what may happen to one issue, in atomic steps (transition, claim, reset) |
| `AgentWorkflow` | the core: commands of several workers, one action per GitHub call, and the approver; extends `SelectNextWork`, instantiates `IssueLifecycle` through a refinement mapping |
| `AgentBranches` | the git side of the commands, a clone per worker, composed with `AgentWorkflow` action by action |
| `IssueQuality` | the pure evaluation of an issue's text and the gate's rules |
| `NextGate` | what one `next` reads before it hands an issue out (items, blockers, plan comment), with authors and blockers changing meanwhile; extends `IssueQuality` and `SelectNextWork` |
| `ProjectFields` | creation of Project fields and migration of items, with other commands at work; extends `WorkflowTransitions` |
| `StoreOperations` | what insert and save of the document store do to a bucket, as pure operators |
| `AtomicDocuments` | abstract specification: documents that are created once and edited in place, atomically |
| `DocumentStore` | concurrent clients of one bucket that hold copies and insert and save them; extends `StoreOperations`, instantiates `AtomicDocuments` through a refinement mapping |
| `RecordRepository` | runnable work, leases and appended events over the store, with concurrent writers |
| `DockerRun` | the docker run script and the two records it writes |
| `DurableRecords` | `RecordRepository`, `DockerRun` and `DocumentStore` on one database |
| `GitHubBootstrap` | bootstrap processes that upsert the records of a repository connection; extends `StoreOperations` |
| `AgentWorkflow_proofs`, `AgentBranches_proofs`, `NextGate_proofs`, `ProjectFields_proofs`, `DocumentStore_proofs`, `DurableRecords_proofs`, `GitHubBootstrap_proofs` | TLAPS proofs about the module of that name |
| `ExclusiveWorkflow_proofs` | TLAPS proofs about `AgentWorkflow` when commands of different workers do not overlap |
| `MCAgentWorkflow`, `MCAgentBranches`, `MCNextGate`, `MCProjectFields`, `MCDurableRecords`, `MCGitHubBootstrap` | symmetry and values for TLC |

No module declares a `RECURSIVE` operator; parameters are constants with one
named assumption per module (`WorkflowAssumption`, `BranchesAssumption`,
`GateAssumption`, `ProjectAssumption`, `StoreAssumption`, `RepositoryAssumption`,
`DockerRunAssumption`, `RecordsAssumption`, `BootstrapAssumption`).

## 3. How the models correspond to the code

### The workflow helper

**State.** `item[i]` is what GitHub stores for issue `i`: the Project fields
Status, Workflow Stage and Review Route, the worker identity labels (`labels`),
whether a pull request names the issue (`linked`), and whether its text passes
the quality gate (`ready`, fixed per issue). `assigned[i]` says whether the
approver is assigned. `comments[i]` is the log `approval_from_comments` reads:
plans and decisions only, for no other comment can change its answer. `pc[w]`
is the next GitHub call of worker `w`'s helper process, `job[w]` what the
command remembers (the copy `seen` of the issue as it was read, the signal, the
labels still to delete), `view[w]` and `pending[w]` the copy of the project and
the items to sync of a running `next`, and `task[w]` what `next` last told the
agent to do. `answered` is a history variable: the position of the last
decision that moved the issue; no action reads it. `faults` counts the commands
that died.

**One action per call.** The helper computes what it writes from the copy it
read at its start, so the model splits a command at every GitHub call it makes
and keeps the copy:

| Code | Actions |
|---|---|
| `approval` (`_cmd_approval`, `sync_approval`) | `ApprovalCommand`, `ReadComments`, then `PatchTransition`, `RemoveLabel`*, `AssignOwner` |
| `approve`, `request-changes`, `request-review` (`record_human_decision`) | `RecordDecision` (comment first), `ReadItem`, `ReadComments`, ... |
| `transition_issue` | `PatchTransition` (one REST patch of Status and Workflow Stage), `RemoveLabel` per label of the copy, `AssignOwner` |
| `post-plan`, `revise-plan` | `PostPlan`/`RevisePlan`, the transition, `PublishPlan` (the comment comes last) |
| `review-ready`, `review-changes` | `StageReview`, the transition |
| `pr-create`, `complete` | `CreatePullRequest`; `Complete`, the transition (of the issue of the task; `complete` takes any pull request that resolves, so none need be linked) |
| `next` | `NextCommand` (project items and linked pull requests), per human-stage item `NextReadItem`, `ReadComments` and possibly a transition, `Select`, then `ClaimPatch`, `RemoveLabel`*, `AddOwnLabel` |
| `claim` | `ClaimCommand`, `ClaimPatch`, `RemoveLabel`*, `AddOwnLabel` |
| `reset-for-next` | `ResetCommand`, `ResetPatch`, `ResetAssignee`, `RemoveLabel`*, `ResetDone` |
| a REST error or a killed process | `Fail`, between any two calls |
| a comment on GitHub itself | `HumanComment`, at any time |

Details that matter and are kept: `next` refreshes only the stage of its copy
after a sync (`AfterSync`), not status, labels or route; the claim is a blind
patch that writes back the copy's stage; labels removed are those of the copy; a
plan comment makes earlier decisions stale (`LatestReply`); Implemented plus
"approved" does nothing (`SignalApplies`); a queued issue beyond Planning without
a plan comment makes `next` fail (`BranchMissing`); an implementation issue that
fails the quality gate makes `next` return nothing (`Gated`).

**Abstractions.**
- Names are written without blanks (`"PlanApproval"` is the code's "Plan
  Approval"), for the provers.
- `project_items` and `linked_prs_by_issue` are two reads, modelled as one: no
  property depends on a pull request opened between them.
- `next` syncs items in the order of the project, the model in any order.
- `next --no-claim` does nothing after its sync: a `next` that dies there.
- git is left to `AgentBranches`, blockers and the evaluation behind `ready` to
  `NextGate`, missing fields and blank values to `ProjectFields`. Issues are
  unblocked tasks without phases and `agent:*` labels; the policy itself
  (`SelectNextWork`) has all of these as fields of an item.
- Nobody edits Project fields or labels by hand.
- The agent calls the command its task is for; which commands it may call is
  guarded exactly as the helper guards it (stage and pull request), not more.

### The git side

A branch is the sequence of its commits; a commit names its issue, whether it
changes the plan or the work, and who made it. `origin` holds the branches on
GitHub, `local[w]` and `remote[w]` the branches and remote-tracking branches of
worker `w`'s clone, `head[w]` what it has checked out, `dirty[w]` its uncommitted
files. `git[w]` is the git call a command makes next; the tracker's calls of
the command wait for it. `posted[i]` is what the last plan comment links.

| Code | Definitions |
|---|---|
| `_repo_preflight` | `Preflight`, a step with the read of `next` or `claim` |
| `_workflow_branch`, `_ensure_branch`, `_ensure_plan_file` | `WorkflowBranch`, `EnsureBranch`, `Scaffold`, at the end of a claim (`LabelAndCheckOut`) |
| `post-plan`, `revise-plan`: commit and push of the plan | `PostPlanInClone`/`RevisePlanInClone`, `CommitPlan`, `PushPlan`, then `PatchAfterPush` ... `PublishLink` |
| the same with `--no-git` | `GitOption`: no commit and no push, then the transition and `PublishLink` as before (`GitDone`) |
| `commit-push` | `CommitWork`, `PushWork` |
| `pr-create` | `PullRequestInClone` |
| an agent's edits, a cleaned worktree | `Edit`, `CleanWorktree` (external) |
| all other commands | `TrackerStep`, `AgentWorkflow`'s actions |

Kept: a commit is made only if something is staged, and the push is made all the
same; a branch the clone has is switched to as it is; a plan is posted from
whatever is checked out, and revised so too. GitHub refuses a push that is no
fast-forward. With `--no-git` the transition and the comment are made though
nothing was committed or pushed: `localOnly`, a history variable, keeps the issues
this was done for, and `posted[i].commit` is then `NoCommit`. Titles do not change,
so the branch name of an issue is fixed per agent.

What holds of plans is therefore conditional, and the conditions are in the
properties: `LinkedPlanIsPushed` is about plan comments of commands that ran git,
`WaitingPlanIsPushed` about issues none of whose plans was published with
`--no-git`, and `ImplementationStartsFromPlan` about plans that were pushed, in a
clone that lacks the branch or whose branch is not behind what it has fetched
(`IsBehind`). Without the conditions the code does not keep them (section 8).

### Issue quality and the gate

What the code matches with regular expressions is a fact about a text: its
labels, its headings, the surfaces it touches, its author, and whether it asks
for consequential actions or to set instructions aside. Findings are named by
their codes, which fix their severity; the order of a report's findings is left
out. `classify_issue_type` takes the first `type:*` label of a Python set: with
two of them the type is any (`IssueTypes`), and a `next` may read another one
than the last `next` did.

`NextGate` splits one `next` where it reads: `NextStart` (`project_items`),
`ReadBlocker` per queued item that the filters (`Scopes`) leave, `SelectItem`,
`GateItem` (with the comments, which are read only when sections are missing),
`ClaimItem` or `ReturnItem`.
Claim and the agent's work are one step each here; `AgentWorkflow` has their
calls. `steady` is a history variable of a property. What the code does
and the model keeps:

- a failed read of the dependencies counts as "no blockers"
  (`agent_workflow.py:1692`), so an issue whose blocker is open may be taken;
  `BlockedIsNotTaken` therefore speaks of reads that succeeded only,
- a resumed item is not asked for its blockers again,
- the gate judges the copy without comments, `issue-quality` counts them,
- one refused implementation at the head ends `next`; nothing behind it is
  considered. `ClearedWorkIsTaken` therefore asks that all queued issues are clear.

### Project fields and the migration

`fields` is the set of workflow fields of the Project, at first any of
`FirstFields`, `item[i]` their values and the old Plan State. A field that was
just created is blank on every item, the status too. `call[p]` is what a helper
has read and has still to do.

| Code | Actions |
|---|---|
| `_fetch_project_context`, `_missing_workflow_fields`, `_create_workflow_fields`, `_validate_workflow_fields` | `FetchFields`, `CreateField` per field, `RefetchFields` |
| `migrate-workflow-stages --apply` (`_cmd_migrate_workflow_stages`) | `ReadLegacyItems`, `PatchItem` per item, `ReportMigration`, `EndMigration` |
| `next` | `ReadItems` (blank stage and route filled in memory, the filters leave a subset), `SyncItem` (strict read, the copy takes its stage), `ClaimItem` of what is `Claimable` |
| targeted commands | `ReadIssue` (strict), `WriteIssue` (a transition, a claim by hand or a reset) |
| a maintainer, an added issue | `ChooseRoute`, `ChooseStatus`, `AddItem` (external) |
| a killed process | `Die` |

GitHub is assumed to refuse a second field of a name. The migration writes
values computed from one read, so a stage that was blank then and is set
meanwhile is overwritten: `changed` records for which items this can be, and
`MigrationKeepsMeaning` speaks of the others. No command fills in a blank status
by itself, and selection raises on it: nothing is `Claimable` while an item that
`next` looks at has none (section 8). `AppliedIsReadable` is about stage and
route, which the migration owes; the strict reads refuse a blank stage only. A sync and a targeted write are
one step each here.

### The document store

`bucket` is the bucket of one document type in `InMemoryStore` (and, by the same
contract, a MongoDB collection behind Antonic, where each command is atomic per
document and `save` filters on the version). An id that holds nothing has a
document of version 0. A document is its version, its key (the fields of the
type's unique index, `NoKey` where a sparse index misses one) and its content;
as content the model counts the edits of each client, so that a lost edit can be
seen. `copy[c]` is the document in client `c`'s hands.

| Code (`memory.py`) | Definitions |
|---|---|
| `insert`, `_prepare_insert` | `InsertOutcome`, `Inserted`; action `Insert` |
| `save` | `SaveOutcome` (in the order of its checks), `Saved`; action `Save` |
| `_reject_unique_collisions` | `Collides` |
| `get` | `Get`; any stored document, as some filter matches it |
| a caller constructing or changing a document | `Build`, `Edited` (external) |

Neither method awaits between its checks and its write, so a call is one step;
what interleaves is the client's get, edit and save. A refused call raises: the
client drops its copy. The `upsert` and `where` options of `save` are used by no
caller and left out, and so are timestamps.

### Records, leases and the docker run

`RecordRepository`: a store call is a step. `find_runnable_work` finds the work
items once (`FindWorkItems`), keeps those copies (`query.todo`) and gets each state
record by itself (`ReadStateRecord`), while anybody writes state records
(`PutState`) and work items (`PutWorkItem`): its result is the state of no single
moment. An item is judged by its copy, so one that was blocked after it was found
is offered all the same. What can be said is in the history variables: `ever`,
what was runnable, as found, beside the record stored at some moment before its
record was read; `always`, what was runnable as stored at all those moments.
`OffersAreRunnable` puts the offer between the two. No program deletes an item or
a record. `IsRunnable` is `_is_runnable`;
`Offerable` says the same independently, from the fields of the port's
`RunnableWorkQuery` and the definition of an active lease. A query without a time
ignores leases, as in the code. `append_event` is `CheckEvent` (the `get`) and
`InsertEvent`, whose store refuses a stored id.

`DockerRun`: `RunContainer` (with any result, a command that exits with the
timeout's code included), `InsertRun`, `AppendRawEvent`, `ReadBack`, `ReportRun`;
`ScriptDies` before a store call, or at one that raises whether or not it stored.

`DurableRecords` composes the two with `DocumentStore`. The programs keep to
different collections, so their steps commute and a behaviour of all is one of
each: `program` says which kind runs, which avoids the product of their states.

### The GitHub bootstrap

`store` holds one bucket per collection, with the operations of
`StoreOperations`. `pc[b]` is the collection the process is about to upsert
into, in the order of `apply`; an upsert is `LookUp` (the `get`) and then
`InsertRecord` or `SaveRecord` (`_insert_or_save`). `job[b]` holds the references
collected so far and, between the two calls, the id and version that were found.
`LookUp` takes any matching record, since `get` promises no order. A sync cursor
that is found ends the bootstrap without a write. Three collections have a
unique index over the fields the bootstrap looks up (`TargetRepoIndex`,
`ToolPolicyIndex`, `SyncCursorIndex`); projects, source
connections and tool connections have none. `Crash` may hit between any two
calls, `Start` may run the bootstrap again, under either project name, while
another one runs; `AdvanceCursor` is the source sync that will own the cursor.
A refused write is the exception that ends the process. `alone` and `overlapped`
are history variables of the properties; no guard reads them.

A bootstrap without `apply`, or one whose repository check fails, makes no call to
the store and has no action. Records are reduced to the fields the bootstrap
matches by, the repository's project and the cursor's position; the twenty
policies to `ActionCount` positions.

## 4. Runs

| Run | Checks | Shows |
|---|---|---|
| `overlap` | `TypeOK`, `ImplementationNeedsApproval`, `HumanStagesAreQueued` | two workers, calls interleaved at will, resets included: stale copies move issues backwards and sideways, never past an approval that was not given, and never leave a human-stage issue where `next` does not look |
| `exclusive` | `OwnershipExplicit`, `ApprovalFollowsPlan`, `LifecycleSpec` | all commands and modes, one command at a time: the sequence of calls implements the atomic life cycle, even when a command dies between two calls; without deaths ownership is explicit whenever no command runs, and only an approval written after the plan opens Implementation, although the approver comments between any two calls |
| `live` | `OneIssuePerWorker`, `DecisionTakesEffect`, `QueuedWorkIsServed` | two workers looping on `next` over two issues: nobody holds two; a decision nobody told them of takes effect; queued work is taken up while another issue waits for the approver, if all issues pass the gate |
| `branches` | `BranchesTypeOK`, `LinkedPlanIsPushed`, `WaitingPlanIsPushed`, `PushedIsKept`, `ImplementationStartsFromPlan` | two workers of one agent name, who claim by hand and with `next` and publish plans with git and with `--no-git`, one dying between two git or GitHub calls: a plan that a command with git linked or waits for is on GitHub, no push loses another's commits, implementation starts from the plan posted last unless the clone is behind |
| `gate` | `GateTypeOK`, `VerdictsAgree`, `RefusalIsActionable`, `BlockedIsNotTaken`, `ClearedWorkIsTaken` | issues of every kind of text, edited and blocked between the reads of `next` |
| `migration` | `FieldsTypeOK`, `AppliedIsReadable`, `MigrationKeepsMeaning`, `MigrationCompletes` | two helpers that create the fields that are missing, whichever these are, migrate, select and move issues, and one that dies: the migration keeps what items mean, leaves none it read unreadable, and completes |
| `records` | `RecordsTypeOK`, `OffersAreRunnable`, `RunsAndEventsAgree`, `EventsAreAppendOnly`, `UniqueKeys`, `VersionNamesContent`, `AtomicSpec` | a query under which work items and records change offers what was runnable as found; a run and its event tell the same outcome, whatever dies; an event is never replaced; keys move between documents by saves of old copies and stay unique; a version names one content; no edit overwrites one its client has not seen |
| `bootstrap` | `TypeOK`, `ReferencesResolve`, `RerunsDuplicateNothing`, `AppliedIsComplete`, `RerunSucceeds`, `CursorsAdvance` | calls of two bootstraps interleave, and one may die: what is stored refers to what is there; the ones that return have left a complete connection; reruns duplicate nothing unless bootstraps overlap, and even then not where there is an index; a bootstrap that runs alone is never refused; a cursor is never moved back |
| `objection`, `staleapproval`, `reset`, `branchless` | one property each, violated | section 8 |

The inductive invariants of the proofs (section 9) were also checked with TLC, on the
constants of these runs, before they were proved; they are no listed runs, as
the proofs subsume them. The passing runs between them take every
action and every disjunct of the next-state relation of each module.

`RerunsDuplicateNothing` is conditional for a reason: two overlapping bootstraps
can both miss the project and insert it twice (no index forbids it), and every
later bootstrap then finds either one. The test
tests/unit/app/test_github_connection_bootstrap.py:39 asks idempotence of bootstraps in
sequence, which is what the property states.

## 5. Bounds

- `MaxReplies`, `MaxPlans`: decisions and plans per issue. One reply and one plan
  are enough for `overlap`: staleness comes from the order of calls, and resets,
  re-claims and syncs repeat without bound. `exclusive` has two and two, so that
  a decision about an earlier plan, a decision after a decision and a revised
  plan occur. `branches` has two plans, so that a branch is committed to again, and
  one reply, an approval or a rejection.
- `MaxFaults`: commands that die (in `gate`, dependency reads that fail). One
  death is enough to separate the calls of a command. Without overlap a second
  death starts from a state the first one already produces.
- One issue in `overlap`, `exclusive` and `branches`: commands of different
  issues share only the copy of `next`, which the two-issue run `live` exercises,
  and `main`, which only a plan posted from there touches.
- Two workers: the races are between two copies of one issue. Workers are
  symmetric where no liveness is checked (no order on them is used). In
  `branches` both have one agent name, so that they share branches; commands do
  not overlap there, since what overlap does to the tracker is `overlap`'s
  question and the pushes of two workers interleave all the same, task by task.
- In `branches` issues are claimed for planning by hand and for implementation by
  `next --mode implement`, so that each kind of claim is there and they meet: a
  worker that holds an issue's branch by an earlier claim is behind once another
  publishes a plan. A `next` that claims for planning checks out the same branch
  as a claim by hand.
- `MaxCommits = 2`: a clone that is behind, equal or diverged by one.
- Routes: `ReviewBoth` visits every stage; a reset switches the issue to
  `HumanOnly`, so that both columns of the table are taken.
- Commands: `overlap` leaves out the `approval` command, whose calls are the
  ones `next` makes for each human-stage item, and `pr-create`, one call that
  changes nothing but what selection of planning work looks at; `exclusive` has
  both, and so have the proofs.
- `gate`: one issue takes all the texts of `ManyTexts` (types from labels, from
  headings, ambiguous and unsupported; complete and not; every author and kind of
  request), the other is a clear task filed with an open blocker. One edit or
  change of a blocker falls between any two reads, and one read fails. An edit
  changes one fact of the text.
- `migration`: two helpers, two issues out of six kinds (never migrated, half
  migrated, migrated, not in the Project), one foreign write, one death. The
  Project has at first no workflow field, Status and Agent, all but Status, or all
  (`FieldKinds`), so that the fields `next` needs are missing as well as there; the
  safety properties are proved for any set of them.
- `records`: two items and two points in time, so that a lease expires before,
  at and after the time asked for; each item is at any moment one of two
  (`FewWorkItems`), one that fits the query and is not blocked or one that does
  not fit and is blocked, so that an item turns from runnable to not and back
  while its copy is in hand; three runs and two deaths, so that a run
  without an event precedes one with; two documents and two keys, so that a key
  can move and come back; two clients; versions up to 2, so that a copy can be one
  edit behind (`MaxVersion` guards `Save` only).
- `bootstrap`: two processes, three starts, one crash: a crash, an overlap and a
  rerun by itself fit in one behaviour. Two policies, so that a crash falls
  between them; two project names for one repository, so that the second
  re-points it. `Ids` is large enough for a new id always to be free (a
  collection gets at most one record per start and policy), so
  `Ids \ Stored(bucket) # {}` never blocks.

The proofs have none of these bounds. Deadlock is checked in `exclusive`,
`overlap`, `live`, `gate` and `migration`; in `branches`, `records` and
`bootstrap` the bounds on commits, runs, versions and starts may stop the system.

## 6. Fairness

The store, the records and the bootstrap have safety properties only, as nobody
promises that a client saves or an operator runs the bootstrap again.

- `live` (`FairSpec`): weak fairness of the next call of a running command (a
  process that is not killed makes its next call; `MaxFaults = 0`), and strong
  fairness of starting `next` and the command that ends a worker's task. The
  latter is the loop of docs/github-workflow.md, "should run until explicitly
  stopped": a worker that has nothing running calls `next` again, and an agent
  that has a task ends it. It is strong because commands exclude each other
  in `live`: another worker's command disables the start of this one's over and
  over. Nothing is assumed of the approver, who may never answer:
  `DecisionTakesEffect` speaks only of decisions that were written.
  `QueuedWorkIsServed` is about issues that all pass the gate: one that does not
  is allowed to keep the queue waiting, and the code lets it.
- `gate` (`GateFairness`): the same loop. Nothing is assumed of authors and
  blockers, which is why `ClearedWorkIsTaken` has "eventually always clear" as
  its hypothesis.
- `migration` (`ProjectFairness`): a helper that runs goes on, and somebody runs
  `migrate-workflow-stages --apply` again and again, as the error of the strict
  reads asks for (agent_workflow.py:337). Strong, because a helper that is busy with another
  command cannot start one. Foreign writes and deaths are bounded, so this is
  the promise that a rerun completes what they left.

## 7. Plausible mistakes

Beside some definitions stands a variant with a plausible mistake; with it
instead of the definition, the property named here fails in its run.

| Variant | The mistake | Property |
|---|---|---|
| `ResetPatchWritesPlanState` | a reset writes a value that is no stage | `TypeOK` |
| `ApprovalEventReadsRejectionAsApproval` | a rejection is read as an approval | `ImplementationNeedsApproval` |
| `PatchTransitionKeepsStatus` | the transition patches the stage only | `HumanStagesAreQueued` |
| `PatchTransitionKeepsLabels` | the transition does not release labels | `OwnershipExplicit` |
| `LatestReplyAcrossPlans` | a plan comment does not make decisions stale | `ApprovalFollowsPlan` |
| `DecisionForgetsRoute` | the route is not passed to the stage machine | `LifecycleSpec` |
| `CandidatesPreferQueue` | the queue precedes owned work | `OneIssuePerWorker` |
| `NextCommandSkipsSync` | `next` selects without syncing | `DecisionTakesEffect` |
| `HasPlanInLatestCommentOnly` | the branch is looked for in the last comment only | `QueuedWorkIsServed` |
| `EnsureBranchTracksOnly` | a branch that is nowhere is not created | `BranchesTypeOK` |
| `CommitPlanPushesNewOnly` | nothing to commit is taken for nothing to push | `LinkedPlanIsPushed` |
| `PatchBeforePush` | the transition does not wait for the push | `WaitingPlanIsPushed` |
| `AcceptsAny` | pushes are forced | `PushedIsKept` |
| `PreflightWithoutFetch` | the preflight switches without fetching | `ImplementationStartsFromPlan` |
| `SomeRead` | selection starts before all blockers are read | `GateTypeOK` |
| `RecommendedSkipsTrust` | a complete task is recommended whatever the warnings | `VerdictsAgree` |
| `ReasonIgnoresWaiver` | the reason disregards which sections a plan stands in for | `RefusalIsActionable` |
| `QueuedInOtherStages` | blockers are asked for in Planning only | `BlockedIsNotTaken` |
| `IsActiveOnceListed` | a closed blocker still blocks | `ClearedWorkIsTaken` |
| `UpdatesUnmapped` | a Plan State is written as a stage | `FieldsTypeOK` |
| `UpdatesStageOnly` | the route is not migrated | `AppliedIsReadable` |
| `UpdatesFromPlanState` | a stage that is set is computed again | `MigrationKeepsMeaning` |
| `MissingUnlessStarted` | the fields are taken for complete once one is there | `MigrationCompletes` |
| `StoreRunUnlessTimedOut` | a run that timed out is not stored | `RecordsTypeOK` |
| `RunnableOnceExpired` | a lease that ends now still counts | `OffersAreRunnable` |
| `StoreEventOfLatestRun` | the event is about the number of the next run | `RunsAndEventsAgree` |
| `InsertEventUnchecked` | the insert overwrites | `EventsAreAppendOnly` |
| `SaveOutcomeIgnoresIndexes` | unique indexes are checked by insert only | `UniqueKeys` |
| `SavedKeepsVersion` | a save does not raise the version | `VersionNamesContent` |
| `SaveOutcomeIgnoresVersion` | a save does not compare versions | `AtomicSpec` |
| `MorePoliciesRunsOver` | one policy too many | `TypeOK` |
| `IdentitySwapsReferences` | a source connection swaps project and repository | `ReferencesResolve` |
| `MatchesIndexedOnly` | only indexed collections are looked up before the insert | `RerunsDuplicateNothing` |
| `MorePoliciesStopsEarly` | the last policy is left out | `AppliedIsComplete` |
| `CandidateForgetsVersion` | the record found does not pass on its version | `RerunSucceeds` |
| `LookUpForgetsCursor` | an existing cursor is saved over | `CursorsAdvance` |

## 8. Disagreements between the code and its documents

Each is shown by a run whose single property TLC refutes.

- **An objection is overlooked** (`objection`). Between the sync that read an
  approval and the claim for implementation, and while the issue is in
  Implementation, nobody reads the comments again. docs/github-workflow.md:241:
  "no later human signal requests changes".
- **A new plan approved by an old approval** (`staleapproval`). `post-plan` opens
  Plan Approval before it posts the comment that makes the old approval stale; a
  sync between the two moves the issue to Implementation on the old one.
  docs/github-workflow.md:214: "Do not edit implementation code before approval."
- **A reset issue that is never selected** (`reset`). `reset-for-next` keeps
  linked pull requests, selection skips Planning issues with one. The docstring
  (agent_workflow.py:1611): "Reset workflow fields so `next` can consider the
  issue for planning."
- **A planning task resumed on main** (`branchless`). Every `next` switches the
  clone to main, and only a claim checks a branch out, so a planning task that
  `next` resumes is returned with main checked out, and `post-plan` commits there.
  .agents/skills/plan-workflow/SKILL.md:17-18: "the issue is already claimed, the
  issue branch is checked out".

Seen while modelling, and not made runs of:

- The latest decision is applied again whenever the issue returns to a human
  stage; docs/vision.md:95 wants gates "single-use".
- Two overlapping claims leave two worker labels. `OwnershipExplicit` is claimed
  of commands that do not overlap.
- One human-stage item that was never migrated ends every `next`, as its sync reads it
  strictly, although the in-memory defaults (agent_workflow.py:1427) exist to keep
  routine commands running. `MigrationCompletes` shows the way out.
- `post-plan --no-git` (agent_workflow.py:3507) transitions the issue and links a
  plan that is on no branch of GitHub, although docs/github-workflow.md:79-80 says
  "`post-plan` and `revise-plan` commit and push the plan branch before posting the
  plan link" and names no exception.
- A clone that has the issue branch switches to it without pulling
  (agent_workflow.py:3444), so an implementation may start without a plan that
  another worker published since. docs/github-workflow.md:77-79 has the helper fetch
  and then create or track the branch. The push of such work is refused.
- An item whose Status is blank, as all are when the field was just created
  (agent_workflow.py:1958), is not filled in by the in-memory defaults (3270) and ends
  every `next` that looks at it (448-464), until somebody sets it or the filters
  leave it out.
- A failed read of an issue's dependencies lets it be taken although
  docs/github-workflow.md:240 wants its blockers resolved.

## 9. Proofs

Every invariant and every safety property that a passing run checks is a theorem
for all values of the constants. What is left to TLC alone is liveness (end of
this section). Each module is proved from the named assumptions of the modules
it extends (the sets of constants are of the right kind, numbers are numbers);
where a theorem needs more, its `ASSUME` says so, and the tables below repeat it.

| Module | Theorem | Statement |
|---|---|---|
| `AgentWorkflow_proofs` | `Invariance` | `Spec => []IndInv` |
| | `TypeCorrect` | `Spec => []TypeOK` |
| | `ApprovalSafety` | `Spec => []ImplementationNeedsApproval` |
| | `HumanStagesQueued` | `Spec => []HumanStagesAreQueued` |
| `ExclusiveWorkflow_proofs` | `CopiesStayFresh` | `Exclusive`: `Spec => []ExclusiveInv` |
| | `LifecycleRefined` | `Exclusive`: `Spec => LifecycleSpec` |
| | `PlanBeforeApproval` | `Exclusive`: `Spec => ApprovalFollowsPlan` |
| | `OwnershipIsExplicit` | `Exclusive`: `Spec => []OwnershipExplicit` |
| | `LoopHoldsOneIssue` | `Exclusive`, `AutoLoop`: `Spec => [](faults = 0 => OneIssuePerWorker)` |
| | `OneIssueAtATime` | `Exclusive`, `AutoLoop`, `MaxFaults = 0`: `Spec => []OneIssuePerWorker` |
| `AgentBranches_proofs` | `BranchesInvariance` | `BranchesSpec => []BranchesInv` |
| | `BranchesTypeCorrect` | `BranchesSpec => []BranchesTypeOK` |
| | `LinksHold` | `BranchesSpec => []LinkedPlanIsPushed` |
| | `PlansArePushed` | `BranchesSpec => []WaitingPlanIsPushed` |
| | `PushesKept` | `BranchesSpec => PushedIsKept` |
| | `ExclusiveInvariance` | `Exclusive`: `BranchesSpec => []ExclusiveBranchesInv` |
| | `ImplementationFindsPlan` | `Exclusive`: `BranchesSpec => ImplementationStartsFromPlan` |
| `NextGate_proofs` | `GateInvariance` | `GateSpec => []GateInv` |
| | `GateTyped` | `GateSpec => []GateTypeOK` |
| | `VerdictsMatch` | `GateSpec => []VerdictsAgree` |
| | `RefusalNamesCause` | `GateSpec => []RefusalIsActionable` |
| | `BlockedStaysQueued` | `GateSpec => BlockedIsNotTaken` |
| `ProjectFields_proofs` | `FieldsKnown` | `ProjectSpec => []FieldsInv` |
| | `FieldsTyped` | `ProjectSpec => []FieldsTypeOK` |
| | `AppliedReadable` | `ProjectSpec => []AppliedIsReadable` |
| | `MeaningKept` | `ProjectSpec => MigrationKeepsMeaning` |
| `DocumentStore_proofs` | `Invariance` | `Spec => []IndInv` |
| | `TypeCorrect` | `Spec => []TypeOK` |
| | `KeysStayUnique` | `Spec => []UniqueKeys` |
| | `VersionsNameContents` | `Spec => []VersionNamesContent` |
| | `Implementation` | `Spec => AtomicSpec` |
| `DurableRecords_proofs` | `RecordsInvariance`, `RunsInvariance` | `RecordsSpec => []RecordsInv`, `RecordsSpec => []RunsInv` |
| | `OffersRunnable` | `RecordsSpec => []OffersAreRunnable` |
| | `LeasesDivide` | `RecordsSpec => []LeasesPartition` |
| | `EventsKept` | `RecordsSpec => EventsAreAppendOnly` |
| | `RunsAgree` | `RecordsSpec => []RunsAndEventsAgree` |
| | `RecordsTypeCorrect` | `RecordsSpec => []RecordsTypeOK` |
| | `StoreRefined` | `RecordsSpec => Spec` (of `DocumentStore`) |
| | `KeysUniqueAmongPrograms`, `VersionsAmongPrograms`, `AtomicAmongPrograms` | the theorems of the store, of the composition |
| `GitHubBootstrap_proofs` | `BootstrapInvariance` | `Spec => []BootstrapInv` |
| | `BootstrapTypeCorrect` | `Spec => []TypeOK` |
| | `ReferencesHold` | `Spec => []ReferencesResolve` |
| | `NothingDuplicated` | `Spec => []RerunsDuplicateNothing` |
| | `ConnectionComplete` | `Spec => []AppliedIsComplete` |
| | `RerunRepairs` | `Spec => RerunSucceeds` |
| | `CursorsNeverGoBack` | `Spec => CursorsAdvance` |

### The workflow helper

The theorems of `AgentWorkflow_proofs` hold for overlapping commands and any
number of deaths. `ImplementationNeedsApproval` is not inductive: a transition
writes what a copy says, so the argument must be about copies. `IndInv` adds, for
each worker, that

- a command between two calls knows its issue (`AddressesIssue`), and so does an
  agent with a task (`TaskNamesIssue`),
- the decision about to be written is a row of the table in the state that was
  read (`WritesLegalTransition`), without which `NextStage` chooses from nothing,
- a claim writes back a stage agents own (`ClaimsAgentStage`), which is why a
  human-stage issue can never be In Progress,
- no copy, in `job` or in `view`, is past an approval the log does not have, and
  "approved" was read from the log by whoever is about to write its consequence
  (`KnowsApproval`). Since the log only grows, approvals cannot be lost: the
  lemma `ApprovedGrows`, and `CommentKeepsApprovals` for the copies.

`StepTyped` shows types preserved, one step per action; `StepKept` the rest,
using `WorkerStep`, `ReturnedWorker`, `BegunWorker` and `SyncedWorker`, which say
what returning, beginning and syncing do to one worker's part and that the other
workers' parts are kept. The facts about the table are proved once
(`NextStageFacts`, `SignalAppliesFacts`, `StageFacts`).

`ExclusiveWorkflow_proofs` is about the deployment the helper is written for,
`Exclusive`: commands of different workers do not overlap, while the approver
comments at any time and commands die anywhere. With overlap copies go stale, and
none of this is claimed. The module first says what each call does, field by field (`PatchEffect`, `ClaimPatchEffect`,
...), so that four arguments can share it:

- `ExclusiveInv`: one command runs, and the stage and the route of its copy are
  still the tracker's (`FreshCopy`); an approval it is about to apply is at a
  position of the log after which no plan was posted (`SignalGrounded`).
- The refinement: by `FreshCopy` the patch of a transition is one of
  `IssueLifecycle`'s, that of a claim its claim, that of a reset its reset, and
  every other call stutters (`LifecycleStep`).
- `PlanAnnounced`: an issue that waits for a review or an approval has its plan
  in the log, or its `post-plan` is about to post it. With `SignalGrounded` this
  gives `ApprovalFollowsPlan`. It needs `faults = 0`: a `post-plan` that dies
  before its comment is the `staleapproval` run.
- `OwnershipInv` and `HeldInv`: an issue whose label, assignee and status do not
  yet agree is in the hands of the running command, which knows the labels still
  to be deleted (`LabelsKnown`). `AutoLoop` (only mode `auto`, no `claim` by hand)
  is what makes `next` resume before it takes: `ClaimsWhenFree`.

### The git side

`BranchesInv` holds for overlapping commands too. `LinkedPlanIsPushed` needs to
know of a command between its push and its plan comment that the branch it stands
on, with the plan, is on GitHub (`PlanComesFirst`, and `KnowsCommand` for which
calls belong to such a command), unless the command was given `--no-git` and will
record `NoCommit`; `WaitingPlanIsPushed` needs, of every copy that shows an issue
outside `localOnly` waiting for its plan's review or approval, that its plan is on
GitHub (`KnowsPlan`), as a stale copy may be written back long after it was read.
That what is pushed stays so (`OriginGrows`) is where `Accepts`, the refusal of
pushes that are no fast-forward, is used (`PushGrows`). `StartKnows` and
`ContinueKnows` carry this through the calls of `AgentWorkflow`, whose `IndInv` is
reused.

`ImplementationStartsFromPlan` is about a worker that checks out a branch its clone
lacks, or has and is not behind with: `ExclusiveBranchesInv` says that since the
preflight of the running `next` nobody pushed and linked a plan that its clone has
not fetched (`TakesUpPlan`), so a branch that is tracked afresh, or has all that was
fetched, has the plan. With overlap somebody may.

### The gate of `next`

`GateInv` relates what `next` picked to what it read: a verdict is about the copy
as it was judged (`Decided`), a blocker that was read and has not changed since is
known (`BlockersRead`), and a queued item that is about to be claimed had no active
blocker in the copy (`PickedIsFree`). The lemmas on `Report` (`ReportFacts` and
those after it) hold for every text and every set of comments, which TLC
enumerates only in part.

### The Project fields

`FieldsInv` adds what a helper knows of its reads (`ReadKnown`): a migration that
is patching has every blank field of its scope still on its list (`LacksOnlyTodo`)
and will write, to items nobody changed, what they mean already
(`UpdatesMean`); a `next` has no blank stage in its copy, also after a sync refreshed
it. Which fields the Project had at first plays no part. `NoneBlanked`, no step
makes a value blank, is what other helpers' writes must show.

### The store and the records

In `DocumentStore_proofs` both writes have one form, stated by `Wrote`: the next
version of a document, under a free key, by a caller that had the stored version
(`InsertWrites`, `SaveWrites`). `WriteKept` shows once that such a write preserves
the invariant, `CopyKept` that taking, building or dropping a copy does.
`VersionNamesContent` is what the refinement needs: when the version check of
`save` succeeds, the copy that was edited is the stored document, so the save is
an edit of the stored document. `NewIsUnedited` says the same of documents never
stored: they are created with the edits of the one save that creates them.

`OffersAreRunnable` speaks of a finished query. `RecordsInv` says it of a running
one: what was found was offerable, as its copy shows it, at some moment, and what
has been offerable as stored all along is found, or still to be read with a copy
that is offerable beside the stored record (`QueryInv`). Every read of a record
preserves this (`RecordDecides`), and so does every write of a record
(`PutStateInv`) or of a work item (`PutWorkItemInv`) by somebody else. The lemma `RunnableIsOfferable`
connects the code's condition with the port's, the boundary of a lease included:
a lease that expires exactly now is expired for both. The order in which the
records are read plays no part in the argument. `EventsKept` needs no invariant,
as the insert itself refuses a stored id, whatever `CheckEvent` saw before.

`RunsAndEventsAgree` bounds the runs without an event by the deaths; a running
script has one more, the run it is about to tell of (`AtIt`, `ScriptKnowsRun`).
The count is a cardinality, by the library's theorems on finite sets.
`StoreRefined` shows that the composition of all programs is a behaviour of
`DocumentStore`, so its theorems carry over.

### The GitHub bootstrap

Every step leaves the store alone or writes one record (`Write`) that fits
(`Fits`): it refers to records that are there, and goes under a free id or over a
record of the same identity. So no record goes away or changes its identity
(`RecordsStay`), which is why what one bootstrap has made or found is still there
after any step of another. `BootstrapInv` says, besides the properties,

- what a bootstrap has made, up to the policy it is at (`Progress`), without
  which neither `ReferencesResolve` nor `AppliedIsComplete` is inductive,
- what its lookup found (`KnowsMatch`): that record is there, has the identity,
  and is no sync cursor; if it runs alone, its version is the stored one, and where
  it found nothing there is nothing. This is `RerunSucceeds` and, with
  `NeverOverlapped`, `RerunsDuplicateNothing` where there is no index,
- that free ids hold nothing and indexed keys are identities (`StoredAsAsked`).

`LeastExists` shows that the new id of an insert exists, by the library's theorem
on well-founded relations.

### Only model-checked

`DecisionTakesEffect`, `QueuedWorkIsServed`, `ClearedWorkIsTaken` and
`MigrationCompletes`: liveness under fairness, which rests on `ENABLED` and is
beyond the prover. The four violated properties of section 8 are false, and
TLC shows a behaviour of each.

## 10. Not modelled

- Reports and pull request commands of the helper: they read GitHub and format
  JSON, or post a comment the state machine does not read.
- `next --no-claim`, which does nothing after its sync, and `claim --branch`: a
  branch in `AgentBranches` is `main` or has the name the helper gives it.
  `select_next_work`, which takes the first item of a WorkQueue.
- Project fields that lack an option or hold an unknown value: the command ends
  before it does anything.
- The query side of the repository that nothing in the program uses (waiting
  gates, tool policies and invocations, event lists), the `upsert` and `where`
  options of `save`, query operators (`$in`, `$gt`, ...), sorting and paging of
  `find`; the MongoDB client behind `antonic.py`, which is taken to keep the
  contract of the in-memory store.
- The GitHub adapter: its only state is a token cache, and no caller uses an
  instance twice. Credentials, coding handoff, domain records: no state, no order
  of steps.
- JWT signing, DER parsing, markdown and plan-file formatting, JSON schemas: byte
  and text formats without state.
- The docker container after a timeout: the script kills its client and does not
  look at the container again.
- Human edits of Project fields, but for the review route (`ChooseRoute`) and the
  status (`ChooseStatus`), in `ProjectFields`.

## 11. Plan

1. The liveness properties as step lemmas: for each, a quantity that every fair
   step lowers and no other step raises, stated without fairness, as far as
   the prover can follow.
2. Lemmas about the pure modules by themselves: the order of the selection policy
   (`SortsBefore`, `IsFirst`) is total, and every row of the stage machine leads
   to a stage with the owner that row names.
3. The repository's other queries, once a program uses them.
