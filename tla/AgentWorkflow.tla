----------------------------- MODULE AgentWorkflow -----------------------------
(***************************************************************************)
(* scripts/github/agent_workflow.py: helper processes of several workers   *)
(* moving issues of one GitHub Project through the stage machine.          *)
(*                                                                         *)
(* GitHub is the shared memory.  A command of the helper is a sequence of  *)
(* REST calls with nothing held between them: it reads an issue once and   *)
(* everything it writes afterwards is computed from that copy.  So a       *)
(* command is one action per call: pc[w] says which call worker w makes    *)
(* next, job[w] holds what the command remembers.                          *)
(*                                                                         *)
(* Exclusive = TRUE is the single-operator deployment, where a command is  *)
(* started only when no other command runs; with FALSE commands overlap.   *)
(* The approver comments on GitHub at any time in both.                    *)
(***************************************************************************)
EXTENDS Naturals, Sequences, FiniteSets, SelectNextWork

CONSTANTS
    Issues,        \* issue numbers
    Workers,       \* worker identity labels, one helper process each
    InitialRoutes, \* review routes an issue may be created with
    InitialReady,  \* whether an issue's text passes the issue quality gate
    Replies,       \* decisions the approver may comment
    Commands,      \* helper commands the workers run
    UsedModes,     \* modes the workers pass to `next`
    Exclusive,     \* commands never overlap
    MaxReplies,    \* bound: decisions commented on an issue
    MaxPlans,      \* bound: no plan is published on an issue with this many
    MaxFaults      \* bound: commands that die between two calls

CommandNames ==
    {"next", "claim", "approval", "approve", "post-plan", "revise-plan",
     "stage-review", "pr-create", "complete", "reset-for-next"}

ASSUME WorkflowAssumption ==
    /\ Issues \subseteq Nat \ {0}
    /\ InitialRoutes \subseteq ReviewRoutes
    /\ InitialReady \subseteq BOOLEAN
    /\ Replies \subseteq {"approved", "request-changes", "request-review"}
    /\ Commands \subseteq CommandNames
    /\ UsedModes \subseteq Modes
    /\ Exclusive \in BOOLEAN
    /\ MaxReplies \in Nat
    /\ MaxPlans \in Nat
    /\ MaxFaults \in Nat

VARIABLES
    item,      \* the issue and its Project fields, as GitHub stores them
    assigned,  \* whether the approver is assigned to the issue
    comments,  \* per issue, the comments approval_from_comments reads
    answered,  \* history: position of the last decision that moved the issue
    pc,        \* the next call of each worker's helper process
    job,       \* what the command remembers
    view,      \* `next` only: its copy of all Project items
    pending,   \* `next` only: human-stage items still to be synced
    task,      \* what the last `next` or `claim` told the agent to do
    faults     \* commands that died so far

vars == <<item, assigned, comments, answered, pc, job, view, pending, task, faults>>

Items ==
    [status : Statuses, stage : Stages, route : ReviewRoutes,
     labels : SUBSET Workers, linked : BOOLEAN, ready : BOOLEAN]

\* Comments that cannot change approval_from_comments' answer (other authors,
\* other agent markers, prose) are left out of the log.
CommentBodies == {"plan", "approved", "request-changes", "request-review"}

NewItem(route, ready) ==
    [status |-> "Todo", stage |-> "Planning", route |-> route,
     labels |-> {}, linked |-> FALSE, ready |-> ready]

NoItem == NewItem("HumanOnly", TRUE)

NoJob ==
    [command |-> "none", issue |-> 0, seen |-> NoItem,
     signal |-> "none", at |-> 0, drop |-> {}]

NoView == [i \in Issues |-> NoItem]

NoTask == [issue |-> 0, action |-> "none"]

-------------------------------------------------------------------------------
(* Reading the tracker. *)

\* Variants that stand for plausible mistakes are kept beside the definition
\* they vary; README.md says which property each one breaks.
LatestReplyAcrossPlans(log) ==
    LET replies == DOMAIN log \ { k \in DOMAIN log : log[k] = "plan" }
    IN  IF replies = {} THEN "none"
        ELSE log[CHOOSE k \in replies : \A j \in replies : j <= k]

\* approval_from_comments: the latest decision wins and a posted plan forgets
\* all earlier ones, so the last entry of the log decides.
LatestReply(log) ==
    IF log = <<>> THEN "none"
    ELSE IF log[Len(log)] = "plan" THEN "none"
    ELSE log[Len(log)]

ApprovalEventReadsRejectionAsApproval(reply) ==
    CASE reply \in {"approved", "request-changes"} -> "human-approved"
      [] reply = "request-review"                  -> "human-requested-review"
      [] OTHER                                     -> "none"

\* _approval_event
ApprovalEvent(reply) ==
    CASE reply = "approved"        -> "human-approved"
      [] reply = "request-changes" -> "human-requested-changes"
      [] reply = "request-review"  -> "human-requested-review"
      [] OTHER                     -> "none"

HasPlanInLatestCommentOnly(log) == log # <<>> /\ log[Len(log)] = "plan"

\* _latest_plan_branch finds a plan comment.
HasPlan(log) == \E k \in DOMAIN log : log[k] = "plan"

\* The condition under which sync_approval calls transition_issue.
SignalApplies(event, stage) ==
    /\ event # "none"
    /\ stage \in HumanStages
    /\ ~ (event = "human-approved" /\ stage = "Implemented")

\* _selectable_work_item.  Issues here are unblocked tasks without phases or
\* agent:* labels.
Selectable(copy) ==
    { [number |-> i, phase |-> NoPhase, type |-> "task", routing |-> {},
       blocked |-> FALSE, status |-> copy[i].status, stage |-> copy[i].stage,
       identities |-> copy[i].labels, linked |-> copy[i].linked] : i \in Issues }

-------------------------------------------------------------------------------
Init ==
    /\ item \in [Issues -> { NewItem(r, q) : r \in InitialRoutes, q \in InitialReady }]
    /\ assigned = [i \in Issues |-> FALSE]
    /\ comments = [i \in Issues |-> <<>>]
    /\ answered = [i \in Issues |-> 0]
    /\ pc = [w \in Workers |-> "idle"]
    /\ job = [w \in Workers |-> NoJob]
    /\ view = [w \in Workers |-> NoView]
    /\ pending = [w \in Workers |-> {}]
    /\ task = [w \in Workers |-> NoTask]
    /\ faults = 0

Quiet == \A w \in Workers : pc[w] = "idle"

CanStart(w, command) ==
    /\ command \in Commands
    /\ pc[w] = "idle"
    /\ Exclusive => Quiet

Plans(log) == { k \in DOMAIN log : log[k] = "plan" }

MayReply(i) == Cardinality(DOMAIN comments[i] \ Plans(comments[i])) < MaxReplies

MayPlan(i) == Cardinality(Plans(comments[i])) < MaxPlans

\* The command reads issue i and will go on at `next` with that copy.
Begin(w, command, i, signal, next) ==
    /\ job' = [job EXCEPT ![w] =
                 [NoJob EXCEPT !.command = command, !.issue = i,
                               !.seen = item[i], !.signal = signal]]
    /\ pc' = [pc EXCEPT ![w] = next]

\* The command returns.
Return(w) ==
    /\ pc' = [pc EXCEPT ![w] = "idle"]
    /\ job' = [job EXCEPT ![w] = NoJob]
    /\ view' = [view EXCEPT ![w] = NoView]
    /\ pending' = [pending EXCEPT ![w] = {}]

tracker == <<item, assigned, comments, answered>>
nextVars == <<view, pending>>

-------------------------------------------------------------------------------
(* The approver, on GitHub itself. *)

Comment(i, body) == comments' = [comments EXCEPT ![i] = Append(@, body)]

HumanComment(i) ==
    /\ MayReply(i)
    /\ \E reply \in Replies : Comment(i, reply)
    /\ UNCHANGED <<item, assigned, answered, pc, job, view, pending, task, faults>>

-------------------------------------------------------------------------------
(* sync_approval: read the item, read the comments, then transition. *)

\* `approval`
ApprovalCommand(w, i) ==
    /\ CanStart(w, "approval")
    /\ Begin(w, "approval", i, "none", "comments")
    /\ UNCHANGED <<tracker, nextVars, task, faults>>

\* `approve`, `request-changes`, `request-review`: the comment is posted before
\* sync_approval makes its first read.
RecordDecision(w, i) ==
    /\ CanStart(w, "approve")
    /\ MayReply(i)
    /\ \E reply \in Replies : Comment(i, reply)
    /\ job' = [job EXCEPT ![w] = [NoJob EXCEPT !.command = "approval", !.issue = i]]
    /\ pc' = [pc EXCEPT ![w] = "read"]
    /\ UNCHANGED <<item, assigned, answered, nextVars, task, faults>>

ReadItem(w) ==
    /\ pc[w] = "read"
    /\ job' = [job EXCEPT ![w].seen = item[job[w].issue]]
    /\ pc' = [pc EXCEPT ![w] = "comments"]
    /\ UNCHANGED <<tracker, nextVars, task, faults>>

\* What follows sync_approval: `next` records the stage it returned in its copy
\* and goes on with the other items, `approval` is done.
AfterSync(w, stage) ==
    IF job[w].command = "next"
    THEN /\ view' = [view EXCEPT ![w][job[w].issue].stage = stage]
         /\ pending' = [pending EXCEPT ![w] = @ \ {job[w].issue}]
         /\ pc' = [pc EXCEPT ![w] = "sync"]
         /\ job' = [job EXCEPT ![w] = [NoJob EXCEPT !.command = "next"]]
    ELSE Return(w)

ReadComments(w) ==
    /\ pc[w] = "comments"
    /\ LET log   == comments[job[w].issue]
           event == ApprovalEvent(LatestReply(log))
       IN  IF SignalApplies(event, job[w].seen.stage)
           THEN /\ job' = [job EXCEPT ![w].signal = event, ![w].at = Len(log)]
                /\ pc' = [pc EXCEPT ![w] = "patch"]
                /\ UNCHANGED nextVars
           ELSE AfterSync(w, job[w].seen.stage)
    /\ UNCHANGED <<tracker, task, faults>>

-------------------------------------------------------------------------------
(* transition_issue: one patch of Status and Workflow Stage, both computed  *)
(* from the copy, then the identity labels of the copy are removed one by   *)
(* one, then the approver is assigned or unassigned.                        *)

DecisionForgetsRoute(w) ==
    TransitionWorkflow(job[w].seen.stage, job[w].signal, "HumanOnly")

Decision(w) ==
    TransitionWorkflow(job[w].seen.stage, job[w].signal, job[w].seen.route)

PatchTransitionKeepsStatus(w) ==
    /\ pc[w] = "patch"
    /\ item' = [item EXCEPT ![job[w].issue].stage = Decision(w).stage]
    /\ job' = [job EXCEPT ![w].drop = job[w].seen.labels]
    /\ pc' = [pc EXCEPT ![w] = "release"]
    /\ UNCHANGED <<assigned, comments, answered, nextVars, task, faults>>

PatchTransitionKeepsLabels(w) ==
    /\ pc[w] = "patch"
    /\ item' = [item EXCEPT ![job[w].issue].status = Decision(w).status,
                            ![job[w].issue].stage  = Decision(w).stage]
    /\ pc' = [pc EXCEPT ![w] = "release"]
    /\ UNCHANGED <<assigned, comments, answered, job, nextVars, task, faults>>

PatchTransition(w) ==
    /\ pc[w] = "patch"
    /\ LET i == job[w].issue
       IN  /\ item' = [item EXCEPT ![i].status = Decision(w).status,
                                   ![i].stage  = Decision(w).stage]
           /\ answered' = IF job[w].signal \in HumanSignals
                          THEN [answered EXCEPT ![i] = job[w].at]
                          ELSE answered
    /\ job' = [job EXCEPT ![w].drop = job[w].seen.labels]
    /\ pc' = [pc EXCEPT ![w] = "release"]
    /\ UNCHANGED <<assigned, comments, nextVars, task, faults>>

\* remove_issue_label, for the transition, a claim or a reset
RemoveLabel(w) ==
    /\ pc[w] \in {"release", "relabel", "unlabel"}
    /\ \E label \in job[w].drop :
         /\ item' = [item EXCEPT ![job[w].issue].labels = @ \ {label}]
         /\ job' = [job EXCEPT ![w].drop = @ \ {label}]
    /\ UNCHANGED <<assigned, comments, answered, pc, nextVars, task, faults>>

\* assign_for_approval or remove_approval_assignee; the agent is done with the
\* task the command ends.
AssignOwner(w) ==
    /\ pc[w] = "release"
    /\ job[w].drop = {}
    /\ assigned' = [assigned EXCEPT ![job[w].issue] = (Decision(w).owner = "human")]
    /\ IF job[w].command = "post-plan"
       THEN /\ pc' = [pc EXCEPT ![w] = "publish"]
            /\ UNCHANGED <<job, nextVars, task>>
       ELSE /\ AfterSync(w, Decision(w).stage)
            /\ task' = IF job[w].command \in {"stage-review", "complete"}
                       THEN [task EXCEPT ![w] = NoTask] ELSE task
    /\ UNCHANGED <<item, comments, answered, faults>>

-------------------------------------------------------------------------------
(* The agent's commands for the task `next` gave it. *)

\* `post-plan`, or `revise-plan` in Planning: transition first, comment last.
PostPlan(w) ==
    LET i == task[w].issue IN
    /\ CanStart(w, "post-plan")
    /\ task[w].action = "plan"
    /\ MayPlan(i)
    /\ item[i].stage = "Planning"
    /\ Begin(w, "post-plan", i, "plan-posted", "patch")
    /\ UNCHANGED <<tracker, nextVars, task, faults>>

\* `revise-plan` of a plan that waits for review or approval: no transition.
RevisePlan(w, i) ==
    /\ CanStart(w, "revise-plan")
    /\ MayPlan(i)
    /\ item[i].stage \in {"PlanApproval", "PlanReview"}
    /\ Begin(w, "post-plan", i, "none", "publish")
    /\ UNCHANGED <<tracker, nextVars, task, faults>>

PublishPlan(w) ==
    /\ pc[w] = "publish"
    /\ Comment(job[w].issue, "plan")
    /\ Return(w)
    /\ task' = [task EXCEPT ![w] = NoTask]
    /\ UNCHANGED <<item, assigned, answered, faults>>

\* `review-ready`, `review-changes`
StageReview(w) ==
    LET i == task[w].issue IN
    /\ CanStart(w, "stage-review")
    /\ task[w].action \in {"review-plan", "review-implementation"}
    /\ \E signal \in {"review-ready", "review-changes"} :
         /\ IsTransition(item[i].stage, signal, item[i].route)
         /\ Begin(w, "stage-review", i, signal, "patch")
    /\ UNCHANGED <<tracker, nextVars, task, faults>>

\* `pr-create`: the body links the issue, and linked_prs_by_issue finds the
\* pull request from then on, open or closed.
CreatePullRequest(w) ==
    /\ CanStart(w, "pr-create")
    /\ task[w].action = "implement"
    /\ ~ item[task[w].issue].linked
    /\ item' = [item EXCEPT ![task[w].issue].linked = TRUE]
    /\ UNCHANGED <<assigned, comments, answered, pc, job, nextVars, task, faults>>

\* `complete`: refused outside Implementation; any pull request of the repository
\* will do.
Complete(w) ==
    LET i == task[w].issue IN
    /\ CanStart(w, "complete")
    /\ task[w].action = "implement"
    /\ item[i].stage = "Implementation"
    /\ Begin(w, "complete", i, "implementation-complete", "patch")
    /\ UNCHANGED <<tracker, nextVars, task, faults>>

-------------------------------------------------------------------------------
(* `next` *)

NextCommandSkipsSync(w) ==
    /\ CanStart(w, "next")
    /\ job' = [job EXCEPT ![w] = [NoJob EXCEPT !.command = "next"]]
    /\ view' = [view EXCEPT ![w] = item]
    /\ pc' = [pc EXCEPT ![w] = "sync"]
    /\ task' = [task EXCEPT ![w] = NoTask]
    /\ UNCHANGED <<tracker, pending, faults>>

\* project_items: one copy of everything, then the human-stage items of that
\* copy are synced one by one.
NextCommand(w) ==
    /\ CanStart(w, "next")
    /\ job' = [job EXCEPT ![w] = [NoJob EXCEPT !.command = "next"]]
    /\ view' = [view EXCEPT ![w] = item]
    /\ pending' = [pending EXCEPT ![w] =
                     { i \in Issues : item[i].status = "Todo" /\ item[i].stage \in HumanStages }]
    /\ pc' = [pc EXCEPT ![w] = "sync"]
    /\ task' = [task EXCEPT ![w] = NoTask]
    /\ UNCHANGED <<tracker, faults>>

NextReadItem(w) ==
    /\ pc[w] = "sync"
    /\ \E i \in pending[w] :
         /\ job' = [job EXCEPT ![w].issue = i, ![w].seen = item[i]]
         /\ pc' = [pc EXCEPT ![w] = "comments"]
    /\ UNCHANGED <<tracker, nextVars, task, faults>>

\* The quality gate: `next` hands out no implementation of an issue whose text
\* is not ready, and selects nothing else instead.
Gated(w, i) ==
    /\ StageAction(view[w][i].stage) = "implement"
    /\ ~ view[w][i].ready
    /\ Return(w)
    /\ UNCHANGED task

PassesGate(w, i) == StageAction(view[w][i].stage) = "implement" => view[w][i].ready

\* An item the worker owns is handed to the agent as it is.
Resume(w, i) ==
    /\ PassesGate(w, i)
    /\ view[w][i].status = "InProgress"
    /\ task' = [task EXCEPT ![w] =
                  [issue |-> i, action |-> StageAction(view[w][i].stage)]]
    /\ Return(w)

\* A queued item is claimed; later stages than Planning need the branch named in
\* a plan comment (_workflow_branch), or the command fails.
NeedsPlanBranch(w, i) == view[w][i].stage # "Planning"

BranchMissing(w, i) ==
    /\ PassesGate(w, i)
    /\ view[w][i].status = "Todo"
    /\ NeedsPlanBranch(w, i) /\ ~ HasPlan(comments[i])
    /\ Return(w)
    /\ UNCHANGED task

BeginClaim(w, i) ==
    /\ PassesGate(w, i)
    /\ view[w][i].status = "Todo"
    /\ NeedsPlanBranch(w, i) => HasPlan(comments[i])
    /\ job' = [job EXCEPT ![w].issue = i, ![w].seen = view[w][i]]
    /\ pc' = [pc EXCEPT ![w] = "claim"]
    /\ UNCHANGED <<nextVars, task>>

\* Selection from the copy.
Select(w) ==
    /\ pc[w] = "sync"
    /\ pending[w] = {}
    /\ \E mode \in UsedModes :
         LET candidates == Candidates(Selectable(view[w]), "any", mode, w)
         IN  \/ /\ candidates = {}
                /\ Return(w)
                /\ UNCHANGED task
             \/ \E first \in candidates :
                  /\ IsFirst(first, candidates)
                  /\ \/ Gated(w, first.number)
                     \/ Resume(w, first.number)
                     \/ BranchMissing(w, first.number)
                     \/ BeginClaim(w, first.number)
    /\ UNCHANGED <<tracker, faults>>

-------------------------------------------------------------------------------
(* Claiming, from `next` or by the `claim` command. *)

\* `claim` checks the stage it read, not the status.
ClaimCommand(w, i) ==
    /\ CanStart(w, "claim")
    /\ item[i].stage \in AgentStages
    /\ Begin(w, "claim", i, "none", "claim")
    /\ UNCHANGED <<tracker, nextVars, task, faults>>

\* set_status_agent_stage writes back the stage of the copy.
ClaimPatch(w) ==
    /\ pc[w] = "claim"
    /\ item' = [item EXCEPT ![job[w].issue].status = "InProgress",
                            ![job[w].issue].stage  = job[w].seen.stage]
    /\ job' = [job EXCEPT ![w].drop = job[w].seen.labels \ {w}]
    /\ pc' = [pc EXCEPT ![w] = "relabel"]
    /\ UNCHANGED <<assigned, comments, answered, nextVars, task, faults>>

AddOwnLabel(w) ==
    /\ pc[w] = "relabel"
    /\ job[w].drop = {}
    /\ item' = [item EXCEPT ![job[w].issue].labels = @ \union {w}]
    /\ task' = [task EXCEPT ![w] = [issue  |-> job[w].issue,
                                    action |-> StageAction(job[w].seen.stage)]]
    /\ Return(w)
    /\ UNCHANGED <<assigned, comments, answered, faults>>

-------------------------------------------------------------------------------
(* `reset-for-next` *)

ResetCommand(w, i) ==
    /\ CanStart(w, "reset-for-next")
    /\ Begin(w, "reset-for-next", i, "none", "reset")
    /\ UNCHANGED <<tracker, nextVars, task, faults>>

ResetPatchWritesPlanState(w) ==
    /\ pc[w] = "reset"
    /\ item' = [item EXCEPT ![job[w].issue].status = "Todo",
                            ![job[w].issue].stage  = "NotPlanned",
                            ![job[w].issue].route  = "HumanOnly"]
    /\ pc' = [pc EXCEPT ![w] = "unassign"]
    /\ UNCHANGED <<assigned, comments, answered, job, nextVars, task, faults>>

ResetPatch(w) ==
    /\ pc[w] = "reset"
    /\ item' = [item EXCEPT ![job[w].issue].status = "Todo",
                            ![job[w].issue].stage  = "Planning",
                            ![job[w].issue].route  = "HumanOnly"]
    /\ pc' = [pc EXCEPT ![w] = "unassign"]
    /\ UNCHANGED <<assigned, comments, answered, job, nextVars, task, faults>>

ResetAssignee(w) ==
    /\ pc[w] = "unassign"
    /\ assigned' = [assigned EXCEPT ![job[w].issue] = FALSE]
    /\ job' = [job EXCEPT ![w].drop = job[w].seen.labels]
    /\ pc' = [pc EXCEPT ![w] = "unlabel"]
    /\ UNCHANGED <<item, comments, answered, nextVars, task, faults>>

ResetDone(w) ==
    /\ pc[w] = "unlabel"
    /\ job[w].drop = {}
    /\ Return(w)
    /\ UNCHANGED <<tracker, task, faults>>

-------------------------------------------------------------------------------
\* A REST call raises, or the process is killed, between two calls.
Fail(w) ==
    /\ pc[w] # "idle"
    /\ faults < MaxFaults
    /\ faults' = faults + 1
    /\ Return(w)
    /\ UNCHANGED <<tracker, task>>

Start(w) ==
    \/ \E i \in Issues :
          \/ ApprovalCommand(w, i)
          \/ RecordDecision(w, i)
          \/ RevisePlan(w, i)
          \/ ClaimCommand(w, i)
          \/ ResetCommand(w, i)
    \/ PostPlan(w)
    \/ StageReview(w)
    \/ CreatePullRequest(w)
    \/ Complete(w)
    \/ NextCommand(w)

Continue(w) ==
    \/ ReadItem(w)
    \/ ReadComments(w)
    \/ PatchTransition(w)
    \/ RemoveLabel(w)
    \/ AssignOwner(w)
    \/ PublishPlan(w)
    \/ NextReadItem(w)
    \/ Select(w)
    \/ ClaimPatch(w)
    \/ AddOwnLabel(w)
    \/ ResetPatch(w)
    \/ ResetAssignee(w)
    \/ ResetDone(w)

Next ==
    \/ \E i \in Issues : HumanComment(i)
    \/ \E w \in Workers : Start(w) \/ Continue(w) \/ Fail(w)

Spec == Init /\ [][Next]_vars

-------------------------------------------------------------------------------
(* Properties *)

Jobs ==
    [command : CommandNames \union {"none"},
     issue : Issues \union {0}, seen : Items, signal : Signals \union {"none"},
     at : Nat, drop : SUBSET Workers]

Calls == {"idle", "read", "comments", "patch", "release", "publish", "sync",
          "claim", "relabel", "reset", "unassign", "unlabel"}

\* The values each variable ranges over.
TypeOK ==
    /\ item \in [Issues -> Items]
    /\ assigned \in [Issues -> BOOLEAN]
    /\ comments \in [Issues -> Seq(CommentBodies)]
    /\ answered \in [Issues -> Nat]
    /\ pc \in [Workers -> Calls]
    /\ job \in [Workers -> Jobs]
    /\ view \in [Workers -> [Issues -> Items]]
    /\ pending \in [Workers -> SUBSET Issues]
    /\ task \in [Workers -> [issue : Issues \union {0}, action : Actions \union {"none"}]]
    /\ faults \in Nat

PastApproval == {"Implementation", "ImplementationReview", "Implemented"}

Approved(log) == \E k \in DOMAIN log : log[k] = "approved"

\* However commands overlap and wherever they die, an issue is past Plan
\* Approval only if the approver once wrote "approved" on it: no stale copy
\* written back by a claim, a transition or `next` invents an approval.
ImplementationNeedsApproval ==
    \A i \in Issues : item[i].stage \in PastApproval => Approved(comments[i])

\* An item in a human stage is queued, whatever overlaps or dies: `next` syncs
\* decisions for queued items only, so one left In Progress there would never
\* see its answer.
HumanStagesAreQueued ==
    \A i \in Issues : item[i].stage \in HumanStages => item[i].status = "Todo"

\* Every transition releases the worker identity and makes the next owner
\* explicit (docs/github-workflow.md, "State Machine"): when no command runs
\* and none has died, an item in progress carries one identity label and is not
\* assigned to the approver, and a queued item carries no label and is assigned
\* exactly in a human stage.
OwnershipExplicit ==
    Quiet /\ faults = 0 => \A i \in Issues :
        CASE item[i].status = "InProgress" ->
                 /\ item[i].stage \in AgentStages
                 /\ \E w \in Workers : item[i].labels = {w}
                 /\ ~ assigned[i]
          [] OTHER ->
                 /\ item[i].labels = {}
                 /\ assigned[i] = (item[i].stage \in HumanStages)

\* What the two invariants above rest on, worker by worker.  A worker that is
\* between two calls of a command about one issue remembers which one,
AddressesIssue(w) == pc[w] \notin {"idle", "sync"} => job[w].issue \in Issues

\* so does an agent with a task,
TaskNamesIssue(w) == task[w].action # "none" => task[w].issue \in Issues

\* a decision about to be written is one the stage machine takes in the state
\* that was read,
WritesLegalTransition(w) ==
    pc[w] \in {"patch", "release"} =>
        IsTransition(job[w].seen.stage, job[w].signal, job[w].seen.route)

\* a claim writes back a stage that agents own,
ClaimsAgentStage(w) == pc[w] = "claim" => job[w].seen.stage \in AgentStages

\* and no copy, however old, is past an approval the tracker has not seen.
KnowsApproval(w) ==
    /\ \A i \in Issues : view[w][i].stage \in PastApproval => Approved(comments[i])
    /\ job[w].issue \in Issues =>
           (\/ job[w].seen.stage \in PastApproval
            \/ pc[w] \in {"patch", "release"} /\ job[w].signal = "human-approved"
            => Approved(comments[job[w].issue]))

WorkerInv(w) ==
    /\ AddressesIssue(w)
    /\ TaskNamesIssue(w)
    /\ WritesLegalTransition(w)
    /\ ClaimsAgentStage(w)
    /\ KnowsApproval(w)

\* The inductive invariant of AgentWorkflow_proofs.
IndInv ==
    /\ TypeOK
    /\ ImplementationNeedsApproval
    /\ HumanStagesAreQueued
    /\ \A w \in Workers : WorkerInv(w)

\* A worker that loops on `next` in auto mode finishes what it holds before it
\* takes anything else (docs/github-workflow.md, "Modes").
OneIssuePerWorker ==
    \A w \in Workers : \A i, j \in Issues :
        /\ item[i].status = "InProgress" /\ w \in item[i].labels
        /\ item[j].status = "InProgress" /\ w \in item[j].labels
        => i = j

\* A plan is approved only by a decision made after that plan was posted, as
\* long as no command has died between its transition and its plan comment.
ApprovalFollowsPlan ==
    [][\A i \in Issues :
         /\ faults = 0
         /\ item[i].stage = "PlanApproval"
         /\ item'[i].stage = "Implementation"
         => \E p, a \in DOMAIN comments[i] :
                /\ p < a
                /\ comments[i][p] = "plan" /\ comments[i][a] = "approved"
                /\ \A k \in DOMAIN comments[i] : k > p => comments[i][k] # "plan"]_vars

\* Implementation is not started over a request for changes that no transition
\* has answered yet (docs/github-workflow.md, "Implementation").
ImplementOnlyUnopposed ==
    [][\A w \in Workers :
         pc[w] = "claim" /\ pc'[w] = "relabel" /\ job[w].seen.stage = "Implementation" =>
             LET log == comments[job[w].issue]
             IN  LatestReply(log) = "request-changes" =>
                     answered[job[w].issue] = Len(log)]_vars

\* An issue that `reset-for-next` is done with can be selected for planning
\* (docstring of reset_for_next).
ResetIsPlannable ==
    \A w \in Workers :
        pc[w] = "unlabel" /\ job[w].drop = {} =>
            \E c \in EligibleStageItems(Selectable(item), "any", "plan") :
                c.number = job[w].issue

\* Commands that do not overlap, dying or not, move issues as IssueLifecycle
\* says: the copy each command writes back is still the tracker's state.
Lifecycle ==
    INSTANCE IssueLifecycle WITH
        state <- [i \in Issues |-> [status |-> item[i].status,
                                    stage  |-> item[i].stage,
                                    route  |-> item[i].route]]

LifecycleSpec == Lifecycle!Spec

-------------------------------------------------------------------------------
(***************************************************************************)
(* Liveness.  A command that is running makes its next call, and a worker  *)
(* that is idle again and again runs `next` and the command its task calls *)
(* for: the loop of docs/github-workflow.md "should run until explicitly   *)
(* stopped".  Strong fairness, since another worker's command can disable  *)
(* the start of this one's.  Nothing makes the approver comment or anybody *)
(* reset an issue.                                                         *)
(***************************************************************************)
Fairness ==
    \A w \in Workers :
        /\ WF_vars(Continue(w))
        /\ SF_vars(NextCommand(w))
        /\ SF_vars(PostPlan(w))
        /\ SF_vars(StageReview(w))
        /\ SF_vars(CreatePullRequest(w))
        /\ SF_vars(Complete(w))

FairSpec == Spec /\ Fairness

\* A decision that waits in Plan Approval takes effect, or is overtaken by
\* another comment, without anybody running `approval`.
DecisionTakesEffect ==
    \A i \in Issues : \A reply \in Replies :
        item[i].stage = "PlanApproval" /\ LatestReply(comments[i]) = reply ~>
            item[i].stage # "PlanApproval" \/ LatestReply(comments[i]) # reply

\* Work queued for an agent is taken up, whatever the other issues do, provided
\* all issues pass the quality gate: one that does not and sorts first makes
\* every `next` return empty-handed.
QueuedWorkIsServed ==
    (\A i \in Issues : item[i].ready) =>
        \A i \in Issues :
            item[i].status = "Todo" /\ item[i].stage \in AgentStages ~>
                item[i].status = "InProgress"
==============================================================================
