----------------------- MODULE ExclusiveWorkflow_proofs -----------------------
(***************************************************************************)
(* Proofs about AgentWorkflow in the deployment the helper is written for: *)
(* commands of different workers do not overlap (Exclusive), while the     *)
(* approver comments at any time and commands may die between two calls.   *)
(* Any number of issues, workers, comments and plans.                      *)
(***************************************************************************)
EXTENDS AgentWorkflow_proofs

-------------------------------------------------------------------------------
(* The invariant: what a running command knows, when no other command runs.  *)

OneRuns == \A v, w \in Workers : pc[v] # "idle" /\ pc[w] # "idle" => v = w

SameStage(a, b) == a.stage = b.stage /\ a.route = b.route

\* What the command is about to write, or `next` to choose from, is computed
\* from a copy whose stage and route the tracker still has.
FreshCopy(w) ==
    /\ pc[w] = "idle" => job[w] = NoJob
    /\ pc[w] = "reset" => job[w].command # "next"
    /\ pc[w] = "sync" => job[w].command = "next"
    /\ pc[w] \in {"comments", "patch", "claim"} => SameStage(job[w].seen, item[job[w].issue])
    /\ pc[w] = "release" => item[job[w].issue].stage = Decision(w).stage
    /\ job[w].command = "next" =>
           \A i \in Issues :
               /\ view[w][i].route = item[i].route
               /\ \/ view[w][i].stage = item[i].stage
                  \/ pc[w] = "release" /\ i = job[w].issue

\* The signal about to be applied is the one its command sends; an approval is
\* the decision at the position the command remembers, and no plan was posted
\* after it.
SignalGrounded(w) ==
    pc[w] = "patch" =>
        /\ job[w].signal = "plan-posted" => job[w].command = "post-plan"
        /\ job[w].command = "next" => job[w].seen.stage \in HumanStages
        /\ job[w].signal = "human-approved" =>
               LET log == comments[job[w].issue]
               IN  /\ job[w].at \in DOMAIN log
                   /\ log[job[w].at] = "approved"
                   /\ \A k \in DOMAIN log : k > job[w].at => log[k] # "plan"

ExclusiveInv ==
    /\ IndInv
    /\ OneRuns
    /\ \A w \in Workers : FreshCopy(w) /\ SignalGrounded(w)

\* Issue i has a plan comment, and a last one.
LastPlanExists(log) ==
    \E p \in DOMAIN log :
        /\ log[p] = "plan"
        /\ \A k \in DOMAIN log : k > p => log[k] # "plan"

\* The plan of an issue that waits for a review or an approval is posted, or
\* `post-plan` is about to post it.
PlanAnnounced ==
    \A i \in Issues : item[i].stage \in {"PlanApproval", "PlanReview"} =>
        \/ LastPlanExists(comments[i])
        \/ \E w \in Workers :
              job[w].issue = i /\ job[w].command = "post-plan" /\ pc[w] \in {"release", "publish"}

Owned(i) ==
    CASE item[i].status = "InProgress" ->
             /\ item[i].stage \in AgentStages
             /\ \E w \in Workers : item[i].labels = {w}
             /\ ~ assigned[i]
      [] OTHER ->
             /\ item[i].labels = {}
             /\ assigned[i] = (item[i].stage \in HumanStages)

InHand(w, i) ==
    pc[w] \in {"release", "relabel", "unassign", "unlabel"} /\ job[w].issue = i

\* Between two writes the command knows which labels are left.
LabelsKnown(w) ==
    LET it == item[job[w].issue] IN
    /\ pc[w] \in {"comments", "patch", "claim", "reset", "unassign"} => job[w].seen.labels = it.labels
    /\ pc[w] = "release" =>
          /\ it.status = "Todo" /\ it.labels = job[w].drop
          /\ job[w].command = "next" => job[w].drop = {}
    /\ pc[w] = "relabel" =>
          /\ it.status = "InProgress" /\ it.stage \in AgentStages
          /\ it.labels \ {w} = job[w].drop /\ ~ assigned[job[w].issue]
    /\ pc[w] \in {"unassign", "unlabel"} => it.status = "Todo" /\ it.stage = "Planning"
    /\ pc[w] = "unlabel" => it.labels = job[w].drop /\ ~ assigned[job[w].issue]
    /\ job[w].command = "next" /\ pc[w] \in {"read", "sync", "comments", "patch", "release"} =>
           \A i \in Issues : view[w][i].labels = item[i].labels

OwnershipInv ==
    /\ \A i \in Issues : Owned(i) \/ \E w \in Workers : InHand(w, i)
    /\ \A w \in Workers : LabelsKnown(w)

Held(w) == { i \in Issues : item[i].status = "InProgress" /\ w \in item[i].labels }

StatusKnown(w) ==
    /\ job[w].command = "next" /\ pc[w] \in {"read", "sync", "comments", "patch", "release"} =>
           \A i \in Issues : view[w][i].status = item[i].status
    /\ pc[w] = "claim" => Held(w) = {} /\ item[job[w].issue].status = "Todo"
    /\ pc[w] = "relabel" => Held(w) \subseteq {job[w].issue}

HeldInv ==
    /\ OneIssuePerWorker
    /\ \A w \in Workers : StatusKnown(w)

-------------------------------------------------------------------------------
(* What the calls of a command do, field by field. *)

\* What IndInv says of the worker that takes a step.
LEMMA WorkerTyped ==
    ASSUME IndInv, NEW w \in Workers
    PROVE  /\ job[w] \in Jobs /\ view[w] \in [Issues -> Items]
           /\ pc[w] \notin {"idle", "sync"} => job[w].issue \in Issues
           /\ task[w].action # "none" => task[w].issue \in Issues
           /\ WritesLegalTransition(w) /\ ClaimsAgentStage(w)
           /\ 0 \notin Issues
  BY WorkflowAssumption DEF IndInv, TypeOK, WorkerInv, AddressesIssue, TaskNamesIssue

NothingWritten == UNCHANGED <<item, assigned, comments>>

\* A command that starts reads one issue.
Starts(w) ==
    \E i \in Issues, command \in CommandNames, signal \in AgentSignals \union {"none"},
       next \in {"comments", "patch", "publish", "claim", "reset"} :
        /\ Begin(w, command, i, signal, next)
        /\ NothingWritten /\ UNCHANGED <<view, faults>>
        /\ command # "next"
        /\ next = "patch" => (signal = "plan-posted" => command = "post-plan")
        /\ next = "claim" => command = "claim" /\ "claim" \in Commands

\* A command that ends without another write.
Ends(w) == Return(w) /\ NothingWritten /\ faults' \in {faults, faults + 1}

\* The commands that write nothing when they start, and the others.
LEMMA StartCases ==
    ASSUME IndInv, NEW w \in Workers, Start(w)
    PROVE  \/ Starts(w) \/ CreatePullRequest(w) \/ NextCommand(w)
           \/ \E i \in Issues : RecordDecision(w, i)
<1> USE DEF tracker, nextVars, NothingWritten
<1>0. task[w].action # "none" => task[w].issue \in Issues
  BY WorkerTyped
<1>1. ASSUME NEW i \in Issues, ApprovalCommand(w, i) PROVE Starts(w)
  BY <1>1 DEF ApprovalCommand, Starts, CommandNames
<1>2. ASSUME NEW i \in Issues, RevisePlan(w, i) PROVE Starts(w)
  BY <1>2 DEF RevisePlan, Starts, CommandNames
<1>3. ASSUME NEW i \in Issues, ClaimCommand(w, i) PROVE Starts(w)
  BY <1>3 DEF ClaimCommand, CanStart, Starts, CommandNames
<1>4. ASSUME NEW i \in Issues, ResetCommand(w, i) PROVE Starts(w)
  BY <1>4 DEF ResetCommand, Starts, CommandNames
<1>5. ASSUME PostPlan(w) PROVE Starts(w)
  BY <1>0, <1>5 DEF PostPlan, Starts, CommandNames, AgentSignals
<1>6. ASSUME StageReview(w) PROVE Starts(w)
  BY <1>0, <1>6 DEF StageReview, Starts, CommandNames, AgentSignals
<1>7. ASSUME Complete(w) PROVE Starts(w)
  BY <1>0, <1>7 DEF Complete, Starts, CommandNames, AgentSignals
<1> QED
  BY <1>1, <1>2, <1>3, <1>4, <1>5, <1>6, <1>7 DEF Start

\* They copy the item and go to the call their command begins with.
LEMMA StartsEffect ==
    ASSUME IndInv, NEW w \in Workers, Starts(w)
    PROVE  /\ pc'[w] \in {"comments", "patch", "publish", "claim", "reset"}
           /\ job'[w].issue \in Issues /\ job'[w].seen = item[job'[w].issue]
           /\ job'[w].command # "next"
           /\ job'[w].signal \in AgentSignals \union {"none"}
           /\ pc'[w] = "patch" => (job'[w].signal = "plan-posted" => job'[w].command = "post-plan")
           /\ pc'[w] = "claim" => "claim" \in Commands
           /\ NothingWritten /\ UNCHANGED <<view, faults>>
<1>1. PICK i \in Issues, command \in CommandNames, signal \in AgentSignals \union {"none"},
           next \in {"comments", "patch", "publish", "claim", "reset"} :
        /\ Begin(w, command, i, signal, next)
        /\ NothingWritten /\ UNCHANGED <<view, faults>>
        /\ command # "next"
        /\ next = "patch" => (signal = "plan-posted" => command = "post-plan")
        /\ next = "claim" => command = "claim" /\ "claim" \in Commands
  BY DEF Starts
<1>2. /\ pc'[w] = next
      /\ job'[w] = [NoJob EXCEPT !.command = command, !.issue = i, !.seen = item[i],
                                 !.signal = signal]
  BY <1>1 DEF Begin, IndInv, TypeOK
<1>3. /\ job'[w].command = command /\ job'[w].issue = i /\ job'[w].seen = item[i]
      /\ job'[w].signal = signal
  BY <1>2 DEF NoJob
<1> QED
  BY <1>1, <1>2, <1>3

\* A command that returns is forgotten.
LEMMA EndsEffect ==
    ASSUME IndInv, NEW w \in Workers, Return(w)
    PROVE  pc'[w] = "idle" /\ job'[w] = NoJob
  BY DEF Return, IndInv, TypeOK

\* `next` copies every item.
LEMMA NextCommandEffect ==
    ASSUME IndInv, NEW w \in Workers, NextCommand(w)
    PROVE  /\ pc'[w] = "sync" /\ job'[w] = [NoJob EXCEPT !.command = "next"]
           /\ view'[w] = item
           /\ NothingWritten /\ UNCHANGED faults
  BY DEF NextCommand, tracker, IndInv, TypeOK, NothingWritten

\* `approve` and its like write the comment first.
LEMMA RecordDecisionEffect ==
    ASSUME IndInv, NEW w \in Workers, NEW i \in Issues, RecordDecision(w, i)
    PROVE  /\ pc'[w] = "read" /\ job'[w].issue = i /\ job'[w].command = "approval"
           /\ \E reply \in Replies : Comment(i, reply)
           /\ UNCHANGED <<item, assigned, faults>>
  BY DEF RecordDecision, IndInv, TypeOK, NoJob, nextVars

\* `pr-create` changes none of the fields ownership and stages are read from.
LEMMA CreatePullRequestEffect ==
    ASSUME IndInv, NEW w \in Workers, CreatePullRequest(w)
    PROVE  /\ \A j \in Issues :
                 /\ item'[j].stage = item[j].stage /\ item'[j].status = item[j].status
                 /\ item'[j].route = item[j].route /\ item'[j].labels = item[j].labels
           /\ UNCHANGED <<assigned, comments, pc, job, view, faults>>
  BY DEF CreatePullRequest, nextVars, IndInv, TypeOK, Items

\* The item is read afresh before the comments are,
LEMMA ReadItemEffect ==
    ASSUME IndInv, NEW w \in Workers, ReadItem(w)
    PROVE  /\ job[w].issue \in Issues
           /\ pc'[w] = "comments" /\ job'[w].issue = job[w].issue
           /\ job'[w].command = job[w].command /\ job'[w].seen = item[job[w].issue]
           /\ NothingWritten /\ UNCHANGED <<view, faults>>
<1>1. job[w] \in Jobs /\ pc[w] = "read" /\ job[w].issue \in Issues
  BY WorkerTyped DEF ReadItem
<1> QED
  BY <1>1 DEF ReadItem, tracker, nextVars, IndInv, TypeOK, NothingWritten, Jobs

\* in the sync of `next` too.
LEMMA NextReadItemEffect ==
    ASSUME IndInv, NEW w \in Workers, NextReadItem(w)
    PROVE  /\ pc[w] = "sync" /\ pc'[w] = "comments" /\ job'[w].issue \in Issues
           /\ job'[w].seen = item[job'[w].issue] /\ job'[w].command = job[w].command
           /\ NothingWritten /\ UNCHANGED <<view, faults>>
<1>1. PICK i \in pending[w] : job' = [job EXCEPT ![w].issue = i, ![w].seen = item[i]]
  BY DEF NextReadItem
<1>2. i \in Issues /\ job[w] \in Jobs
  BY <1>1 DEF IndInv, TypeOK
<1> QED
  BY <1>1, <1>2 DEF NextReadItem, tracker, nextVars, IndInv, TypeOK, NothingWritten, Jobs

\* sync_approval is done: `next` has the stage in its copy, another command ends.
Synced(w, stage) ==
    \/ /\ job[w].command = "next"
       /\ pc'[w] = "sync" /\ job'[w] = [NoJob EXCEPT !.command = "next"]
       /\ \A i \in Issues :
             /\ view'[w][i].stage = IF i = job[w].issue THEN stage ELSE view[w][i].stage
             /\ view'[w][i].route = view[w][i].route
             /\ view'[w][i].labels = view[w][i].labels
             /\ view'[w][i].status = view[w][i].status
    \/ Return(w)

\* After a sync `next` refreshes the stage of its copy; `approval` returns.
LEMMA AfterSyncEffect ==
    ASSUME IndInv, NEW w \in Workers, job[w].issue \in Issues, NEW stage, AfterSync(w, stage)
    PROVE  Synced(w, stage)
<1>1. CASE job[w].command = "next"
  <2>1. /\ pc'[w] = "sync" /\ job'[w] = [NoJob EXCEPT !.command = "next"]
        /\ view' = [view EXCEPT ![w] = [view[w] EXCEPT ![job[w].issue].stage = stage]]
    BY <1>1 DEF AfterSync, IndInv, TypeOK
  <2>2. \A i \in Issues :
          view'[w][i] = IF i = job[w].issue THEN [view[w][i] EXCEPT !.stage = stage]
                        ELSE view[w][i]
    BY <2>1 DEF IndInv, TypeOK
  <2>3. \A i \in Issues : view[w][i] \in Items
    BY DEF IndInv, TypeOK
  <2> QED
    BY <1>1, <2>1, <2>2, <2>3 DEF Synced, Items
<1>2. CASE job[w].command # "next"
  BY <1>2 DEF AfterSync, Synced
<1> QED
  BY <1>1, <1>2

\* The comments are left as they are, or their last decision is applied.
LEMMA ReadCommentsEffect ==
    ASSUME IndInv, NEW w \in Workers, ReadComments(w)
    PROVE  /\ pc[w] = "comments" /\ job[w].issue \in Issues
           /\ NothingWritten /\ UNCHANGED faults
           /\ \/ Synced(w, job[w].seen.stage)
              \/ LET log == comments[job[w].issue]
                 IN  /\ pc'[w] = "patch" /\ UNCHANGED view
                     /\ job'[w].command = job[w].command /\ job'[w].issue = job[w].issue
                     /\ job'[w].seen = job[w].seen
                     /\ job'[w].signal = ApprovalEvent(LatestReply(log))
                     /\ job'[w].signal \in HumanSignals
                     /\ job'[w].at = Len(log)
                     /\ job[w].seen.stage \in HumanStages
<1> DEFINE log == comments[job[w].issue]
           event == ApprovalEvent(LatestReply(log))
<1>1. pc[w] = "comments" /\ job[w].issue \in Issues /\ job[w] \in Jobs
  BY WorkerTyped DEF ReadComments
<1>2. NothingWritten /\ UNCHANGED faults
  BY DEF ReadComments, NothingWritten, tracker
<1>3. CASE SignalApplies(event, job[w].seen.stage)
  <2>1. job' = [job EXCEPT ![w].signal = event, ![w].at = Len(log)]
    BY <1>3 DEF ReadComments
  <2>2. pc'[w] = "patch" /\ UNCHANGED view
    BY <1>3 DEF ReadComments, nextVars, IndInv, TypeOK
  <2>3. event \in HumanSignals /\ job[w].seen.stage \in HumanStages
    BY <1>3, ApprovalEventFacts DEF SignalApplies
  <2> HIDE DEF event
  <2>4. /\ job'[w].command = job[w].command /\ job'[w].issue = job[w].issue
        /\ job'[w].seen = job[w].seen /\ job'[w].signal = event /\ job'[w].at = Len(log)
    BY <1>1, <2>1 DEF IndInv, TypeOK, Jobs
  <2> QED
    BY <1>1, <1>2, <2>2, <2>3, <2>4 DEF event
<1>4. CASE ~ SignalApplies(event, job[w].seen.stage)
  <2>1. AfterSync(w, job[w].seen.stage)
    BY <1>4 DEF ReadComments
  <2> QED
    BY <1>1, <1>2, <2>1, AfterSyncEffect
<1> QED
  BY <1>3, <1>4

\* A transition writes Status and stage of one issue,
LEMMA PatchEffect ==
    ASSUME IndInv, NEW w \in Workers, PatchTransition(w)
    PROVE  LET i == job[w].issue IN
           /\ pc[w] = "patch" /\ i \in Issues
           /\ item'[i].status = "Todo" /\ item'[i].stage = Decision(w).stage
           /\ item'[i].route = item[i].route /\ item'[i].labels = item[i].labels
           /\ \A j \in Issues \ {i} : item'[j] = item[j]
           /\ pc'[w] = "release" /\ job'[w].issue = i /\ job'[w].command = job[w].command
           /\ job'[w].seen = job[w].seen /\ job'[w].signal = job[w].signal
           /\ job'[w].drop = job[w].seen.labels
           /\ UNCHANGED <<assigned, comments, view, faults>>
<1>1. /\ pc[w] = "patch" /\ job[w].issue \in Issues /\ job[w] \in Jobs
      /\ Decision(w).status = "Todo"
  BY WorkerTyped, DecisionFacts DEF PatchTransition
<1>2. item' = [item EXCEPT ![job[w].issue].status = Decision(w).status,
                           ![job[w].issue].stage  = Decision(w).stage]
  BY DEF PatchTransition
<1>3. /\ item'[job[w].issue].status = "Todo" /\ item'[job[w].issue].stage = Decision(w).stage
      /\ item'[job[w].issue].route = item[job[w].issue].route
      /\ item'[job[w].issue].labels = item[job[w].issue].labels
      /\ \A j \in Issues \ {job[w].issue} : item'[j] = item[j]
  BY <1>1, <1>2 DEF IndInv, TypeOK, Items
<1>4. /\ pc'[w] = "release" /\ job'[w].issue = job[w].issue /\ job'[w].command = job[w].command
      /\ job'[w].seen = job[w].seen /\ job'[w].signal = job[w].signal
      /\ job'[w].drop = job[w].seen.labels
  BY <1>1 DEF PatchTransition, IndInv, TypeOK, Jobs
<1>5. UNCHANGED <<assigned, comments, view, faults>>
  BY DEF PatchTransition, nextVars
<1> QED
  BY <1>1, <1>3, <1>4, <1>5

\* then takes its labels away one by one,
LEMMA RemoveLabelEffect ==
    ASSUME IndInv, NEW w \in Workers, RemoveLabel(w)
    PROVE  LET i == job[w].issue IN
           /\ pc[w] \in {"release", "relabel", "unlabel"} /\ i \in Issues
           /\ \E label \in job[w].drop :
                 /\ item'[i].labels = item[i].labels \ {label}
                 /\ job'[w].drop = job[w].drop \ {label}
           /\ item'[i].stage = item[i].stage /\ item'[i].status = item[i].status
           /\ item'[i].route = item[i].route
           /\ \A j \in Issues \ {i} : item'[j] = item[j]
           /\ job'[w].issue = i /\ job'[w].command = job[w].command
           /\ job'[w].seen = job[w].seen /\ job'[w].signal = job[w].signal
           /\ UNCHANGED <<pc, assigned, comments, view, faults>>
<1>1. pc[w] \in {"release", "relabel", "unlabel"} /\ job[w].issue \in Issues /\ job[w] \in Jobs
  BY WorkerTyped DEF RemoveLabel
<1>2. PICK label \in job[w].drop :
        /\ item' = [item EXCEPT ![job[w].issue].labels = @ \ {label}]
        /\ job' = [job EXCEPT ![w].drop = @ \ {label}]
  BY DEF RemoveLabel
<1>3. /\ item'[job[w].issue].labels = item[job[w].issue].labels \ {label}
      /\ item'[job[w].issue].stage = item[job[w].issue].stage
      /\ item'[job[w].issue].status = item[job[w].issue].status
      /\ item'[job[w].issue].route = item[job[w].issue].route
      /\ \A j \in Issues \ {job[w].issue} : item'[j] = item[j]
  BY <1>1, <1>2 DEF IndInv, TypeOK, Items
<1>4. /\ job'[w].drop = job[w].drop \ {label}
      /\ job'[w].issue = job[w].issue /\ job'[w].command = job[w].command
      /\ job'[w].seen = job[w].seen /\ job'[w].signal = job[w].signal
  BY <1>1, <1>2 DEF IndInv, TypeOK, Jobs
<1>5. UNCHANGED <<pc, assigned, comments, view, faults>>
  BY DEF RemoveLabel, nextVars
<1> QED
  BY <1>1, <1>2, <1>3, <1>4, <1>5

\* and assigns the owner of the new stage when none is left.
LEMMA AssignOwnerEffect ==
    ASSUME IndInv, NEW w \in Workers, AssignOwner(w)
    PROVE  LET i == job[w].issue IN
           /\ pc[w] = "release" /\ job[w].drop = {} /\ i \in Issues
           /\ assigned'[i] = (Decision(w).owner = "human")
           /\ \A j \in Issues \ {i} : assigned'[j] = assigned[j]
           /\ UNCHANGED <<item, comments, faults>>
           /\ \/ /\ job[w].command = "post-plan"
                 /\ pc'[w] = "publish" /\ UNCHANGED <<job, view>>
              \/ job[w].command # "post-plan" /\ Synced(w, Decision(w).stage)
<1>1. pc[w] = "release" /\ job[w].drop = {} /\ job[w].issue \in Issues
  BY WorkerTyped DEF AssignOwner
<1>2. /\ assigned'[job[w].issue] = (Decision(w).owner = "human")
      /\ \A j \in Issues \ {job[w].issue} : assigned'[j] = assigned[j]
      /\ UNCHANGED <<item, comments, faults>>
  BY <1>1 DEF AssignOwner, IndInv, TypeOK
<1>3. CASE job[w].command = "post-plan"
  BY <1>1, <1>2, <1>3 DEF AssignOwner, nextVars, IndInv, TypeOK
<1>4. CASE job[w].command # "post-plan"
  BY <1>1, <1>2, <1>4, AfterSyncEffect DEF AssignOwner
<1> QED
  BY <1>3, <1>4

\* The plan comment ends `post-plan`.
LEMMA PublishPlanEffect ==
    ASSUME IndInv, NEW w \in Workers, PublishPlan(w)
    PROVE  /\ pc[w] = "publish" /\ job[w].issue \in Issues
           /\ pc'[w] = "idle" /\ job'[w] = NoJob
           /\ Comment(job[w].issue, "plan")
           /\ UNCHANGED <<item, assigned, faults>>
  BY WorkerTyped, EndsEffect DEF PublishPlan

\* A claim writes In Progress and the stage of the copy,
LEMMA ClaimPatchEffect ==
    ASSUME IndInv, NEW w \in Workers, ClaimPatch(w)
    PROVE  LET i == job[w].issue IN
           /\ pc[w] = "claim" /\ i \in Issues
           /\ item'[i].status = "InProgress" /\ item'[i].stage = job[w].seen.stage
           /\ job[w].seen.stage \in AgentStages
           /\ item'[i].route = item[i].route /\ item'[i].labels = item[i].labels
           /\ \A j \in Issues \ {i} : item'[j] = item[j]
           /\ pc'[w] = "relabel" /\ job'[w].issue = i /\ job'[w].command = job[w].command
           /\ job'[w].drop = job[w].seen.labels \ {w}
           /\ UNCHANGED <<assigned, comments, view, faults>>
<1>1. /\ pc[w] = "claim" /\ job[w].issue \in Issues /\ job[w] \in Jobs
      /\ job[w].seen.stage \in AgentStages
  BY WorkerTyped DEF ClaimPatch, ClaimsAgentStage
<1>2. item' = [item EXCEPT ![job[w].issue].status = "InProgress",
                           ![job[w].issue].stage  = job[w].seen.stage]
  BY DEF ClaimPatch
<1>3. /\ item'[job[w].issue].status = "InProgress"
      /\ item'[job[w].issue].stage = job[w].seen.stage
      /\ item'[job[w].issue].route = item[job[w].issue].route
      /\ item'[job[w].issue].labels = item[job[w].issue].labels
      /\ \A j \in Issues \ {job[w].issue} : item'[j] = item[j]
  BY <1>1, <1>2 DEF IndInv, TypeOK, Items
<1>4. /\ pc'[w] = "relabel" /\ job'[w].issue = job[w].issue /\ job'[w].command = job[w].command
      /\ job'[w].drop = job[w].seen.labels \ {w}
  BY <1>1 DEF ClaimPatch, IndInv, TypeOK, Jobs
<1>5. UNCHANGED <<assigned, comments, view, faults>>
  BY DEF ClaimPatch, nextVars
<1> QED
  BY <1>1, <1>3, <1>4, <1>5

\* and adds the worker's label when the others are gone.
LEMMA AddOwnLabelEffect ==
    ASSUME IndInv, NEW w \in Workers, AddOwnLabel(w)
    PROVE  LET i == job[w].issue IN
           /\ pc[w] = "relabel" /\ job[w].drop = {} /\ i \in Issues
           /\ item'[i].labels = item[i].labels \union {w}
           /\ item'[i].stage = item[i].stage /\ item'[i].status = item[i].status
           /\ item'[i].route = item[i].route
           /\ \A j \in Issues \ {i} : item'[j] = item[j]
           /\ pc'[w] = "idle" /\ job'[w] = NoJob
           /\ UNCHANGED <<assigned, comments, faults>>
<1>1. pc[w] = "relabel" /\ job[w].drop = {} /\ job[w].issue \in Issues
  BY WorkerTyped DEF AddOwnLabel
<1>2. item' = [item EXCEPT ![job[w].issue].labels = @ \union {w}]
  BY DEF AddOwnLabel
<1>3. /\ item'[job[w].issue].labels = item[job[w].issue].labels \union {w}
      /\ item'[job[w].issue].stage = item[job[w].issue].stage
      /\ item'[job[w].issue].status = item[job[w].issue].status
      /\ item'[job[w].issue].route = item[job[w].issue].route
      /\ \A j \in Issues \ {job[w].issue} : item'[j] = item[j]
  BY <1>1, <1>2 DEF IndInv, TypeOK, Items
<1>4. pc'[w] = "idle" /\ job'[w] = NoJob /\ UNCHANGED <<assigned, comments, faults>>
  BY EndsEffect DEF AddOwnLabel
<1> QED
  BY <1>1, <1>3, <1>4

\* A reset writes Todo and Planning,
LEMMA ResetPatchEffect ==
    ASSUME IndInv, NEW w \in Workers, ResetPatch(w)
    PROVE  LET i == job[w].issue IN
           /\ pc[w] = "reset" /\ i \in Issues
           /\ item'[i].status = "Todo" /\ item'[i].stage = "Planning"
           /\ item'[i].route = "HumanOnly" /\ item'[i].labels = item[i].labels
           /\ \A j \in Issues \ {i} : item'[j] = item[j]
           /\ pc'[w] = "unassign"
           /\ UNCHANGED <<job, assigned, comments, view, faults>>
<1>1. pc[w] = "reset" /\ job[w].issue \in Issues
  BY WorkerTyped DEF ResetPatch
<1>2. item' = [item EXCEPT ![job[w].issue].status = "Todo",
                           ![job[w].issue].stage  = "Planning",
                           ![job[w].issue].route  = "HumanOnly"]
  BY DEF ResetPatch
<1>3. /\ item'[job[w].issue].status = "Todo" /\ item'[job[w].issue].stage = "Planning"
      /\ item'[job[w].issue].route = "HumanOnly"
      /\ item'[job[w].issue].labels = item[job[w].issue].labels
      /\ \A j \in Issues \ {job[w].issue} : item'[j] = item[j]
  BY <1>1, <1>2 DEF IndInv, TypeOK, Items
<1>4. pc'[w] = "unassign" /\ UNCHANGED <<job, assigned, comments, view, faults>>
  BY DEF ResetPatch, nextVars, IndInv, TypeOK
<1> QED
  BY <1>1, <1>3, <1>4

\* then takes the assignee away.
LEMMA ResetAssigneeEffect ==
    ASSUME IndInv, NEW w \in Workers, ResetAssignee(w)
    PROVE  LET i == job[w].issue IN
           /\ pc[w] = "unassign" /\ i \in Issues
           /\ assigned'[i] = FALSE /\ \A j \in Issues \ {i} : assigned'[j] = assigned[j]
           /\ pc'[w] = "unlabel" /\ job'[w].issue = i /\ job'[w].command = job[w].command
           /\ job'[w].seen = job[w].seen /\ job'[w].drop = job[w].seen.labels
           /\ UNCHANGED <<item, comments, view, faults>>
<1>1. pc[w] = "unassign" /\ job[w].issue \in Issues /\ job[w] \in Jobs
  BY WorkerTyped DEF ResetAssignee
<1> QED
  BY <1>1 DEF ResetAssignee, nextVars, IndInv, TypeOK, Jobs

\* What `next` selects from its copy in auto mode: what the worker holds there
\* before anything else.
LEMMA SelectEffect ==
    ASSUME IndInv, NEW w \in Workers, Select(w)
    PROVE  /\ pc[w] = "sync" /\ NothingWritten /\ UNCHANGED faults
           /\ \/ pc'[w] = "idle" /\ job'[w] = NoJob
              \/ /\ pc'[w] = "claim" /\ UNCHANGED view
                 /\ job'[w].issue \in Issues /\ job'[w].command = job[w].command
                 /\ job'[w].seen = view[w][job'[w].issue]
                 /\ job'[w].seen.status = "Todo"
<1>1. pc[w] = "sync" /\ NothingWritten /\ UNCHANGED faults
  BY DEF Select, tracker, NothingWritten
<1>2. ASSUME NEW i \in Issues, BeginClaim(w, i)
      PROVE  /\ pc'[w] = "claim" /\ UNCHANGED view
             /\ job'[w].issue = i /\ job'[w].command = job[w].command
             /\ job'[w].seen = view[w][i] /\ view[w][i].status = "Todo"
  <2>1. job[w] \in Jobs
    BY WorkerTyped
  <2> QED
    BY <1>2, <2>1 DEF BeginClaim, nextVars, IndInv, TypeOK, Jobs
<1>3. \/ Return(w)
      \/ \E i \in Issues : Resume(w, i) \/ BeginClaim(w, i)
  BY SelectCases
<1> QED
  BY <1>1, <1>2, <1>3, EndsEffect DEF Resume

\* One worker moves at a time; the others keep their place and their job.
LEMMA OthersStay ==
    ASSUME IndInv, NEW w \in Workers, Start(w) \/ Continue(w) \/ Fail(w)
    PROVE  \A v \in Workers \ {w} : pc'[v] = pc[v] /\ job'[v] = job[v]
<1> USE DEF IndInv, TypeOK
<1>1. CASE Start(w)
  BY <1>1 DEF Start, ApprovalCommand, RecordDecision, RevisePlan, ClaimCommand, ResetCommand,
     PostPlan, StageReview, CreatePullRequest, Complete, NextCommand, Begin
<1>2. CASE ReadItem(w) \/ PatchTransition(w) \/ RemoveLabel(w) \/ NextReadItem(w)
  BY <1>2 DEF ReadItem, PatchTransition, RemoveLabel, NextReadItem
<1>3. CASE ClaimPatch(w) \/ ResetPatch(w) \/ ResetAssignee(w)
  BY <1>3 DEF ClaimPatch, ResetPatch, ResetAssignee
<1>4. CASE Return(w)
  BY <1>4 DEF Return
<1>5. CASE \E stage \in {job[w].seen.stage, Decision(w).stage} : AfterSync(w, stage)
  BY <1>4, <1>5 DEF AfterSync
<1>6. CASE ReadComments(w)
  BY <1>5, <1>6 DEF ReadComments
<1>7. CASE AssignOwner(w)
  BY <1>5, <1>7 DEF AssignOwner
<1>8. CASE PublishPlan(w) \/ AddOwnLabel(w) \/ ResetDone(w) \/ Fail(w)
  BY <1>4, <1>8 DEF PublishPlan, AddOwnLabel, ResetDone, Fail
<1>9. CASE Select(w)
  <2>1. CASE \E i \in Issues : BeginClaim(w, i)
    BY <2>1 DEF BeginClaim
  <2> QED
    BY <1>4, <1>9, <2>1, SelectCases DEF Resume
<1> QED
  BY <1>1, <1>2, <1>3, <1>4, <1>6, <1>7, <1>8, <1>9 DEF Continue
-------------------------------------------------------------------------------
(* Copies stay fresh. *)

Alone(w) == \A v \in Workers \ {w} : pc[v] = "idle" /\ job[v] = NoJob

\* While a worker takes a step of a command, the others are at rest.
LEMMA RunsAlone ==
    ASSUME Exclusive, ExclusiveInv, NEW w \in Workers, Start(w) \/ Continue(w) \/ Fail(w)
    PROVE  Alone(w) /\ Alone(w)'
<1>1. CASE Start(w)
  <2>1. Quiet
    BY <1>1 DEF Start, CanStart, ApprovalCommand, RecordDecision, RevisePlan, ClaimCommand,
       ResetCommand, PostPlan, StageReview, CreatePullRequest, Complete, NextCommand
  <2> QED
    BY <1>1, <2>1, OthersStay DEF Quiet, ExclusiveInv, FreshCopy, Alone
<1>2. CASE Continue(w) \/ Fail(w)
  <2>1. pc[w] # "idle"
    BY <1>2 DEF Continue, ReadItem, ReadComments, PatchTransition, RemoveLabel, AssignOwner,
       PublishPlan, NextReadItem, Select, ClaimPatch, AddOwnLabel, ResetPatch, ResetAssignee,
       ResetDone, Fail
  <2> QED
    BY <1>2, <2>1, OthersStay DEF ExclusiveInv, OneRuns, FreshCopy, Alone
<1> QED
  BY <1>1, <1>2

\* So only the worker that moves needs looking at.
LEMMA MoverSuffices ==
    ASSUME NEW w \in Workers, IndInv', Alone(w)', FreshCopy(w)', SignalGrounded(w)'
    PROVE  ExclusiveInv'
<1>1. NoJob.command = "none"
  BY DEF NoJob
<1>2. \A v \in Workers : FreshCopy(v)' /\ SignalGrounded(v)'
  BY <1>1 DEF Alone, FreshCopy, SignalGrounded
<1>3. OneRuns'
  BY DEF Alone, OneRuns
<1> QED
  BY <1>2, <1>3 DEF ExclusiveInv

\* What a comment does to a log.
LEMMA AppendFacts ==
    ASSUME NEW log \in Seq(CommentBodies), NEW body
    PROVE  /\ \A k \in DOMAIN log :
                 /\ k \in Nat /\ k < Len(log) + 1 /\ k <= Len(log)
                 /\ k \in DOMAIN Append(log, body) /\ Append(log, body)[k] = log[k]
           /\ Len(log) \in Nat
           /\ Len(log) + 1 \in DOMAIN Append(log, body)
           /\ Append(log, body)[Len(log) + 1] = body
           /\ \A k \in DOMAIN Append(log, body) : k \in DOMAIN log \/ k = Len(log) + 1
  OBVIOUS

\* A decision that answers the log is its last comment.
LEMMA ApprovalIsLast ==
    ASSUME NEW log \in Seq(CommentBodies), ApprovalEvent(LatestReply(log)) = "human-approved"
    PROVE  /\ Len(log) \in DOMAIN log /\ log[Len(log)] = "approved"
           /\ \A k \in DOMAIN log : ~ (k > Len(log))
<1>1. LatestReply(log) = "approved"
  BY ApprovalEventFacts
<1>2. log # <<>>
  BY <1>1 DEF LatestReply
<1>3. Len(log) \in DOMAIN log
  BY <1>2
<1>4. log[Len(log)] = "approved"
  BY <1>1, <1>2 DEF LatestReply
<1>5. \A k \in DOMAIN log : ~ (k > Len(log))
  OBVIOUS
<1> QED
  BY <1>3, <1>4, <1>5

\* The approver's comments leave the last plan the last plan.
LEMMA ReplyKeepsPlans ==
    ASSUME IndInv, NEW i \in Issues, NEW reply \in Replies, Comment(i, reply), NEW j \in Issues
    PROVE  /\ LastPlanExists(comments[j]) => LastPlanExists(comments'[j])
           /\ \A at \in DOMAIN comments[j] :
                 /\ at \in DOMAIN comments'[j] /\ comments'[j][at] = comments[j][at]
                 /\ (\A k \in DOMAIN comments[j] : k > at => comments[j][k] # "plan") =>
                    (\A k \in DOMAIN comments'[j] : k > at => comments'[j][k] # "plan")
<1>1. reply # "plan"
  BY WorkflowAssumption
<1>2. comments[j] \in Seq(CommentBodies)
  BY DEF IndInv, TypeOK
<1>3. comments'[j] = IF j = i THEN Append(comments[j], reply) ELSE comments[j]
  BY DEF Comment, IndInv, TypeOK
<1> QED
  BY <1>1, <1>2, <1>3, AppendFacts DEF LastPlanExists

\* A comment of the approver makes no copy stale: stages are not in comments.
LEMMA ApproverKeepsFresh ==
    ASSUME ExclusiveInv, IndInv', NEW i \in Issues, HumanComment(i)
    PROVE  ExclusiveInv'
<1>1. PICK reply \in Replies : Comment(i, reply)
  BY DEF HumanComment
<1>2. UNCHANGED <<item, pc, job, view>>
  BY DEF HumanComment
<1>3. OneRuns' /\ \A w \in Workers : FreshCopy(w)'
  BY <1>2 DEF ExclusiveInv, OneRuns, FreshCopy, Decision
<1>4. ASSUME NEW w \in Workers PROVE SignalGrounded(w)'
  <2>1. pc[w] = "patch" => job[w].issue \in Issues
    BY WorkerTyped DEF ExclusiveInv
  <2> QED
    BY <1>1, <1>2, <2>1, ReplyKeepsPlans DEF ExclusiveInv, SignalGrounded
<1> QED
  BY <1>3, <1>4 DEF ExclusiveInv

\* The facts of the worker that moves.
LEMMA MoverKeepsFresh ==
    ASSUME Exclusive, ExclusiveInv, NEW w \in Workers, Start(w) \/ Continue(w) \/ Fail(w)
    PROVE  FreshCopy(w)' /\ SignalGrounded(w)'
<1> USE DEF NothingWritten
<1>0. IndInv /\ FreshCopy(w) /\ SignalGrounded(w)
  BY DEF ExclusiveInv
<1>1. NoJob.command = "none" /\ 0 \notin Issues /\ NoJob.issue = 0
  BY WorkflowAssumption DEF NoJob
<1>2. CASE Starts(w)
  <2>1. \A i \in Issues : SameStage(item[i], item[i])
    BY DEF SameStage
  <2>2. "human-approved" \notin AgentSignals \union {"none"}
    BY StageFacts
  <2> QED
    BY <1>0, <1>2, <2>1, <2>2, StartsEffect DEF FreshCopy, SignalGrounded
<1>3. CASE CreatePullRequest(w)
  <2>1. pc[w] = "idle"
    BY <1>3 DEF CreatePullRequest, CanStart
  <2> QED
    BY <1>0, <1>1, <1>3, <2>1, CreatePullRequestEffect DEF FreshCopy, SignalGrounded
<1>4. CASE NextCommand(w)
  <2>1. /\ pc'[w] = "sync" /\ job'[w] = [NoJob EXCEPT !.command = "next"] /\ view'[w] = item
        /\ item' = item
    BY <1>0, <1>4, NextCommandEffect
  <2>2. job'[w].command = "next"
    BY <2>1 DEF NoJob
  <2> QED
    BY <2>1, <2>2 DEF FreshCopy, SignalGrounded, SameStage
<1>5. ASSUME NEW i \in Issues, RecordDecision(w, i) PROVE FreshCopy(w)' /\ SignalGrounded(w)'
  BY <1>0, <1>5, RecordDecisionEffect DEF FreshCopy, SignalGrounded
<1>6. CASE ReadItem(w)
  <2>1. pc[w] = "read"
    BY <1>6 DEF ReadItem
  <2> QED
    BY <1>0, <1>6, <2>1, ReadItemEffect DEF FreshCopy, SignalGrounded, SameStage
<1>7. CASE NextReadItem(w)
  BY <1>0, <1>7, NextReadItemEffect DEF FreshCopy, SignalGrounded, SameStage
<1>8. ASSUME NEW stage, Synced(w, stage), item' = item, pc[w] \in {"comments", "release"},
             job[w].issue \in Issues, stage = item[job[w].issue].stage
      PROVE  FreshCopy(w)' /\ SignalGrounded(w)'
  <2>1. CASE Return(w)
    BY <1>0, <1>1, <2>1, EndsEffect DEF FreshCopy, SignalGrounded
  <2>2. CASE ~ Return(w)
    <3>1. /\ job[w].command = "next"
          /\ pc'[w] = "sync" /\ job'[w] = [NoJob EXCEPT !.command = "next"]
          /\ \A i \in Issues :
                /\ view'[w][i].stage = IF i = job[w].issue THEN stage ELSE view[w][i].stage
                /\ view'[w][i].route = view[w][i].route
      BY <1>8, <2>2 DEF Synced
    <3>2. job'[w].command = "next"
      BY <3>1 DEF NoJob
    <3> QED
      BY <1>0, <1>8, <3>1, <3>2 DEF FreshCopy, SignalGrounded, SameStage
  <2> QED
    BY <2>1, <2>2
<1>9. CASE ReadComments(w)
  <2>1. CASE Synced(w, job[w].seen.stage)
    BY <1>0, <1>8, <1>9, <2>1, ReadCommentsEffect DEF FreshCopy, SameStage
  <2>2. CASE ~ Synced(w, job[w].seen.stage)
    <3> DEFINE log == comments[job[w].issue]
    <3>1. /\ pc[w] = "comments" /\ job[w].issue \in Issues
          /\ pc'[w] = "patch" /\ UNCHANGED <<item, comments, view>>
          /\ job'[w].command = job[w].command /\ job'[w].issue = job[w].issue
          /\ job'[w].seen = job[w].seen
          /\ job'[w].signal = ApprovalEvent(LatestReply(log))
          /\ job'[w].signal \in HumanSignals
          /\ job'[w].at = Len(log)
          /\ job[w].seen.stage \in HumanStages
      BY <1>0, <1>9, <2>2, ReadCommentsEffect
    <3>2. log \in Seq(CommentBodies)
      BY <1>0, <3>1 DEF IndInv, TypeOK
    <3>3. job'[w].signal # "plan-posted"
      BY <3>1 DEF HumanSignals
    <3>4. FreshCopy(w)'
      BY <1>0, <3>1 DEF FreshCopy
    <3>5. SignalGrounded(w)'
      BY <3>1, <3>2, <3>3, ApprovalIsLast DEF SignalGrounded
    <3> QED
      BY <3>4, <3>5
  <2> QED
    BY <2>1, <2>2
<1>10. CASE PatchTransition(w)
  <2>1. /\ pc[w] = "patch" /\ job[w].issue \in Issues
        /\ item'[job[w].issue].stage = Decision(w).stage
        /\ item'[job[w].issue].route = item[job[w].issue].route
        /\ \A j \in Issues \ {job[w].issue} : item'[j] = item[j]
        /\ pc'[w] = "release" /\ job'[w].issue = job[w].issue /\ job'[w].command = job[w].command
        /\ job'[w].seen = job[w].seen /\ job'[w].signal = job[w].signal
        /\ UNCHANGED view
    BY <1>0, <1>10, PatchEffect
  <2>2. Decision(w)' = Decision(w)
    BY <2>1 DEF Decision
  <2> QED
    BY <1>0, <2>1, <2>2 DEF FreshCopy, SignalGrounded
<1>11. CASE RemoveLabel(w)
  <2>1. /\ pc[w] \in {"release", "relabel", "unlabel"} /\ job[w].issue \in Issues
        /\ \A j \in Issues : item'[j].stage = item[j].stage /\ item'[j].route = item[j].route
        /\ pc'[w] = pc[w] /\ job'[w].issue = job[w].issue /\ job'[w].command = job[w].command
        /\ job'[w].seen = job[w].seen /\ job'[w].signal = job[w].signal
        /\ UNCHANGED view
    BY <1>0, <1>11, RemoveLabelEffect
  <2>2. Decision(w)' = Decision(w)
    BY <2>1 DEF Decision
  <2> QED
    BY <1>0, <2>1, <2>2 DEF FreshCopy, SignalGrounded, SameStage
<1>12. CASE AssignOwner(w)
  <2>1. CASE job[w].command = "post-plan"
    BY <1>0, <1>12, <2>1, AssignOwnerEffect DEF FreshCopy, SignalGrounded
  <2>2. CASE job[w].command # "post-plan"
    BY <1>0, <1>8, <1>12, <2>2, AssignOwnerEffect DEF FreshCopy
  <2> QED
    BY <2>1, <2>2
<1>13. CASE PublishPlan(w) \/ AddOwnLabel(w) \/ ResetDone(w) \/ Fail(w)
  <2>1. pc'[w] = "idle" /\ job'[w] = NoJob
    BY <1>0, <1>13, EndsEffect DEF PublishPlan, AddOwnLabel, ResetDone, Fail
  <2> QED
    BY <1>1, <2>1 DEF FreshCopy, SignalGrounded
<1>14. CASE Select(w)
  BY <1>0, <1>1, <1>14, SelectEffect DEF FreshCopy, SignalGrounded, SameStage
<1>15. CASE ClaimPatch(w)
  <2>1. /\ pc[w] = "claim" /\ job[w].issue \in Issues
        /\ item'[job[w].issue].stage = job[w].seen.stage
        /\ item'[job[w].issue].route = item[job[w].issue].route
        /\ \A j \in Issues \ {job[w].issue} : item'[j] = item[j]
        /\ pc'[w] = "relabel" /\ job'[w].command = job[w].command
        /\ UNCHANGED view
    BY <1>0, <1>15, ClaimPatchEffect
  <2>2. \A j \in Issues : item'[j].stage = item[j].stage /\ item'[j].route = item[j].route
    BY <1>0, <2>1 DEF FreshCopy, SameStage
  <2> QED
    BY <1>0, <2>1, <2>2 DEF FreshCopy, SignalGrounded
<1>16. CASE ResetPatch(w)
  BY <1>0, <1>16, ResetPatchEffect DEF FreshCopy, SignalGrounded
<1>17. CASE ResetAssignee(w)
  <2>1. /\ pc[w] = "unassign" /\ pc'[w] = "unlabel" /\ job'[w].command = job[w].command
        /\ UNCHANGED <<item, view>>
    BY <1>0, <1>17, ResetAssigneeEffect
  <2> QED
    BY <1>0, <2>1 DEF FreshCopy, SignalGrounded
<1> QED
  BY <1>0, <1>2, <1>3, <1>4, <1>5, <1>6, <1>7, <1>9, <1>10, <1>11, <1>12, <1>13, <1>14, <1>15,
     <1>16, <1>17, StartCases DEF Continue

\* The invariant holds before the first command
LEMMA ExclusiveInitially == Init => ExclusiveInv
<1> SUFFICES ASSUME Init PROVE ExclusiveInv
  OBVIOUS
<1>1. IndInv
  BY InitInvariant
<1>2. \A w \in Workers : pc[w] = "idle" /\ job[w] = NoJob
  BY DEF Init
<1>3. NoJob.command = "none"
  BY DEF NoJob
<1> QED
  BY <1>1, <1>2, <1>3 DEF ExclusiveInv, OneRuns, FreshCopy, SignalGrounded

\* and is kept by every step, if commands do not overlap.
LEMMA ExclusiveStep == Exclusive /\ ExclusiveInv /\ [Next]_vars => ExclusiveInv'
<1> SUFFICES ASSUME Exclusive, ExclusiveInv, [Next]_vars PROVE ExclusiveInv'
  OBVIOUS
<1>1. IndInv'
  BY StepKept, StutterKept DEF ExclusiveInv
<1>2. CASE UNCHANGED vars
  BY <1>1, <1>2 DEF vars, ExclusiveInv, OneRuns, FreshCopy, SignalGrounded, Decision
<1>3. ASSUME NEW i \in Issues, HumanComment(i) PROVE ExclusiveInv'
  BY <1>1, <1>3, ApproverKeepsFresh
<1>4. ASSUME NEW w \in Workers, Start(w) \/ Continue(w) \/ Fail(w) PROVE ExclusiveInv'
  BY <1>1, <1>4, RunsAlone, MoverKeepsFresh, MoverSuffices
<1> QED
  BY <1>2, <1>3, <1>4 DEF Next
\* A command never computes from a stage or a route the tracker no longer has,
\* so long as commands do not overlap; dying commands do no harm to this.
THEOREM CopiesStayFresh ==
    ASSUME Exclusive
    PROVE  Spec => []ExclusiveInv
<1>1. ExclusiveInv /\ [Next]_vars => ExclusiveInv'
  BY ExclusiveStep
<1> QED
  BY ExclusiveInitially, <1>1, PTL DEF Spec

-------------------------------------------------------------------------------
(* Refinement of IssueLifecycle *)

\* What IssueLifecycle sees of the tracker.
Abstract == [i \in Issues |-> [status |-> item[i].status,
                               stage  |-> item[i].stage,
                               route  |-> item[i].route]]

\* The abstract module has its own copy of the stage machine.
LEMMA SameTable ==
    /\ \A stage, signal, route :
          /\ Lifecycle!IsTransition(stage, signal, route) = IsTransition(stage, signal, route)
          /\ Lifecycle!NextStage(stage, signal, route) = NextStage(stage, signal, route)
    /\ Lifecycle!AgentStages = AgentStages /\ Lifecycle!HumanStages = HumanStages
    /\ Lifecycle!Signals = Signals /\ Lifecycle!HumanSignals = HumanSignals
    /\ Lifecycle!Statuses = Statuses /\ Lifecycle!Stages = Stages
    /\ Lifecycle!ReviewRoutes = ReviewRoutes
  BY DEF Lifecycle!IsTransition, IsTransition, Lifecycle!NextStage, NextStage,
     Lifecycle!TransitionTable, TransitionTable, Lifecycle!Row, Row,
     Lifecycle!PlanReviewRoutes, PlanReviewRoutes,
     Lifecycle!ImplementationReviewRoutes, ImplementationReviewRoutes,
     Lifecycle!AgentStages, AgentStages, Lifecycle!HumanStages, HumanStages,
     Lifecycle!Signals, Signals, Lifecycle!HumanSignals, HumanSignals,
     Lifecycle!AgentSignals, AgentSignals, Lifecycle!Statuses, Statuses,
     Lifecycle!Stages, Stages, Lifecycle!ReviewRoutes, ReviewRoutes

\* Only stages that wait for the approver have rows for the approver's signals.
LEMMA SignalOfStage ==
    ASSUME NEW stage, NEW signal, NEW route, IsTransition(stage, signal, route)
    PROVE  signal \in Signals /\ (signal \in HumanSignals => stage \in HumanStages)
<1>1. PICK row \in TransitionTable(route) : row.stage = stage /\ row.signal = signal
  BY DEF IsTransition
<1>2. row.signal \in Signals
  BY <1>1 DEF TransitionTable, Row, Signals, HumanSignals, AgentSignals
<1>3. row.signal \in HumanSignals => row.stage \in HumanStages
  BY <1>1 DEF TransitionTable, Row, HumanSignals, HumanStages
<1> QED
  BY <1>1, <1>2, <1>3

\* The abstract state is Status, stage and route.
LEMMA AbstractKept ==
    ASSUME \A j \in Issues : /\ item'[j].status = item[j].status
                             /\ item'[j].stage = item[j].stage
                             /\ item'[j].route = item[j].route
    PROVE  Abstract' = Abstract
  BY DEF Abstract
Recs == [status : Statuses, stage : Stages, route : ReviewRoutes]

\* It has one typed record per issue, before a step and after.
LEMMA AbstractTyped ==
    ASSUME TypeOK, TypeOK'
    PROVE  /\ Abstract \in [Issues -> Recs] /\ Abstract' \in [Issues -> Recs]
           /\ \A j \in Issues : /\ Abstract[j].status = item[j].status
                                /\ Abstract[j].stage = item[j].stage
                                /\ Abstract[j].route = item[j].route
                                /\ Abstract'[j].status = item'[j].status
                                /\ Abstract'[j].stage = item'[j].stage
                                /\ Abstract'[j].route = item'[j].route
  BY DEF Abstract, Recs, TypeOK, Items

\* Two abstract states are equal if they agree on every field.
LEMMA SameRecs ==
    ASSUME NEW f \in [Issues -> Recs], NEW g \in [Issues -> Recs],
           \A j \in Issues : /\ f[j].status = g[j].status
                             /\ f[j].stage = g[j].stage
                             /\ f[j].route = g[j].route
    PROVE  f = g
<1>1. \A r, s \in Recs : r.status = s.status /\ r.stage = s.stage /\ r.route = s.route => r = s
  BY DEF Recs
<1>2. \A j \in Issues : f[j] = g[j]
  BY <1>1
<1> QED
  BY <1>2

\* The fields after an abstract patch.
LEMMA PatchedRecs ==
    ASSUME NEW f \in [Issues -> Recs], NEW i \in Issues,
           NEW status \in Statuses, NEW stage \in Stages
    PROVE  /\ LET g == [f EXCEPT ![i].status = status, ![i].stage = stage]
              IN  /\ g \in [Issues -> Recs] /\ \A j \in Issues \ {i} : g[j] = f[j]
                  /\ g[i].status = status /\ g[i].stage = stage /\ g[i].route = f[i].route
           /\ LET g == [f EXCEPT ![i].status = status]
              IN  /\ g \in [Issues -> Recs] /\ \A j \in Issues \ {i} : g[j] = f[j]
                  /\ g[i].status = status /\ g[i].stage = f[i].stage /\ g[i].route = f[i].route
           /\ \A r \in Recs :
                 LET g == [f EXCEPT ![i] = r]
                 IN  g \in [Issues -> Recs] /\ g[i] = r /\ \A j \in Issues \ {i} : g[j] = f[j]
  BY DEF Recs

\* The patch of a decision is the abstract transition: the copy it was computed
\* from is the tracker's state.
LEMMA PatchMaps ==
    ASSUME ExclusiveInv, IndInv', NEW w \in Workers, PatchTransition(w),
           NEW i \in Issues, i = job[w].issue
    PROVE  Lifecycle!Transition(i)
<1> DEFINE signal == job[w].signal
           next == NextStage(item[i].stage, signal, item[i].route)
           patched == [Abstract EXCEPT ![i].status = "Todo", ![i].stage = next]
<1>1. /\ pc[w] = "patch"
      /\ item'[i].status = "Todo" /\ item'[i].stage = Decision(w).stage
      /\ item'[i].route = item[i].route
      /\ \A j \in Issues \ {i} : item'[j] = item[j]
  BY PatchEffect DEF ExclusiveInv
<1>2. item[i].stage = job[w].seen.stage /\ item[i].route = job[w].seen.route
  BY <1>1 DEF ExclusiveInv, FreshCopy, SameStage
<1>3. IsTransition(item[i].stage, signal, item[i].route)
  BY <1>1, <1>2, WorkerTyped DEF ExclusiveInv, WritesLegalTransition
<1>4. Decision(w).stage = next
  BY <1>2 DEF Decision, TransitionWorkflow
<1>5. signal \in Signals /\ (signal \in HumanSignals => item[i].stage \in HumanStages)
  BY <1>3, SignalOfStage
<1>6. TypeOK /\ TypeOK'
  BY DEF ExclusiveInv, IndInv
<1>7. Abstract' = patched
  <2>1. next \in Stages /\ "Todo" \in Statuses
    BY <1>3, NextStageFacts DEF Statuses
  <2> HIDE DEF next
  <2>2. /\ patched \in [Issues -> Recs] /\ \A j \in Issues \ {i} : patched[j] = Abstract[j]
        /\ patched[i].status = "Todo" /\ patched[i].stage = next
        /\ patched[i].route = Abstract[i].route
    <3>1. Abstract \in [Issues -> Recs]
      BY <1>6, AbstractTyped
    <3> HIDE DEF Abstract
    <3> QED
      BY <2>1, <3>1 DEF Recs
  <2> HIDE DEF patched
  <2>5. \A j \in Issues : /\ Abstract'[j].status = patched[j].status
                          /\ Abstract'[j].stage = patched[j].stage
                          /\ Abstract'[j].route = patched[j].route
    BY <1>1, <1>4, <1>6, <2>2, AbstractTyped
  <2> QED
    BY <1>6, <2>2, <2>5, AbstractTyped, SameRecs
<1>8. Abstract[i].stage = item[i].stage /\ Abstract[i].route = item[i].route
  BY DEF Abstract
<1>9. /\ Lifecycle!IsTransition(Abstract[i].stage, signal, Abstract[i].route)
      /\ signal \in Lifecycle!Signals
      /\ signal \in Lifecycle!HumanSignals => Abstract[i].stage \in Lifecycle!HumanStages
      /\ Abstract' = [Abstract EXCEPT
                        ![i].status = "Todo",
                        ![i].stage = Lifecycle!NextStage(Abstract[i].stage, signal,
                                                         Abstract[i].route)]
  BY <1>3, <1>5, <1>7, <1>8, SameTable
<1> HIDE DEF signal
<1> QED
  BY <1>9 DEF Lifecycle!Transition, Abstract

\* The patch of a claim is IssueLifecycle's Claim,
LEMMA ClaimMaps ==
    ASSUME ExclusiveInv, IndInv', NEW w \in Workers, ClaimPatch(w),
           NEW i \in Issues, i = job[w].issue
    PROVE  Lifecycle!Claim(i)
<1> DEFINE patched == [Abstract EXCEPT ![i].status = "InProgress"]
<1>1. /\ pc[w] = "claim"
      /\ item'[i].status = "InProgress" /\ item'[i].stage = job[w].seen.stage
      /\ job[w].seen.stage \in AgentStages /\ item'[i].route = item[i].route
      /\ \A j \in Issues \ {i} : item'[j] = item[j]
  BY ClaimPatchEffect DEF ExclusiveInv
<1>2. item[i].stage = job[w].seen.stage
  BY <1>1 DEF ExclusiveInv, FreshCopy, SameStage
<1>3. TypeOK /\ TypeOK'
  BY DEF ExclusiveInv, IndInv
<1>4. Abstract' = patched
  <2>1. "InProgress" \in Statuses
    BY DEF Statuses
  <2>2. /\ patched \in [Issues -> Recs] /\ \A j \in Issues \ {i} : patched[j] = Abstract[j]
        /\ patched[i].status = "InProgress" /\ patched[i].stage = Abstract[i].stage
        /\ patched[i].route = Abstract[i].route
    <3>1. Abstract \in [Issues -> Recs]
      BY <1>3, AbstractTyped
    <3> QED
      BY <2>1, <3>1 DEF Recs
  <2> HIDE DEF patched
  <2>5. \A j \in Issues : /\ Abstract'[j].status = patched[j].status
                          /\ Abstract'[j].stage = patched[j].stage
                          /\ Abstract'[j].route = patched[j].route
    BY <1>1, <1>2, <1>3, <2>2, AbstractTyped
  <2> QED
    BY <1>3, <2>2, <2>5, AbstractTyped, SameRecs
<1>5. Abstract[i].stage \in Lifecycle!AgentStages
  BY <1>1, <1>2, SameTable DEF Abstract
<1> QED
  BY <1>4, <1>5 DEF Lifecycle!Claim, Abstract

\* that of a reset its Reset,
LEMMA ResetMaps ==
    ASSUME ExclusiveInv, IndInv', NEW w \in Workers, ResetPatch(w),
           NEW i \in Issues, i = job[w].issue
    PROVE  Lifecycle!Reset(i)
<1> DEFINE patched == [Abstract EXCEPT ![i] =
                         [status |-> "Todo", stage |-> "Planning", route |-> "HumanOnly"]]
<1>1. /\ item'[i].status = "Todo" /\ item'[i].stage = "Planning" /\ item'[i].route = "HumanOnly"
      /\ \A j \in Issues \ {i} : item'[j] = item[j]
  BY ResetPatchEffect DEF ExclusiveInv
<1>2. TypeOK /\ TypeOK'
  BY DEF ExclusiveInv, IndInv
<1>3. [status |-> "Todo", stage |-> "Planning", route |-> "HumanOnly"] \in Recs
  BY DEF Recs, Statuses, Stages, AgentStages, ReviewRoutes
<1>4. /\ patched \in [Issues -> Recs] /\ \A j \in Issues \ {i} : patched[j] = Abstract[j]
      /\ patched[i] = [status |-> "Todo", stage |-> "Planning", route |-> "HumanOnly"]
  <2>1. "Todo" \in Statuses /\ "Planning" \in Stages
    BY DEF Statuses, Stages, AgentStages
  <2> QED
    BY <1>2, <1>3, <2>1, AbstractTyped, PatchedRecs
<1>5. Abstract' = patched
  <2> HIDE DEF patched
  <2>1. \A j \in Issues : /\ Abstract'[j].status = patched[j].status
                          /\ Abstract'[j].stage = patched[j].stage
                          /\ Abstract'[j].route = patched[j].route
    BY <1>1, <1>2, <1>4, AbstractTyped
  <2> QED
    BY <1>2, <1>4, <2>1, AbstractTyped, SameRecs
<1> QED
  BY <1>5 DEF Lifecycle!Reset, Abstract

\* Every other call leaves status, stage and route of every issue alone.
LEMMA OtherCallsStutter ==
    ASSUME IndInv, NEW w \in Workers, Start(w) \/ Continue(w) \/ Fail(w),
           ~ PatchTransition(w), ~ ClaimPatch(w), ~ ResetPatch(w)
    PROVE  Abstract' = Abstract
<1> USE DEF NothingWritten
<1>1. CASE Start(w)
  <2>1. CASE CreatePullRequest(w)
    BY <2>1, CreatePullRequestEffect, AbstractKept
  <2>2. CASE UNCHANGED item
    BY <2>2 DEF Abstract
  <2> QED
    BY <1>1, <2>1, <2>2, StartCases, StartsEffect, NextCommandEffect, RecordDecisionEffect
<1>2. CASE RemoveLabel(w)
  <2>1. \A j \in Issues : /\ item'[j].status = item[j].status
                          /\ item'[j].stage = item[j].stage
                          /\ item'[j].route = item[j].route
    BY <1>2, RemoveLabelEffect
  <2> QED
    BY <2>1, AbstractKept
<1>3. CASE AddOwnLabel(w)
  <2>1. \A j \in Issues : /\ item'[j].status = item[j].status
                          /\ item'[j].stage = item[j].stage
                          /\ item'[j].route = item[j].route
    BY <1>3, AddOwnLabelEffect
  <2> QED
    BY <2>1, AbstractKept
<1>4. CASE ReadItem(w) \/ ReadComments(w) \/ AssignOwner(w) \/ PublishPlan(w)
           \/ NextReadItem(w) \/ Select(w) \/ ResetAssignee(w) \/ ResetDone(w) \/ Fail(w)
  BY <1>4 DEF ReadItem, ReadComments, AssignOwner, PublishPlan, NextReadItem, Select,
     ResetAssignee, ResetDone, Fail, tracker, Abstract
<1> QED
  BY <1>1, <1>2, <1>3, <1>4 DEF Continue

\* and every other call is a transition of the life cycle or changes nothing of it.
LEMMA LifecycleStep ==
    ASSUME ExclusiveInv, IndInv', [Next]_vars
    PROVE  Lifecycle!Next \/ Abstract' = Abstract
<1>1. CASE UNCHANGED vars
  BY <1>1 DEF vars, Abstract
<1>2. ASSUME NEW i \in Issues, HumanComment(i) PROVE Abstract' = Abstract
  BY <1>2 DEF HumanComment, Abstract
<1>3. ASSUME NEW w \in Workers, Start(w) \/ Continue(w) \/ Fail(w)
      PROVE  Lifecycle!Next \/ Abstract' = Abstract
  <2>1. CASE PatchTransition(w)
    <3>1. PICK i \in Issues : i = job[w].issue
      BY <2>1, PatchEffect DEF ExclusiveInv
    <3> QED
      BY <2>1, <3>1, PatchMaps DEF Lifecycle!Next
  <2>2. CASE ClaimPatch(w)
    <3>1. PICK i \in Issues : i = job[w].issue
      BY <2>2, ClaimPatchEffect DEF ExclusiveInv
    <3> QED
      BY <2>2, <3>1, ClaimMaps DEF Lifecycle!Next
  <2>3. CASE ResetPatch(w)
    <3>1. PICK i \in Issues : i = job[w].issue
      BY <2>3, ResetPatchEffect DEF ExclusiveInv
    <3> QED
      BY <2>3, <3>1, ResetMaps DEF Lifecycle!Next
  <2> QED
    BY <1>3, <2>1, <2>2, <2>3, OtherCallsStutter DEF ExclusiveInv
<1> QED
  BY <1>1, <1>2, <1>3 DEF Next

\* The life cycle begins in Planning.
LEMMA LifecycleInitially == Init => Lifecycle!Init
<1> SUFFICES ASSUME Init PROVE Lifecycle!Init
  OBVIOUS
<1>1. \A i \in Issues : /\ item[i].status = "Todo" /\ item[i].stage = "Planning"
                        /\ item[i].route \in ReviewRoutes
  BY WorkflowAssumption DEF Init, NewItem
<1>2. \A i \in Issues : Abstract[i] \in { s \in Lifecycle!States :
                                            s.status = "Todo" /\ s.stage = "Planning" }
  BY <1>1, SameTable DEF Abstract, Lifecycle!States, Statuses, Stages, AgentStages
<1> QED
  BY <1>2 DEF Lifecycle!Init, Abstract

\* Commands that do not overlap move an issue only as IssueLifecycle says,
\* also when some of them die between two calls.
THEOREM LifecycleRefined ==
    ASSUME Exclusive
    PROVE  Spec => LifecycleSpec
<1>1. ExclusiveInv /\ ExclusiveInv' /\ [Next]_vars => [Lifecycle!Next]_Abstract
  BY LifecycleStep DEF ExclusiveInv
<1>2. Spec => []ExclusiveInv
  BY CopiesStayFresh
<1>3. Spec => Lifecycle!Init /\ [][Lifecycle!Next]_Abstract
  BY LifecycleInitially, <1>1, <1>2, PTL DEF Spec
<1> QED
  BY <1>3, PTL DEF LifecycleSpec, Lifecycle!Spec, Abstract
-------------------------------------------------------------------------------
(* A plan before its approval *)

\* transition_workflow enters the stages a plan waits in when a plan is posted,
\* or from one of them; it leaves Plan Approval for Implementation on approval.
LEMMA PlanStageFacts ==
    ASSUME NEW stage, NEW signal, NEW route, IsTransition(stage, signal, route)
    PROVE  /\ NextStage(stage, signal, route) \in {"PlanApproval", "PlanReview"} =>
                  signal = "plan-posted" \/ stage \in {"PlanApproval", "PlanReview"}
           /\ stage = "PlanApproval" /\ NextStage(stage, signal, route) = "Implementation" =>
                  signal = "human-approved"
<1> DEFINE chosen == CHOOSE row \in TransitionTable(route) : row.stage = stage /\ row.signal = signal
<1>1. chosen \in TransitionTable(route) /\ chosen.stage = stage /\ chosen.signal = signal
  BY DEF IsTransition
<1>2. ASSUME NEW row \in TransitionTable(route)
      PROVE  /\ row.next \in {"PlanApproval", "PlanReview"} =>
                    row.signal = "plan-posted" \/ row.stage \in {"PlanApproval", "PlanReview"}
             /\ row.stage = "PlanApproval" /\ row.next = "Implementation" =>
                    row.signal = "human-approved"
  BY DEF TransitionTable, Row
<1>3. NextStage(stage, signal, route) = chosen.next
  BY DEF NextStage
<1> QED
  BY <1>1, <1>2, <1>3

\* A worker with a running command starts none.
LEMMA StartIsIdle ==
    ASSUME NEW w \in Workers, Start(w)
    PROVE  pc[w] = "idle"
  BY DEF Start, CanStart, ApprovalCommand, RecordDecision, RevisePlan, ClaimCommand,
     ResetCommand, PostPlan, StageReview, CreatePullRequest, Complete, NextCommand

\* A posted plan becomes the last one.
LEMMA PlanIsLast ==
    ASSUME IndInv, NEW i \in Issues, Comment(i, "plan")
    PROVE  \A j \in Issues : \/ LastPlanExists(comments[j]) => LastPlanExists(comments'[j])
                             \/ i = j
           /\ LastPlanExists(comments'[i])
<1>1. comments[i] \in Seq(CommentBodies)
  BY DEF IndInv, TypeOK
<1>2. comments'[i] = Append(comments[i], "plan")
  BY DEF Comment, IndInv, TypeOK
<1>3. \A j \in Issues \ {i} : comments'[j] = comments[j]
  BY DEF Comment, IndInv, TypeOK
<1>4. LastPlanExists(comments'[i])
  <2>1. Len(comments[i]) + 1 \in DOMAIN comments'[i]
        /\ comments'[i][Len(comments[i]) + 1] = "plan"
    BY <1>1, <1>2, AppendFacts
  <2>2. \A k \in DOMAIN comments'[i] : ~ (k > Len(comments[i]) + 1)
    BY <1>1, <1>2
  <2> QED
    BY <2>1, <2>2 DEF LastPlanExists
<1> QED
  BY <1>3, <1>4

\* The worker is posting the plan of issue i.
Posting(w, i) ==
    job[w].issue = i /\ job[w].command = "post-plan" /\ pc[w] \in {"release", "publish"}

\* A call that leaves stages and comments alone, and the posting of a plan to
\* the worker that does it, keeps every plan announced.
LEMMA NothingPosted ==
    ASSUME NEW w \in Workers, Alone(w), PlanAnnounced,
           \A j \in Issues : item'[j].stage = item[j].stage,
           \A j \in Issues : LastPlanExists(comments[j]) => LastPlanExists(comments'[j]),
           \A j \in Issues : Posting(w, j) => Posting(w, j)' \/ LastPlanExists(comments'[j])
    PROVE  PlanAnnounced'
<1>1. \A j \in Issues : \A v \in Workers :
          job[v].issue = j /\ job[v].command = "post-plan" /\ pc[v] \in {"release", "publish"}
             => Posting(w, j)
  BY DEF Alone, Posting
<1> QED
  BY <1>1 DEF PlanAnnounced, Posting

\* The worker that moves leaves no issue waiting for a plan that is not posted.
LEMMA PlanStaysAnnounced ==
    ASSUME ExclusiveInv, NEW w \in Workers, Start(w) \/ Continue(w) \/ Fail(w), Alone(w),
           PlanAnnounced, faults' = 0
    PROVE  PlanAnnounced'
<1> USE DEF NothingWritten
<1>0. IndInv /\ SignalGrounded(w) /\ FreshCopy(w)
  BY DEF ExclusiveInv
<1>1. CASE Start(w)
  <2>1. pc[w] = "idle"
    BY <1>1, StartIsIdle
  <2>2. \A j \in Issues : item'[j].stage = item[j].stage
    BY <1>0, <1>1, StartCases, StartsEffect, NextCommandEffect, RecordDecisionEffect,
       CreatePullRequestEffect
  <2>3. ASSUME NEW j \in Issues, LastPlanExists(comments[j])
        PROVE  LastPlanExists(comments'[j])
    <3>1. UNCHANGED comments \/ \E i \in Issues : \E reply \in Replies : Comment(i, reply)
      BY <1>0, <1>1, StartCases, StartsEffect, NextCommandEffect, RecordDecisionEffect,
         CreatePullRequestEffect
    <3> QED
      BY <1>0, <2>3, <3>1, ReplyKeepsPlans
  <2> QED
    BY <2>1, <2>2, <2>3, NothingPosted DEF Posting
<1>2. CASE PatchTransition(w)
  <2> DEFINE i == job[w].issue
  <2>1. /\ pc[w] = "patch" /\ i \in Issues /\ item'[i].stage = Decision(w).stage
        /\ \A j \in Issues \ {i} : item'[j] = item[j]
        /\ pc'[w] = "release" /\ job'[w].issue = i /\ job'[w].command = job[w].command
        /\ UNCHANGED comments
    BY <1>0, <1>2, PatchEffect
  <2>2. IsTransition(job[w].seen.stage, job[w].signal, job[w].seen.route)
    BY <1>0, <2>1, WorkerTyped DEF WritesLegalTransition
  <2>3. Decision(w).stage = NextStage(job[w].seen.stage, job[w].signal, job[w].seen.route)
    BY DEF Decision, TransitionWorkflow
  <2>4. job[w].seen.stage = item[i].stage
    BY <1>0, <2>1 DEF FreshCopy, SameStage
  <2>5. item'[i].stage \in {"PlanApproval", "PlanReview"} =>
            job[w].command = "post-plan" \/ item[i].stage \in {"PlanApproval", "PlanReview"}
    BY <1>0, <2>1, <2>2, <2>3, <2>4, PlanStageFacts DEF SignalGrounded
  <2>6. \A v \in Workers : pc[v] \notin {"release", "publish"}
    BY <2>1 DEF Alone
  <2> QED
    BY <2>1, <2>5, <2>6 DEF PlanAnnounced
<1>3. CASE ClaimPatch(w)
  <2>1. /\ pc[w] = "claim" /\ job[w].issue \in Issues
        /\ item'[job[w].issue].stage = job[w].seen.stage
        /\ \A j \in Issues \ {job[w].issue} : item'[j] = item[j]
        /\ UNCHANGED comments
    BY <1>0, <1>3, ClaimPatchEffect
  <2>2. \A j \in Issues : item'[j].stage = item[j].stage
    BY <1>0, <2>1 DEF FreshCopy, SameStage
  <2> QED
    BY <2>1, <2>2, NothingPosted DEF Posting
<1>4. CASE ResetPatch(w)
  <2>1. /\ pc[w] = "reset" /\ job[w].issue \in Issues
        /\ item'[job[w].issue].stage = "Planning"
        /\ \A j \in Issues \ {job[w].issue} : item'[j] = item[j]
        /\ UNCHANGED comments
    BY <1>0, <1>4, ResetPatchEffect
  <2>2. \A v \in Workers : pc[v] \notin {"release", "publish"}
    BY <2>1 DEF Alone
  <2> QED
    BY <2>1, <2>2 DEF PlanAnnounced
<1>5. CASE RemoveLabel(w)
  <2>1. /\ \A j \in Issues : item'[j].stage = item[j].stage
        /\ UNCHANGED <<pc, comments>>
        /\ job'[w].issue = job[w].issue /\ job'[w].command = job[w].command
    BY <1>0, <1>5, RemoveLabelEffect
  <2> QED
    BY <2>1, NothingPosted DEF Posting
<1>6. CASE AssignOwner(w)
  <2>1. /\ UNCHANGED <<item, comments>>
        /\ \/ pc'[w] = "publish" /\ job'[w] = job[w]
           \/ job[w].command # "post-plan"
    BY <1>0, <1>6, AssignOwnerEffect
  <2> QED
    BY <2>1, NothingPosted DEF Posting
<1>7. CASE PublishPlan(w)
  <2>1. /\ job[w].issue \in Issues /\ Comment(job[w].issue, "plan") /\ UNCHANGED item
    BY <1>0, <1>7, PublishPlanEffect
  <2>2. \A j \in Issues : LastPlanExists(comments[j]) => LastPlanExists(comments'[j])
    BY <1>0, <2>1, PlanIsLast
  <2>3. \A j \in Issues : Posting(w, j) => LastPlanExists(comments'[j])
    BY <1>0, <2>1, PlanIsLast DEF Posting
  <2> QED
    BY <2>1, <2>2, <2>3, NothingPosted
<1>8. CASE AddOwnLabel(w)
  <2>1. /\ pc[w] = "relabel" /\ UNCHANGED comments
        /\ \A j \in Issues : item'[j].stage = item[j].stage
    BY <1>0, <1>8, AddOwnLabelEffect
  <2> QED
    BY <2>1, NothingPosted DEF Posting
<1>9. CASE ReadItem(w) \/ ReadComments(w) \/ NextReadItem(w) \/ Select(w) \/ ResetAssignee(w)
           \/ ResetDone(w)
  <2>1. /\ pc[w] \notin {"release", "publish"} /\ UNCHANGED <<item, comments>>
    BY <1>9 DEF ReadItem, ReadComments, NextReadItem, Select, ResetAssignee, ResetDone, tracker
  <2> QED
    BY <2>1, NothingPosted DEF Posting
<1>10. CASE Fail(w)
  <2>1. faults \in Nat /\ faults' = faults + 1
    BY <1>0, <1>10 DEF Fail, IndInv, TypeOK
  <2> QED
    BY <2>1
<1> QED
  BY <1>1, <1>2, <1>3, <1>4, <1>5, <1>6, <1>7, <1>8, <1>9, <1>10 DEF Continue

\* Only a dying command is counted.
LEMMA OnlyFailCounts ==
    ASSUME [Next]_vars
    PROVE  faults' = faults \/ \E w \in Workers : Fail(w)
<1>1. CASE UNCHANGED vars
  BY <1>1 DEF vars
<1>2. ASSUME NEW i \in Issues, HumanComment(i) PROVE faults' = faults
  BY <1>2 DEF HumanComment
<1>3. ASSUME NEW w \in Workers, Start(w) PROVE faults' = faults
  BY <1>3 DEF Start, ApprovalCommand, RecordDecision, RevisePlan, ClaimCommand,
     ResetCommand, PostPlan, StageReview, CreatePullRequest, Complete, NextCommand
<1>4. ASSUME NEW w \in Workers, Continue(w) PROVE faults' = faults
  BY <1>4 DEF Continue, ReadItem, ReadComments, PatchTransition, RemoveLabel, AssignOwner,
     PublishPlan, NextReadItem, Select, ClaimPatch, AddOwnLabel, ResetPatch, ResetAssignee,
     ResetDone
<1> QED
  BY <1>1, <1>2, <1>3, <1>4 DEF Next

\* A command that has died stays counted.
LEMMA FaultsGrow ==
    ASSUME TypeOK, [Next]_vars, faults' = 0
    PROVE  faults = 0
<1>1. faults \in Nat
  BY DEF TypeOK
<1>2. \A w \in Workers : Fail(w) => faults' = faults + 1
  BY DEF Fail
<1> QED
  BY <1>1, <1>2, OnlyFailCounts

PlanInv == faults = 0 => PlanAnnounced

\* Nor does any other step, until a command dies.
LEMMA PlanStep ==
    ASSUME Exclusive, ExclusiveInv, PlanInv, [Next]_vars
    PROVE  PlanInv'
<1> SUFFICES ASSUME faults' = 0 PROVE PlanAnnounced'
  BY DEF PlanInv
<1>1. PlanAnnounced
  BY FaultsGrow DEF PlanInv, ExclusiveInv, IndInv
<1>2. CASE UNCHANGED vars
  BY <1>1, <1>2 DEF vars, PlanAnnounced
<1>3. ASSUME NEW i \in Issues, HumanComment(i) PROVE PlanAnnounced'
  <2>1. PICK reply \in Replies : Comment(i, reply)
    BY <1>3 DEF HumanComment
  <2>2. \A j \in Issues : LastPlanExists(comments[j]) => LastPlanExists(comments'[j])
    BY <2>1, ReplyKeepsPlans DEF ExclusiveInv
  <2> QED
    BY <1>1, <1>3, <2>2 DEF HumanComment, PlanAnnounced
<1>4. ASSUME NEW w \in Workers, Start(w) \/ Continue(w) \/ Fail(w) PROVE PlanAnnounced'
  BY <1>1, <1>4, RunsAlone, PlanStaysAnnounced
<1> QED
  BY <1>2, <1>3, <1>4 DEF Next
\* The only call that takes an issue from Plan Approval to Implementation is the
\* patch of an approval read after the plan.
LEMMA ApprovalPatched ==
    ASSUME ExclusiveInv, PlanInv, NEW w \in Workers, Start(w) \/ Continue(w) \/ Fail(w),
           Alone(w), faults = 0,
           NEW i \in Issues, item[i].stage = "PlanApproval", item'[i].stage = "Implementation"
    PROVE  \E p, a \in DOMAIN comments[i] :
               /\ p < a
               /\ comments[i][p] = "plan" /\ comments[i][a] = "approved"
               /\ \A k \in DOMAIN comments[i] : k > p => comments[i][k] # "plan"
<1>0. IndInv /\ SignalGrounded(w) /\ FreshCopy(w)
  BY DEF ExclusiveInv
<1>1. PatchTransition(w) /\ i = job[w].issue
  <2>1. CASE PatchTransition(w)
    BY <1>0, <2>1, PatchEffect
  <2>2. CASE ClaimPatch(w)
    BY <1>0, <2>2, ClaimPatchEffect DEF FreshCopy, SameStage
  <2>3. CASE ResetPatch(w)
    BY <1>0, <2>3, ResetPatchEffect
  <2>4. CASE ~ PatchTransition(w) /\ ~ ClaimPatch(w) /\ ~ ResetPatch(w)
    <3>1. Abstract' = Abstract
      BY <1>0, <2>4, OtherCallsStutter
    <3>2. Abstract[i].stage = item[i].stage /\ Abstract'[i].stage = item'[i].stage
      BY DEF Abstract
    <3> QED
      BY <3>1, <3>2
  <2> QED
    BY <2>1, <2>2, <2>3, <2>4
<1>2. /\ pc[w] = "patch" /\ item'[i].stage = Decision(w).stage
      /\ job[w].seen.stage = item[i].stage
  BY <1>0, <1>1, PatchEffect DEF FreshCopy, SameStage
<1>3. IsTransition(job[w].seen.stage, job[w].signal, job[w].seen.route)
  BY <1>0, <1>2, WorkerTyped DEF WritesLegalTransition
<1>4. job[w].signal = "human-approved"
  BY <1>2, <1>3, PlanStageFacts DEF Decision, TransitionWorkflow
<1>5. /\ job[w].at \in DOMAIN comments[i] /\ comments[i][job[w].at] = "approved"
      /\ \A k \in DOMAIN comments[i] : k > job[w].at => comments[i][k] # "plan"
  BY <1>0, <1>1, <1>2, <1>4 DEF SignalGrounded
<1>6. LastPlanExists(comments[i])
  BY <1>2 DEF PlanInv, PlanAnnounced, Alone
<1>7. PICK p \in DOMAIN comments[i] :
          comments[i][p] = "plan" /\ \A k \in DOMAIN comments[i] : k > p => comments[i][k] # "plan"
  BY <1>6 DEF LastPlanExists
<1>8. p < job[w].at
  <2>1. comments[i] \in Seq(CommentBodies)
    BY <1>0 DEF IndInv, TypeOK
  <2>2. p \in Nat /\ job[w].at \in Nat
    BY <1>5, <2>1
  <2> QED
    BY <1>5, <1>7, <2>2
<1> QED
  BY <1>5, <1>7, <1>8

\* In the single-operator deployment a plan is approved only by a decision made
\* after that plan was posted, as long as no command has died.
THEOREM PlanBeforeApproval ==
    ASSUME Exclusive
    PROVE  Spec => ApprovalFollowsPlan
<1>1. Init => PlanInv
  <2> SUFFICES ASSUME Init, NEW i \in Issues PROVE item[i].stage = "Planning"
    BY DEF PlanInv, PlanAnnounced
  <2> QED
    BY DEF Init, NewItem
<1>2. ExclusiveInv /\ PlanInv /\ [Next]_vars => PlanInv'
  BY PlanStep
<1>3. ExclusiveInv /\ PlanInv /\ [Next]_vars =>
        [\A i \in Issues :
            /\ faults = 0
            /\ item[i].stage = "PlanApproval"
            /\ item'[i].stage = "Implementation"
            => \E p, a \in DOMAIN comments[i] :
                   /\ p < a
                   /\ comments[i][p] = "plan" /\ comments[i][a] = "approved"
                   /\ \A k \in DOMAIN comments[i] : k > p => comments[i][k] # "plan"]_vars
  <2> SUFFICES ASSUME ExclusiveInv, PlanInv, Next,
                      NEW i \in Issues, faults = 0, item[i].stage = "PlanApproval",
                      item'[i].stage = "Implementation"
               PROVE  \E p, a \in DOMAIN comments[i] :
                   /\ p < a
                   /\ comments[i][p] = "plan" /\ comments[i][a] = "approved"
                   /\ \A k \in DOMAIN comments[i] : k > p => comments[i][k] # "plan"
    OBVIOUS
  <2>1. PICK w \in Workers : Start(w) \/ Continue(w) \/ Fail(w)
    BY DEF Next, HumanComment
  <2> QED
    BY <2>1, RunsAlone, ApprovalPatched
<1>4. Spec => []ExclusiveInv
  BY CopiesStayFresh
<1> QED
  BY <1>1, <1>2, <1>3, <1>4, PTL DEF Spec, ApprovalFollowsPlan
-------------------------------------------------------------------------------
(* Ownership: what the label, the assignee and the status say together. *)

OwnersKnown == faults = 0 => OwnershipInv

\* Only the worker that moves needs looking at.
LEMMA MoverOwns ==
    ASSUME NEW w \in Workers, Alone(w)', LabelsKnown(w)',
           \A i \in Issues : Owned(i)' \/ InHand(w, i)'
    PROVE  OwnershipInv'
<1>1. NoJob.command = "none"
  BY DEF NoJob
<1>2. \A v \in Workers : LabelsKnown(v)'
  BY <1>1 DEF Alone, LabelsKnown
<1> QED
  BY <1>2 DEF OwnershipInv

\* An issue stays with its owner if no call touches it.
LEMMA OwnedKept ==
    ASSUME NEW i \in Issues, Owned(i),
           item'[i].status = item[i].status, item'[i].stage = item[i].stage,
           item'[i].labels = item[i].labels, assigned'[i] = assigned[i]
    PROVE  Owned(i)'
  BY DEF Owned

\* Stages are owned by the approver or by agents, not by both.
LEMMA OwnerFacts ==
    /\ \A stage \in Stages : (OwnerOf(stage) = "human") = (stage \in HumanStages)
    /\ AgentStages \intersect HumanStages = {} /\ "Planning" \notin HumanStages
  BY DEF OwnerOf, Stages, AgentStages, HumanStages

\* What it takes to be queued, or held.
LEMMA QueuedOrHeld ==
    ASSUME NEW i \in Issues
    PROVE  /\ item[i].status = "Todo" /\ item[i].labels = {}
              /\ assigned[i] = (item[i].stage \in HumanStages) => Owned(i)
           /\ item'[i].status = "Todo" /\ item'[i].labels = {}
              /\ assigned'[i] = (item'[i].stage \in HumanStages) => Owned(i)'
           /\ \A w \in Workers :
                 item'[i].status = "InProgress" /\ item'[i].labels = {w}
                 /\ item'[i].stage \in AgentStages /\ ~ assigned'[i] => Owned(i)'
  BY DEF Owned

\* A queued issue in Planning without labels and assignee is owned by agents.
LEMMA PlanningOwned ==
    ASSUME NEW i \in Issues
    PROVE  /\ item[i].status = "Todo" /\ item[i].labels = {}
              /\ item[i].stage = "Planning" /\ assigned[i] = FALSE => Owned(i)
           /\ item'[i].status = "Todo" /\ item'[i].labels = {}
              /\ item'[i].stage = "Planning" /\ assigned'[i] = FALSE => Owned(i)'
<1>1. ("Planning" \in HumanStages) = FALSE
  BY OwnerFacts
<1>2. /\ item[i].stage = "Planning" => (item[i].stage \in HumanStages) = FALSE
      /\ item'[i].stage = "Planning" => (item'[i].stage \in HumanStages) = FALSE
  BY <1>1
<1> QED
  BY <1>2, QueuedOrHeld, Zenon

\* The worker that moves leaves ownership explicit, or has it in hand.
LEMMA OwnershipKept ==
    ASSUME ExclusiveInv, NEW w \in Workers, Start(w) \/ Continue(w) \/ Fail(w),
           Alone(w), Alone(w)', OwnershipInv, faults' = 0
    PROVE  OwnershipInv'
<1> USE DEF NothingWritten
<1>0. IndInv /\ SignalGrounded(w) /\ FreshCopy(w) /\ LabelsKnown(w)
  BY DEF ExclusiveInv, OwnershipInv
<1>1. \A i \in Issues : Owned(i) \/ InHand(w, i)
  BY DEF OwnershipInv, Alone, InHand
<1>2. pc[w] \notin {"release", "relabel", "unassign", "unlabel"} => \A i \in Issues : Owned(i)
  BY <1>1 DEF InHand
<1>3. \A i \in Issues : i # job[w].issue => Owned(i)
  BY <1>1 DEF InHand
<1>4. NoJob.command = "none"
  BY DEF NoJob
\* A call that reads, or only writes comments
<1>5. ASSUME UNCHANGED <<item, assigned>>, LabelsKnown(w)',
             pc[w] \notin {"release", "relabel", "unassign", "unlabel"}
      PROVE  OwnershipInv'
  BY <1>2, <1>5, OwnedKept, MoverOwns
<1>6. ASSUME pc'[w] = "idle", job'[w] = NoJob PROVE LabelsKnown(w)'
  BY <1>4, <1>6 DEF LabelsKnown
<1>7. ASSUME NEW stage, Synced(w, stage), UNCHANGED item, pc[w] \in {"comments", "release"}
      PROVE  LabelsKnown(w)'
  <2>1. CASE Return(w)
    BY <1>0, <1>6, <2>1, EndsEffect
  <2>2. CASE ~ Return(w)
    <3>1. /\ job[w].command = "next" /\ pc'[w] = "sync"
          /\ \A i \in Issues : view'[w][i].labels = view[w][i].labels
      BY <1>7, <2>2 DEF Synced
    <3> QED
      BY <1>0, <1>7, <3>1 DEF LabelsKnown
  <2> QED
    BY <2>1, <2>2
<1>8. CASE Start(w)
  <2>1. pc[w] = "idle"
    BY <1>8, StartIsIdle
  <2>2. CASE CreatePullRequest(w)
    <3>1. \A j \in Issues : Owned(j)'
      BY <1>0, <1>2, <2>1, <2>2, CreatePullRequestEffect, OwnedKept
    <3>2. LabelsKnown(w)'
      BY <1>0, <1>6, <2>1, <2>2, CreatePullRequestEffect DEF FreshCopy
    <3> QED
      BY <3>1, <3>2, MoverOwns
  <2>3. CASE Starts(w)
    BY <1>0, <1>5, <2>1, <2>3, StartsEffect DEF LabelsKnown
  <2>4. CASE NextCommand(w)
    BY <1>0, <1>5, <2>1, <2>4, NextCommandEffect DEF LabelsKnown
  <2>5. ASSUME NEW i \in Issues, RecordDecision(w, i) PROVE OwnershipInv'
    BY <1>0, <1>5, <2>1, <2>5, RecordDecisionEffect DEF LabelsKnown
  <2> QED
    BY <1>0, <1>8, <2>2, <2>3, <2>4, <2>5, StartCases
<1>9. CASE ReadItem(w)
  <2>1. pc[w] = "read"
    BY <1>9 DEF ReadItem
  <2> QED
    BY <1>0, <1>5, <1>9, <2>1, ReadItemEffect DEF LabelsKnown
<1>10. CASE NextReadItem(w)
  BY <1>0, <1>5, <1>10, NextReadItemEffect DEF LabelsKnown
<1>11. CASE ReadComments(w)
  <2>1. CASE Synced(w, job[w].seen.stage)
    BY <1>0, <1>5, <1>7, <1>11, <2>1, ReadCommentsEffect
  <2>2. CASE ~ Synced(w, job[w].seen.stage)
    <3>1. /\ pc[w] = "comments" /\ pc'[w] = "patch" /\ UNCHANGED <<item, assigned, view>>
          /\ job'[w].command = job[w].command /\ job'[w].issue = job[w].issue
          /\ job'[w].seen = job[w].seen
      BY <1>0, <1>11, <2>2, ReadCommentsEffect
    <3> QED
      BY <1>0, <1>5, <3>1 DEF LabelsKnown
  <2> QED
    BY <2>1, <2>2
<1>12. CASE PatchTransition(w)
  <2> DEFINE i == job[w].issue
  <2>1. /\ pc[w] = "patch" /\ i \in Issues
        /\ item'[i].status = "Todo" /\ item'[i].labels = item[i].labels
        /\ \A j \in Issues \ {i} : item'[j] = item[j]
        /\ pc'[w] = "release" /\ job'[w].issue = i /\ job'[w].command = job[w].command
        /\ job'[w].drop = job[w].seen.labels
        /\ UNCHANGED <<assigned, view>>
    BY <1>0, <1>12, PatchEffect
  <2>2. job[w].seen.labels = item[i].labels
    BY <1>0, <2>1 DEF LabelsKnown
  <2>3. job[w].command = "next" => item[i].labels = {}
    <3>1. SUFFICES ASSUME job[w].command = "next" PROVE item[i].labels = {}
      OBVIOUS
    <3>2. item[i].stage \in HumanStages
      BY <1>0, <2>1, <3>1 DEF SignalGrounded, FreshCopy, SameStage
    <3>3. item[i].status = "Todo"
      BY <1>0, <2>1, <3>2 DEF IndInv, HumanStagesAreQueued
    <3> QED
      BY <1>2, <2>1, <3>3 DEF Owned
  <2>4. LabelsKnown(w)'
    BY <1>0, <2>1, <2>2, <2>3 DEF LabelsKnown
  <2>5. \A j \in Issues \ {i} : Owned(j)'
    BY <1>3, <2>1, OwnedKept
  <2> QED
    BY <2>1, <2>4, <2>5, MoverOwns DEF InHand
<1>13. CASE RemoveLabel(w)
  <2> DEFINE i == job[w].issue
  <2>1. PICK label \in job[w].drop :
           /\ item'[i].labels = item[i].labels \ {label}
           /\ job'[w].drop = job[w].drop \ {label}
    BY <1>0, <1>13, RemoveLabelEffect
  <2>2. /\ pc[w] \in {"release", "relabel", "unlabel"} /\ i \in Issues
        /\ item'[i].stage = item[i].stage /\ item'[i].status = item[i].status
        /\ \A j \in Issues \ {i} : item'[j] = item[j]
        /\ job'[w].issue = i /\ job'[w].command = job[w].command
        /\ UNCHANGED <<pc, assigned>>
    BY <1>0, <1>13, RemoveLabelEffect
  <2>3. job[w].drop # {}
    BY <2>1
  <2>4. LabelsKnown(w)'
    <3>1. CASE pc[w] = "release"
      BY <1>0, <2>1, <2>2, <2>3, <3>1 DEF LabelsKnown
    <3>2. CASE pc[w] = "relabel"
      BY <1>0, <2>1, <2>2, <3>2 DEF LabelsKnown
    <3>3. CASE pc[w] = "unlabel"
      BY <1>0, <2>1, <2>2, <3>3 DEF LabelsKnown
    <3> QED
      BY <2>2, <3>1, <3>2, <3>3
  <2>5. \A j \in Issues \ {i} : Owned(j)'
    BY <1>3, <2>2, OwnedKept
  <2> QED
    BY <2>2, <2>4, <2>5, MoverOwns DEF InHand
<1>14. CASE AssignOwner(w)
  <2> DEFINE i == job[w].issue
  <2>1. /\ pc[w] = "release" /\ job[w].drop = {} /\ i \in Issues
        /\ assigned'[i] = (Decision(w).owner = "human")
        /\ \A j \in Issues \ {i} : assigned'[j] = assigned[j]
        /\ UNCHANGED item
        /\ \/ pc'[w] = "publish" /\ UNCHANGED <<job, view>>
           \/ Synced(w, Decision(w).stage)
    BY <1>0, <1>14, AssignOwnerEffect
  <2>2. /\ item[i].status = "Todo" /\ item[i].labels = {}
        /\ item[i].stage = Decision(w).stage
    BY <1>0, <2>1 DEF LabelsKnown, FreshCopy
  <2>3. assigned'[i] = (item[i].stage \in HumanStages)
    <3>1. item[i].stage \in Stages
      BY <1>0, <2>1 DEF IndInv, TypeOK, Items
    <3>2. Decision(w).owner = OwnerOf(Decision(w).stage)
      BY DEF Decision, TransitionWorkflow
    <3> QED
      BY <2>1, <2>2, <3>1, <3>2, OwnerFacts
  <2>4. \A j \in Issues : Owned(j)'
    <3>1. ASSUME NEW j \in Issues, j = i PROVE Owned(j)'
      BY <2>1, <2>2, <2>3, <3>1, QueuedOrHeld
    <3> QED
      BY <1>3, <2>1, <3>1, OwnedKept
  <2>5. LabelsKnown(w)'
    <3>1. CASE pc'[w] = "publish" /\ UNCHANGED <<job, view>>
      BY <3>1 DEF LabelsKnown
    <3> QED
      BY <1>7, <2>1, <3>1
  <2> QED
    BY <2>4, <2>5, MoverOwns
<1>15. CASE PublishPlan(w)
  BY <1>0, <1>5, <1>6, <1>15, PublishPlanEffect
<1>16. CASE Select(w)
  <2>1. /\ pc[w] = "sync" /\ UNCHANGED <<item, assigned>>
        /\ \/ pc'[w] = "idle" /\ job'[w] = NoJob
           \/ /\ pc'[w] = "claim" /\ job'[w].issue \in Issues
              /\ job'[w].seen = view[w][job'[w].issue]
    BY <1>0, <1>16, SelectEffect
  <2>2. job[w].command = "next"
    BY <1>0, <2>1 DEF FreshCopy
  <2>3. LabelsKnown(w)'
    BY <1>0, <1>6, <2>1, <2>2 DEF LabelsKnown
  <2> QED
    BY <1>5, <2>1, <2>3
<1>17. CASE ClaimPatch(w)
  <2> DEFINE i == job[w].issue
  <2>1. /\ pc[w] = "claim" /\ i \in Issues
        /\ item'[i].status = "InProgress" /\ item'[i].stage = job[w].seen.stage
        /\ job[w].seen.stage \in AgentStages /\ item'[i].labels = item[i].labels
        /\ \A j \in Issues \ {i} : item'[j] = item[j]
        /\ pc'[w] = "relabel" /\ job'[w].issue = i
        /\ job'[w].drop = job[w].seen.labels \ {w}
        /\ UNCHANGED assigned
    BY <1>0, <1>17, ClaimPatchEffect
  <2>2. job[w].seen.labels = item[i].labels /\ item[i].stage = job[w].seen.stage
    BY <1>0, <2>1 DEF LabelsKnown, FreshCopy, SameStage
  <2>3. ~ assigned[i]
    BY <1>2, <2>1, <2>2, OwnerFacts DEF Owned
  <2>4. LabelsKnown(w)'
    BY <2>1, <2>2, <2>3 DEF LabelsKnown
  <2>5. \A j \in Issues \ {i} : Owned(j)'
    BY <1>3, <2>1, OwnedKept
  <2> QED
    BY <2>1, <2>4, <2>5, MoverOwns DEF InHand
<1>18. CASE AddOwnLabel(w)
  <2> DEFINE i == job[w].issue
  <2>1. /\ pc[w] = "relabel" /\ job[w].drop = {} /\ i \in Issues
        /\ item'[i].labels = item[i].labels \union {w}
        /\ item'[i].stage = item[i].stage /\ item'[i].status = item[i].status
        /\ \A j \in Issues \ {i} : item'[j] = item[j]
        /\ pc'[w] = "idle" /\ job'[w] = NoJob /\ UNCHANGED assigned
    BY <1>0, <1>18, AddOwnLabelEffect
  <2>2. /\ item[i].status = "InProgress" /\ item[i].stage \in AgentStages
        /\ item[i].labels \ {w} = {} /\ ~ assigned[i]
    BY <1>0, <2>1 DEF LabelsKnown
  <2>3. item'[i].labels = {w}
    BY <2>1, <2>2
  <2>4. ASSUME NEW j \in Issues, j = i PROVE Owned(j)'
    BY <2>1, <2>2, <2>3, <2>4, QueuedOrHeld
  <2>5. \A j \in Issues \ {i} : Owned(j)'
    BY <1>3, <2>1, OwnedKept
  <2> QED
    BY <1>6, <2>1, <2>4, <2>5, MoverOwns
<1>19. CASE ResetPatch(w)
  <2> DEFINE i == job[w].issue
  <2>1. /\ pc[w] = "reset" /\ i \in Issues
        /\ item'[i].status = "Todo" /\ item'[i].stage = "Planning"
        /\ item'[i].labels = item[i].labels
        /\ \A j \in Issues \ {i} : item'[j] = item[j]
        /\ pc'[w] = "unassign" /\ UNCHANGED <<job, assigned>>
    BY <1>0, <1>19, ResetPatchEffect
  <2>2. LabelsKnown(w)'
    BY <1>0, <2>1 DEF LabelsKnown
  <2>3. \A j \in Issues \ {i} : Owned(j)'
    BY <1>3, <2>1, OwnedKept
  <2> QED
    BY <2>1, <2>2, <2>3, MoverOwns DEF InHand
<1>20. CASE ResetAssignee(w)
  <2> DEFINE i == job[w].issue
  <2>1. /\ pc[w] = "unassign" /\ i \in Issues
        /\ assigned'[i] = FALSE /\ \A j \in Issues \ {i} : assigned'[j] = assigned[j]
        /\ pc'[w] = "unlabel" /\ job'[w].issue = i
        /\ job'[w].drop = job[w].seen.labels
        /\ UNCHANGED item
    BY <1>0, <1>20, ResetAssigneeEffect
  <2>2. LabelsKnown(w)'
    BY <1>0, <2>1 DEF LabelsKnown
  <2>3. \A j \in Issues \ {i} : Owned(j)'
    BY <1>3, <2>1, OwnedKept
  <2> QED
    BY <2>1, <2>2, <2>3, MoverOwns DEF InHand
<1>21. CASE ResetDone(w)
  <2>1. /\ pc[w] = "unlabel" /\ job[w].drop = {} /\ UNCHANGED <<item, assigned>>
        /\ pc'[w] = "idle" /\ job'[w] = NoJob
    BY <1>0, <1>21, EndsEffect DEF ResetDone, tracker
  <2>2. ASSUME NEW i \in Issues, i = job[w].issue PROVE Owned(i)'
    <3>1. /\ item'[i].status = "Todo" /\ item'[i].labels = {} /\ item'[i].stage = "Planning"
          /\ ~ assigned[i] /\ assigned' = assigned
      BY <1>0, <2>1, <2>2 DEF LabelsKnown
    <3>2. assigned'[i] = FALSE
      <4>1. assigned[i] \in BOOLEAN
        BY <1>0 DEF IndInv, TypeOK
      <4> QED
        BY <3>1, <4>1
    <3> QED
      BY <3>1, <3>2, PlanningOwned
  <2> QED
    BY <1>3, <1>6, <2>1, <2>2, OwnedKept, MoverOwns
<1>22. CASE Fail(w)
  <2>1. faults \in Nat /\ faults' = faults + 1
    BY <1>0, <1>22 DEF Fail, IndInv, TypeOK
  <2> QED
    BY <2>1
<1> QED
  BY <1>8, <1>9, <1>10, <1>11, <1>12, <1>13, <1>14, <1>15, <1>16, <1>17, <1>18, <1>19, <1>20,
     <1>21, <1>22 DEF Continue

\* So does every step, until a command dies.
LEMMA OwnershipStep ==
    ASSUME Exclusive, ExclusiveInv, OwnersKnown, [Next]_vars
    PROVE  OwnersKnown'
<1> SUFFICES ASSUME faults' = 0 PROVE OwnershipInv'
  BY DEF OwnersKnown
<1>1. OwnershipInv
  BY FaultsGrow DEF OwnersKnown, ExclusiveInv, IndInv
<1>2. CASE UNCHANGED <<item, assigned, pc, job, view>>
  BY <1>1, <1>2 DEF OwnershipInv, Owned, InHand, LabelsKnown
<1>3. ASSUME NEW w \in Workers, Start(w) \/ Continue(w) \/ Fail(w) PROVE OwnershipInv'
  BY <1>1, <1>3, RunsAlone, OwnershipKept
<1> QED
  BY <1>2, <1>3 DEF Next, vars, HumanComment

\* Ownership is explicit at first.
LEMMA OwnershipInitially == Init => OwnersKnown
<1> SUFFICES ASSUME Init PROVE OwnershipInv
  BY DEF OwnersKnown
<1>1. \A w \in Workers : pc[w] = "idle" /\ job[w].command = "none"
  BY DEF Init, NoJob
<1>2. \A i \in Issues : /\ item[i].status = "Todo" /\ item[i].stage = "Planning"
                        /\ item[i].labels = {} /\ assigned[i] = FALSE
  BY DEF Init, NewItem
<1> QED
  BY <1>1, <1>2, PlanningOwned DEF OwnershipInv, LabelsKnown

\* When no command runs and none has died, the label, the assignee and the
\* status of every issue agree on who owns it.
THEOREM OwnershipIsExplicit ==
    ASSUME Exclusive
    PROVE  Spec => []OwnershipExplicit
<1>1. ExclusiveInv /\ OwnersKnown /\ [Next]_vars => OwnersKnown'
  BY OwnershipStep
<1>2. OwnersKnown => OwnershipExplicit
  <2> SUFFICES ASSUME OwnershipInv, Quiet, NEW i \in Issues PROVE Owned(i)
    BY DEF OwnersKnown, OwnershipExplicit, Owned
  <2> QED
    BY DEF OwnershipInv, Quiet, InHand
<1>3. Spec => []ExclusiveInv
  BY CopiesStayFresh
<1> QED
  BY OwnershipInitially, <1>1, <1>2, <1>3, PTL DEF Spec
-------------------------------------------------------------------------------
(* One issue per worker: in auto mode `next` claims nothing while it holds an   *)
(* item, and ownership (above) says that what is in progress is selectable.     *)

\* Workers loop on `next` in auto mode and do not claim by hand.
AutoLoop == UsedModes \subseteq {"auto"} /\ "claim" \notin Commands

HoldsOne == faults = 0 => HeldInv

\* In auto mode a claim begins only if the copy shows no item of the worker.
LEMMA ClaimsWhenFree ==
    ASSUME UsedModes \subseteq {"auto"}, IndInv, NEW w \in Workers, Select(w),
           pc'[w] = "claim",
           NEW i \in Issues, view[w][i].stage \in AgentStages
    PROVE  ~ (view[w][i].status = "InProgress" /\ w \in view[w][i].labels)
<1>1. PICK mode \in UsedModes :
        LET candidates == Candidates(Selectable(view[w]), "any", mode, w)
        IN  \/ Return(w) /\ UNCHANGED task
            \/ \E first \in candidates :
                  \/ Gated(w, first.number)
                  \/ Resume(w, first.number)
                  \/ BranchMissing(w, first.number)
                  \/ BeginClaim(w, first.number)
  BY DEF Select
<1>2. mode = "auto"
  BY <1>1
<1>3. ~ Return(w)
  BY DEF Return, IndInv, TypeOK
<1>4. PICK first \in Candidates(Selectable(view[w]), "any", mode, w) : BeginClaim(w, first.number)
  BY <1>1, <1>3 DEF Gated, Resume, BranchMissing
<1>5. first \in Selectable(view[w])
  BY <1>4 DEF Candidates, OwnedItems, EligibleStageItems
<1>6. first.status = view[w][first.number].status
  BY <1>5 DEF Selectable
<1>7. first.status = "Todo"
  BY <1>4, <1>6 DEF BeginClaim
<1>8. OwnedItems(Selectable(view[w]), "auto", w) = {}
  BY <1>2, <1>4, <1>7 DEF Candidates, OwnedItems
<1>9. PICK c \in Selectable(view[w]) :
         /\ c.status = view[w][i].status /\ c.stage = view[w][i].stage
         /\ c.identities = view[w][i].labels
  <2> DEFINE copy == [number |-> i, phase |-> NoPhase, type |-> "task", routing |-> {},
                      blocked |-> FALSE, status |-> view[w][i].status,
                      stage |-> view[w][i].stage, identities |-> view[w][i].labels,
                      linked |-> view[w][i].linked]
  <2>1. copy \in Selectable(view[w])
    BY DEF Selectable
  <2> QED
    BY <2>1
<1>10. StageAction(c.stage) \in ActionsForMode("auto")
  BY <1>9 DEF StageAction, ActionsForMode, Actions, AgentStages
<1> QED
  BY <1>8, <1>9, <1>10 DEF OwnedItems

\* Only the worker that moves needs looking at.
LEMMA MoverHolds ==
    ASSUME NEW w \in Workers, Alone(w)', StatusKnown(w)', OneIssuePerWorker'
    PROVE  HeldInv'
<1>1. NoJob.command = "none"
  BY DEF NoJob
<1>2. \A v \in Workers : StatusKnown(v)'
  BY <1>1 DEF Alone, StatusKnown
<1> QED
  BY <1>2 DEF HeldInv

\* A step that takes no issue up keeps one issue per worker.
LEMMA NothingTaken ==
    ASSUME OneIssuePerWorker,
           \A i \in Issues : \A v \in Workers :
               item'[i].status = "InProgress" /\ v \in item'[i].labels =>
               item[i].status = "InProgress" /\ v \in item[i].labels
    PROVE  OneIssuePerWorker' /\ \A v \in Workers : Held(v)' \subseteq Held(v)
  BY DEF OneIssuePerWorker, Held

\* The worker that moves takes an issue up only if it holds none.
LEMMA HeldKept ==
    ASSUME AutoLoop, ExclusiveInv, NEW w \in Workers, Start(w) \/ Continue(w) \/ Fail(w),
           Alone(w), Alone(w)', OwnershipInv, HeldInv, faults' = 0
    PROVE  HeldInv'
<1> USE DEF NothingWritten
<1>0. /\ IndInv /\ SignalGrounded(w) /\ FreshCopy(w) /\ LabelsKnown(w) /\ StatusKnown(w)
      /\ OneIssuePerWorker
  BY DEF ExclusiveInv, OwnershipInv, HeldInv
<1>1. pc[w] \notin {"release", "relabel", "unassign", "unlabel"} => \A i \in Issues : Owned(i)
  BY DEF OwnershipInv, Alone, InHand
<1>2. NoJob.command = "none"
  BY DEF NoJob
\* A call that claims nothing
<1>3. ASSUME \A i \in Issues : \A v \in Workers :
               item'[i].status = "InProgress" /\ v \in item'[i].labels =>
               item[i].status = "InProgress" /\ v \in item[i].labels,
             StatusKnown(w)'
      PROVE  HeldInv'
  BY <1>0, <1>3, NothingTaken, MoverHolds
<1>4. ASSUME pc'[w] = "idle", job'[w] = NoJob PROVE StatusKnown(w)'
  BY <1>2, <1>4 DEF StatusKnown
<1>5. ASSUME NEW stage, Synced(w, stage), UNCHANGED item, pc[w] \in {"comments", "release"}
      PROVE  StatusKnown(w)'
  <2>1. CASE Return(w)
    BY <1>0, <1>4, <2>1, EndsEffect
  <2>2. CASE ~ Return(w)
    <3>1. /\ job[w].command = "next" /\ pc'[w] = "sync"
          /\ \A i \in Issues : view'[w][i].status = view[w][i].status
      BY <1>5, <2>2 DEF Synced
    <3> QED
      BY <1>0, <1>5, <3>1 DEF StatusKnown
  <2> QED
    BY <2>1, <2>2
<1>6. CASE Start(w)
  <2>1. pc[w] = "idle"
    BY <1>6, StartIsIdle
  <2>2. CASE CreatePullRequest(w)
    <3>1. StatusKnown(w)'
      BY <1>0, <1>4, <2>1, <2>2, CreatePullRequestEffect DEF FreshCopy
    <3> QED
      BY <1>0, <1>3, <2>2, <3>1, CreatePullRequestEffect
  <2>3. CASE Starts(w)
    BY <1>0, <1>3, <2>3, StartsEffect DEF StatusKnown, AutoLoop
  <2>4. CASE NextCommand(w)
    BY <1>0, <1>3, <2>4, NextCommandEffect DEF StatusKnown
  <2>5. ASSUME NEW i \in Issues, RecordDecision(w, i) PROVE HeldInv'
    BY <1>0, <1>3, <2>5, RecordDecisionEffect DEF StatusKnown
  <2> QED
    BY <1>0, <1>6, <2>2, <2>3, <2>4, <2>5, StartCases
<1>7. CASE ReadItem(w)
  <2>1. pc[w] = "read"
    BY <1>7 DEF ReadItem
  <2> QED
    BY <1>0, <1>3, <1>7, <2>1, ReadItemEffect DEF StatusKnown
<1>8. CASE NextReadItem(w)
  BY <1>0, <1>3, <1>8, NextReadItemEffect DEF StatusKnown
<1>9. CASE ReadComments(w)
  <2>1. CASE Synced(w, job[w].seen.stage)
    BY <1>0, <1>3, <1>5, <1>9, <2>1, ReadCommentsEffect
  <2>2. CASE ~ Synced(w, job[w].seen.stage)
    <3>1. /\ pc[w] = "comments" /\ pc'[w] = "patch" /\ UNCHANGED <<item, view>>
          /\ job'[w].command = job[w].command
      BY <1>0, <1>9, <2>2, ReadCommentsEffect
    <3> QED
      BY <1>0, <1>3, <3>1 DEF StatusKnown
  <2> QED
    BY <2>1, <2>2
<1>10. CASE PatchTransition(w)
  <2> DEFINE i == job[w].issue
  <2>1. /\ pc[w] = "patch" /\ i \in Issues /\ item'[i].status = "Todo"
        /\ \A j \in Issues \ {i} : item'[j] = item[j]
        /\ pc'[w] = "release" /\ job'[w].command = job[w].command /\ UNCHANGED view
    BY <1>0, <1>10, PatchEffect
  <2>2. job[w].command = "next" => item[i].status = "Todo"
    BY <1>0, <2>1 DEF SignalGrounded, FreshCopy, SameStage, IndInv, HumanStagesAreQueued
  <2>3. StatusKnown(w)'
    BY <1>0, <2>1, <2>2 DEF StatusKnown
  <2> QED
    BY <1>3, <2>1, <2>3
<1>11. CASE RemoveLabel(w)
  <2> DEFINE i == job[w].issue
  <2>1. /\ i \in Issues /\ item'[i].labels \subseteq item[i].labels
        /\ \A j \in Issues : item'[j].status = item[j].status
        /\ \A j \in Issues \ {i} : item'[j] = item[j]
        /\ job'[w].issue = i /\ job'[w].command = job[w].command
        /\ pc[w] \in {"release", "relabel", "unlabel"} /\ UNCHANGED <<pc, view>>
    BY <1>0, <1>11, RemoveLabelEffect
  <2>2. Held(w)' \subseteq Held(w)
    BY <1>0, <2>1, NothingTaken
  <2>3. StatusKnown(w)'
    BY <1>0, <2>1, <2>2 DEF StatusKnown
  <2> QED
    BY <1>3, <2>1, <2>3
<1>12. CASE AssignOwner(w)
  <2>1. /\ pc[w] = "release" /\ UNCHANGED item
        /\ \/ pc'[w] = "publish" /\ UNCHANGED <<job, view>>
           \/ Synced(w, Decision(w).stage)
    BY <1>0, <1>12, AssignOwnerEffect
  <2>2. StatusKnown(w)'
    <3>1. CASE pc'[w] = "publish" /\ UNCHANGED <<job, view>>
      BY <3>1 DEF StatusKnown
    <3> QED
      BY <1>5, <2>1, <3>1
  <2> QED
    BY <1>3, <2>1, <2>2
<1>13. CASE PublishPlan(w)
  BY <1>0, <1>3, <1>4, <1>13, PublishPlanEffect
<1>14. CASE Select(w)
  <2>1. /\ pc[w] = "sync" /\ UNCHANGED item
        /\ \/ pc'[w] = "idle" /\ job'[w] = NoJob
           \/ /\ pc'[w] = "claim" /\ job'[w].issue \in Issues
              /\ job'[w].command = job[w].command
              /\ job'[w].seen = view[w][job'[w].issue]
              /\ job'[w].seen.status = "Todo"
    BY <1>0, <1>14, SelectEffect
  <2>2. /\ job[w].command = "next"
        /\ \A i \in Issues : /\ view[w][i].stage = item[i].stage
                             /\ view[w][i].labels = item[i].labels
                             /\ view[w][i].status = item[i].status
    BY <1>0, <2>1 DEF FreshCopy, LabelsKnown, StatusKnown
  <2>3. CASE pc'[w] = "claim"
    <3>1. ASSUME NEW i \in Issues, item[i].status = "InProgress"
          PROVE  w \notin item[i].labels
      <4>1. item[i].stage \in AgentStages
        BY <1>1, <2>1, <3>1 DEF Owned
      <4> QED
        BY <1>0, <1>14, <2>2, <2>3, <3>1, <4>1, ClaimsWhenFree DEF AutoLoop
    <3>2. Held(w)' = {}
      BY <2>1, <3>1 DEF Held
    <3>3. item'[job'[w].issue].status = "Todo"
      BY <2>1, <2>2, <2>3
    <3>4. StatusKnown(w)'
      BY <2>3, <3>2, <3>3 DEF StatusKnown
    <3> QED
      BY <1>3, <2>1, <3>4
  <2> QED
    BY <1>3, <1>4, <2>1, <2>3
<1>15. CASE ClaimPatch(w)
  <2> DEFINE i == job[w].issue
  <2>1. /\ pc[w] = "claim" /\ i \in Issues /\ item'[i].labels = item[i].labels
        /\ \A j \in Issues \ {i} : item'[j] = item[j]
        /\ pc'[w] = "relabel" /\ job'[w].issue = i
    BY <1>0, <1>15, ClaimPatchEffect
  <2>2. item[i].labels = {} /\ Held(w) = {}
    BY <1>0, <1>1, <2>1 DEF StatusKnown, Owned
  <2>3. OneIssuePerWorker' /\ Held(w)' \subseteq Held(w)
    BY <1>0, <2>1, <2>2, NothingTaken
  <2>4. StatusKnown(w)'
    BY <2>1, <2>2, <2>3 DEF StatusKnown
  <2> QED
    BY <2>3, <2>4, MoverHolds
<1>16. CASE AddOwnLabel(w)
  <2> DEFINE i == job[w].issue
  <2>1. /\ pc[w] = "relabel" /\ job[w].drop = {} /\ i \in Issues
        /\ item'[i].labels = item[i].labels \union {w}
        /\ \A j \in Issues \ {i} : item'[j] = item[j]
        /\ pc'[w] = "idle" /\ job'[w] = NoJob
    BY <1>0, <1>16, AddOwnLabelEffect
  <2>2. item[i].labels \ {w} = {} /\ Held(w) \subseteq {i}
    BY <1>0, <2>1 DEF LabelsKnown, StatusKnown
  <2>3. OneIssuePerWorker'
    <3> SUFFICES ASSUME NEW v \in Workers, NEW j \in Issues, NEW k \in Issues,
                        item'[j].status = "InProgress", v \in item'[j].labels,
                        item'[k].status = "InProgress", v \in item'[k].labels
                 PROVE  j = k
      BY DEF OneIssuePerWorker
    <3>1. CASE v = w
      BY <2>1, <2>2, <3>1 DEF Held
    <3>2. CASE v # w
      BY <1>0, <2>1, <2>2, <3>2 DEF OneIssuePerWorker
    <3> QED
      BY <3>1, <3>2
  <2> QED
    BY <1>4, <2>1, <2>3, MoverHolds
<1>17. CASE ResetPatch(w)
  <2>1. /\ job[w].issue \in Issues /\ item'[job[w].issue].status = "Todo"
        /\ \A j \in Issues \ {job[w].issue} : item'[j] = item[j]
        /\ pc'[w] = "unassign"
    BY <1>0, <1>17, ResetPatchEffect
  <2> QED
    BY <1>3, <2>1 DEF StatusKnown
<1>18. CASE ResetAssignee(w)
  BY <1>0, <1>3, <1>18, ResetAssigneeEffect DEF StatusKnown
<1>19. CASE ResetDone(w)
  BY <1>0, <1>3, <1>4, <1>19, EndsEffect DEF ResetDone, tracker
<1>20. CASE Fail(w)
  <2>1. faults \in Nat /\ faults' = faults + 1
    BY <1>0, <1>20 DEF Fail, IndInv, TypeOK
  <2> QED
    BY <2>1
<1> QED
  BY <1>6, <1>7, <1>8, <1>9, <1>10, <1>11, <1>12, <1>13, <1>14, <1>15, <1>16, <1>17, <1>18,
     <1>19, <1>20 DEF Continue

\* So does every step, until a command dies.
LEMMA HeldStep ==
    ASSUME Exclusive, AutoLoop, ExclusiveInv, OwnersKnown, HoldsOne, [Next]_vars
    PROVE  HoldsOne'
<1> SUFFICES ASSUME faults' = 0 PROVE HeldInv'
  BY DEF HoldsOne
<1>1. OwnershipInv /\ HeldInv
  BY FaultsGrow DEF OwnersKnown, HoldsOne, ExclusiveInv, IndInv
<1>2. CASE UNCHANGED <<item, pc, job, view>>
  BY <1>1, <1>2 DEF HeldInv, OneIssuePerWorker, StatusKnown, Held
<1>3. ASSUME NEW w \in Workers, Start(w) \/ Continue(w) \/ Fail(w) PROVE HeldInv'
  BY <1>1, <1>3, RunsAlone, HeldKept
<1> QED
  BY <1>2, <1>3 DEF Next, vars, HumanComment

\* Nobody holds an issue at first.
LEMMA HeldInitially == Init => HoldsOne
<1> SUFFICES ASSUME Init PROVE HeldInv
  BY DEF HoldsOne
<1>1. \A w \in Workers : pc[w] = "idle" /\ job[w].command = "none"
  BY DEF Init, NoJob
<1>2. \A i \in Issues : item[i].status = "Todo"
  BY DEF Init, NewItem
<1> QED
  BY <1>1, <1>2 DEF HeldInv, OneIssuePerWorker, StatusKnown

\* Workers that loop on `next` in auto mode hold one issue at a time, until a
\* command dies.
THEOREM LoopHoldsOneIssue ==
    ASSUME Exclusive, AutoLoop
    PROVE  Spec => [](faults = 0 => OneIssuePerWorker)
<1>1. ExclusiveInv /\ OwnersKnown /\ [Next]_vars => OwnersKnown'
  BY OwnershipStep
<1>2. ExclusiveInv /\ OwnersKnown /\ HoldsOne /\ [Next]_vars => HoldsOne'
  BY HeldStep
<1>3. HoldsOne => (faults = 0 => OneIssuePerWorker)
  BY DEF HoldsOne, HeldInv
<1>4. Spec => []ExclusiveInv
  BY CopiesStayFresh
<1> QED
  BY OwnershipInitially, HeldInitially, <1>1, <1>2, <1>3, <1>4, PTL DEF Spec

\* With no command dying at all, they always do.
THEOREM OneIssueAtATime ==
    ASSUME Exclusive, AutoLoop, MaxFaults = 0
    PROVE  Spec => []OneIssuePerWorker
<1> DEFINE NoneDied == faults = 0
<1>1. NoneDied /\ [Next]_vars => NoneDied'
  BY OnlyFailCounts DEF Fail
<1>2. Init => NoneDied
  BY DEF Init
<1>3. Spec => [](NoneDied => OneIssuePerWorker)
  BY LoopHoldsOneIssue
<1> HIDE DEF NoneDied
<1> QED
  BY <1>1, <1>2, <1>3, PTL DEF Spec
=============================================================================
