------------------------ MODULE AgentWorkflow_proofs ------------------------
(***************************************************************************)
(* Proofs about AgentWorkflow, for any number of issues and workers, any   *)
(* mix of commands, overlapping or not, and any number of comments, plans  *)
(* and commands that die.  The argument is the inductive invariant IndInv: *)
(* its last conjunct says, worker by worker, what a command may believe    *)
(* about an issue it read earlier.                                         *)
(***************************************************************************)
EXTENDS AgentWorkflow, TLAPS

-------------------------------------------------------------------------------
(* Operators *)

\* A comment added to a log is typed and withdraws no approval
\* (approval comments are never edited or deleted by the helper).
LEMMA ApprovedGrows ==
    ASSUME NEW log \in Seq(CommentBodies), NEW body \in CommentBodies
    PROVE  /\ Append(log, body) \in Seq(CommentBodies)
           /\ Approved(log) => Approved(Append(log, body))
           /\ body = "approved" => Approved(Append(log, body))
<1>1. /\ Append(log, body) \in Seq(CommentBodies)
      /\ DOMAIN log = 1 .. Len(log) /\ Len(log) \in Nat
      /\ DOMAIN Append(log, body) = 1 .. Len(log) + 1
      /\ \A k \in 1 .. Len(log) : Append(log, body)[k] = log[k]
      /\ Append(log, body)[Len(log) + 1] = body
  OBVIOUS
<1>2. \A k \in DOMAIN log : k \in DOMAIN Append(log, body) /\ Append(log, body)[k] = log[k]
  BY <1>1
<1>3. Len(log) + 1 \in DOMAIN Append(log, body)
  BY <1>1
<1> QED
  BY <1>1, <1>2, <1>3 DEF Approved

\* approval_from_comments answers with one of the decisions; "approved" only if
\* the approver wrote it.
LEMMA LatestReplyFacts ==
    ASSUME NEW log \in Seq(CommentBodies)
    PROVE  /\ LatestReply(log) \in CommentBodies \union {"none"}
           /\ LatestReply(log) = "approved" => Approved(log)
<1>1. CASE log = <<>>
  BY <1>1 DEF LatestReply
<1>2. CASE log # <<>>
  <2>1. Len(log) \in DOMAIN log /\ log[Len(log)] \in CommentBodies
    BY <1>2
  <2> QED
    BY <1>2, <2>1 DEF LatestReply, Approved
<1> QED
  BY <1>1, <1>2

\* _approval_event names a human signal or nothing.
LEMMA ApprovalEventFacts ==
    ASSUME NEW reply
    PROVE  /\ ApprovalEvent(reply) \in HumanSignals \union {"none"}
           /\ ApprovalEvent(reply) = "human-approved" => reply = "approved"
  BY DEF ApprovalEvent, HumanSignals

\* transition_workflow enters Implementation and what follows it only from
\* there or by the approver's approval.
LEMMA NextStageFacts ==
    ASSUME NEW stage, NEW signal, NEW route, IsTransition(stage, signal, route)
    PROVE  /\ NextStage(stage, signal, route) \in Stages
           /\ NextStage(stage, signal, route) \in PastApproval =>
                  stage \in PastApproval \/ signal = "human-approved"
<1> DEFINE chosen == CHOOSE row \in TransitionTable(route) : row.stage = stage /\ row.signal = signal
<1>1. chosen \in TransitionTable(route) /\ chosen.stage = stage /\ chosen.signal = signal
  BY DEF IsTransition
<1>2. ASSUME NEW row \in TransitionTable(route)
      PROVE  /\ row.next \in Stages
             /\ row.next \in PastApproval =>
                    row.stage \in PastApproval \/ row.signal = "human-approved"
  <2>1. row.next \in Stages
    BY DEF TransitionTable, Row, Stages, AgentStages, HumanStages
  <2>2. row.stage = "PlanApproval" /\ row.next = "Implementation" => row.signal = "human-approved"
    BY DEF TransitionTable, Row
  <2>3. \/ row.next \notin PastApproval
        \/ row.stage \in PastApproval
        \/ row.stage = "PlanApproval" /\ row.next = "Implementation"
    BY DEF TransitionTable, Row, PastApproval
  <2> QED
    BY <2>2, <2>1, <2>3
<1>3. NextStage(stage, signal, route) = chosen.next
  BY DEF NextStage
<1> QED
  BY <1>1, <1>2, <1>3

\* sync_approval never asks transition_workflow for a decision it refuses.
LEMMA SignalAppliesFacts ==
    ASSUME NEW event \in HumanSignals \union {"none"}, NEW stage, NEW route,
           SignalApplies(event, stage)
    PROVE  event \in HumanSignals /\ IsTransition(stage, event, route)
  BY DEF SignalApplies, HumanSignals, HumanStages, IsTransition, TransitionTable, Row

\* The stages and signals the model tells apart.
LEMMA StageFacts ==
    /\ AgentStages \subseteq Stages /\ HumanStages \subseteq Stages
    /\ AgentStages \cap HumanStages = {}
    /\ "Planning" \in AgentStages /\ "Planning" \notin PastApproval
    /\ "Implementation" \in AgentStages
    /\ HumanSignals \subseteq Signals /\ AgentSignals \subseteq Signals
    /\ "human-approved" \notin AgentSignals \union {"none"}
  BY DEF Stages, AgentStages, HumanStages, PastApproval, Signals, HumanSignals, AgentSignals

\* Every stage has an action of the policy, or none.
LEMMA StageActionFacts ==
    ASSUME NEW stage
    PROVE  StageAction(stage) \in Actions \union {"none"}
  BY DEF StageAction, Actions

\* Where the helper starts from is typed.
LEMMA DefaultsTyped ==
    /\ \A r \in ReviewRoutes, q \in BOOLEAN : NewItem(r, q) \in Items
    /\ NoItem \in Items
    /\ NoJob \in Jobs
    /\ NoView \in [Issues -> Items]
    /\ NoTask \in [issue : Issues \union {0}, action : Actions \union {"none"}]
<1>1. \A r \in ReviewRoutes, q \in BOOLEAN : NewItem(r, q) \in Items
  BY DEF NewItem, Items, Statuses, Stages, AgentStages
<1>2. NoItem \in Items
  BY <1>1 DEF NoItem, ReviewRoutes
<1>3. NoJob \in Jobs
  BY <1>2 DEF NoJob, Jobs
<1> QED
  BY <1>1, <1>2, <1>3 DEF NoView, NoTask

-------------------------------------------------------------------------------
(* Types *)

\* Where the processes start from is typed.
LEMMA InitTyped == Init => TypeOK
<1> SUFFICES ASSUME Init PROVE TypeOK
  OBVIOUS
<1>1. item \in [Issues -> Items]
  BY DefaultsTyped, WorkflowAssumption DEF Init
<1>2. comments \in [Issues -> Seq(CommentBodies)]
  BY DEF Init
<1>3. /\ assigned \in [Issues -> BOOLEAN]
      /\ answered \in [Issues -> Nat]
      /\ pc \in [Workers -> Calls]
      /\ faults \in Nat
  BY DEF Init, Calls
<1>4. /\ job \in [Workers -> Jobs]
      /\ view \in [Workers -> [Issues -> Items]]
      /\ pending \in [Workers -> SUBSET Issues]
      /\ task \in [Workers -> [issue : Issues \union {0}, action : Actions \union {"none"}]]
  BY DefaultsTyped DEF Init
<1> QED
  BY <1>1, <1>2, <1>3, <1>4 DEF TypeOK

\* A command that starts remembers a typed job.
LEMMA BeginTyped ==
    ASSUME TypeOK, NEW w \in Workers, NEW command \in CommandNames, NEW i \in Issues,
           NEW signal \in Signals \union {"none"}, NEW next \in Calls,
           Begin(w, command, i, signal, next)
    PROVE  pc' \in [Workers -> Calls] /\ job' \in [Workers -> Jobs]
<1>1. [NoJob EXCEPT !.command = command, !.issue = i, !.seen = item[i], !.signal = signal] \in Jobs
  BY DefaultsTyped DEF Jobs, TypeOK, NoJob
<1> QED
  BY <1>1 DEF Begin, TypeOK

\* Returning keeps the types of what a worker remembers;
LEMMA ReturnTyped ==
    ASSUME TypeOK, NEW w \in Workers, Return(w)
    PROVE  /\ pc' \in [Workers -> Calls] /\ job' \in [Workers -> Jobs]
           /\ view' \in [Workers -> [Issues -> Items]]
           /\ pending' \in [Workers -> SUBSET Issues]
  BY DefaultsTyped DEF Return, TypeOK, Calls

\* A patch of Project fields, and of a label set, keeps items typed.
LEMMA PatchTyped ==
    ASSUME NEW copy \in [Issues -> Items], NEW i \in Issues
    PROVE  /\ \A stage \in Stages : [copy EXCEPT ![i].stage = stage] \in [Issues -> Items]
           /\ \A status \in Statuses, stage \in Stages :
                  [copy EXCEPT ![i].status = status, ![i].stage = stage] \in [Issues -> Items]
           /\ [copy EXCEPT ![i].status = "Todo", ![i].stage = "Planning", ![i].route = "HumanOnly"]
                  \in [Issues -> Items]
           /\ \A labels \in SUBSET Workers :
                  [copy EXCEPT ![i].labels = labels] \in [Issues -> Items]
           /\ [copy EXCEPT ![i].linked = TRUE] \in [Issues -> Items]
<1>0. /\ copy[i] \in Items
      /\ "Todo" \in Statuses /\ "Planning" \in Stages /\ "HumanOnly" \in ReviewRoutes
  BY DEF Statuses, Stages, AgentStages, ReviewRoutes
<1>1. /\ \A stage \in Stages : [copy[i] EXCEPT !.stage = stage] \in Items
      /\ \A status \in Statuses, stage \in Stages :
             [copy[i] EXCEPT !.status = status, !.stage = stage] \in Items
      /\ [copy[i] EXCEPT !.status = "Todo", !.stage = "Planning", !.route = "HumanOnly"] \in Items
      /\ \A labels \in SUBSET Workers : [copy[i] EXCEPT !.labels = labels] \in Items
      /\ [copy[i] EXCEPT !.linked = TRUE] \in Items
  BY <1>0 DEF Items
<1> QED
  BY <1>1

\* so does going on after a sync.
LEMMA AfterSyncTyped ==
    ASSUME TypeOK, NEW w \in Workers, job[w].issue \in Issues, NEW stage \in Stages,
           AfterSync(w, stage)
    PROVE  /\ pc' \in [Workers -> Calls] /\ job' \in [Workers -> Jobs]
           /\ view' \in [Workers -> [Issues -> Items]]
           /\ pending' \in [Workers -> SUBSET Issues]
<1>1. CASE job[w].command = "next"
  <2>1. [NoJob EXCEPT !.command = "next"] \in Jobs
    BY DefaultsTyped DEF Jobs, CommandNames
  <2>2. [view[w] EXCEPT ![job[w].issue].stage = stage] \in [Issues -> Items]
    <3>1. view[w] \in [Issues -> Items]
      BY DEF TypeOK
    <3> QED
      BY <3>1, PatchTyped
  <2>3. view' \in [Workers -> [Issues -> Items]]
    <3>1. view' = [view EXCEPT ![w] = [view[w] EXCEPT ![job[w].issue].stage = stage]]
      BY <1>1 DEF AfterSync
    <3> QED
      BY <2>2, <3>1 DEF TypeOK
  <2>4. pending' \in [Workers -> SUBSET Issues]
    <3>1. pending' = [pending EXCEPT ![w] = @ \ {job[w].issue}]
      BY <1>1 DEF AfterSync
    <3> QED
      BY <3>1 DEF TypeOK
  <2>5. job' \in [Workers -> Jobs]
    BY <1>1, <2>1 DEF AfterSync, TypeOK
  <2>6. pc' \in [Workers -> Calls]
    BY <1>1 DEF AfterSync, TypeOK, Calls
  <2> QED
    BY <2>3, <2>4, <2>5, <2>6
<1>2. CASE job[w].command # "next"
  BY <1>2, ReturnTyped DEF AfterSync
<1> QED
  BY <1>1, <1>2

\* The decision about to be written is one of the stage machine.
LEMMA DecisionFacts ==
    ASSUME NEW w \in Workers, WritesLegalTransition(w), pc[w] \in {"patch", "release"}
    PROVE  /\ Decision(w).stage \in Stages
           /\ Decision(w).status = "Todo"
           /\ Decision(w).stage \in PastApproval =>
                  job[w].seen.stage \in PastApproval \/ job[w].signal = "human-approved"
<1>1. IsTransition(job[w].seen.stage, job[w].signal, job[w].seen.route)
  BY DEF WritesLegalTransition
<1>2. /\ Decision(w).stage = NextStage(job[w].seen.stage, job[w].signal, job[w].seen.route)
      /\ Decision(w).status = "Todo"
  BY DEF Decision, TransitionWorkflow
<1> QED
  BY <1>1, <1>2, NextStageFacts

\* Selection returns, with or without an item to resume, or begins to claim an
\* item that its copy shows in a stage agents own.
LEMMA SelectCases ==
    ASSUME NEW w \in Workers, Select(w)
    PROVE  \/ Return(w) /\ UNCHANGED task
           \/ \E i \in Issues :
                 Resume(w, i) \/ (BeginClaim(w, i) /\ view[w][i].stage \in AgentStages)
<1>1. PICK mode \in UsedModes :
        LET candidates == Candidates(Selectable(view[w]), "any", mode, w)
        IN  \/ Return(w) /\ UNCHANGED task
            \/ \E first \in candidates :
                  \/ Gated(w, first.number)
                  \/ Resume(w, first.number)
                  \/ BranchMissing(w, first.number)
                  \/ BeginClaim(w, first.number)
  BY DEF Select
<1>2. ASSUME NEW c \in Candidates(Selectable(view[w]), "any", mode, w)
      PROVE  /\ c.number \in Issues /\ c.status = view[w][c.number].status
             /\ c.status = "Todo" => view[w][c.number].stage \in AgentStages
  <2>1. c \in Selectable(view[w])
    BY DEF Candidates, OwnedItems, EligibleStageItems
  <2>2. /\ c.number \in Issues /\ c.status = view[w][c.number].status
        /\ c.stage = view[w][c.number].stage
    BY <2>1 DEF Selectable
  <2>3. c.status = "Todo" => c.stage \in AgentStages
    BY DEF Candidates, OwnedItems, EligibleStageItems
  <2> QED
    BY <2>2, <2>3
<1>3. CASE Return(w) /\ UNCHANGED task
  BY <1>3
<1>4. ASSUME NEW c \in Candidates(Selectable(view[w]), "any", mode, w),
             \/ Gated(w, c.number) \/ Resume(w, c.number)
             \/ BranchMissing(w, c.number) \/ BeginClaim(w, c.number)
      PROVE  \/ Return(w) /\ UNCHANGED task
             \/ \E i \in Issues :
                   Resume(w, i) \/ (BeginClaim(w, i) /\ view[w][i].stage \in AgentStages)
  <2>1. CASE Resume(w, c.number)
    BY <1>2, <2>1
  <2>2. CASE Gated(w, c.number) \/ BranchMissing(w, c.number)
    BY <2>2 DEF Gated, BranchMissing
  <2>3. CASE BeginClaim(w, c.number)
    <3>1. view[w][c.number].status = "Todo"
      BY <2>3 DEF BeginClaim
    <3> QED
      BY <1>2, <2>3, <3>1
  <2> QED
    BY <1>4, <2>1, <2>2, <2>3
<1> QED
  BY <1>1, <1>3, <1>4

\* Every step keeps the variables typed.
LEMMA StepTyped == IndInv /\ Next => TypeOK'
<1> SUFFICES ASSUME IndInv, Next PROVE TypeOK'
  OBVIOUS
<1> USE DEF tracker, nextVars
<1>0. TypeOK /\ \A w \in Workers : WorkerInv(w)
  BY DEF IndInv
<1>1. \A w \in Workers : /\ pc[w] \notin {"idle", "sync"} => job[w].issue \in Issues
                         /\ task[w].action # "none" => task[w].issue \in Issues
                         /\ WritesLegalTransition(w)
  BY <1>0 DEF WorkerInv, AddressesIssue, TaskNamesIssue
<1>2. ASSUME NEW i \in Issues, HumanComment(i) PROVE TypeOK'
  <2>1. PICK reply \in Replies : Comment(i, reply)
    BY <1>2 DEF HumanComment
  <2>2. Append(comments[i], reply) \in Seq(CommentBodies)
    BY <1>0, ApprovedGrows, WorkflowAssumption DEF CommentBodies, TypeOK
  <2>3. comments' \in [Issues -> Seq(CommentBodies)]
    BY <1>0, <2>1, <2>2 DEF Comment, TypeOK
  <2> QED
    BY <1>0, <1>2, <2>3 DEF HumanComment, TypeOK
<1>3. ASSUME NEW w \in Workers, NEW i \in Issues, ApprovalCommand(w, i) PROVE TypeOK'
  <2>1. pc' \in [Workers -> Calls] /\ job' \in [Workers -> Jobs]
    BY <1>0, <1>3, BeginTyped DEF ApprovalCommand, CommandNames, Calls
  <2> QED
    BY <1>0, <1>3, <2>1 DEF ApprovalCommand, TypeOK
<1>4. ASSUME NEW w \in Workers, NEW i \in Issues, RecordDecision(w, i) PROVE TypeOK'
  <2>1. PICK reply \in Replies : Comment(i, reply)
    BY <1>4 DEF RecordDecision
  <2>2. Append(comments[i], reply) \in Seq(CommentBodies)
    BY <1>0, ApprovedGrows, WorkflowAssumption DEF CommentBodies, TypeOK
  <2>3. comments' \in [Issues -> Seq(CommentBodies)]
    BY <1>0, <2>1, <2>2 DEF Comment, TypeOK
  <2>4. [NoJob EXCEPT !.command = "approval", !.issue = i] \in Jobs
    BY DefaultsTyped DEF Jobs, CommandNames
  <2>5. job' \in [Workers -> Jobs]
    BY <1>0, <1>4, <2>4 DEF RecordDecision, TypeOK
  <2>6. pc' \in [Workers -> Calls]
    BY <1>0, <1>4 DEF RecordDecision, TypeOK, Calls
  <2> QED
    BY <1>0, <1>4, <2>3, <2>5, <2>6 DEF RecordDecision, TypeOK
<1>5. ASSUME NEW w \in Workers, NEW i \in Issues, RevisePlan(w, i) PROVE TypeOK'
  <2>1. pc' \in [Workers -> Calls] /\ job' \in [Workers -> Jobs]
    BY <1>0, <1>5, BeginTyped DEF RevisePlan, CommandNames, Calls
  <2> QED
    BY <1>0, <1>5, <2>1 DEF RevisePlan, TypeOK
<1>6. ASSUME NEW w \in Workers, NEW i \in Issues, ClaimCommand(w, i) PROVE TypeOK'
  <2>1. pc' \in [Workers -> Calls] /\ job' \in [Workers -> Jobs]
    BY <1>0, <1>6, BeginTyped DEF ClaimCommand, CommandNames, Calls
  <2> QED
    BY <1>0, <1>6, <2>1 DEF ClaimCommand, TypeOK
<1>7. ASSUME NEW w \in Workers, NEW i \in Issues, ResetCommand(w, i) PROVE TypeOK'
  <2>1. pc' \in [Workers -> Calls] /\ job' \in [Workers -> Jobs]
    BY <1>0, <1>7, BeginTyped DEF ResetCommand, CommandNames, Calls
  <2> QED
    BY <1>0, <1>7, <2>1 DEF ResetCommand, TypeOK
<1>8. ASSUME NEW w \in Workers, PostPlan(w) PROVE TypeOK'
  <2>1. task[w].issue \in Issues
    BY <1>1, <1>8 DEF PostPlan
  <2>2. Begin(w, "post-plan", task[w].issue, "plan-posted", "patch")
    BY <1>8 DEF PostPlan
  <2>3. "post-plan" \in CommandNames /\ "plan-posted" \in Signals \union {"none"} /\ "patch" \in Calls
    BY DEF CommandNames, Signals, AgentSignals, Calls
  <2>4. pc' \in [Workers -> Calls] /\ job' \in [Workers -> Jobs]
    BY <1>0, <2>1, <2>2, <2>3, BeginTyped
  <2> QED
    BY <1>0, <1>8, <2>4 DEF PostPlan, TypeOK
<1>9. ASSUME NEW w \in Workers, StageReview(w) PROVE TypeOK'
  <2>1. task[w].issue \in Issues
    BY <1>1, <1>9 DEF StageReview
  <2>2. PICK signal \in {"review-ready", "review-changes"} :
          Begin(w, "stage-review", task[w].issue, signal, "patch")
    BY <1>9 DEF StageReview
  <2>3. "stage-review" \in CommandNames /\ signal \in Signals \union {"none"} /\ "patch" \in Calls
    BY DEF CommandNames, Signals, AgentSignals, Calls
  <2>4. pc' \in [Workers -> Calls] /\ job' \in [Workers -> Jobs]
    BY <1>0, <2>1, <2>2, <2>3, BeginTyped
  <2> QED
    BY <1>0, <1>9, <2>4 DEF StageReview, TypeOK
<1>10. ASSUME NEW w \in Workers, CreatePullRequest(w) PROVE TypeOK'
  <2>1. task[w].issue \in Issues
    BY <1>1, <1>10 DEF CreatePullRequest
  <2>2. item' \in [Issues -> Items]
    BY <1>0, <1>10, <2>1, PatchTyped DEF CreatePullRequest, TypeOK
  <2> QED
    BY <1>0, <1>10, <2>2 DEF CreatePullRequest, TypeOK
<1>11. ASSUME NEW w \in Workers, Complete(w) PROVE TypeOK'
  <2>1. task[w].issue \in Issues
    BY <1>1, <1>11 DEF Complete
  <2>2. Begin(w, "complete", task[w].issue, "implementation-complete", "patch")
    BY <1>11 DEF Complete
  <2>3. /\ "complete" \in CommandNames /\ "patch" \in Calls
        /\ "implementation-complete" \in Signals \union {"none"}
    BY DEF CommandNames, Signals, AgentSignals, Calls
  <2>4. pc' \in [Workers -> Calls] /\ job' \in [Workers -> Jobs]
    BY <1>0, <2>1, <2>2, <2>3, BeginTyped
  <2> QED
    BY <1>0, <1>11, <2>4 DEF Complete, TypeOK
<1>12. ASSUME NEW w \in Workers, NextCommand(w) PROVE TypeOK'
  <2>1. [NoJob EXCEPT !.command = "next"] \in Jobs
    BY DefaultsTyped DEF Jobs, CommandNames
  <2>2. job' \in [Workers -> Jobs] /\ pc' \in [Workers -> Calls]
    BY <1>0, <1>12, <2>1 DEF NextCommand, TypeOK, Calls
  <2>3. view' \in [Workers -> [Issues -> Items]]
    BY <1>0, <1>12 DEF NextCommand, TypeOK
  <2>4. pending' \in [Workers -> SUBSET Issues]
    BY <1>0, <1>12 DEF NextCommand, TypeOK
  <2>5. task' \in [Workers -> [issue : Issues \union {0}, action : Actions \union {"none"}]]
    BY <1>0, <1>12, DefaultsTyped DEF NextCommand, TypeOK
  <2> QED
    BY <1>0, <1>12, <2>2, <2>3, <2>4, <2>5 DEF NextCommand, TypeOK
<1>13. ASSUME NEW w \in Workers, ReadItem(w) PROVE TypeOK'
  <2>1. [job[w] EXCEPT !.seen = item[job[w].issue]] \in Jobs
    <3>1. job[w] \in Jobs /\ item[job[w].issue] \in Items
      BY <1>0, <1>1, <1>13 DEF ReadItem, TypeOK
    <3> QED
      BY <3>1 DEF Jobs
  <2>2. job' \in [Workers -> Jobs] /\ pc' \in [Workers -> Calls]
    BY <1>0, <1>13, <2>1 DEF ReadItem, TypeOK, Calls
  <2> QED
    BY <1>0, <1>13, <2>2 DEF ReadItem, TypeOK
<1>14. ASSUME NEW w \in Workers, ReadComments(w) PROVE TypeOK'
  <2> DEFINE log == comments[job[w].issue]
             event == ApprovalEvent(LatestReply(log))
  <2>1. job[w].issue \in Issues /\ job[w] \in Jobs /\ log \in Seq(CommentBodies)
    BY <1>0, <1>1, <1>14 DEF ReadComments, TypeOK
  <2>2. CASE SignalApplies(event, job[w].seen.stage)
    <3>1. event \in Signals
      BY <2>2, ApprovalEventFacts, SignalAppliesFacts, StageFacts
    <3>2. Len(log) \in Nat
      BY <2>1
    <3>3. [job[w] EXCEPT !.signal = event, !.at = Len(log)] \in Jobs
      BY <2>1, <3>1, <3>2 DEF Jobs
    <3>4. job' = [job EXCEPT ![w] = [job[w] EXCEPT !.signal = event, !.at = Len(log)]]
      BY <1>14, <2>2 DEF ReadComments
    <3>5. job' \in [Workers -> Jobs]
      BY <1>0, <3>3, <3>4 DEF TypeOK
    <3>6. pc' \in [Workers -> Calls] /\ UNCHANGED nextVars
      BY <1>0, <1>14, <2>2 DEF ReadComments, TypeOK, Calls
    <3> QED
      BY <1>0, <1>14, <3>5, <3>6 DEF ReadComments, TypeOK
  <2>3. CASE ~ SignalApplies(event, job[w].seen.stage)
    <3>1. AfterSync(w, job[w].seen.stage)
      BY <1>14, <2>3 DEF ReadComments
    <3>2. job[w].seen.stage \in Stages
      BY <2>1 DEF Jobs, Items
    <3>3. /\ pc' \in [Workers -> Calls] /\ job' \in [Workers -> Jobs]
          /\ view' \in [Workers -> [Issues -> Items]]
          /\ pending' \in [Workers -> SUBSET Issues]
      BY <1>0, <2>1, <3>1, <3>2, AfterSyncTyped
    <3> QED
      BY <1>0, <1>14, <3>3 DEF ReadComments, TypeOK
  <2> QED
    BY <2>2, <2>3
<1>15. ASSUME NEW w \in Workers, PatchTransition(w) PROVE TypeOK'
  <2>1. /\ job[w].issue \in Issues /\ job[w] \in Jobs
        /\ Decision(w).stage \in Stages /\ Decision(w).status \in Statuses
    BY <1>0, <1>1, <1>15, DecisionFacts DEF PatchTransition, TypeOK, Statuses
  <2>2. item' \in [Issues -> Items]
    <3>1. item' = [item EXCEPT ![job[w].issue].status = Decision(w).status,
                               ![job[w].issue].stage  = Decision(w).stage]
      BY <1>15 DEF PatchTransition
    <3> QED
      BY <1>0, <2>1, <3>1, PatchTyped DEF TypeOK
  <2>3. answered' \in [Issues -> Nat]
    <3>1. job[w].at \in Nat
      BY <2>1 DEF Jobs
    <3> QED
      BY <1>0, <1>15, <3>1 DEF PatchTransition, TypeOK
  <2>4. [job[w] EXCEPT !.drop = job[w].seen.labels] \in Jobs
    BY <2>1 DEF Jobs, Items
  <2>5. job' \in [Workers -> Jobs] /\ pc' \in [Workers -> Calls]
    BY <1>0, <1>15, <2>4 DEF PatchTransition, TypeOK, Calls
  <2> QED
    BY <1>0, <1>15, <2>2, <2>3, <2>5 DEF PatchTransition, TypeOK
<1>16. ASSUME NEW w \in Workers, RemoveLabel(w) PROVE TypeOK'
  <2>1. job[w].issue \in Issues /\ job[w] \in Jobs
    BY <1>0, <1>1, <1>16 DEF RemoveLabel, TypeOK
  <2>2. PICK label \in job[w].drop :
          /\ item' = [item EXCEPT ![job[w].issue].labels = @ \ {label}]
          /\ job' = [job EXCEPT ![w].drop = @ \ {label}]
    BY <1>16 DEF RemoveLabel
  <2>3. item[job[w].issue].labels \ {label} \in SUBSET Workers
    BY <1>0, <2>1 DEF TypeOK, Items
  <2>4. item' = [item EXCEPT ![job[w].issue].labels = item[job[w].issue].labels \ {label}]
    BY <1>0, <2>1, <2>2 DEF TypeOK
  <2>5. item' \in [Issues -> Items]
    BY <1>0, <2>1, <2>3, <2>4, PatchTyped DEF TypeOK
  <2>6. [job[w] EXCEPT !.drop = job[w].drop \ {label}] \in Jobs
    BY <2>1 DEF Jobs
  <2>7. job' = [job EXCEPT ![w] = [job[w] EXCEPT !.drop = job[w].drop \ {label}]]
    BY <1>0, <2>2 DEF TypeOK
  <2>8. job' \in [Workers -> Jobs]
    BY <1>0, <2>6, <2>7 DEF TypeOK
  <2> QED
    BY <1>0, <1>16, <2>5, <2>8 DEF RemoveLabel, TypeOK
<1>17. ASSUME NEW w \in Workers, AssignOwner(w) PROVE TypeOK'
  <2>1. job[w].issue \in Issues /\ Decision(w).stage \in Stages
    BY <1>1, <1>17, DecisionFacts DEF AssignOwner
  <2>2. assigned' \in [Issues -> BOOLEAN]
    BY <1>0, <1>17 DEF AssignOwner, TypeOK
  <2>3. task' \in [Workers -> [issue : Issues \union {0}, action : Actions \union {"none"}]]
    BY <1>0, <1>17, DefaultsTyped DEF AssignOwner, TypeOK
  <2>4. /\ pc' \in [Workers -> Calls] /\ job' \in [Workers -> Jobs]
        /\ view' \in [Workers -> [Issues -> Items]]
        /\ pending' \in [Workers -> SUBSET Issues]
    <3>1. CASE job[w].command = "post-plan"
      BY <1>0, <1>17, <3>1 DEF AssignOwner, TypeOK, Calls
    <3>2. CASE job[w].command # "post-plan"
      BY <1>0, <1>17, <2>1, <3>2, AfterSyncTyped DEF AssignOwner
    <3> QED
      BY <3>1, <3>2
  <2> QED
    BY <1>0, <1>17, <2>2, <2>3, <2>4 DEF AssignOwner, TypeOK
<1>18. ASSUME NEW w \in Workers, PublishPlan(w) PROVE TypeOK'
  <2>1. job[w].issue \in Issues
    BY <1>1, <1>18 DEF PublishPlan
  <2>2. Append(comments[job[w].issue], "plan") \in Seq(CommentBodies)
    BY <1>0, <2>1, ApprovedGrows DEF CommentBodies, TypeOK
  <2>3. comments' \in [Issues -> Seq(CommentBodies)]
    BY <1>0, <1>18, <2>1, <2>2 DEF PublishPlan, Comment, TypeOK
  <2>4. task' \in [Workers -> [issue : Issues \union {0}, action : Actions \union {"none"}]]
    BY <1>0, <1>18, DefaultsTyped DEF PublishPlan, TypeOK
  <2>5. /\ pc' \in [Workers -> Calls] /\ job' \in [Workers -> Jobs]
        /\ view' \in [Workers -> [Issues -> Items]]
        /\ pending' \in [Workers -> SUBSET Issues]
    BY <1>0, <1>18, ReturnTyped DEF PublishPlan
  <2> QED
    BY <1>0, <1>18, <2>3, <2>4, <2>5 DEF PublishPlan, TypeOK
<1>19. ASSUME NEW w \in Workers, NextReadItem(w) PROVE TypeOK'
  <2>1. PICK i \in pending[w] : job' = [job EXCEPT ![w].issue = i, ![w].seen = item[i]]
    BY <1>19 DEF NextReadItem
  <2>2. i \in Issues
    BY <1>0, <2>1 DEF TypeOK
  <2>3. [job[w] EXCEPT !.issue = i, !.seen = item[i]] \in Jobs
    <3>1. job[w] \in Jobs /\ item[i] \in Items
      BY <1>0, <2>2 DEF TypeOK
    <3> QED
      BY <2>2, <3>1 DEF Jobs
  <2>4. job' = [job EXCEPT ![w] = [job[w] EXCEPT !.issue = i, !.seen = item[i]]]
    BY <1>0, <2>1 DEF TypeOK
  <2>5. job' \in [Workers -> Jobs] /\ pc' \in [Workers -> Calls]
    BY <1>0, <1>19, <2>3, <2>4 DEF NextReadItem, TypeOK, Calls
  <2> QED
    BY <1>0, <1>19, <2>5 DEF NextReadItem, TypeOK
<1>20. ASSUME NEW w \in Workers, Select(w) PROVE TypeOK'
  <2>1. CASE Return(w) /\ UNCHANGED task
    BY <1>0, <1>20, <2>1, ReturnTyped DEF Select, TypeOK
  <2>2. ASSUME NEW i \in Issues, Resume(w, i) PROVE TypeOK'
    <3>1. [issue |-> i, action |-> StageAction(view[w][i].stage)]
            \in [issue : Issues \union {0}, action : Actions \union {"none"}]
      BY StageActionFacts
    <3>2. task' \in [Workers -> [issue : Issues \union {0}, action : Actions \union {"none"}]]
      BY <1>0, <2>2, <3>1 DEF Resume, TypeOK
    <3>3. /\ pc' \in [Workers -> Calls] /\ job' \in [Workers -> Jobs]
          /\ view' \in [Workers -> [Issues -> Items]]
          /\ pending' \in [Workers -> SUBSET Issues]
      BY <1>0, <2>2, ReturnTyped DEF Resume
    <3> QED
      BY <1>0, <1>20, <3>2, <3>3 DEF Select, TypeOK
  <2>3. ASSUME NEW i \in Issues, BeginClaim(w, i) PROVE TypeOK'
    <3>1. [job[w] EXCEPT !.issue = i, !.seen = view[w][i]] \in Jobs
      <4>1. job[w] \in Jobs /\ view[w][i] \in Items
        BY <1>0 DEF TypeOK
      <4> QED
        BY <4>1 DEF Jobs
    <3>2. job' = [job EXCEPT ![w] = [job[w] EXCEPT !.issue = i, !.seen = view[w][i]]]
      BY <1>0, <2>3 DEF BeginClaim, TypeOK
    <3>3. job' \in [Workers -> Jobs] /\ pc' \in [Workers -> Calls]
      BY <1>0, <2>3, <3>1, <3>2 DEF BeginClaim, TypeOK, Calls
    <3> QED
      BY <1>0, <1>20, <2>3, <3>3 DEF BeginClaim, Select, TypeOK
  <2>4. \/ Return(w) /\ UNCHANGED task
        \/ \E i \in Issues : Resume(w, i) \/ BeginClaim(w, i)
    BY <1>20, SelectCases
  <2> QED
    BY <2>1, <2>2, <2>3, <2>4
<1>21. ASSUME NEW w \in Workers, ClaimPatch(w) PROVE TypeOK'
  <2>1. /\ job[w].issue \in Issues /\ job[w] \in Jobs
        /\ job[w].seen.stage \in Stages /\ "InProgress" \in Statuses
    BY <1>0, <1>1, <1>21 DEF ClaimPatch, TypeOK, Jobs, Items, Statuses
  <2>2. item' = [item EXCEPT ![job[w].issue].status = "InProgress",
                             ![job[w].issue].stage  = job[w].seen.stage]
    BY <1>21 DEF ClaimPatch
  <2>3. item' \in [Issues -> Items]
    BY <1>0, <2>1, <2>2, PatchTyped DEF TypeOK
  <2>4. [job[w] EXCEPT !.drop = job[w].seen.labels \ {w}] \in Jobs
    BY <2>1 DEF Jobs, Items
  <2>5. job' \in [Workers -> Jobs] /\ pc' \in [Workers -> Calls]
    BY <1>0, <1>21, <2>4 DEF ClaimPatch, TypeOK, Calls
  <2> QED
    BY <1>0, <1>21, <2>3, <2>5 DEF ClaimPatch, TypeOK
<1>22. ASSUME NEW w \in Workers, AddOwnLabel(w) PROVE TypeOK'
  <2>1. job[w].issue \in Issues
    BY <1>1, <1>22 DEF AddOwnLabel
  <2>2. item[job[w].issue].labels \union {w} \in SUBSET Workers
    BY <1>0, <2>1 DEF TypeOK, Items
  <2>3. item' = [item EXCEPT ![job[w].issue].labels = item[job[w].issue].labels \union {w}]
    BY <1>0, <1>22, <2>1 DEF AddOwnLabel, TypeOK
  <2>4. item' \in [Issues -> Items]
    BY <1>0, <2>1, <2>2, <2>3, PatchTyped DEF TypeOK
  <2>5. [issue |-> job[w].issue, action |-> StageAction(job[w].seen.stage)]
          \in [issue : Issues \union {0}, action : Actions \union {"none"}]
    BY <2>1, StageActionFacts
  <2>6. task' \in [Workers -> [issue : Issues \union {0}, action : Actions \union {"none"}]]
    BY <1>0, <1>22, <2>5 DEF AddOwnLabel, TypeOK
  <2>7. /\ pc' \in [Workers -> Calls] /\ job' \in [Workers -> Jobs]
        /\ view' \in [Workers -> [Issues -> Items]]
        /\ pending' \in [Workers -> SUBSET Issues]
    BY <1>0, <1>22, ReturnTyped DEF AddOwnLabel
  <2> QED
    BY <1>0, <1>22, <2>4, <2>6, <2>7 DEF AddOwnLabel, TypeOK
<1>23. ASSUME NEW w \in Workers, ResetPatch(w) PROVE TypeOK'
  <2>1. job[w].issue \in Issues
    BY <1>1, <1>23 DEF ResetPatch
  <2>2. item' \in [Issues -> Items]
    BY <1>0, <1>23, <2>1, PatchTyped DEF ResetPatch, TypeOK
  <2>3. pc' \in [Workers -> Calls]
    BY <1>0, <1>23 DEF ResetPatch, TypeOK, Calls
  <2> QED
    BY <1>0, <1>23, <2>2, <2>3 DEF ResetPatch, TypeOK
<1>24. ASSUME NEW w \in Workers, ResetAssignee(w) PROVE TypeOK'
  <2>1. [job[w] EXCEPT !.drop = job[w].seen.labels] \in Jobs
    <3>1. job[w] \in Jobs /\ job[w].seen.labels \in SUBSET Workers
      BY <1>0 DEF TypeOK, Jobs, Items
    <3> QED
      BY <3>1 DEF Jobs
  <2>2. job' \in [Workers -> Jobs] /\ pc' \in [Workers -> Calls]
    BY <1>0, <1>24, <2>1 DEF ResetAssignee, TypeOK, Calls
  <2>3. assigned' \in [Issues -> BOOLEAN]
    BY <1>0, <1>24 DEF ResetAssignee, TypeOK
  <2> QED
    BY <1>0, <1>24, <2>2, <2>3 DEF ResetAssignee, TypeOK
<1>25. ASSUME NEW w \in Workers, ResetDone(w) PROVE TypeOK'
  BY <1>0, <1>25, ReturnTyped DEF ResetDone, TypeOK
<1>26. ASSUME NEW w \in Workers, Fail(w) PROVE TypeOK'
  BY <1>0, <1>26, ReturnTyped DEF Fail, TypeOK
<1> QED
  BY <1>2, <1>3, <1>4, <1>5, <1>6, <1>7, <1>8, <1>9, <1>10, <1>11, <1>12, <1>13, <1>14,
     <1>15, <1>16, <1>17, <1>18, <1>19, <1>20, <1>21, <1>22, <1>23, <1>24, <1>25, <1>26
     DEF Next, Start, Continue

-------------------------------------------------------------------------------
(* Approvals *)

\* What a step of worker w must show: it withdraws no approval, leaves the other
\* workers alone, and an item it writes is queued or claimed in a stage that
\* item may be in.
ApprovalsKept == \A j \in Issues : Approved(comments[j]) => Approved(comments'[j])

OthersKept(w) ==
    \A v \in Workers \ {w} :
        pc'[v] = pc[v] /\ job'[v] = job[v] /\ view'[v] = view[v] /\ task'[v] = task[v]

ItemsLegal ==
    \A j \in Issues :
        \/ item'[j].stage = item[j].stage /\ item'[j].status = item[j].status
        \/ /\ item'[j].stage \in PastApproval => Approved(comments[j])
           /\ item'[j].stage \in AgentStages \/ item'[j].status = "Todo"

\* No comment withdraws an approval.
LEMMA CommentKeepsApprovals ==
    ASSUME TypeOK, NEW i \in Issues, NEW body \in CommentBodies, Comment(i, body)
    PROVE  ApprovalsKept
<1> SUFFICES ASSUME NEW j \in Issues, Approved(comments[j]) PROVE Approved(comments'[j])
  BY DEF ApprovalsKept
<1>1. CASE j = i
  <2>1. comments[i] \in Seq(CommentBodies) /\ comments'[i] = Append(comments[i], body)
    BY DEF TypeOK, Comment
  <2> QED
    BY <1>1, <2>1, ApprovedGrows
<1>2. CASE j # i
  BY <1>2 DEF TypeOK, Comment
<1> QED
  BY <1>1, <1>2

\* A worker that is idle believes nothing.
LEMMA ReturnedWorker ==
    ASSUME TypeOK, NEW w \in Workers, Return(w), TaskNamesIssue(w)'
    PROVE  WorkerInv(w)'
<1>1. pc'[w] = "idle" /\ job'[w] = NoJob /\ view'[w] = NoView
  BY DEF Return, TypeOK
<1>2. 0 \notin Issues /\ NoJob.issue = 0
  BY WorkflowAssumption DEF NoJob
<1>3. \A i \in Issues : NoView[i].stage \notin PastApproval
  BY DEF NoView, NoItem, NewItem, PastApproval
<1> QED
  BY <1>1, <1>2, <1>3 DEF WorkerInv, AddressesIssue, WritesLegalTransition, ClaimsAgentStage,
     KnowsApproval

\* A worker that begins a command read the tracker just now.
LEMMA BegunWorker ==
    ASSUME TypeOK, ImplementationNeedsApproval,
           NEW w \in Workers, WorkerInv(w), NEW i \in Issues, NEW command,
           NEW signal \in AgentSignals \union {"none"}, NEW next,
           Begin(w, command, i, signal, next), UNCHANGED <<view, task, comments>>,
           next \in {"patch", "release"} => IsTransition(item[i].stage, signal, item[i].route),
           next = "claim" => item[i].stage \in AgentStages
    PROVE  WorkerInv(w)'
<1>1. /\ pc'[w] = next /\ job'[w].issue = i /\ job'[w].seen = item[i]
      /\ job'[w].signal = signal
  BY DEF Begin, TypeOK, NoJob
<1>2. AddressesIssue(w)' /\ TaskNamesIssue(w)'
  BY <1>1 DEF WorkerInv, AddressesIssue, TaskNamesIssue
<1>3. WritesLegalTransition(w)' /\ ClaimsAgentStage(w)'
  BY <1>1 DEF WritesLegalTransition, ClaimsAgentStage
<1>4. KnowsApproval(w)'
  BY <1>1, StageFacts DEF WorkerInv, KnowsApproval, ImplementationNeedsApproval
<1> QED
  BY <1>2, <1>3, <1>4 DEF WorkerInv

\* A worker that ends sync_approval takes its answer into its copy.
LEMMA SyncedWorker ==
    ASSUME TypeOK, NEW w \in Workers, WorkerInv(w), job[w].issue \in Issues,
           NEW stage, stage \in PastApproval => Approved(comments[job[w].issue]),
           AfterSync(w, stage), TaskNamesIssue(w)', UNCHANGED comments
    PROVE  WorkerInv(w)'
<1>1. CASE job[w].command = "next"
  <2>1. /\ pc'[w] = "sync" /\ job'[w] = [NoJob EXCEPT !.command = "next"]
        /\ view' = [view EXCEPT ![w] = [view[w] EXCEPT ![job[w].issue].stage = stage]]
    BY <1>1 DEF AfterSync, TypeOK
  <2>2. 0 \notin Issues /\ job'[w].issue = 0
    BY <2>1, WorkflowAssumption DEF NoJob
  <2>3. \A i \in Issues : view'[w][i].stage \in PastApproval => Approved(comments[i])
    <3>1. view[w] \in [Issues -> Items]
      BY DEF TypeOK
    <3>2. \A i \in Issues :
            view'[w][i] = IF i = job[w].issue THEN [view[w][i] EXCEPT !.stage = stage]
                          ELSE view[w][i]
      BY <2>1, <3>1 DEF TypeOK
    <3>3. \A i \in Issues : view[w][i] \in Items
      BY <3>1
    <3> QED
      BY <3>2, <3>3 DEF Items, WorkerInv, KnowsApproval
  <2> QED
    BY <2>1, <2>2, <2>3 DEF WorkerInv, AddressesIssue, WritesLegalTransition, ClaimsAgentStage,
       KnowsApproval
<1>2. CASE job[w].command # "next"
  BY <1>2, ReturnedWorker DEF AfterSync
<1> QED
  BY <1>1, <1>2

\* Such a step keeps the invariant.
LEMMA WorkerStep ==
    ASSUME IndInv, TypeOK', NEW w \in Workers, WorkerInv(w)',
           ApprovalsKept, OthersKept(w), ItemsLegal
    PROVE  IndInv'
<1>1. ImplementationNeedsApproval' /\ HumanStagesAreQueued'
  BY StageFacts DEF IndInv, ItemsLegal, ApprovalsKept, ImplementationNeedsApproval,
     HumanStagesAreQueued
<1>2. ASSUME NEW v \in Workers \ {w} PROVE WorkerInv(v)'
  BY <1>2 DEF IndInv, OthersKept, ApprovalsKept, WorkerInv, AddressesIssue, TaskNamesIssue,
     WritesLegalTransition, ClaimsAgentStage, KnowsApproval
<1> QED
  BY <1>1, <1>2 DEF IndInv

\* A worker that starts a command reads one item and writes nothing.
LEMMA StartStep ==
    ASSUME IndInv, TypeOK', NEW w \in Workers, NEW i \in Issues, NEW command,
           NEW signal \in AgentSignals \union {"none"}, NEW next,
           Begin(w, command, i, signal, next), UNCHANGED <<item, comments, view, task>>,
           next \in {"patch", "release"} => IsTransition(item[i].stage, signal, item[i].route),
           next = "claim" => item[i].stage \in AgentStages
    PROVE  IndInv'
<1>1. WorkerInv(w)'
  BY BegunWorker DEF IndInv
<1>2. OthersKept(w)
  BY DEF IndInv, TypeOK, Begin, OthersKept
<1> QED
  BY <1>1, <1>2, WorkerStep DEF ApprovalsKept, ItemsLegal

\* Every step keeps the invariant.
LEMMA StepKept == IndInv /\ Next => IndInv'
<1> SUFFICES ASSUME IndInv, Next PROVE IndInv'
  OBVIOUS
<1> USE DEF tracker, nextVars
<1>0. TypeOK /\ TypeOK' /\ ImplementationNeedsApproval
  BY StepTyped DEF IndInv
<1>1. \A w \in Workers : /\ WorkerInv(w)
                         /\ pc[w] \notin {"idle", "sync"} => job[w].issue \in Issues
                         /\ task[w].action # "none" => task[w].issue \in Issues
                         /\ WritesLegalTransition(w) /\ ClaimsAgentStage(w) /\ KnowsApproval(w)
  BY DEF IndInv, WorkerInv, AddressesIssue, TaskNamesIssue
<1>2. ASSUME NEW i \in Issues, HumanComment(i) PROVE IndInv'
  <2>1. PICK reply \in Replies : Comment(i, reply)
    BY <1>2 DEF HumanComment
  <2>2. ApprovalsKept
    BY <1>0, <2>1, CommentKeepsApprovals, WorkflowAssumption DEF CommentBodies
  <2>3. \A w \in Workers : WorkerInv(w)'
    BY <1>1, <1>2, <2>2 DEF HumanComment, ApprovalsKept, WorkerInv, AddressesIssue,
       TaskNamesIssue, WritesLegalTransition, ClaimsAgentStage, KnowsApproval
  <2>4. ImplementationNeedsApproval' /\ HumanStagesAreQueued'
    BY <1>2, <2>2 DEF HumanComment, IndInv, ApprovalsKept, ImplementationNeedsApproval,
       HumanStagesAreQueued
  <2> QED
    BY <1>0, <2>3, <2>4 DEF IndInv
<1>3. ASSUME NEW w \in Workers, NEW i \in Issues, ApprovalCommand(w, i) PROVE IndInv'
  BY <1>0, <1>3, StartStep DEF ApprovalCommand
<1>4. ASSUME NEW w \in Workers, NEW i \in Issues, RecordDecision(w, i) PROVE IndInv'
  <2>1. PICK reply \in Replies : Comment(i, reply)
    BY <1>4 DEF RecordDecision
  <2>2. ApprovalsKept
    BY <1>0, <2>1, CommentKeepsApprovals, WorkflowAssumption DEF CommentBodies
  <2>3. /\ pc'[w] = "read" /\ job'[w].issue = i /\ job'[w].seen = NoJob.seen
        /\ job'[w].signal = "none"
    BY <1>0, <1>4 DEF RecordDecision, TypeOK, NoJob
  <2>4. WorkerInv(w)'
    BY <1>1, <1>4, <2>2, <2>3, StageFacts DEF RecordDecision, ApprovalsKept, NoJob, NoItem, NewItem,
       WorkerInv, AddressesIssue, TaskNamesIssue, WritesLegalTransition, ClaimsAgentStage,
       KnowsApproval
  <2>5. OthersKept(w) /\ ItemsLegal
    BY <1>0, <1>4 DEF RecordDecision, TypeOK, OthersKept, ItemsLegal
  <2> QED
    BY <1>0, <2>2, <2>4, <2>5, WorkerStep
<1>5. ASSUME NEW w \in Workers, NEW i \in Issues, RevisePlan(w, i) PROVE IndInv'
  BY <1>0, <1>5, StartStep DEF RevisePlan
<1>6. ASSUME NEW w \in Workers, NEW i \in Issues, ClaimCommand(w, i) PROVE IndInv'
  BY <1>0, <1>6, StartStep DEF ClaimCommand
<1>7. ASSUME NEW w \in Workers, NEW i \in Issues, ResetCommand(w, i) PROVE IndInv'
  BY <1>0, <1>7, StartStep DEF ResetCommand
<1>8. ASSUME NEW w \in Workers, PostPlan(w) PROVE IndInv'
  <2>1. task[w].issue \in Issues
    BY <1>1, <1>8 DEF PostPlan
  <2>2. IsTransition("Planning", "plan-posted", item[task[w].issue].route)
    BY DEF IsTransition, TransitionTable, Row
  <2> QED
    BY <1>0, <1>8, <2>1, <2>2, StartStep DEF PostPlan, AgentSignals
<1>9. ASSUME NEW w \in Workers, StageReview(w) PROVE IndInv'
  <2>1. task[w].issue \in Issues
    BY <1>1, <1>9 DEF StageReview
  <2>2. PICK signal \in {"review-ready", "review-changes"} :
          /\ IsTransition(item[task[w].issue].stage, signal, item[task[w].issue].route)
          /\ Begin(w, "stage-review", task[w].issue, signal, "patch")
    BY <1>9 DEF StageReview
  <2>3. signal \in AgentSignals \union {"none"}
    BY DEF AgentSignals
  <2> QED
    BY <1>0, <1>9, <2>1, <2>2, <2>3, StartStep DEF StageReview
<1>10. ASSUME NEW w \in Workers, CreatePullRequest(w) PROVE IndInv'
  <2>1. ApprovalsKept /\ OthersKept(w)
    BY <1>10 DEF CreatePullRequest, ApprovalsKept, OthersKept
  <2>2. WorkerInv(w)'
    BY <1>1, <1>10 DEF CreatePullRequest, WorkerInv, AddressesIssue, TaskNamesIssue,
       WritesLegalTransition, ClaimsAgentStage, KnowsApproval
  <2>3. ItemsLegal
    BY <1>0, <1>10 DEF CreatePullRequest, ItemsLegal, TypeOK, Items
  <2> QED
    BY <1>0, <2>1, <2>2, <2>3, WorkerStep
<1>11. ASSUME NEW w \in Workers, Complete(w) PROVE IndInv'
  <2>1. task[w].issue \in Issues
    BY <1>1, <1>11 DEF Complete
  <2>2. IsTransition("Implementation", "implementation-complete", item[task[w].issue].route)
    BY DEF IsTransition, TransitionTable, Row
  <2> QED
    BY <1>0, <1>11, <2>1, <2>2, StartStep DEF Complete, AgentSignals
<1>12. ASSUME NEW w \in Workers, NextCommand(w) PROVE IndInv'
  <2>1. ApprovalsKept /\ OthersKept(w) /\ ItemsLegal
    BY <1>0, <1>12 DEF NextCommand, ApprovalsKept, OthersKept, ItemsLegal, TypeOK
  <2>2. /\ pc'[w] = "sync" /\ job'[w] = [NoJob EXCEPT !.command = "next"] /\ view'[w] = item
        /\ task'[w] = NoTask
    BY <1>0, <1>12 DEF NextCommand, TypeOK
  <2>3. job'[w].issue = 0 /\ 0 \notin Issues /\ NoTask.action = "none"
    BY <2>2, WorkflowAssumption DEF NoJob, NoTask
  <2>4. WorkerInv(w)'
    BY <1>0, <1>12, <2>2, <2>3 DEF NextCommand, ImplementationNeedsApproval, WorkerInv,
       AddressesIssue, TaskNamesIssue, WritesLegalTransition, ClaimsAgentStage, KnowsApproval
  <2> QED
    BY <1>0, <2>1, <2>4, WorkerStep
<1>13. ASSUME NEW w \in Workers, ReadItem(w) PROVE IndInv'
  <2>1. ApprovalsKept /\ OthersKept(w) /\ ItemsLegal
    BY <1>0, <1>13 DEF ReadItem, ApprovalsKept, OthersKept, ItemsLegal, TypeOK
  <2>2. /\ pc'[w] = "comments" /\ job'[w].issue = job[w].issue
        /\ job'[w].seen = item[job[w].issue] /\ job'[w].signal = job[w].signal
    BY <1>0, <1>13 DEF ReadItem, TypeOK, Jobs
  <2>3. WorkerInv(w)'
    BY <1>0, <1>1, <1>13, <2>2 DEF ReadItem, ImplementationNeedsApproval, WorkerInv,
       AddressesIssue, TaskNamesIssue, WritesLegalTransition, ClaimsAgentStage, KnowsApproval
  <2> QED
    BY <1>0, <2>1, <2>3, WorkerStep
<1>14. ASSUME NEW w \in Workers, ReadComments(w) PROVE IndInv'
  <2> DEFINE log == comments[job[w].issue]
             event == ApprovalEvent(LatestReply(log))
  <2>1. job[w].issue \in Issues /\ job[w] \in Jobs /\ log \in Seq(CommentBodies)
    BY <1>0, <1>1, <1>14 DEF ReadComments, TypeOK
  <2>2. ApprovalsKept /\ ItemsLegal
    BY <1>14 DEF ReadComments, ApprovalsKept, ItemsLegal
  <2>3. CASE SignalApplies(event, job[w].seen.stage)
    <3>1. IsTransition(job[w].seen.stage, event, job[w].seen.route)
      BY <2>3, ApprovalEventFacts, SignalAppliesFacts
    <3>2. event = "human-approved" => Approved(log)
      BY <2>1, ApprovalEventFacts, LatestReplyFacts
    <3>3. job' = [job EXCEPT ![w] = [job[w] EXCEPT !.signal = event, !.at = Len(log)]]
      BY <1>14, <2>3 DEF ReadComments
    <3>4. /\ pc' = [pc EXCEPT ![w] = "patch"] /\ UNCHANGED nextVars
          /\ UNCHANGED <<task, comments>>
      BY <1>14, <2>3 DEF ReadComments
    <3>5. /\ job'[w].issue = job[w].issue /\ job'[w].seen = job[w].seen
          /\ job'[w].signal = event
      BY <1>0, <2>1, <3>3 DEF TypeOK, Jobs
    <3>6. pc'[w] = "patch"
      BY <1>0, <3>4 DEF TypeOK
    <3> HIDE DEF event
    <3>7. WorkerInv(w)'
      BY <1>1, <2>1, <3>1, <3>2, <3>4, <3>5, <3>6 DEF WorkerInv, AddressesIssue,
         TaskNamesIssue, WritesLegalTransition, ClaimsAgentStage, KnowsApproval
    <3>8. OthersKept(w)
      BY <1>0, <3>3, <3>4 DEF TypeOK, OthersKept
    <3> QED
      BY <1>0, <2>2, <3>7, <3>8, WorkerStep
  <2>4. CASE ~ SignalApplies(event, job[w].seen.stage)
    <3>1. AfterSync(w, job[w].seen.stage)
      BY <1>14, <2>4 DEF ReadComments
    <3>2. WorkerInv(w)'
      BY <1>0, <1>1, <1>14, <2>1, <3>1, SyncedWorker
         DEF ReadComments, KnowsApproval, TaskNamesIssue
    <3>3. OthersKept(w)
      BY <1>0, <1>14, <3>1 DEF ReadComments, AfterSync, Return, TypeOK, OthersKept
    <3> QED
      BY <1>0, <2>2, <3>2, <3>3, WorkerStep
  <2> QED
    BY <2>3, <2>4
<1>15. ASSUME NEW w \in Workers, PatchTransition(w) PROVE IndInv'
  <2>1. /\ job[w].issue \in Issues /\ job[w] \in Jobs
        /\ Decision(w).stage \in Stages /\ Decision(w).status = "Todo"
        /\ Decision(w).stage \in PastApproval => Approved(comments[job[w].issue])
    BY <1>0, <1>1, <1>15, DecisionFacts DEF PatchTransition, TypeOK, KnowsApproval
  <2>2. ApprovalsKept /\ OthersKept(w)
    BY <1>0, <1>15 DEF PatchTransition, ApprovalsKept, OthersKept, TypeOK
  <2>3. ItemsLegal
    <3>1. item' = [item EXCEPT ![job[w].issue].status = Decision(w).status,
                               ![job[w].issue].stage  = Decision(w).stage]
      BY <1>15 DEF PatchTransition
    <3>2. item'[job[w].issue].status = "Todo" /\ item'[job[w].issue].stage = Decision(w).stage
      BY <1>0, <2>1, <3>1 DEF TypeOK, Items
    <3>3. \A j \in Issues \ {job[w].issue} : item'[j] = item[j]
      BY <1>0, <3>1 DEF TypeOK
    <3> QED
      BY <2>1, <3>2, <3>3 DEF ItemsLegal
  <2>4. /\ pc'[w] = "release" /\ job'[w].issue = job[w].issue
        /\ job'[w].seen = job[w].seen /\ job'[w].signal = job[w].signal
    BY <1>0, <1>15, <2>1 DEF PatchTransition, TypeOK, Jobs
  <2>5. WorkerInv(w)'
    BY <1>1, <1>15, <2>4 DEF PatchTransition, WorkerInv, AddressesIssue, TaskNamesIssue,
       WritesLegalTransition, ClaimsAgentStage, KnowsApproval
  <2> QED
    BY <1>0, <2>2, <2>3, <2>5, WorkerStep
<1>16. ASSUME NEW w \in Workers, RemoveLabel(w) PROVE IndInv'
  <2>1. job[w] \in Jobs
    BY <1>0 DEF TypeOK
  <2>2. ApprovalsKept /\ OthersKept(w) /\ ItemsLegal
    BY <1>0, <1>16 DEF RemoveLabel, ApprovalsKept, OthersKept, ItemsLegal, TypeOK, Items
  <2>3. /\ pc'[w] = pc[w] /\ job'[w].issue = job[w].issue
        /\ job'[w].seen = job[w].seen /\ job'[w].signal = job[w].signal
    BY <1>0, <1>16, <2>1 DEF RemoveLabel, TypeOK, Jobs
  <2>4. WorkerInv(w)'
    BY <1>1, <1>16, <2>3 DEF RemoveLabel, WorkerInv, AddressesIssue, TaskNamesIssue,
       WritesLegalTransition, ClaimsAgentStage, KnowsApproval
  <2> QED
    BY <1>0, <2>2, <2>4, WorkerStep
<1>17. ASSUME NEW w \in Workers, AssignOwner(w) PROVE IndInv'
  <2>1. /\ job[w].issue \in Issues
        /\ Decision(w).stage \in PastApproval => Approved(comments[job[w].issue])
    BY <1>1, <1>17, DecisionFacts DEF AssignOwner, KnowsApproval
  <2>2. ApprovalsKept /\ ItemsLegal
    BY <1>17 DEF AssignOwner, ApprovalsKept, ItemsLegal
  <2>3. TaskNamesIssue(w)'
    BY <1>0, <1>1, <1>17 DEF AssignOwner, TaskNamesIssue, NoTask, TypeOK
  <2>4. CASE job[w].command = "post-plan"
    <3>1. pc' = [pc EXCEPT ![w] = "publish"] /\ UNCHANGED <<job, view, pending, task, comments>>
      BY <1>17, <2>4 DEF AssignOwner
    <3>2. WorkerInv(w)'
      BY <1>0, <1>1, <2>1, <3>1 DEF TypeOK, WorkerInv, AddressesIssue, TaskNamesIssue,
         WritesLegalTransition, ClaimsAgentStage, KnowsApproval
    <3>3. OthersKept(w)
      BY <1>0, <3>1 DEF TypeOK, OthersKept
    <3> QED
      BY <1>0, <2>2, <3>2, <3>3, WorkerStep
  <2>5. CASE job[w].command # "post-plan"
    <3>1. AfterSync(w, Decision(w).stage)
      BY <1>17, <2>5 DEF AssignOwner
    <3>2. UNCHANGED comments
      BY <1>17 DEF AssignOwner
    <3>3. WorkerInv(w)'
      BY <1>0, <1>1, <2>1, <2>3, <3>1, <3>2, SyncedWorker
    <3>4. \A v \in Workers \ {w} : pc'[v] = pc[v] /\ job'[v] = job[v] /\ view'[v] = view[v]
      BY <1>0, <3>1 DEF AfterSync, Return, TypeOK
    <3>5. \A v \in Workers \ {w} : task'[v] = task[v]
      BY <1>0, <1>17 DEF AssignOwner, TypeOK
    <3> QED
      BY <1>0, <2>2, <3>3, <3>4, <3>5, WorkerStep DEF OthersKept
  <2> QED
    BY <2>4, <2>5
<1>18. ASSUME NEW w \in Workers, PublishPlan(w) PROVE IndInv'
  <2>1. ApprovalsKept
    BY <1>0, <1>1, <1>18, CommentKeepsApprovals DEF PublishPlan, CommentBodies
  <2>2. TaskNamesIssue(w)'
    BY <1>0, <1>18 DEF PublishPlan, TaskNamesIssue, NoTask, TypeOK
  <2>3. WorkerInv(w)'
    BY <1>0, <1>18, <2>2, ReturnedWorker DEF PublishPlan
  <2>4. OthersKept(w) /\ ItemsLegal
    BY <1>0, <1>18 DEF PublishPlan, Return, OthersKept, ItemsLegal, TypeOK
  <2> QED
    BY <1>0, <2>1, <2>3, <2>4, WorkerStep
<1>19. ASSUME NEW w \in Workers, NextReadItem(w) PROVE IndInv'
  <2>1. PICK i \in pending[w] : job' = [job EXCEPT ![w].issue = i, ![w].seen = item[i]]
    BY <1>19 DEF NextReadItem
  <2>2. i \in Issues /\ job[w] \in Jobs
    BY <1>0, <2>1 DEF TypeOK
  <2>3. ApprovalsKept /\ OthersKept(w) /\ ItemsLegal
    BY <1>0, <1>19, <2>1 DEF NextReadItem, ApprovalsKept, OthersKept, ItemsLegal, TypeOK
  <2>4. /\ pc'[w] = "comments" /\ job'[w].issue = i
        /\ job'[w].seen = item[i] /\ job'[w].signal = job[w].signal
    BY <1>0, <1>19, <2>1, <2>2 DEF NextReadItem, TypeOK, Jobs
  <2>5. WorkerInv(w)'
    BY <1>0, <1>1, <1>19, <2>2, <2>4 DEF NextReadItem, ImplementationNeedsApproval,
       WorkerInv, AddressesIssue, TaskNamesIssue, WritesLegalTransition, ClaimsAgentStage,
       KnowsApproval
  <2> QED
    BY <1>0, <2>3, <2>5, WorkerStep
<1>20. ASSUME NEW w \in Workers, Select(w) PROVE IndInv'
  <2>1. ApprovalsKept /\ ItemsLegal
    BY <1>20 DEF Select, ApprovalsKept, ItemsLegal
  <2>2. CASE Return(w) /\ UNCHANGED task
    <3>1. TaskNamesIssue(w)'
      BY <1>1, <2>2 DEF TaskNamesIssue
    <3>2. WorkerInv(w)'
      BY <1>0, <2>2, <3>1, ReturnedWorker
    <3>3. OthersKept(w)
      BY <1>0, <2>2 DEF Return, OthersKept, TypeOK
    <3> QED
      BY <1>0, <2>1, <3>2, <3>3, WorkerStep
  <2>3. ASSUME NEW i \in Issues, Resume(w, i) PROVE IndInv'
    <3>1. TaskNamesIssue(w)'
      BY <1>0, <2>3 DEF Resume, TaskNamesIssue, TypeOK
    <3>2. WorkerInv(w)'
      BY <1>0, <2>3, <3>1, ReturnedWorker DEF Resume
    <3>3. OthersKept(w)
      BY <1>0, <2>3 DEF Resume, Return, OthersKept, TypeOK
    <3> QED
      BY <1>0, <2>1, <3>2, <3>3, WorkerStep
  <2>4. ASSUME NEW i \in Issues, BeginClaim(w, i), view[w][i].stage \in AgentStages
        PROVE  IndInv'
    <3>1. job[w] \in Jobs
      BY <1>0 DEF TypeOK
    <3>2. /\ pc'[w] = "claim" /\ job'[w].issue = i /\ job'[w].seen = view[w][i]
          /\ UNCHANGED <<view, task>>
      BY <1>0, <2>4, <3>1 DEF BeginClaim, TypeOK, Jobs
    <3>3. UNCHANGED comments
      BY <1>20 DEF Select
    <3>4. WorkerInv(w)'
      BY <1>1, <2>4, <3>2, <3>3 DEF WorkerInv, AddressesIssue, TaskNamesIssue,
         WritesLegalTransition, ClaimsAgentStage, KnowsApproval
    <3>5. OthersKept(w)
      BY <1>0, <2>4 DEF BeginClaim, OthersKept, TypeOK
    <3> QED
      BY <1>0, <2>1, <3>4, <3>5, WorkerStep
  <2> QED
    BY <1>20, <2>2, <2>3, <2>4, SelectCases
<1>21. ASSUME NEW w \in Workers, ClaimPatch(w) PROVE IndInv'
  <2>1. /\ job[w].issue \in Issues /\ job[w] \in Jobs /\ job[w].seen.stage \in AgentStages
        /\ job[w].seen.stage \in PastApproval => Approved(comments[job[w].issue])
    BY <1>0, <1>1, <1>21 DEF ClaimPatch, TypeOK, ClaimsAgentStage, KnowsApproval
  <2>2. ApprovalsKept /\ OthersKept(w)
    BY <1>0, <1>21 DEF ClaimPatch, ApprovalsKept, OthersKept, TypeOK
  <2>3. ItemsLegal
    <3>1. item' = [item EXCEPT ![job[w].issue].status = "InProgress",
                               ![job[w].issue].stage  = job[w].seen.stage]
      BY <1>21 DEF ClaimPatch
    <3>2. item'[job[w].issue].stage = job[w].seen.stage
      BY <1>0, <2>1, <3>1 DEF TypeOK, Items
    <3>3. \A j \in Issues \ {job[w].issue} : item'[j] = item[j]
      BY <1>0, <3>1 DEF TypeOK
    <3> QED
      BY <2>1, <3>2, <3>3 DEF ItemsLegal
  <2>4. /\ pc'[w] = "relabel" /\ job'[w].issue = job[w].issue
        /\ job'[w].seen = job[w].seen /\ job'[w].signal = job[w].signal
    BY <1>0, <1>21, <2>1 DEF ClaimPatch, TypeOK, Jobs
  <2>5. WorkerInv(w)'
    BY <1>1, <1>21, <2>1, <2>4 DEF ClaimPatch, WorkerInv, AddressesIssue, TaskNamesIssue,
       WritesLegalTransition, ClaimsAgentStage, KnowsApproval
  <2> QED
    BY <1>0, <2>2, <2>3, <2>5, WorkerStep
<1>22. ASSUME NEW w \in Workers, AddOwnLabel(w) PROVE IndInv'
  <2>1. job[w].issue \in Issues
    BY <1>1, <1>22 DEF AddOwnLabel
  <2>2. TaskNamesIssue(w)'
    BY <1>0, <1>22, <2>1 DEF AddOwnLabel, TaskNamesIssue, TypeOK
  <2>3. WorkerInv(w)'
    BY <1>0, <1>22, <2>2, ReturnedWorker DEF AddOwnLabel
  <2>4. ApprovalsKept /\ OthersKept(w) /\ ItemsLegal
    BY <1>0, <1>22 DEF AddOwnLabel, Return, ApprovalsKept, OthersKept, ItemsLegal, TypeOK, Items
  <2> QED
    BY <1>0, <2>3, <2>4, WorkerStep
<1>23. ASSUME NEW w \in Workers, ResetPatch(w) PROVE IndInv'
  <2>1. job[w].issue \in Issues
    BY <1>1, <1>23 DEF ResetPatch
  <2>2. ApprovalsKept /\ OthersKept(w)
    BY <1>0, <1>23 DEF ResetPatch, ApprovalsKept, OthersKept, TypeOK
  <2>3. ItemsLegal
    <3>1. item'[job[w].issue].stage = "Planning"
      BY <1>0, <1>23, <2>1 DEF ResetPatch, TypeOK, Items
    <3>2. \A j \in Issues \ {job[w].issue} : item'[j] = item[j]
      BY <1>0, <1>23 DEF ResetPatch, TypeOK
    <3> QED
      BY <3>1, <3>2, StageFacts DEF ItemsLegal
  <2>4. WorkerInv(w)'
    BY <1>0, <1>1, <1>23 DEF ResetPatch, TypeOK, WorkerInv, AddressesIssue, TaskNamesIssue,
       WritesLegalTransition, ClaimsAgentStage, KnowsApproval
  <2> QED
    BY <1>0, <2>2, <2>3, <2>4, WorkerStep
<1>24. ASSUME NEW w \in Workers, ResetAssignee(w) PROVE IndInv'
  <2>1. job[w] \in Jobs
    BY <1>0 DEF TypeOK
  <2>2. ApprovalsKept /\ OthersKept(w) /\ ItemsLegal
    BY <1>0, <1>24 DEF ResetAssignee, ApprovalsKept, OthersKept, ItemsLegal, TypeOK
  <2>3. /\ pc'[w] = "unlabel" /\ job'[w].issue = job[w].issue
        /\ job'[w].seen = job[w].seen /\ job'[w].signal = job[w].signal
    BY <1>0, <1>24, <2>1 DEF ResetAssignee, TypeOK, Jobs
  <2>4. WorkerInv(w)'
    BY <1>1, <1>24, <2>3 DEF ResetAssignee, WorkerInv, AddressesIssue, TaskNamesIssue,
       WritesLegalTransition, ClaimsAgentStage, KnowsApproval
  <2> QED
    BY <1>0, <2>2, <2>4, WorkerStep
<1>25. ASSUME NEW w \in Workers, ResetDone(w) \/ Fail(w) PROVE IndInv'
  <2>1. Return(w) /\ UNCHANGED <<tracker, task>>
    BY <1>25 DEF ResetDone, Fail
  <2>2. TaskNamesIssue(w)'
    BY <1>1, <2>1 DEF TaskNamesIssue
  <2>3. WorkerInv(w)'
    BY <1>0, <2>1, <2>2, ReturnedWorker
  <2>4. ApprovalsKept /\ OthersKept(w) /\ ItemsLegal
    BY <1>0, <2>1 DEF Return, ApprovalsKept, OthersKept, ItemsLegal, TypeOK
  <2> QED
    BY <1>0, <2>3, <2>4, WorkerStep
<1> QED
  BY <1>2, <1>3, <1>4, <1>5, <1>6, <1>7, <1>8, <1>9, <1>10, <1>11, <1>12, <1>13, <1>14,
     <1>15, <1>16, <1>17, <1>18, <1>19, <1>20, <1>21, <1>22, <1>23, <1>24, <1>25
     DEF Next, Start, Continue

-------------------------------------------------------------------------------
(* Theorems *)

\* The invariant holds before the first command
LEMMA InitInvariant == Init => IndInv
<1> SUFFICES ASSUME Init PROVE IndInv
  OBVIOUS
<1>1. TypeOK
  BY InitTyped
<1>2. \A i \in Issues : item[i].stage = "Planning" /\ item[i].status = "Todo"
  BY DEF Init, NewItem
<1>3. ImplementationNeedsApproval /\ HumanStagesAreQueued
  BY <1>2 DEF ImplementationNeedsApproval, HumanStagesAreQueued, PastApproval
<1>4. \A w \in Workers : WorkerInv(w)
  <2>1. 0 \notin Issues
    BY WorkflowAssumption
  <2> QED
    BY <2>1 DEF Init, NoJob, NoView, NoItem, NewItem, NoTask, PastApproval, WorkerInv, AddressesIssue,
       TaskNamesIssue, WritesLegalTransition, ClaimsAgentStage, KnowsApproval
<1> QED
  BY <1>1, <1>3, <1>4 DEF IndInv

\* and when nothing happens.
LEMMA StutterKept == IndInv /\ UNCHANGED vars => IndInv'
  BY DEF vars, IndInv, TypeOK, ImplementationNeedsApproval, HumanStagesAreQueued, WorkerInv,
     AddressesIssue, TaskNamesIssue, WritesLegalTransition, ClaimsAgentStage, KnowsApproval

\* IndInv is an invariant of the helper processes.
THEOREM Invariance == Spec => []IndInv
<1>1. IndInv /\ [Next]_vars => IndInv'
  BY StepKept, StutterKept
<1> QED
  BY InitInvariant, <1>1, PTL DEF Spec

\* The variables keep their types: in particular no command computes a stage or
\* a status outside the vocabulary, and none writes to an issue it did not read.
THEOREM TypeCorrect == Spec => []TypeOK
<1>1. IndInv => TypeOK
  BY DEF IndInv
<1> QED
  BY Invariance, <1>1, PTL

\* No overlap of commands, stale copy or dying process lets an issue past Plan
\* Approval that the approver never approved.
THEOREM ApprovalSafety == Spec => []ImplementationNeedsApproval
<1>1. IndInv => ImplementationNeedsApproval
  BY DEF IndInv
<1> QED
  BY Invariance, <1>1, PTL

\* No overlap of commands leaves an issue that waits for the approver in
\* progress, where `next` would not look for the answer.
THEOREM HumanStagesQueued == Spec => []HumanStagesAreQueued
<1>1. IndInv => HumanStagesAreQueued
  BY DEF IndInv
<1> QED
  BY Invariance, <1>1, PTL
=============================================================================
