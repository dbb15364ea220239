------------------------------- MODULE NextGate -------------------------------
(***************************************************************************)
(* What `next` of scripts/github/agent_workflow.py looks at before it      *)
(* hands an issue out: one copy of the Project items, the blockers of each *)
(* queued one, the comments of the one selected.  They are separate REST   *)
(* calls: authors edit, and blockers open and close, between any two.      *)
(*                                                                         *)
(* AgentWorkflow models the writes of the commands and how they overlap;   *)
(* here one worker runs `next`, and its claim and the agent's work on the  *)
(* task are one step each.                                                 *)
(***************************************************************************)
EXTENDS FiniteSets, IssueQuality, SelectNextWork

CONSTANTS
    Issues,     \* issue numbers
    TextsOf,    \* per issue, the texts its author may give it
    Dependent,  \* issues filed with an open blocker
    MaxChanges, \* bound: edits of texts and changes of blockers
    MaxFaults   \* bound: dependency reads that fail

ASSUME GateAssumption ==
    /\ Issues \subseteq Nat
    /\ DOMAIN TextsOf = Issues
    /\ Dependent \subseteq Issues
    /\ MaxChanges \in Nat
    /\ MaxFaults \in Nat

VARIABLES
    issue,   \* the tracker: text, stage, status, posted plan, blocker
    changes, \* edits and blocker changes so far
    faults,  \* dependency reads that failed so far
    pc,      \* the next call of `next`
    view,    \* the items it read, with the type it takes each to be
    unread,  \* the items whose blockers it has still to read
    misread, \* those whose dependencies it failed to read
    steady,  \* history: issues whose blocker has not changed since it began
    picked,  \* the issue it selected
    refusal  \* the reason of its last refusal

gateVars ==
    <<issue, changes, faults, pc, view, unread, misread, steady, picked, refusal>>

tracker == <<issue, changes>>
process == <<pc, view, unread, misread, picked, refusal>>

Texts == UNION { TextsOf[i] : i \in Issues }

BlockerStates == {"none", "open", "closed"}

Tracked ==
    [text : Texts, stage : {"Planning", "Implementation", "Implemented"},
     status : {"Todo", "InProgress"}, planned : BOOLEAN, blocker : BlockerStates]

\* An issue that `next` has not read
Unseen == [type |-> "unread"]

\* An issue is filed for planning, or already in Implementation, with its plan
\* posted or (moved there by hand) without one.
Filed(i) ==
    { [text |-> t, stage |-> stage, status |-> "Todo", planned |-> planned,
       blocker |-> IF i \in Dependent THEN "open" ELSE "none"] :
      t \in TextsOf[i], stage \in {"Planning", "Implementation"}, planned \in BOOLEAN }

GateInit ==
    /\ issue \in { f \in [Issues -> UNION { Filed(i) : i \in Issues }] :
                     \A i \in Issues :
                        /\ f[i] \in Filed(i)
                        /\ f[i].stage = "Planning" => ~ f[i].planned }
    /\ changes = 0
    /\ faults = 0
    /\ pc = "idle"
    /\ view = [i \in Issues |-> Unseen]
    /\ unread = {}
    /\ misread = {}
    /\ steady = Issues
    /\ picked = 0
    /\ refusal = "none"

-------------------------------------------------------------------------------
(* On GitHub, at any time *)

\* The author edits title, body or labels, one fact of the text at a time.
EditText(i) ==
    /\ changes < MaxChanges
    /\ \E t \in TextsOf[i] :
         /\ Cardinality({ fact \in DOMAIN t : t[fact] # issue[i].text[fact] }) = 1
         /\ issue' = [issue EXCEPT ![i].text = t]
    /\ changes' = changes + 1
    /\ UNCHANGED <<process, faults, steady>>

\* A blocker is added, closed or reopened.
ChangeBlocker(i) ==
    /\ changes < MaxChanges
    /\ issue' = [issue EXCEPT ![i].blocker = IF @ = "open" THEN "closed" ELSE "open"]
    /\ changes' = changes + 1
    /\ steady' = steady \ {i}
    /\ UNCHANGED <<process, faults>>

-------------------------------------------------------------------------------
(* `next` *)

End ==
    /\ pc' = "idle"
    /\ view' = [i \in Issues |-> Unseen]
    /\ unread' = {}
    /\ misread' = {}

QueuedInOtherStages(copy, scope) ==
    { i \in scope : copy[i].status = "Todo" /\ copy[i].stage = "Planning" }

\* _with_blockers asks for the blockers of queued items only.
Queued(copy, scope) == { i \in scope : copy[i].status = "Todo" }

\* NextIssueFilters: issue, phases and labels together leave any of the items.
Scopes == SUBSET Issues

\* parse_project_items; `type` is the one classify_issue_type gives this time, and
\* nothing is known of blockers yet.
CopyOf(tracked, type) ==
    [type |-> type, text |-> tracked.text,
     stage |-> tracked.stage, status |-> tracked.status, blocker |-> "none"]

\* project_items, one copy of everything, and the filters.
NextStart(scope) ==
    /\ pc = "idle"
    /\ \E types \in [Issues -> UNION { IssueTypes(issue[i].text) : i \in Issues }] :
         /\ \A i \in Issues : types[i] \in IssueTypes(issue[i].text)
         /\ view' = [i \in Issues |->
              IF i \in scope THEN CopyOf(issue[i], types[i]) ELSE Unseen]
    /\ unread' = Queued(issue, scope)
    /\ misread' = {}
    /\ steady' = Issues
    /\ pc' = "blockers"
    /\ picked' = 0
    /\ refusal' = "none"
    /\ UNCHANGED <<tracker, faults>>

\* blocked_by.  A failed call counts as "no blockers".
ReadBlocker(i) ==
    /\ pc = "blockers"
    /\ i \in unread
    /\ unread' = unread \ {i}
    /\ \/ /\ view' = [view EXCEPT ![i].blocker = issue[i].blocker]
          /\ UNCHANGED <<misread, faults>>
       \/ /\ faults < MaxFaults
          /\ faults' = faults + 1
          /\ misread' = misread \union {i}
          /\ UNCHANGED view
    /\ UNCHANGED <<tracker, pc, steady, picked, refusal>>

IsActiveOnceListed(state) == state # "none"

\* BlockerIssue.is_active
IsActive(state) == state \notin {"none", "closed"}

\* What selection sees.  Items in progress carry this worker's label.
SelectableCopy ==
    { [number |-> i, phase |-> NoPhase, type |-> view[i].type, routing |-> {},
       blocked |-> IsActive(view[i].blocker), status |-> view[i].status,
       stage |-> view[i].stage, linked |-> FALSE,
       identities |-> IF view[i].status = "InProgress" THEN {"me"} ELSE {}] :
      i \in { j \in Issues : view[j] # Unseen } }

SomeRead == unread # Issues

\* _with_blockers returns when it has asked for all of them.
AllRead == unread = {}

\* Selection in mode auto, then what follows it for the item that sorts first
SelectItem ==
    /\ pc = "blockers"
    /\ AllRead
    /\ LET candidates == Candidates(SelectableCopy, "any", "auto", "me")
       IN  IF candidates = {}
           THEN End /\ UNCHANGED picked
           ELSE \E first \in candidates :
                  /\ IsFirst(first, candidates)
                  /\ picked' = first.number
                  /\ pc' = IF StageAction(first.stage) = "implement" THEN "gate"
                           ELSE IF first.status = "Todo" THEN "claim" ELSE "hand"
                  /\ UNCHANGED <<view, unread, misread>>
    /\ UNCHANGED <<tracker, faults, steady, refusal>>

Verdict(i) == Report(view[i].type, view[i].text, {})

\* The comments are read only when sections are missing.
Waived(i) == Verdict(i).missing # {} /\ issue[i].planned

\* The gate judges the text of the copy, without its comments.
GateItem ==
    /\ pc = "gate"
    /\ IF Passes(Verdict(picked), Waived(picked))
       THEN /\ pc' = IF view[picked].status = "Todo" THEN "claim" ELSE "hand"
            /\ UNCHANGED <<view, unread, misread, refusal>>
       ELSE /\ refusal' = RefusalReason(Verdict(picked), Waived(picked))
            /\ pc' = "refuse"
            /\ UNCHANGED <<view, unread, misread>>
    /\ UNCHANGED <<tracker, faults, steady, picked>>

\* _workflow_branch and _claim_issue: an implementation without a plan comment
\* has no branch and makes the command fail.
ClaimItem ==
    /\ pc = "claim"
    /\ IF view[picked].stage = "Planning" \/ issue[picked].planned
       THEN issue' = [issue EXCEPT ![picked].status = "InProgress",
                                   ![picked].stage = view[picked].stage]
       ELSE UNCHANGED issue
    /\ End
    /\ UNCHANGED <<changes, faults, steady, picked, refusal>>

\* The command returns without a claim: a resumed item, or a refusal.
ReturnItem ==
    /\ pc \in {"hand", "refuse"}
    /\ End
    /\ UNCHANGED <<tracker, faults, steady, picked, refusal>>

-------------------------------------------------------------------------------
(* The agent does the task, and the approver agrees (AgentWorkflow). *)
FinishTask(i) ==
    /\ pc = "idle"
    /\ issue[i].status = "InProgress"
    /\ issue' = [issue EXCEPT ![i].status = "Todo", ![i].planned = TRUE,
                   ![i].stage = IF @ = "Planning" THEN "Implementation" ELSE "Implemented"]
    /\ UNCHANGED <<changes, faults, process, steady>>

Command ==
    \/ \E i \in Issues : ReadBlocker(i)
    \/ SelectItem
    \/ GateItem
    \/ ClaimItem
    \/ ReturnItem

GateNext ==
    \/ \E i \in Issues : EditText(i) \/ ChangeBlocker(i) \/ FinishTask(i)
    \/ \E scope \in Scopes : NextStart(scope)
    \/ Command

GateSpec == GateInit /\ [][GateNext]_gateVars

\* The loop of docs/github-workflow.md: a command that runs goes on, a worker
\* without work runs `next`, and the agent finishes its task.
GateFairness ==
    /\ WF_gateVars(Command)
    /\ SF_gateVars(NextStart(Issues))
    /\ \A i \in Issues : SF_gateVars(FinishTask(i))

FairGateSpec == GateSpec /\ GateFairness

-------------------------------------------------------------------------------
(* Properties *)

\* What classify_issue_type may answer: a label may name any type.
Types == SupportedTypes \union {"unknown"} \union UNION { t.types : t \in Texts }

Copies ==
    [type : Types, text : Texts,
     stage : {"Planning", "Implementation", "Implemented"},
     status : {"Todo", "InProgress"}, blocker : BlockerStates]

\* The values each variable ranges over; what waits for the gate or for a claim
\* is an item the command has read.
GateTypeOK ==
    /\ issue \in [Issues -> Tracked]
    /\ changes \in 0..MaxChanges
    /\ faults \in 0..MaxFaults
    /\ pc \in {"idle", "blockers", "gate", "claim", "hand", "refuse"}
    /\ view \in [Issues -> Copies \union {Unseen}]
    /\ misread \union unread \subseteq Issues
    /\ steady \subseteq Issues
    /\ picked \in Issues \union {0}
    /\ pc \in {"gate", "claim", "hand", "refuse"} =>
          picked \in Issues /\ unread = {} /\ view[picked] # Unseen

Claimed(i) == issue[i].status = "Todo" /\ issue'[i].status = "InProgress"

\* `next` takes no issue whose blocker has been open ever since it began, as
\* long as it could read the dependencies (docs/github-workflow.md: blockers are
\* resolved).
BlockedIsNotTaken ==
    [][\A i \in Issues :
          Claimed(i) => ~ (i \in steady /\ issue[i].blocker = "open" /\ i \notin misread)]_gateVars

\* The two verdicts of the code agree.  What `next` hands out as implementation,
\* `issue-quality` recommends to implement, or it wants only sections that the
\* posted plan stands in for; and what `issue-quality`, whose report counts the
\* comments too, recommends to implement, the gate lets pass.
VerdictsAgree ==
    /\ pc \in {"claim", "hand"} /\ StageAction(view[picked].stage) = "implement" =>
          \/ Verdict(picked).recommended = "implement-after-approval"
          \/ /\ Verdict(picked).missing # {} /\ issue[picked].planned
             /\ ~ HasBlocking(Verdict(picked).warnings)
    /\ pc = "refuse" =>
          \A notes \in { {} } \union { {note} : note \in Notes } :
             LET report == Report(view[picked].type, view[picked].text, notes)
             IN  /\ report.recommended # "implement-after-approval"
                 /\ ~ ReadyForImplementation(report)

\* The reason of a refusal names something the author can act on: it is never
\* the recommendation to implement, and what it asks for is there to be done.
RefusalIsActionable ==
    pc = "refuse" =>
        CASE refusal = "clarify" ->
                 Verdict(picked).missing # {} \/ view[picked].type \notin SupportedTypes
          [] refusal = "operator-confirmation-required" -> Verdict(picked).warnings # {}
          [] refusal = "resolve-blocking-quality-findings" ->
                 \E f \in Verdict(picked).findings :
                    f.code \in Blocking /\ (f.code = "missing-section" => ~ issue[picked].planned)
          [] refusal = "plan" -> view[picked].type = "spike"
          [] OTHER -> FALSE

\* Nothing keeps the gate from letting an item pass: whatever type its labels
\* are read as.
Clear(i) ==
    /\ issue[i].blocker # "open"
    /\ \A type \in IssueTypes(issue[i].text) :
          /\ type \in SupportedTypes
          /\ issue[i].stage = "Implementation" =>
                issue[i].planned /\ Passes(Report(type, issue[i].text, {}), TRUE)

\* Once every issue that is queued is clear, and stays so, all of them are taken
\* up, whatever was blocked, refused or misread before.
ClearedWorkIsTaken ==
    \A i \in Issues :
        <>[](\A j \in Issues : issue[j].stage # "Implemented" => Clear(j)) =>
            <>[](issue[i].stage = "Implemented")

-------------------------------------------------------------------------------
(* The inductive invariant of NextGate_proofs. *)

\* Between the gate and the end of the command its verdict still stands: nothing
\* it rests on changes while the worker runs `next`.
Decided ==
    /\ pc \in {"claim", "hand"} /\ StageAction(view[picked].stage) = "implement" =>
          Passes(Verdict(picked), Waived(picked))
    /\ pc = "refuse" =>
          /\ ~ Passes(Verdict(picked), Waived(picked))
          /\ refusal = RefusalReason(Verdict(picked), Waived(picked))

\* Whose blocker has been read, and has not changed since, is known by it.
BlockersRead ==
    \A i \in Issues :
        /\ view[i] # Unseen /\ view[i].status = "Todo"
        /\ i \in steady /\ i \notin unread \union misread
        => view[i].blocker = issue[i].blocker

\* What is to be claimed was queued, and free as far as the command knows.
PickedIsFree ==
    /\ pc = "claim" => view[picked].status = "Todo"
    /\ pc \in {"gate", "claim"} /\ view[picked].status = "Todo" =>
          ~ IsActive(view[picked].blocker)

GateInv == GateTypeOK /\ Decided /\ BlockersRead /\ PickedIsFree
==============================================================================
