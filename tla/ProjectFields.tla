----------------------------- MODULE ProjectFields -----------------------------
(***************************************************************************)
(* The workflow fields of the GitHub Project in                            *)
(* scripts/github/agent_workflow.py: every command creates the fields the  *)
(* Project lacks, routine reads fill blank values in memory, targeted      *)
(* commands refuse an item without Workflow Stage, and                     *)
(* migrate-workflow-stages --apply writes the missing values, one item     *)
(* after the other, while other commands run, claim and move issues.       *)
(*                                                                         *)
(* A sync of a waiting item and the write of a targeted command are one    *)
(* step here; AgentWorkflow has their calls.                               *)
(***************************************************************************)
EXTENDS Naturals, FiniteSets, WorkflowTransitions

CONSTANTS
    Issues,      \* issue numbers
    Programs,    \* helper processes
    FirstFields, \* workflow fields the Project may begin with
    LegacyItems, \* items it may begin with
    MaxWrites,   \* bound: writes other than the migration's
    MaxFaults    \* bound: helpers that die

Blank == "blank"

PlanStates == {Blank, "NotPlanned", "NeedsApproval", "ChangesRequested", "Approved"}

\* The values of an item's fields, Plan State among them, which nothing writes
\* any more; status "absent" for an issue that is not in the Project.
ItemValues ==
    [legacy : PlanStates, stage : Stages \union {Blank},
     route : ReviewRoutes \union {Blank}, status : Statuses \union {Blank, "absent"}]

\* WORKFLOW_BOOTSTRAP_FIELDS, in order
WorkflowFields == <<"Status", "Agent", "WorkflowStage", "ReviewRoute">>

Required == { WorkflowFields[k] : k \in DOMAIN WorkflowFields }

ASSUME ProjectAssumption ==
    /\ Issues \subseteq Nat
    /\ FirstFields \subseteq SUBSET Required
    /\ LegacyItems \subseteq ItemValues
    /\ MaxWrites \in Nat
    /\ MaxFaults \in Nat

VARIABLES
    fields,  \* the workflow fields of the Project
    item,    \* the field values of each issue
    pc,      \* the next call of each helper
    call,    \* what it has read and has still to do
    changed, \* history: issues whose meaning changed since a migration read them
    writes,  \* writes other than the migration's
    faults   \* helpers that died

projectVars == <<fields, item, pc, call, changed, writes, faults>>

MissingUnlessStarted(existing) ==
    IF "WorkflowStage" \in existing THEN {} ELSE Required \ existing

\* _missing_workflow_fields
Missing(existing) == Required \ existing

\* _validate_workflow_fields
Validated(existing) == Required \subseteq existing

FirstMissing(missing) ==
    WorkflowFields[CHOOSE k \in DOMAIN WorkflowFields :
        /\ WorkflowFields[k] \in missing
        /\ \A j \in 1..k-1 : WorkflowFields[j] \notin missing]

\* workflow_stage_value; plan_state_value takes a blank Plan State for Not Planned.
StageValue(stage, legacy) ==
    CASE stage # Blank -> stage
      [] stage = Blank /\ legacy = "Approved" -> "Implementation"
      [] stage = Blank /\ legacy = "NeedsApproval" -> "PlanApproval"
      [] OTHER -> "Planning"

\* review_route_value
RouteValue(route) == IF route = Blank THEN "HumanOnly" ELSE route

\* What routine reads take an item to be
Meaning(it) == [stage |-> StageValue(it.stage, it.legacy), route |-> RouteValue(it.route)]

\* and how they copy it: the status stays as it is.
Copy(it) == [stage |-> Meaning(it).stage, route |-> Meaning(it).route, status |-> it.status]

Readable(it) == it.stage # Blank

UpdatesUnmapped(it) ==
    [stage |-> IF it.stage = Blank THEN it.legacy ELSE Blank,
     route |-> IF it.route = Blank THEN RouteValue(it.route) ELSE Blank]

UpdatesFromPlanState(it) ==
    [stage |-> IF it.stage = Blank \/ it.route = Blank
               THEN StageValue(Blank, it.legacy) ELSE Blank,
     route |-> IF it.route = Blank THEN RouteValue(it.route) ELSE Blank]

UpdatesStageOnly(it) ==
    [stage |-> IF it.stage = Blank THEN StageValue(it.stage, it.legacy) ELSE Blank,
     route |-> Blank]

\* _workflow_field_defaults_for_item: a value for each blank field; Blank leaves
\* the field alone.
Updates(it) ==
    [stage |-> IF it.stage = Blank THEN StageValue(it.stage, it.legacy) ELSE Blank,
     route |-> IF it.route = Blank THEN RouteValue(it.route) ELSE Blank]

NoUpdates == [stage |-> Blank, route |-> Blank]

\* set_fields, one patch
Patched(it, updates) ==
    [it EXCEPT !.stage = IF updates.stage = Blank THEN @ ELSE updates.stage,
               !.route = IF updates.route = Blank THEN @ ELSE updates.route]

InProject == { i \in Issues : item[i].status # "absent" }

First(issues) == CHOOSE i \in issues : \A j \in issues : i <= j

\* `missing` fields to create, issues `todo`, and what was read of each issue:
\* the updates of a migration, the items of another command.
NoCall == [command |-> "none", missing |-> {}, todo |-> {}, scope |-> {}, read |-> <<>>]

ProjectInit ==
    /\ fields \in FirstFields
    /\ item \in { f \in [Issues -> LegacyItems] :
                    \A i \in Issues :
                       /\ "Status" \notin fields => f[i].status \in {Blank, "absent"}
                       /\ "WorkflowStage" \notin fields => f[i].stage = Blank
                       /\ "ReviewRoute" \notin fields => f[i].route = Blank }
    /\ pc = [p \in Programs |-> "idle"]
    /\ call = [p \in Programs |-> NoCall]
    /\ changed = [p \in Programs |-> {}]
    /\ writes = 0
    /\ faults = 0

GoOn(p, next, update) ==
    /\ pc' = [pc EXCEPT ![p] = next]
    /\ call' = [call EXCEPT ![p] = update]

Stop(p) == GoOn(p, "idle", NoCall)

Write(i, values) ==
    /\ writes < MaxWrites
    /\ writes' = writes + 1
    /\ item' = [item EXCEPT ![i] = values]

-------------------------------------------------------------------------------
(* project_context, which every command begins with *)

\* _fetch_project_context, its first read of the fields; a command that reads
\* fields it does not accept ends at once.
FetchFields(p, command) ==
    /\ pc[p] = "idle"
    /\ LET missing == Missing(fields)
       IN  IF missing = {} /\ ~ Validated(fields)
           THEN Stop(p)
           ELSE GoOn(p, IF missing = {} THEN "items" ELSE "create",
                     [NoCall EXCEPT !.command = command, !.missing = missing])
    /\ UNCHANGED <<fields, item, writes, faults>>

\* _create_workflow_fields, one call per field; GitHub refuses a second field of
\* the name and the command ends.
CreateField(p) ==
    /\ pc[p] = "create" /\ call[p].missing # {}
    /\ LET field == FirstMissing(call[p].missing)
       IN  IF field \in fields
           THEN Stop(p) /\ UNCHANGED fields
           ELSE /\ fields' = fields \union {field}
                /\ GoOn(p, "create", [call[p] EXCEPT !.missing = @ \ {field}])
    /\ UNCHANGED <<item, writes, faults>>

\* The fields are read again, and _validate_workflow_fields wants all of them.
RefetchFields(p) ==
    /\ pc[p] = "create" /\ call[p].missing = {}
    /\ IF Validated(fields) THEN GoOn(p, "items", call[p]) ELSE Stop(p)
    /\ UNCHANGED <<fields, item, writes, faults>>

-------------------------------------------------------------------------------
(* migrate-workflow-stages --apply *)

\* One read of all items; the values to write are computed from it.
ReadLegacyItems(p) ==
    /\ pc[p] = "items" /\ call[p].command = "migrate"
    /\ GoOn(p, "patch",
            [call[p] EXCEPT
               !.todo = { i \in InProject : Updates(item[i]) # NoUpdates },
               !.scope = InProject,
               !.read = [i \in Issues |-> Updates(item[i])]])
    /\ UNCHANGED <<fields, item, writes, faults>>

PatchItem(p) ==
    /\ pc[p] = "patch" /\ call[p].todo # {}
    /\ LET i == First(call[p].todo)
       IN  /\ item' = [item EXCEPT ![i] = Patched(@, call[p].read[i])]
           /\ GoOn(p, "patch", [call[p] EXCEPT !.todo = @ \ {i}])
    /\ UNCHANGED <<fields, writes, faults>>

ReportMigration(p) ==
    /\ pc[p] = "patch" /\ call[p].todo = {}
    /\ GoOn(p, "report", [call[p] EXCEPT !.read = <<>>])
    /\ UNCHANGED <<fields, item, writes, faults>>

EndMigration(p) ==
    /\ pc[p] = "report"
    /\ Stop(p)
    /\ UNCHANGED <<fields, item, writes, faults>>

-------------------------------------------------------------------------------
(* Other commands *)

\* project_items: a blank stage or route is filled in, in the copy only; the
\* filters of `next` leave some of the items.
ReadItems(p) ==
    /\ pc[p] = "items" /\ call[p].command = "next"
    /\ \E shown \in SUBSET InProject :
         GoOn(p, "sync",
            [call[p] EXCEPT
               !.todo = { i \in shown : /\ item[i].status = "Todo"
                                        /\ Meaning(item[i]).stage \in HumanStages },
               !.scope = shown,
               !.read = [i \in Issues |-> Copy(item[i])]])
    /\ UNCHANGED <<fields, item, writes, faults>>

Transition(it, signal) ==
    [it EXCEPT !.stage = NextStage(@, signal, RouteValue(it.route)), !.status = "Todo"]

\* sync_approval of an item that waits reads the item itself, strictly, and the
\* copy takes its stage; an item that is not migrated ends the command.
SyncItem(p) ==
    /\ pc[p] = "sync" /\ call[p].todo # {}
    /\ LET i == First(call[p].todo)
       IN  \/ /\ ~ Readable(item[i])
              /\ Stop(p)
              /\ UNCHANGED <<item, writes>>
           \/ /\ Readable(item[i])
              /\ \/ UNCHANGED <<item, writes>>
                 \/ \E signal \in HumanSignals :
                       /\ IsTransition(item[i].stage, signal, RouteValue(item[i].route))
                       /\ Write(i, Transition(item[i], signal))
              /\ GoOn(p, "sync", [call[p] EXCEPT !.todo = @ \ {i},
                                                 !.read[i].stage = item'[i].stage])
    /\ UNCHANGED <<fields, faults>>

\* What `next` may claim of its copy: nothing when an item it looks at has no
\* status, which _selectable_work_item refuses.
Claimable(p) ==
    { i \in call[p].scope :
        /\ \A j \in call[p].scope : call[p].read[j].status # Blank
        /\ call[p].read[i].status = "Todo"
        /\ call[p].read[i].stage \in AgentStages }

\* set_status_agent_stage writes the stage of the copy, one that was filled in
\* included.
ClaimItem(p) ==
    /\ pc[p] = "sync" /\ call[p].todo = {}
    /\ \/ \E i \in Claimable(p) :
            Write(i, [item[i] EXCEPT !.stage = call[p].read[i].stage, !.status = "InProgress"])
       \/ Claimable(p) = {} /\ UNCHANGED <<item, writes>>
    /\ Stop(p)
    /\ UNCHANGED <<fields, faults>>

\* project_issue_item: the strict read of a targeted command
ReadIssue(p) ==
    /\ pc[p] = "items" /\ call[p].command = "targeted"
    /\ \E i \in InProject :
         IF Readable(item[i])
         THEN GoOn(p, "write", [call[p] EXCEPT !.scope = {i}, !.read = item[i]])
         ELSE Stop(p)
    /\ UNCHANGED <<fields, item, writes, faults>>

\* transition_issue writes the stage that follows the one read; `claim` the stage
\* it read, if agents own it; reset_for_next stage and route.
WriteIssue(p) ==
    /\ pc[p] = "write"
    /\ \E i \in call[p].scope :
         \/ \E signal \in Signals :
               /\ IsTransition(call[p].read.stage, signal, RouteValue(call[p].read.route))
               /\ LET next == Transition(call[p].read, signal)
                  IN  Write(i, [item[i] EXCEPT !.stage = next.stage, !.status = next.status])
         \/ /\ call[p].read.stage \in AgentStages
            /\ Write(i, [item[i] EXCEPT !.stage = call[p].read.stage, !.status = "InProgress"])
         \/ Write(i, [item[i] EXCEPT !.stage = "Planning", !.route = "HumanOnly",
                                     !.status = "Todo"])
    /\ Stop(p)
    /\ UNCHANGED <<fields, faults>>

\* The command finds nothing to write.
WriteNothing(p) ==
    /\ pc[p] \in {"sync", "write"}
    /\ Stop(p)
    /\ UNCHANGED <<fields, item, writes, faults>>

\* The process dies between two calls.
Die(p) ==
    /\ pc[p] # "idle"
    /\ faults < MaxFaults
    /\ faults' = faults + 1
    /\ Stop(p)
    /\ UNCHANGED <<fields, item, writes>>

-------------------------------------------------------------------------------
(* On GitHub *)

\* A maintainer sets the review route of an item.
ChooseRoute(i) ==
    /\ i \in InProject /\ "ReviewRoute" \in fields
    /\ Write(i, [item[i] EXCEPT !.route = "ReviewBoth"])
    /\ UNCHANGED <<fields, pc, call, faults>>

\* A maintainer sets its status.
ChooseStatus(i) ==
    /\ i \in InProject /\ "Status" \in fields
    /\ Write(i, [item[i] EXCEPT !.status = "Todo"])
    /\ UNCHANGED <<fields, pc, call, faults>>

\* An issue is added to the Project, with its workflow fields blank, unless the
\* Project gives it a status.
AddItem(i) ==
    /\ i \notin InProject
    /\ \E status \in {Blank, "Todo"} :
         /\ status = "Todo" => "Status" \in fields
         /\ Write(i, [item[i] EXCEPT !.status = status])
    /\ UNCHANGED <<fields, pc, call, faults>>

Advance(p) ==
    \/ CreateField(p)
    \/ RefetchFields(p)
    \/ ReadLegacyItems(p)
    \/ PatchItem(p)
    \/ ReportMigration(p)
    \/ EndMigration(p)
    \/ ReadItems(p)
    \/ SyncItem(p)
    \/ ClaimItem(p)
    \/ ReadIssue(p)
    \/ WriteIssue(p)
    \/ WriteNothing(p)

NewlyChanged == { i \in Issues : Meaning(item'[i]) # Meaning(item[i]) }

RecordChanges ==
    changed' = [p \in Programs |->
                  IF pc'[p] = "patch" THEN changed[p] \union NewlyChanged ELSE {}]

ProjectNext ==
    /\ \/ \E p \in Programs :
             \/ \E command \in {"migrate", "next", "targeted"} : FetchFields(p, command)
             \/ Advance(p)
             \/ Die(p)
       \/ \E i \in Issues : ChooseRoute(i) \/ ChooseStatus(i) \/ AddItem(i)
    /\ RecordChanges

ProjectSpec == ProjectInit /\ [][ProjectNext]_projectVars

\* Somebody runs the migration again until it is done, and a command that has
\* begun goes on; faults and other writes are bounded.
ProjectFairness ==
    \A p \in Programs :
        /\ WF_projectVars(Advance(p) /\ RecordChanges)
        /\ SF_projectVars(FetchFields(p, "migrate") /\ RecordChanges)

FairProjectSpec == ProjectSpec /\ ProjectFairness

-------------------------------------------------------------------------------
(* Properties *)

\* The values each variable ranges over; a helper that has come past its
\* project_context finds every field it writes.
FieldsTypeOK ==
    /\ fields \subseteq Required
    /\ item \in [Issues -> ItemValues]
    /\ pc \in [Programs -> {"idle", "create", "items", "patch", "report", "sync", "write"}]
    /\ \A p \in Programs :
          /\ call[p].missing \subseteq Required
          /\ call[p].todo \subseteq Issues
          /\ pc[p] \notin {"idle", "create"} => Required \subseteq fields

\* What an item means to routine reads, its filled-in stage and route, is what
\* migrate-workflow-stages --apply writes: a patch changes the meaning of no item
\* but one that other commands or people changed since the migration read it.
MigrationKeepsMeaning ==
    [][\A p \in Programs, i \in Issues :
         pc[p] = "patch" /\ call'[p] # call[p] /\ i \notin changed[p] =>
             Meaning(item'[i]) = Meaning(item[i])]_projectVars

\* When the migration reports, each item it read has a stage, without which the
\* strict reads of targeted commands refuse it, and a route of its own: whatever
\* the Project held, whichever of the four fields it lacked, and what others wrote
\* meanwhile.
AppliedIsReadable ==
    \A p \in Programs : pc[p] = "report" =>
        \A i \in call[p].scope : Readable(item[i]) /\ item[i].route # Blank

\* A migration that is run again until it ends ends: helpers that died between
\* two field creations or two patches, helpers that create the same fields, and
\* commands at work meanwhile leave nothing it could not go on from.
MigrationCompletes == <>[](\A i \in InProject : Readable(item[i]))
===============================================================================
