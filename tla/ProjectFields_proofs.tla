-------------------------- MODULE ProjectFields_proofs --------------------------
(***************************************************************************)
(* Proofs about ProjectFields, for any number of issues, helpers, writes   *)
(* and deaths: a migration leaves nothing it read unreadable and changes   *)
(* the meaning of nothing that others left alone.                          *)
(***************************************************************************)
EXTENDS ProjectFields, TLAPS

-------------------------------------------------------------------------------
(* The invariant *)

UpdateValues == [stage : Stages \union {Blank}, route : ReviewRoutes \union {Blank}]

CopyValues ==
    [stage : Stages, route : ReviewRoutes, status : Statuses \union {Blank, "absent"}]

\* What a helper may remember of what it read: nothing, values to write or copies
\* per issue, or one item.
Reads ==
    {<<>>} \union [Issues -> UpdateValues] \union [Issues -> CopyValues] \union ItemValues

CallValues ==
    [command : {"none", "migrate", "next", "targeted"}, missing : SUBSET Required,
     todo : SUBSET Issues, scope : SUBSET Issues, read : Reads]

\* An item the migration read and that still lacks a value is still to be
\* patched, with a value for it,
LacksOnlyTodo(p) ==
    \A i \in call[p].scope :
        /\ item[i].stage = Blank => i \in call[p].todo /\ call[p].read[i].stage # Blank
        /\ item[i].route = Blank => i \in call[p].todo /\ call[p].read[i].route # Blank

\* and the values of an item that means what it meant are that meaning.
UpdatesMean(p) ==
    \A i \in Issues \ changed[p] :
        /\ call[p].read[i].stage \in {Blank, Meaning(item[i]).stage}
        /\ call[p].read[i].route \in {Blank, Meaning(item[i]).route}

ReadKnown(p) ==
    /\ pc[p] = "patch" =>
           call[p].read \in [Issues -> UpdateValues] /\ LacksOnlyTodo(p) /\ UpdatesMean(p)
    /\ pc[p] = "report" =>
           \A i \in call[p].scope : item[i].stage # Blank /\ item[i].route # Blank
    /\ pc[p] = "sync" => call[p].read \in [Issues -> CopyValues]
    /\ pc[p] = "write" => call[p].read \in ItemValues

FieldsInv ==
    /\ FieldsTypeOK
    /\ call \in [Programs -> CallValues]
    /\ \A p \in Programs : ReadKnown(p)
-------------------------------------------------------------------------------
(* Values *)

\* A blank value is neither a stage nor a route.
LEMMA BlankFacts ==
    /\ Blank \notin Stages /\ Blank \notin ReviewRoutes
    /\ Stages \subseteq Stages \union {Blank}
    /\ "Planning" \in Stages /\ "PlanApproval" \in Stages /\ "Implementation" \in Stages
    /\ "HumanOnly" \in ReviewRoutes /\ "ReviewBoth" \in ReviewRoutes
  BY DEF Blank, Stages, AgentStages, HumanStages, ReviewRoutes

\* _workflow_field_defaults_for_item fills exactly the blank fields, each with
\* what routine reads take the item to be.
LEMMA UpdatesFacts ==
    ASSUME NEW it \in ItemValues
    PROVE  /\ Meaning(it).stage \in Stages /\ Meaning(it).route \in ReviewRoutes
           /\ Updates(it) \in UpdateValues /\ Meaning(it) \in UpdateValues
           /\ Updates(it).stage = IF it.stage = Blank THEN Meaning(it).stage ELSE Blank
           /\ Updates(it).route = IF it.route = Blank THEN Meaning(it).route ELSE Blank
           /\ Updates(it).stage = Blank /\ Updates(it).route = Blank <=> Updates(it) = NoUpdates
<1>1. it.stage \in Stages \union {Blank} /\ it.route \in ReviewRoutes \union {Blank}
  BY DEF ItemValues
<1>2. StageValue(it.stage, it.legacy) \in Stages
  BY <1>1, BlankFacts DEF StageValue
<1>3. RouteValue(it.route) \in ReviewRoutes
  BY <1>1, BlankFacts DEF RouteValue
<1> QED
  BY <1>1, <1>2, <1>3, BlankFacts DEF Meaning, Updates, UpdateValues, NoUpdates

\* A patch writes the values it names and leaves the others.
LEMMA PatchedFacts ==
    ASSUME NEW it \in ItemValues, NEW updates \in UpdateValues
    PROVE  /\ Patched(it, updates) \in ItemValues
           /\ Patched(it, updates).legacy = it.legacy
           /\ Patched(it, updates).stage =
                  IF updates.stage = Blank THEN it.stage ELSE updates.stage
           /\ Patched(it, updates).route =
                  IF updates.route = Blank THEN it.route ELSE updates.route
  BY DEF Patched, UpdateValues, ItemValues

\* A transition needs a stage, writes one and leaves the route.
LEMMA TransitionFacts ==
    ASSUME NEW it \in ItemValues, NEW signal,
           IsTransition(it.stage, signal, RouteValue(it.route))
    PROVE  /\ Transition(it, signal) \in ItemValues
           /\ Transition(it, signal).stage \in Stages
           /\ Transition(it, signal).route = it.route
           /\ Transition(it, signal).status = "Todo"
<1> DEFINE route == RouteValue(it.route)
           chosen == CHOOSE row \in TransitionTable(route) : row.stage = it.stage /\ row.signal = signal
<1>1. chosen \in TransitionTable(route)
  BY DEF IsTransition
<1>2. \A row \in TransitionTable(route) : row.next \in Stages
  BY DEF TransitionTable, Row, Stages, AgentStages, HumanStages
<1>3. NextStage(it.stage, signal, route) \in Stages
  BY <1>1, <1>2 DEF NextStage
<1> QED
  BY <1>3 DEF Transition, ItemValues, Statuses

-------------------------------------------------------------------------------
(* What a step does to the items, and to the helper that takes it. *)

\* Items keep their types, and no value becomes blank again.
NoneBlanked ==
    /\ item' \in [Issues -> ItemValues]
    /\ \A i \in Issues : /\ item'[i].stage = Blank => item[i].stage = Blank
                         /\ item'[i].route = Blank => item[i].route = Blank

\* No value is blanked by steps that write no item,
LEMMA ItemsUntouched ==
    ASSUME FieldsInv, UNCHANGED item
    PROVE  NoneBlanked
  BY DEF FieldsInv, FieldsTypeOK, NoneBlanked

\* nor by a write that leaves no field blank that was not.
LEMMA WriteBlanksNone ==
    ASSUME FieldsInv, NEW i, NEW values, item' = [item EXCEPT ![i] = values],
           i \in Issues => /\ values \in ItemValues
                           /\ values.stage = Blank => item[i].stage = Blank
                           /\ values.route = Blank => item[i].route = Blank
    PROVE  NoneBlanked
<1>1. item \in [Issues -> ItemValues]
  BY DEF FieldsInv, FieldsTypeOK
<1>2. \A j \in Issues : item'[j] = IF j = i THEN values ELSE item[j]
  BY <1>1
<1>3. item' \in [Issues -> ItemValues]
  BY <1>1
<1> QED
  BY <1>1, <1>2, <1>3 DEF NoneBlanked

\* A helper that goes on.
LEMMA GoOnFacts ==
    ASSUME FieldsInv, NEW p \in Programs, NEW next, NEW update, GoOn(p, next, update)
    PROVE  /\ pc'[p] = next /\ call'[p] = update
           /\ \A q \in Programs \ {p} : pc'[q] = pc[q] /\ call'[q] = call[q]
           /\ next \in {"idle", "create", "items", "patch", "report", "sync", "write"} =>
                  pc' \in [Programs -> {"idle", "create", "items", "patch", "report", "sync", "write"}]
           /\ update \in CallValues => call' \in [Programs -> CallValues]
  BY DEF GoOn, FieldsInv, FieldsTypeOK

\* A program that does nothing is typed.
LEMMA NoCallTyped == NoCall \in CallValues
  BY DEF NoCall, CallValues, Reads

\* What a helper knows stays true while others write.
LEMMA StillKnown ==
    ASSUME FieldsInv, RecordChanges, NoneBlanked, NEW q \in Programs,
           pc'[q] = pc[q], call'[q] = call[q]
    PROVE  ReadKnown(q)'
<1>1. ReadKnown(q) /\ call[q] \in CallValues
  BY DEF FieldsInv
<1>2. ASSUME pc[q] = "patch" PROVE LacksOnlyTodo(q)'
  BY <1>1, <1>2 DEF NoneBlanked, LacksOnlyTodo, ReadKnown, CallValues
<1>3. ASSUME pc[q] = "patch" PROVE UpdatesMean(q)'
  <2>1. changed'[q] = changed[q] \union NewlyChanged
    BY <1>3 DEF RecordChanges
  <2>2. \A i \in Issues \ changed'[q] :
           i \notin changed[q] /\ Meaning(item'[i]) = Meaning(item[i])
    BY <2>1 DEF NewlyChanged
  <2> QED
    BY <1>1, <1>3, <2>2 DEF UpdatesMean, ReadKnown
<1>4. ASSUME pc[q] = "report", NEW i \in call[q].scope
      PROVE  item'[i].stage # Blank /\ item'[i].route # Blank
  BY <1>1, <1>4 DEF NoneBlanked, ReadKnown, CallValues
<1> QED
  BY <1>1, <1>2, <1>3, <1>4 DEF ReadKnown

\* People on GitHub write items only.
LEMMA OthersOnly ==
    ASSUME FieldsInv, RecordChanges, NoneBlanked, UNCHANGED <<fields, pc, call>>
    PROVE  FieldsInv'
<1>1. \A q \in Programs : ReadKnown(q)'
  BY StillKnown
<1> QED
  BY <1>1 DEF FieldsInv, FieldsTypeOK, NoneBlanked

\* The invariant after a step of one helper: what that helper knows, and items
\* and fields that lost nothing.
LEMMA HelperSuffices ==
    ASSUME FieldsInv, NEW p \in Programs, NEW next, NEW update, GoOn(p, next, update),
           next \in {"idle", "create", "items", "patch", "report", "sync", "write"},
           update \in CallValues, RecordChanges, NoneBlanked,
           fields \subseteq fields', fields' \subseteq Required,
           next \notin {"idle", "create"} => Required \subseteq fields',
           ReadKnown(p)'
    PROVE  FieldsInv'
<1>1. /\ pc' \in [Programs -> {"idle", "create", "items", "patch", "report", "sync", "write"}]
      /\ call' \in [Programs -> CallValues]
      /\ pc'[p] = next /\ \A q \in Programs \ {p} : pc'[q] = pc[q] /\ call'[q] = call[q]
  BY GoOnFacts
<1>2. FieldsTypeOK'
  BY <1>1 DEF FieldsInv, FieldsTypeOK, CallValues, NoneBlanked
<1>3. \A q \in Programs \ {p} : ReadKnown(q)'
  BY <1>1, StillKnown
<1> QED
  BY <1>1, <1>2, <1>3 DEF FieldsInv

\* A helper that remembers nothing.
LEMMA Forgets ==
    ASSUME NEW p \in Programs, pc'[p] \in {"idle", "create", "items"}
    PROVE  ReadKnown(p)'
  BY DEF ReadKnown

\* A program that stops needs to show only what it wrote.
LEMMA StopSuffices ==
    ASSUME FieldsInv, NEW p \in Programs, Stop(p), RecordChanges, NoneBlanked, UNCHANGED fields
    PROVE  FieldsInv'
<1>1. GoOn(p, "idle", NoCall) /\ pc'[p] = "idle"
  BY GoOnFacts DEF Stop
<1>2. ReadKnown(p)'
  BY <1>1, Forgets
<1> QED
  BY <1>1, <1>2, NoCallTyped, HelperSuffices DEF FieldsInv, FieldsTypeOK
-------------------------------------------------------------------------------
(* Step by step *)

\* Every step keeps the invariant.
LEMMA StepKnown == FieldsInv /\ ProjectNext => FieldsInv'
<1> SUFFICES ASSUME FieldsInv, ProjectNext PROVE FieldsInv'
  OBVIOUS
<1>0. /\ RecordChanges
      /\ fields \subseteq Required /\ item \in [Issues -> ItemValues]
      /\ \A p \in Programs : call[p] \in CallValues /\ ReadKnown(p)
      /\ \A p \in Programs : pc[p] \notin {"idle", "create"} => Required \subseteq fields
  BY DEF ProjectNext, FieldsInv, FieldsTypeOK
<1>1. ASSUME NEW p \in Programs, NEW command \in {"migrate", "next", "targeted"},
             FetchFields(p, command)
      PROVE  FieldsInv'
  <2>1. NoneBlanked /\ UNCHANGED fields
    BY <1>1, ItemsUntouched DEF FetchFields
  <2>2. CASE Stop(p)
    BY <1>0, <2>1, <2>2, StopSuffices
  <2>3. CASE ~ Stop(p)
    <3> DEFINE missing == Missing(fields)
               update == [NoCall EXCEPT !.command = command, !.missing = missing]
               next == IF missing = {} THEN "items" ELSE "create"
    <3>1. GoOn(p, next, update) /\ (missing = {} => Validated(fields))
      BY <1>1, <2>3 DEF FetchFields
    <3>2. update \in CallValues
      BY NoCallTyped DEF CallValues, Missing
    <3>3. next \in {"create", "items"} /\ (next \notin {"idle", "create"} => Required \subseteq fields')
      BY <2>1, <3>1 DEF Validated
    <3> HIDE DEF next, update
    <3>4. ReadKnown(p)'
      BY <3>1, <3>3, GoOnFacts, Forgets
    <3> QED
      BY <1>0, <2>1, <3>1, <3>2, <3>3, <3>4, HelperSuffices
  <2> QED
    BY <2>2, <2>3
<1>2. ASSUME NEW p \in Programs, CreateField(p) PROVE FieldsInv'
  <2> DEFINE field == FirstMissing(call[p].missing)
  <2>1. NoneBlanked
    BY <1>2, ItemsUntouched DEF CreateField
  <2>2. CASE field \in fields
    BY <1>0, <1>2, <2>1, <2>2, StopSuffices DEF CreateField
  <2>3. CASE field \notin fields
    <3> DEFINE update == [call[p] EXCEPT !.missing = @ \ {field}]
    <3>1. GoOn(p, "create", update) /\ fields' = fields \union {field}
      BY <1>2, <2>3 DEF CreateField
    <3>2. update \in CallValues
      BY <1>0 DEF CallValues
    <3>3. field \in Required
      <4>1. \E k \in DOMAIN WorkflowFields :
               /\ WorkflowFields[k] \in call[p].missing
               /\ \A j \in 1..k-1 : WorkflowFields[j] \notin call[p].missing
        <5>1. call[p].missing # {} /\ call[p].missing \subseteq Required
          BY <1>0, <1>2 DEF CreateField, CallValues
        <5>2. /\ DOMAIN WorkflowFields = {1, 2, 3, 4}
              /\ \E k \in {1, 2, 3, 4} : WorkflowFields[k] \in call[p].missing
          BY <5>1 DEF WorkflowFields, Required
        <5>3. \A k \in {1, 2, 3, 4} : \A j \in 1..k-1 : j \in {1, 2, 3, 4} /\ j < k
          OBVIOUS
        <5> QED
          BY <5>2, <5>3
      <4> QED
        BY <4>1 DEF FirstMissing, Required
    <3> HIDE DEF update, field
    <3>4. ReadKnown(p)'
      BY <3>1, GoOnFacts, Forgets
    <3> QED
      BY <1>0, <2>1, <3>1, <3>2, <3>3, <3>4, HelperSuffices
  <2> QED
    BY <2>2, <2>3
<1>3. ASSUME NEW p \in Programs, RefetchFields(p) PROVE FieldsInv'
  <2>1. NoneBlanked /\ UNCHANGED fields
    BY <1>3, ItemsUntouched DEF RefetchFields
  <2>2. CASE Stop(p)
    BY <1>0, <2>1, <2>2, StopSuffices
  <2>3. CASE ~ Stop(p)
    <3>1. GoOn(p, "items", call[p]) /\ Validated(fields)
      BY <1>3, <2>3 DEF RefetchFields
    <3>2. ReadKnown(p)'
      BY <3>1, GoOnFacts, Forgets
    <3> QED
      BY <1>0, <2>1, <3>1, <3>2, HelperSuffices DEF Validated
  <2> QED
    BY <2>2, <2>3
<1>4. ASSUME NEW p \in Programs, ReadLegacyItems(p) PROVE FieldsInv'
  <2> DEFINE todo == { i \in InProject : Updates(item[i]) # NoUpdates }
             read == [i \in Issues |-> Updates(item[i])]
             update == [call[p] EXCEPT !.todo = todo, !.scope = InProject, !.read = read]
  <2>1. /\ GoOn(p, "patch", update) /\ pc[p] = "items" /\ UNCHANGED <<fields, item>>
        /\ NoneBlanked
    BY <1>4, ItemsUntouched DEF ReadLegacyItems
  <2>2. /\ read \in [Issues -> UpdateValues]
        /\ \A i \in Issues :
              /\ read[i] = Updates(item[i])
              /\ read[i].stage = IF item[i].stage = Blank THEN Meaning(item[i]).stage ELSE Blank
              /\ read[i].route = IF item[i].route = Blank THEN Meaning(item[i]).route ELSE Blank
              /\ Meaning(item[i]).stage # Blank /\ Meaning(item[i]).route # Blank
    BY <1>0, UpdatesFacts, BlankFacts
  <2>3. todo \subseteq Issues /\ InProject \subseteq Issues
    BY DEF InProject
  <2>4. \A i \in InProject : item[i].stage = Blank \/ item[i].route = Blank => i \in todo
    BY <1>0, <2>2, <2>3, UpdatesFacts
  <2>5. /\ update \in CallValues /\ update.todo = todo /\ update.scope = InProject
        /\ update.read = read
    <3> HIDE DEF todo, read
    <3> QED
      BY <1>0, <2>2, <2>3 DEF CallValues, Reads
  <2>6. pc'[p] = "patch" /\ call'[p] = update
    BY <2>1, GoOnFacts
  <2> HIDE DEF update, read, todo
  <2>7. ReadKnown(p)'
    <3>1. LacksOnlyTodo(p)'
      BY <2>1, <2>2, <2>3, <2>4, <2>5, <2>6 DEF LacksOnlyTodo
    <3>2. UpdatesMean(p)'
      BY <2>1, <2>2, <2>5, <2>6 DEF UpdatesMean
    <3> QED
      BY <2>2, <2>5, <2>6, <3>1, <3>2 DEF ReadKnown
  <2> QED
    BY <1>0, <2>1, <2>5, <2>7, HelperSuffices
<1>5. ASSUME NEW p \in Programs, PatchItem(p) PROVE FieldsInv'
  <2> DEFINE i == First(call[p].todo)
             values == Patched(item[i], call[p].read[i])
             update == [call[p] EXCEPT !.todo = @ \ {i}]
  <2>1. /\ GoOn(p, "patch", update) /\ pc[p] = "patch" /\ UNCHANGED fields
        /\ item' = [item EXCEPT ![i] = values]
    BY <1>5 DEF PatchItem
  <2>2. call[p].read \in [Issues -> UpdateValues] /\ LacksOnlyTodo(p) /\ UpdatesMean(p)
    BY <1>0, <2>1 DEF ReadKnown
  <2>3. i \in Issues => /\ values \in ItemValues
                        /\ values.stage = IF call[p].read[i].stage = Blank THEN item[i].stage
                                          ELSE call[p].read[i].stage
                        /\ values.route = IF call[p].read[i].route = Blank THEN item[i].route
                                          ELSE call[p].read[i].route
    BY <1>0, <2>2, PatchedFacts
  <2>4. /\ update \in CallValues /\ update.todo = call[p].todo \ {i}
        /\ update.scope = call[p].scope /\ update.read = call[p].read
    <3> HIDE DEF i
    <3> QED
      BY <1>0 DEF CallValues
  <2>5. pc'[p] = "patch" /\ call'[p] = update
    BY <2>1, GoOnFacts
  <2>6. call[p].scope \subseteq Issues
    BY <1>0 DEF CallValues
  <2>7. \A j \in Issues : item'[j] = IF j = i THEN values ELSE item[j]
    BY <1>0, <2>1
  <2> HIDE DEF i, values, update
  <2>8. NoneBlanked
    BY <2>1, <2>3, WriteBlanksNone
  <2>9. LacksOnlyTodo(p)'
    BY <2>2, <2>3, <2>4, <2>5, <2>6, <2>7 DEF LacksOnlyTodo
  <2>10. UpdatesMean(p)'
    <3>1. changed'[p] = changed[p] \union NewlyChanged
      BY <1>0, <2>5 DEF RecordChanges
    <3>2. \A j \in Issues \ changed'[p] :
             j \notin changed[p] /\ Meaning(item'[j]) = Meaning(item[j])
      BY <3>1 DEF NewlyChanged
    <3> QED
      BY <2>2, <2>4, <2>5, <3>2 DEF UpdatesMean
  <2>11. ReadKnown(p)'
    BY <2>2, <2>4, <2>5, <2>9, <2>10 DEF ReadKnown
  <2> QED
    BY <1>0, <2>1, <2>4, <2>8, <2>11, HelperSuffices
<1>6. ASSUME NEW p \in Programs, ReportMigration(p) PROVE FieldsInv'
  <2> DEFINE update == [call[p] EXCEPT !.read = <<>>]
  <2>1. /\ GoOn(p, "report", update) /\ pc[p] = "patch" /\ call[p].todo = {}
        /\ UNCHANGED <<fields, item>>
    BY <1>6 DEF ReportMigration
  <2>2. NoneBlanked
    BY <2>1, ItemsUntouched
  <2>3. update \in CallValues /\ update.scope = call[p].scope
    BY <1>0 DEF CallValues, Reads
  <2> HIDE DEF update
  <2>4. pc'[p] = "report" /\ call'[p] = update
    BY <2>1, GoOnFacts
  <2>5. ReadKnown(p)'
    BY <1>0, <2>1, <2>3, <2>4 DEF ReadKnown, LacksOnlyTodo
  <2> QED
    BY <1>0, <2>1, <2>2, <2>3, <2>5, HelperSuffices
<1>7. ASSUME NEW p \in Programs, EndMigration(p) \/ WriteNothing(p) \/ Die(p) PROVE FieldsInv'
  BY <1>0, <1>7, ItemsUntouched, StopSuffices DEF EndMigration, WriteNothing, Die
<1>8. ASSUME NEW p \in Programs, ReadItems(p) PROVE FieldsInv'
  <2> DEFINE todo(shown) == { i \in shown : /\ item[i].status = "Todo"
                                            /\ Meaning(item[i]).stage \in HumanStages }
             read == [i \in Issues |-> Copy(item[i])]
  <2>1. /\ pc[p] = "items" /\ UNCHANGED <<fields, item>> /\ NoneBlanked
    BY <1>8, ItemsUntouched DEF ReadItems
  <2>2. PICK shown \in SUBSET InProject :
           GoOn(p, "sync", [call[p] EXCEPT !.todo = todo(shown), !.scope = shown, !.read = read])
    BY <1>8 DEF ReadItems
  <2> DEFINE update == [call[p] EXCEPT !.todo = todo(shown), !.scope = shown, !.read = read]
  <2>3. read \in [Issues -> CopyValues]
    <3>1. \A i \in Issues : Copy(item[i]) \in CopyValues
      BY <1>0, UpdatesFacts DEF Copy, CopyValues, ItemValues
    <3> QED
      BY <3>1
  <2>4. todo(shown) \subseteq Issues /\ shown \subseteq Issues
    BY DEF InProject
  <2>5. update \in CallValues /\ update.read = read
    <3> HIDE DEF todo, read
    <3> QED
      BY <1>0, <2>3, <2>4 DEF CallValues, Reads
  <2>6. GoOn(p, "sync", update)
    BY <2>2
  <2> HIDE DEF update, read
  <2>7. ReadKnown(p)'
    BY <2>3, <2>5, <2>6, GoOnFacts DEF ReadKnown
  <2> QED
    BY <1>0, <2>1, <2>5, <2>6, <2>7, HelperSuffices
<1>9. ASSUME NEW p \in Programs, SyncItem(p) PROVE FieldsInv'
  <2> DEFINE i == First(call[p].todo)
             update == [call[p] EXCEPT !.todo = @ \ {i}, !.read[i].stage = item'[i].stage]
  <2>1. pc[p] = "sync" /\ UNCHANGED fields
    BY <1>9 DEF SyncItem
  <2>2. CASE Stop(p) /\ UNCHANGED item
    BY <1>0, <2>1, <2>2, ItemsUntouched, StopSuffices
  <2>3. CASE ~ (Stop(p) /\ UNCHANGED item)
    <3>1. /\ Readable(item[i]) /\ GoOn(p, "sync", update)
          /\ \/ UNCHANGED item
             \/ \E signal \in HumanSignals :
                   /\ IsTransition(item[i].stage, signal, RouteValue(item[i].route))
                   /\ item' = [item EXCEPT ![i] = Transition(item[i], signal)]
      BY <1>9, <2>3 DEF SyncItem, Write
    <3>2. NoneBlanked
      BY <1>0, <3>1, ItemsUntouched, WriteBlanksNone, TransitionFacts, BlankFacts
    <3>3. i \in Issues => item'[i].stage \in Stages
      <4>1. ASSUME i \in Issues PROVE item'[i].stage \in Stages \union {Blank} /\ item'[i].stage # Blank
        BY <1>0, <3>1, <3>2, <4>1 DEF NoneBlanked, Readable, ItemValues
      <4> QED
        BY <4>1
    <3>4. call[p].read \in [Issues -> CopyValues] /\ call[p] \in CallValues
      BY <1>0, <2>1 DEF ReadKnown
    <3> DEFINE read == [call[p].read EXCEPT ![i].stage = item'[i].stage]
    <3>5. read \in [Issues -> CopyValues]
      <4> HIDE DEF i
      <4>1. ASSUME i \in Issues
            PROVE  [call[p].read[i] EXCEPT !.stage = item'[i].stage] \in CopyValues
        BY <3>3, <3>4, <4>1 DEF CopyValues
      <4> QED
        BY <3>4, <4>1
    <3>6. update \in CallValues /\ update.read = read
      <4> HIDE DEF i, read
      <4>1. update = [call[p] EXCEPT !.todo = call[p].todo \ {i}, !.read = read]
        BY <3>4 DEF CallValues, read
      <4>2. read \in Reads
        BY <3>5 DEF Reads
      <4> QED
        BY <3>4, <4>1, <4>2 DEF CallValues
    <3> HIDE DEF update, read
    <3>7. ReadKnown(p)'
      BY <1>0, <2>1, <3>1, <3>5, <3>6, GoOnFacts DEF ReadKnown
    <3> QED
      BY <1>0, <2>1, <3>1, <3>2, <3>6, <3>7, HelperSuffices
  <2> QED
    BY <2>2, <2>3
<1>10. ASSUME NEW p \in Programs, ClaimItem(p) PROVE FieldsInv'
  <2>1. /\ pc[p] = "sync" /\ Stop(p) /\ UNCHANGED fields
        /\ \/ UNCHANGED item
           \/ \E i \in Claimable(p) :
                 item' = [item EXCEPT ![i] = [item[i] EXCEPT !.stage = call[p].read[i].stage,
                                                             !.status = "InProgress"]]
    BY <1>10 DEF ClaimItem, Write
  <2>2. ASSUME NEW i \in Issues
        PROVE  LET values == [item[i] EXCEPT !.stage = call[p].read[i].stage, !.status = "InProgress"]
               IN  /\ values \in ItemValues
                   /\ values.stage # Blank /\ values.route = item[i].route
    <3>1. call[p].read[i] \in CopyValues
      BY <1>0, <2>1 DEF ReadKnown
    <3>2. call[p].read[i].stage \in Stages
      BY <3>1 DEF CopyValues
    <3> QED
      BY <1>0, <3>2, BlankFacts DEF ItemValues, Statuses
  <2>3. Claimable(p) \subseteq Issues
    BY <1>0 DEF CallValues, Claimable
  <2>4. NoneBlanked
    BY <2>1, <2>2, <2>3, ItemsUntouched, WriteBlanksNone
  <2> QED
    BY <1>0, <2>1, <2>4, StopSuffices
<1>11. ASSUME NEW p \in Programs, ReadIssue(p) PROVE FieldsInv'
  <2>1. pc[p] = "items" /\ UNCHANGED <<fields, item>> /\ NoneBlanked
    BY <1>11, ItemsUntouched DEF ReadIssue
  <2>2. CASE Stop(p)
    BY <1>0, <2>1, <2>2, StopSuffices
  <2>3. CASE ~ Stop(p)
    <3>1. PICK i \in InProject : GoOn(p, "write", [call[p] EXCEPT !.scope = {i}, !.read = item[i]])
      BY <1>11, <2>3 DEF ReadIssue
    <3> DEFINE update == [call[p] EXCEPT !.scope = {i}, !.read = item[i]]
    <3>2. i \in Issues /\ item[i] \in ItemValues
      BY <1>0 DEF InProject
    <3>3. update \in CallValues /\ update.read = item[i]
      BY <1>0, <3>2 DEF CallValues, Reads
    <3>4. GoOn(p, "write", update)
      BY <3>1
    <3> HIDE DEF update
    <3>5. pc'[p] = "write" /\ call'[p] = update
      BY <3>4, GoOnFacts
    <3>6. ReadKnown(p)'
      BY <3>2, <3>3, <3>5 DEF ReadKnown
    <3> QED
      BY <1>0, <2>1, <3>3, <3>4, <3>6, HelperSuffices
  <2> QED
    BY <2>2, <2>3
<1>12. ASSUME NEW p \in Programs, WriteIssue(p) PROVE FieldsInv'
  <2>1. /\ pc[p] = "write" /\ Stop(p) /\ UNCHANGED fields
        /\ call[p].read \in ItemValues /\ call[p].scope \subseteq Issues
    BY <1>0, <1>12 DEF WriteIssue, ReadKnown, CallValues
  <2>2. PICK i \in Issues :
         \/ \E signal \in Signals :
               /\ IsTransition(call[p].read.stage, signal, RouteValue(call[p].read.route))
               /\ LET next == Transition(call[p].read, signal)
                  IN  item' = [item EXCEPT ![i] = [item[i] EXCEPT !.stage = next.stage,
                                                                 !.status = next.status]]
         \/ /\ call[p].read.stage \in AgentStages
            /\ item' = [item EXCEPT ![i] = [item[i] EXCEPT !.stage = call[p].read.stage,
                                                           !.status = "InProgress"]]
         \/ item' = [item EXCEPT ![i] = [item[i] EXCEPT !.stage = "Planning",
                                                        !.route = "HumanOnly",
                                                        !.status = "Todo"]]
    BY <1>12, <2>1 DEF WriteIssue, Write
  <2>3. \A stage \in Stages, status \in Statuses :
           LET values == [item[i] EXCEPT !.stage = stage, !.status = status]
           IN  values \in ItemValues /\ values.stage = stage /\ values.route = item[i].route
    BY <1>0 DEF ItemValues
  <2>4. NoneBlanked
    <3>1. CASE item' = [item EXCEPT ![i] = [item[i] EXCEPT !.stage = "Planning",
                                                           !.route = "HumanOnly",
                                                           !.status = "Todo"]]
      <4> DEFINE values == [item[i] EXCEPT !.stage = "Planning", !.route = "HumanOnly",
                                           !.status = "Todo"]
      <4>1. values \in ItemValues /\ values.stage = "Planning" /\ values.route = "HumanOnly"
        BY <1>0, BlankFacts DEF ItemValues, Statuses
      <4>2. item' = [item EXCEPT ![i] = values]
        BY <3>1
      <4> HIDE DEF values
      <4>3. values.stage # Blank /\ values.route # Blank
        BY <4>1, BlankFacts
      <4> QED
        BY <4>1, <4>2, <4>3, WriteBlanksNone
    <3>2. ASSUME NEW stage \in Stages, NEW status \in Statuses,
                 item' = [item EXCEPT ![i] = [item[i] EXCEPT !.stage = stage, !.status = status]]
          PROVE  NoneBlanked
      <4> DEFINE values == [item[i] EXCEPT !.stage = stage, !.status = status]
      <4>1. values \in ItemValues /\ values.stage = stage /\ values.route = item[i].route
        BY <2>3, BlankFacts
      <4>2. item' = [item EXCEPT ![i] = values]
        BY <3>2
      <4> HIDE DEF values
      <4>3. values.stage # Blank
        BY <4>1, BlankFacts
      <4> QED
        BY <4>1, <4>2, <4>3, WriteBlanksNone
    <3>3. "Todo" \in Statuses /\ "InProgress" \in Statuses /\ AgentStages \subseteq Stages
      BY DEF Statuses, Stages
    <3> QED
      <4>1. CASE \E signal \in Signals :
                  /\ IsTransition(call[p].read.stage, signal, RouteValue(call[p].read.route))
                  /\ LET next == Transition(call[p].read, signal)
                     IN  item' = [item EXCEPT ![i] = [item[i] EXCEPT !.stage = next.stage,
                                                                    !.status = next.status]]
        <5>1. PICK signal \in Signals :
                 /\ IsTransition(call[p].read.stage, signal, RouteValue(call[p].read.route))
                 /\ LET next == Transition(call[p].read, signal)
                    IN  item' = [item EXCEPT ![i] = [item[i] EXCEPT !.stage = next.stage,
                                                                   !.status = next.status]]
          BY <4>1
        <5>2. /\ Transition(call[p].read, signal).stage \in Stages
              /\ Transition(call[p].read, signal).status \in Statuses
          BY <2>1, <3>3, <5>1, TransitionFacts
        <5> QED
          BY <3>2, <5>1, <5>2
      <4>2. CASE /\ call[p].read.stage \in AgentStages
                 /\ item' = [item EXCEPT ![i] = [item[i] EXCEPT !.stage = call[p].read.stage,
                                                                !.status = "InProgress"]]
        BY <3>2, <3>3, <4>2
      <4> QED
        BY <2>2, <3>1, <4>1, <4>2
  <2> QED
    BY <1>0, <2>1, <2>4, StopSuffices
<1>13. ASSUME NEW i \in Issues, ChooseRoute(i) \/ ChooseStatus(i) \/ AddItem(i)
       PROVE  FieldsInv'
  <2>1. UNCHANGED <<fields, pc, call>>
    BY <1>13 DEF ChooseRoute, ChooseStatus, AddItem
  <2>2. NoneBlanked
    <3>1. /\ [item[i] EXCEPT !.route = "ReviewBoth"] \in ItemValues
          /\ [item[i] EXCEPT !.route = "ReviewBoth"].stage = item[i].stage
          /\ [item[i] EXCEPT !.route = "ReviewBoth"].route = "ReviewBoth"
      BY <1>0, BlankFacts DEF ItemValues
    <3>2. \A status \in {Blank, "Todo"} :
             /\ [item[i] EXCEPT !.status = status] \in ItemValues
             /\ [item[i] EXCEPT !.status = status].stage = item[i].stage
             /\ [item[i] EXCEPT !.status = status].route = item[i].route
      BY <1>0 DEF ItemValues, Statuses
    <3>3. CASE ChooseRoute(i)
      BY <3>1, <3>3, BlankFacts, WriteBlanksNone DEF ChooseRoute, Write
    <3>4. CASE ChooseStatus(i) \/ AddItem(i)
      BY <3>2, <3>4, WriteBlanksNone DEF ChooseStatus, AddItem, Write
    <3> QED
      BY <1>13, <3>3, <3>4
  <2> QED
    BY <1>0, <2>1, <2>2, OthersOnly
<1> QED
  BY <1>1, <1>2, <1>3, <1>4, <1>5, <1>6, <1>7, <1>8, <1>9, <1>10, <1>11, <1>12, <1>13
     DEF ProjectNext, Advance

\* The invariant holds at first
LEMMA InitKnown == ProjectInit => FieldsInv
<1> SUFFICES ASSUME ProjectInit PROVE FieldsInv
  OBVIOUS
<1>1. \A p \in Programs : pc[p] = "idle" /\ call[p] = NoCall
  BY DEF ProjectInit
<1>2. fields \subseteq Required /\ item \in [Issues -> ItemValues]
  BY ProjectAssumption DEF ProjectInit
<1>3. call \in [Programs -> CallValues]
  BY NoCallTyped DEF ProjectInit
<1>4. FieldsTypeOK
  BY <1>1, <1>2, <1>3 DEF FieldsTypeOK, CallValues, ProjectInit
<1> QED
  BY <1>1, <1>3, <1>4 DEF FieldsInv, ReadKnown

\* and when nothing happens.
LEMMA StutterKnown == FieldsInv /\ UNCHANGED projectVars => FieldsInv'
  BY DEF FieldsInv, FieldsTypeOK, projectVars, ReadKnown, LacksOnlyTodo, UpdatesMean

\* The inductive invariant: whatever fields are created and items written meanwhile,
\* what a program has read is as good as it needs it (ReadKnown).
THEOREM FieldsKnown == ProjectSpec => []FieldsInv
<1>1. FieldsInv /\ [ProjectNext]_projectVars => FieldsInv'
  BY StepKnown, StutterKnown
<1> QED
  BY InitKnown, <1>1, PTL DEF ProjectSpec

-------------------------------------------------------------------------------
(* What follows *)

\* No helper writes a value outside an item's vocabulary, and none that is past
\* project_context writes a field the Project lacks, whoever creates fields.
THEOREM FieldsTyped == ProjectSpec => []FieldsTypeOK
<1>1. FieldsInv => FieldsTypeOK
  BY DEF FieldsInv
<1> QED
  BY FieldsKnown, <1>1, PTL

\* A migration that reports has given every item it read a stage, which the strict
\* reads want, and a route, whatever was claimed, moved, added or set while it ran.
THEOREM AppliedReadable == ProjectSpec => []AppliedIsReadable
<1>1. FieldsInv => AppliedIsReadable
  BY DEF FieldsInv, ReadKnown, AppliedIsReadable, Readable
<1> QED
  BY FieldsKnown, <1>1, PTL

\* Another helper's step leaves this one's call alone.
LEMMA CallOfMover ==
    ASSUME FieldsInv, ProjectNext, NEW p \in Programs, pc[p] = "patch", call'[p] # call[p]
    PROVE  PatchItem(p) \/ UNCHANGED item
<1>1. \A q \in Programs : \A next, update :
          GoOn(q, next, update) /\ q # p => call'[p] = call[p]
  BY GoOnFacts
<1>2. ASSUME NEW q \in Programs,
             Advance(q) \/ Die(q) \/ \E command \in {"migrate", "next", "targeted"} : FetchFields(q, command)
      PROVE  q = p
  BY <1>1, <1>2 DEF Advance, Die, FetchFields, CreateField, RefetchFields, ReadLegacyItems,
     PatchItem, ReportMigration, EndMigration, ReadItems, SyncItem, ClaimItem, ReadIssue,
     WriteIssue, WriteNothing, Stop
<1>3. ~ \E i \in Issues : ChooseRoute(i) \/ ChooseStatus(i) \/ AddItem(i)
  BY DEF ChooseRoute, ChooseStatus, AddItem
<1>4. \/ Advance(p) \/ Die(p)
      \/ \E command \in {"migrate", "next", "targeted"} : FetchFields(p, command)
  BY <1>2, <1>3 DEF ProjectNext
<1> QED
  BY <1>4 DEF Advance, Die, FetchFields, CreateField, RefetchFields, ReadLegacyItems,
     ReportMigration, EndMigration, ReadItems, SyncItem, ClaimItem, ReadIssue, WriteIssue,
     WriteNothing

\* A patch writes what the item already meant, unless its meaning was changed
\* after the migration read it.
THEOREM MeaningKept == ProjectSpec => MigrationKeepsMeaning
<1>1. FieldsInv /\ [ProjectNext]_projectVars =>
        [\A p \in Programs, i \in Issues :
           pc[p] = "patch" /\ call'[p] # call[p] /\ i \notin changed[p] =>
               Meaning(item'[i]) = Meaning(item[i])]_projectVars
  <2> SUFFICES ASSUME FieldsInv, ProjectNext, NEW p \in Programs, NEW i \in Issues,
                      pc[p] = "patch", call'[p] # call[p], i \notin changed[p]
               PROVE  Meaning(item'[i]) = Meaning(item[i])
    OBVIOUS
  <2>1. CASE UNCHANGED item
    BY <2>1
  <2>2. CASE PatchItem(p) /\ i # First(call[p].todo)
    BY <2>2 DEF PatchItem, FieldsInv, FieldsTypeOK
  <2>3. CASE PatchItem(p) /\ i = First(call[p].todo)
    <3>1. item[i] \in ItemValues /\ call[p].read[i] \in UpdateValues
      BY DEF FieldsInv, FieldsTypeOK, ReadKnown
    <3>2. item'[i] = Patched(item[i], call[p].read[i])
      BY <2>3 DEF PatchItem, FieldsInv, FieldsTypeOK
    <3>3. /\ call[p].read[i].stage \in {Blank, Meaning(item[i]).stage}
          /\ call[p].read[i].route \in {Blank, Meaning(item[i]).route}
      BY DEF FieldsInv, ReadKnown, UpdatesMean
    <3>4. /\ Meaning(item[i]).stage = StageValue(item[i].stage, item[i].legacy)
          /\ Meaning(item[i]).route = RouteValue(item[i].route)
      BY DEF Meaning
    <3>5. /\ StageValue(item'[i].stage, item'[i].legacy) = Meaning(item[i]).stage
          /\ RouteValue(item'[i].route) = Meaning(item[i]).route
      <4>1. /\ item'[i].legacy = item[i].legacy
            /\ item'[i].stage = IF call[p].read[i].stage = Blank THEN item[i].stage
                                ELSE call[p].read[i].stage
            /\ item'[i].route = IF call[p].read[i].route = Blank THEN item[i].route
                                ELSE call[p].read[i].route
        BY <3>1, <3>2, PatchedFacts
      <4>2. item'[i].stage = item[i].stage \/ item'[i].stage = Meaning(item[i]).stage
        BY <3>3, <4>1
      <4>3. item'[i].route = item[i].route \/ item'[i].route = Meaning(item[i]).route
        BY <3>3, <4>1
      <4>4. /\ Meaning(item[i]).stage # Blank /\ Meaning(item[i]).route # Blank
        BY <3>1, UpdatesFacts, BlankFacts
      <4>5. StageValue(item'[i].stage, item'[i].legacy) = Meaning(item[i]).stage
        <5>1. \A stage, legacy : stage # Blank => StageValue(stage, legacy) = stage
          BY DEF StageValue
        <5> QED
          BY <3>4, <4>1, <4>2, <4>4, <5>1
      <4>6. RouteValue(item'[i].route) = Meaning(item[i]).route
        <5>1. \A route : route # Blank => RouteValue(route) = route
          BY DEF RouteValue
        <5> QED
          BY <3>4, <4>3, <4>4, <5>1
      <4> QED
        BY <4>5, <4>6
    <3> QED
      BY <3>4, <3>5 DEF Meaning
  <2> QED
    BY <2>1, <2>2, <2>3, CallOfMover
<1> QED
  BY FieldsKnown, <1>1, PTL DEF ProjectSpec, MigrationKeepsMeaning
=============================================================================
