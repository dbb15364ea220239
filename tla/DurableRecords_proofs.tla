------------------------- MODULE DurableRecords_proofs -------------------------
(***************************************************************************)
(* Proofs about DurableRecords, for any items, workers, times, runs and    *)
(* documents: leases divide into active and expired ones,                  *)
(* find_runnable_work offers what was runnable, runs and their events      *)
(* agree, and what DocumentStore_proofs shows of the store holds of it     *)
(* here.                                                                   *)
(***************************************************************************)
EXTENDS DurableRecords, DocumentStore_proofs, FiniteSetTheorems

\* What a stored record, or none, tells of its lease.
LEMMA LeaseTyped ==
    ASSUME NEW record \in StateRecords \union {NoRecord}, record.lease # NoLease
    PROVE  record.lease.expires \in Times
BY DEF StateRecords, NoRecord, Leases

\* Times can be compared, and NoTime is none of them.
LEMMA TimesAreIntegers == Times \subseteq Int /\ NoTime \in Int /\ NoTime \notin Times
BY RepositoryAssumption DEF Times, NoTime

\* Having no record differs from every record.
LEMMA NoRecordIsNone == NoRecord \notin StateRecords
<1>1. DOMAIN NoRecord = {"lease"}
    BY DEF NoRecord
<1>2. \A r \in StateRecords : "fits" \in DOMAIN r
    BY DEF StateRecords
<1> QED BY <1>1, <1>2

\* _is_runnable decides what the port promises.
LEMMA RunnableIsOfferable ==
    ASSUME NEW item, NEW record \in StateRecords \union {NoRecord}, NEW q \in Queries
    PROVE  IsRunnable(item, record, q) <=> Offerable(item, record, q)
<1> DEFINE Free == q.now = NoTime \/ record.lease = NoLease \/ record.lease.expires <= q.now
<1>1. Free <=> (q.now # NoTime => ~ Active(record, q.now))
    <2>1. CASE record.lease = NoLease
        BY <2>1 DEF Active
    <2>2. CASE record.lease # NoLease
        <3>1. record.lease.expires \in Int /\ q.now \in Int
            BY <2>2, LeaseTyped, TimesAreIntegers DEF Queries
        <3> QED BY <2>2, <3>1 DEF Active
    <2> QED BY <2>1, <2>2
<1>2. CASE record = NoRecord
    <2>1. record \notin StateRecords
        BY <1>2, NoRecordIsNone
    <2> HIDE DEF Free
    <2>2. IsRunnable(item, record, q) <=>
            item.fits /\ item.home /\ (q.includeBlocked \/ ~ item.blocked) /\ Free
        BY <1>2, Zenon DEF IsRunnable, Free
    <2>3. Offerable(item, record, q) <=>
            item.fits /\ item.home /\ (q.includeBlocked \/ ~ item.blocked)
              /\ (q.now # NoTime => ~ Active(record, q.now))
        BY <1>2, <2>1, Zenon DEF Offerable
    <2> QED BY <1>1, <2>2, <2>3, Zenon
<1>3. CASE record \in StateRecords
    <2>1. record # NoRecord
        BY <1>3, NoRecordIsNone
    <2> HIDE DEF Free
    <2>2. IsRunnable(item, record, q) <=>
            record.fits /\ item.home
              /\ (q.includeBlocked \/ (~ item.blocked /\ ~ record.blocked)) /\ Free
        BY <2>1, Zenon DEF IsRunnable, Free
    <2>3. Offerable(item, record, q) <=>
            record.fits /\ item.home
              /\ (q.includeBlocked \/ (~ item.blocked /\ ~ record.blocked))
              /\ (q.now # NoTime => ~ Active(record, q.now))
        BY <1>3, <2>1, Zenon DEF Offerable
    <2> QED BY <1>1, <2>2, <2>3, Zenon
<1> QED BY <1>2, <1>3

-------------------------------------------------------------------------------
RecordsTyped ==
    /\ workItems \in [Items -> WorkItems]
    /\ records \in [Items -> StateRecords \union {NoRecord}]

\* The work items a query may have yet to look at
Todos == UNION { [items -> WorkItems] : items \in SUBSET Items }

QueryStates == [busy : BOOLEAN, asks : Queries, todo : Todos, found : SUBSET Items]

\* What a query may believe of the records: see OffersAreRunnable.  What it has
\* not yet looked at it may still find, if it is runnable as it was found.
QueryInv ==
    /\ query \in QueryStates
    /\ query.busy => query.found \subseteq ever
    /\ query.busy => always \subseteq query.found \union Waiting
    /\ query.busy => OfferableItems(query.todo, records, query.asks) \subseteq ever
    /\ query.busy =>
         always \intersect Waiting \subseteq OfferableItems(query.todo, records, query.asks)
    /\ ~ query.busy => Waiting = {}

RecordsInv == RecordsTyped /\ QueryInv

\* What is to be looked at is a work item for some of the items; none is at first,
\* and looking at one leaves the others.
LEMMA TodoTyped ==
    ASSUME NEW todo \in Todos
    PROVE  DOMAIN todo \subseteq Items /\ todo \in [DOMAIN todo -> WorkItems]
BY DEF Todos

LEMMA NothingToDo ==
    NoQuery \in QueryStates /\ DOMAIN NoQuery.todo = {} /\ NoQuery.busy = FALSE
<1>1. [i \in {} |-> i] \in [{} -> WorkItems] /\ {} \in SUBSET Items
    OBVIOUS
<1>2. [i \in {} |-> i] \in Todos
    BY <1>1 DEF Todos
<1> QED BY <1>2, TimesAreIntegers DEF NoQuery, Queries, QueryStates

LEMMA TodoLess ==
    ASSUME NEW todo \in Todos, NEW i
    PROVE  LET rest == Restrict(todo, DOMAIN todo \ {i}) IN
           /\ rest \in Todos
           /\ DOMAIN rest = DOMAIN todo \ {i}
           /\ \A j \in DOMAIN rest : rest[j] = todo[j]
<1> DEFINE S == DOMAIN todo \ {i}
<1>1. S \in SUBSET Items /\ \A j \in S : todo[j] \in WorkItems
    BY TodoTyped
<1>2. Restrict(todo, S) = [j \in S |-> todo[j]]
    BY DEF Restrict
<1>3. [j \in S |-> todo[j]] \in [S -> WorkItems]
    BY <1>1
<1>4. [j \in S |-> todo[j]] \in Todos
    BY <1>1, <1>3 DEF Todos
<1> QED BY <1>2, <1>4

\* An item that was runnable as it was found is so with a record that another state
\* of the item is runnable with.
LEMMA RecordDecides ==
    ASSUME NEW found, NEW stored, NEW record, NEW later \in StateRecords, NEW q,
           Offerable(found, record, q), Offerable(stored, later, q)
    PROVE  Offerable(found, later, q)
BY NoRecordIsNone DEF Offerable

\* The invariant of the queries holds at first
LEMMA RecordsInitInv == RecordsInit => RecordsInv
<1> SUFFICES ASSUME RecordsInit PROVE RecordsInv
    OBVIOUS
<1>1. (CHOOSE w \in SomeWorkItems : TRUE) \in SomeWorkItems
    BY RecordsAssumption
<1>2. workItems \in [Items -> SomeWorkItems]
    BY <1>1 DEF RecordsInit
<1>3. RecordsTyped
    BY <1>2, RecordsAssumption DEF RecordsInit, RecordsTyped
<1>4. query = NoQuery
    BY DEF RecordsInit
<1> QED BY <1>3, <1>4, NothingToDo, Zenon DEF RecordsInv, QueryInv, Waiting

\* is kept by the steps of the query,
LEMMA FindInv ==
    ASSUME RecordsInv, NEW q \in Queries, FindWorkItems(q)
    PROVE  RecordsInv'
<1>1. workItems \in [Items -> WorkItems] /\ UNCHANGED <<workItems, records>>
    BY DEF FindWorkItems, RecordsInv, RecordsTyped
<1>2. workItems \in Todos
    BY <1>1 DEF Todos
<1>3. /\ query'.busy = TRUE
      /\ query'.todo = workItems /\ query'.asks = q /\ query'.found = {}
      /\ query' \in QueryStates
    BY <1>2 DEF FindWorkItems, QueryStates
<1>4. /\ ever' = OfferableItems(workItems, records, q)
      /\ always' = OfferableItems(workItems, records, q)
    BY DEF FindWorkItems
<1>5. /\ OfferableItems(query.todo, records, query.asks)' = OfferableItems(workItems, records, q)
      /\ Waiting' = DOMAIN workItems
    BY <1>1, <1>3 DEF OfferableItems, Waiting
<1>6. OfferableItems(workItems, records, q) \subseteq DOMAIN workItems
    BY DEF OfferableItems
<1>7. QueryInv'
    BY <1>3, <1>4, <1>5, <1>6, Zenon DEF QueryInv
<1> QED BY <1>1, <1>7 DEF RecordsInv, RecordsTyped

LEMMA ReadInv ==
    ASSUME RecordsInv, ReadStateRecord
    PROVE  RecordsInv'
<1>1. PICK i \in Waiting :
         query' = [query EXCEPT
            !.todo = Restrict(query.todo, Waiting \ {i}),
            !.found = IF IsRunnable(query.todo[i], records[i], query.asks)
                      THEN query.found \union {i} ELSE query.found]
    BY DEF ReadStateRecord
<1>2. UNCHANGED <<workItems, records, ever, always>>
    BY DEF ReadStateRecord
<1>3. /\ query \in QueryStates /\ query.todo \in Todos /\ query.asks \in Queries
      /\ query.busy /\ i \in Items
    BY <1>1, TodoTyped DEF RecordsInv, QueryInv, QueryStates, Waiting
<1> DEFINE rest == Restrict(query.todo, Waiting \ {i})
           Able == OfferableItems(query.todo, records, query.asks)
<1>4. /\ rest \in Todos /\ DOMAIN rest = Waiting \ {i}
      /\ \A j \in Waiting \ {i} : rest[j] = query.todo[j]
    BY <1>3, TodoLess DEF Waiting
<1>5. records[i] \in StateRecords \union {NoRecord}
    BY <1>3 DEF RecordsInv, RecordsTyped
<1>6. i \in Able <=> IsRunnable(query.todo[i], records[i], query.asks)
    BY <1>1, <1>3, <1>5, RunnableIsOfferable DEF OfferableItems, Waiting
<1>7. /\ query'.busy = query.busy /\ query'.asks = query.asks /\ query'.todo = rest
      /\ query' \in QueryStates
      /\ query'.found = IF i \in Able THEN query.found \union {i} ELSE query.found
    <2> HIDE DEF rest, Able
    <2>1. query' = [query EXCEPT !.todo = rest,
                       !.found = IF i \in Able THEN query.found \union {i} ELSE query.found]
        BY <1>1, <1>6 DEF rest
    <2> QED BY <1>3, <1>4, <2>1 DEF QueryStates
<1>8. Waiting' = Waiting \ {i}
    BY <1>4, <1>7 DEF Waiting
<1>9. OfferableItems(query.todo, records, query.asks)' = Able \ {i}
    BY <1>2, <1>4, <1>7 DEF OfferableItems, Waiting
<1>10. QueryInv'
    <2> HIDE DEF rest, Able
    <2>1. /\ query.found \subseteq ever /\ always \subseteq query.found \union Waiting
          /\ Able \subseteq ever /\ always \intersect Waiting \subseteq Able
        BY <1>3 DEF RecordsInv, QueryInv, Able
    <2>2. /\ query'.found \subseteq ever'
          /\ always' \subseteq query'.found \union Waiting'
          /\ OfferableItems(query.todo, records, query.asks)' \subseteq ever'
          /\ always' \intersect Waiting' \subseteq
               OfferableItems(query.todo, records, query.asks)'
        BY <1>1, <1>2, <1>7, <1>8, <1>9, <2>1
    <2> QED BY <1>3, <1>7, <2>2, Zenon DEF QueryInv
<1> QED BY <1>2, <1>10 DEF RecordsInv, RecordsTyped

LEMMA ReturnInv ==
    ASSUME RecordsInv, ReturnWork
    PROVE  RecordsInv'
<1>1. query' = NoQuery /\ UNCHANGED <<workItems, records>>
    BY DEF ReturnWork
<1>2. QueryInv'
    BY <1>1, NothingToDo, Zenon DEF QueryInv, Waiting
<1> QED BY <1>1, <1>2 DEF RecordsInv, RecordsTyped

\* by writers of state records
LEMMA PutStateInv ==
    ASSUME RecordsInv, NEW i \in Items, PutState(i)
    PROVE  RecordsInv'
<1>1. PICK r \in StateRecords : records' = [records EXCEPT ![i] = r]
    BY DEF PutState
<1>2. query' = query /\ workItems' = workItems
    BY DEF PutState
<1>3. RecordsTyped'
    BY <1>1, <1>2 DEF RecordsInv, RecordsTyped
<1> DEFINE Able == OfferableItems(query.todo, records', query.asks)
<1>4. OfferableItems(query.todo, records, query.asks)' = Able
    BY <1>2 DEF OfferableItems
<1>5. /\ ever' = ever \union Able
      /\ always' = always \intersect
                     ((Items \ Waiting) \union OfferableItems(workItems, records', query.asks))
    BY DEF PutState, SeenBy
<1>6. Waiting' = Waiting
    BY <1>2 DEF Waiting
<1>7. ASSUME query.busy, NEW j \in always', j \in Waiting PROVE j \in Able
    <2>1. /\ j \in OfferableItems(query.todo, records, query.asks)
          /\ j \in OfferableItems(workItems, records', query.asks)
        BY <1>5, <1>7 DEF RecordsInv, QueryInv
    <2>2. /\ Offerable(query.todo[j], records[j], query.asks)
          /\ Offerable(workItems[j], records'[j], query.asks)
          /\ j \in DOMAIN query.todo
        BY <2>1, <1>7 DEF OfferableItems, Waiting
    <2>3. CASE j = i
        <3>1. records'[j] \in StateRecords
            BY <1>1, <2>3 DEF RecordsInv, RecordsTyped
        <3> QED BY <2>2, <3>1, RecordDecides DEF OfferableItems
    <2>4. CASE j # i
        <3>1. records'[j] = records[j]
            BY <1>1, <2>4
        <3> QED BY <2>2, <3>1 DEF OfferableItems
    <2> QED BY <2>3, <2>4
<1>8. QueryInv'
    <2> HIDE DEF Able
    <2>1. query.busy => always' \intersect Waiting' \subseteq Able
        BY <1>6, <1>7
    <2>2. query.busy => query.found \subseteq ever' /\ Able \subseteq ever'
                          /\ always' \subseteq query.found \union Waiting
        BY <1>5 DEF RecordsInv, QueryInv
    <2> QED BY <1>2, <1>4, <1>6, <2>1, <2>2, Zenon DEF RecordsInv, QueryInv
<1> QED BY <1>3, <1>8 DEF RecordsInv

\* and of work items,
LEMMA PutWorkItemInv ==
    ASSUME RecordsInv, NEW i \in Items, NEW item \in SomeWorkItems, PutWorkItem(i, item)
    PROVE  RecordsInv'
<1>1. workItems' = [workItems EXCEPT ![i] = item] /\ item \in WorkItems
    BY RecordsAssumption DEF PutWorkItem
<1>2. query' = query /\ records' = records
    BY DEF PutWorkItem
<1>3. RecordsTyped'
    BY <1>1, <1>2 DEF RecordsInv, RecordsTyped
<1>4. /\ OfferableItems(query.todo, records, query.asks)'
           = OfferableItems(query.todo, records, query.asks)
      /\ Waiting' = Waiting
    BY <1>2 DEF OfferableItems, Waiting
<1>5. /\ ever' = ever \union OfferableItems(query.todo, records, query.asks)
      /\ always' \subseteq always
    BY DEF PutWorkItem, SeenBy
<1>6. QueryInv'
    <2>1. query.busy =>
             /\ query.found \subseteq ever'
             /\ always' \subseteq query.found \union Waiting
             /\ OfferableItems(query.todo, records, query.asks) \subseteq ever'
             /\ always' \intersect Waiting \subseteq
                  OfferableItems(query.todo, records, query.asks)
        BY <1>5 DEF RecordsInv, QueryInv
    <2> QED BY <1>2, <1>4, <2>1, Zenon DEF RecordsInv, QueryInv
<1> QED BY <1>3, <1>6 DEF RecordsInv

LEMMA WorkerStepInv == RecordsInv /\ WorkerStep => RecordsInv'
BY FindInv, ReadInv, ReturnInv, PutStateInv, PutWorkItemInv DEF WorkerStep

\* by what leaves the query, the items and the records alone,
LEMMA QueryUnchanged == RecordsInv /\ UNCHANGED queryVars => RecordsInv'
<1> SUFFICES ASSUME RecordsInv, UNCHANGED queryVars PROVE RecordsInv'
    OBVIOUS
<1>1. /\ workItems' = workItems /\ records' = records /\ query' = query
      /\ ever' = ever /\ always' = always
    BY DEF queryVars
<1>2. /\ OfferableItems(query.todo, records, query.asks)'
           = OfferableItems(query.todo, records, query.asks)
      /\ Waiting' = Waiting
    BY <1>1 DEF OfferableItems, Waiting
<1>3. QueryInv'
    BY <1>1, <1>2, Zenon DEF QueryInv, RecordsInv
<1> QED BY <1>1, <1>3 DEF RecordsInv, RecordsTyped

\* and is kept by the steps of programs of every kind.
LEMMA RecordsStepInv == RecordsInv /\ [RecordsNext]_recordsVars => RecordsInv'
<1> SUFFICES ASSUME RecordsInv, [RecordsNext]_recordsVars PROVE RecordsInv'
    OBVIOUS
<1>1. CASE WorkerStep
    BY <1>1, WorkerStepInv
<1>2. ASSUME AppenderStep PROVE UNCHANGED queryVars
    BY <1>2, Zenon DEF AppenderStep, CheckEvent, InsertEvent, RetryAppend
<1>3. CASE UNCHANGED recordsVars
    BY <1>3, QueryUnchanged DEF recordsVars
<1>4. CASE RecordsNext
    BY <1>1, <1>2, <1>4, QueryUnchanged, Zenon DEF RecordsNext
<1> QED BY <1>3, <1>4

(***************************************************************************)
(* The inductive invariant, for programs of all four kinds.                *)
(***************************************************************************)
THEOREM RecordsInvariance == RecordsSpec => []RecordsInv
<1> QED BY RecordsInitInv, RecordsStepInv, PTL DEF RecordsSpec

(***************************************************************************)
(* find_runnable_work, which finds the work items and then reads the       *)
(* records one after the other while others write both, offers only items  *)
(* that, as it found them, were runnable at some moment before it read     *)
(* their records, and all that, as they were stored, were runnable until   *)
(* then.                                                                   *)
(***************************************************************************)
THEOREM OffersRunnable == RecordsSpec => []OffersAreRunnable
<1>1. RecordsInv => OffersAreRunnable
    BY DEF RecordsInv, QueryInv, OffersAreRunnable, Answered
<1> QED BY <1>1, RecordsInvariance, PTL

(***************************************************************************)
(* list_active_leases and list_expired_leases, asked for one worker or for *)
(* all of them at whatever time, divide the leased records.                *)
(***************************************************************************)
THEOREM LeasesDivide == RecordsSpec => []LeasesPartition
<1>1. RecordsInv => LeasesPartition
    <2> SUFFICES ASSUME RecordsInv, NEW worker, NEW now \in Times \union {NoTime}
                 PROVE  /\ ActiveLeases(worker, now) \intersect ExpiredLeases(worker, now) = {}
                        /\ ActiveLeases(worker, now) \union ExpiredLeases(worker, now)
                             = Leased(worker)
        BY Zenon DEF LeasesPartition
    <2>1. \A i \in Leased(worker) :
             records[i].lease # NoLease /\ records[i].lease.expires \in Int /\ now \in Int
        BY LeaseTyped, TimesAreIntegers DEF Leased, StatesByWorker, RecordsInv, RecordsTyped
    <2>2. CASE now = NoTime
        BY <2>1, <2>2 DEF ActiveLeases, ExpiredLeases, Active
    <2>3. CASE now # NoTime
        BY <2>1, <2>3 DEF ActiveLeases, ExpiredLeases, Active
    <2> QED BY <2>2, <2>3
<1> QED BY <1>1, RecordsInvariance, PTL

(***************************************************************************)
(* append_event replaces no event, however many programs append it at once *)
(* and however often they try: the id decides in the insert.               *)
(***************************************************************************)
THEOREM EventsKept == RecordsSpec => EventsAreAppendOnly
<1>1. ASSUME [RecordsNext]_recordsVars, event # NoOne PROVE event' = event
    <2>1. CASE AppenderStep
        BY <1>1, <2>1 DEF AppenderStep, CheckEvent, InsertEvent, RetryAppend
    <2>2. ASSUME WorkerStep PROVE event' = event
        BY <2>2, Zenon
        DEF WorkerStep, FindWorkItems, ReadStateRecord, ReturnWork, PutState, PutWorkItem,
            appendVars
    <2>3. CASE UNCHANGED recordsVars
        BY <2>3 DEF recordsVars, appendVars
    <2>4. CASE RecordsNext
        BY <2>1, <2>2, <2>4, Zenon DEF RecordsNext, appendVars
    <2> QED BY <1>1, <2>3, <2>4
<1>2. [RecordsNext]_recordsVars => [event # NoOne => event' = event]_recordsVars
    BY <1>1
<1> QED BY <1>2, PTL DEF RecordsSpec, EventsAreAppendOnly
-------------------------------------------------------------------------------
(* Runs and their events. *)

Runs == [exit : {0, 1, Timeout}, status : {"completed", "failed"},
         summary : {"completed", "exited", "timed out"}]

\* The script knows the run it stored, and that run has no event yet when it is
\* about to append one.
ScriptKnowsRun ==
    /\ script.pc \in {"append", "read", "report"} =>
           script.run \in DOMAIN agentRuns /\ agentRuns[script.run] = AgentRun(script.result)
    /\ script.pc = "append" => script.run \in Orphans

AtIt == IF script.pc = "append" THEN 1 ELSE 0

RunsInv ==
    /\ agentRuns \in Seq(Runs)
    /\ script \in [pc : {"idle", "insert", "append", "read", "report"},
                   result : Results, run : Nat]
    /\ runFaults \in Nat
    /\ ScriptKnowsRun
    /\ RunsAndEventsAgree

\* A run tells the outcome it was made from, a timeout among them.
LEMMA RunFacts ==
    ASSUME NEW result \in Results
    PROVE  /\ AgentRun(result) \in Runs
           /\ AgentRun(result).exit = result.exit
           /\ (AgentRun(result).status = "completed") = (result.exit = 0)
           /\ (AgentRun(result).summary = "timed out") = result.timedOut
  BY DEF AgentRun, RunStatus, Summary, Runs, Results, Timeout

\* The runs without an event can be counted.
LEMMA OrphansFinite ==
    ASSUME agentRuns \in Seq(Runs)
    PROVE  IsFiniteSet(Orphans) /\ Cardinality(Orphans) \in Nat
<1>1. Orphans \in SUBSET (1..Len(agentRuns)) /\ Len(agentRuns) \in Nat
  BY DEF Orphans
<1>2. IsFiniteSet(1..Len(agentRuns))
  BY <1>1, FS_Interval
<1> QED
  BY <1>1, <1>2, FS_Subset, FS_CardinalityType

\* StoreRun adds a run without an event.
LEMMA RunStored ==
    ASSUME RunsInv, StoreRun
    PROVE  LET n == Len(agentRuns) + 1 IN
           /\ agentRuns' \in Seq(Runs) /\ Len(agentRuns') = n
           /\ n \in DOMAIN agentRuns' /\ agentRuns'[n] = AgentRun(script.result)
           /\ \A e \in rawEvents' : EventMatchesRun(e)'
           /\ Orphans' = Orphans \union {n}
           /\ Cardinality(Orphans') = Cardinality(Orphans) + 1
           /\ Cardinality(Orphans) \in Nat
<1> DEFINE n == Len(agentRuns) + 1
<1>1. agentRuns \in Seq(Runs) /\ script.result \in Results /\ rawEvents' = rawEvents
  BY DEF RunsInv, StoreRun
<1>2. agentRuns' = Append(agentRuns, AgentRun(script.result)) /\ AgentRun(script.result) \in Runs
  BY <1>1, RunFacts DEF StoreRun
<1> HIDE DEF Runs
<1>3. /\ agentRuns' \in Seq(Runs) /\ Len(agentRuns') = n
      /\ n \in DOMAIN agentRuns' /\ agentRuns'[n] = AgentRun(script.result)
      /\ DOMAIN agentRuns' = DOMAIN agentRuns \union {n} /\ n \notin DOMAIN agentRuns
      /\ \A r \in DOMAIN agentRuns : agentRuns'[r] = agentRuns[r]
  BY <1>1, <1>2
<1>4. \A e \in rawEvents : e.subject \in DOMAIN agentRuns
  BY DEF RunsInv, RunsAndEventsAgree, EventMatchesRun
<1>5. \A e \in rawEvents' : EventMatchesRun(e)'
  <2> SUFFICES ASSUME NEW e \in rawEvents PROVE EventMatchesRun(e)'
    BY <1>1
  <2>1. EventMatchesRun(e)
    BY DEF RunsInv, RunsAndEventsAgree
  <2>2. e.subject \in DOMAIN agentRuns' /\ agentRuns'[e.subject] = agentRuns[e.subject]
    BY <1>3, <1>4
  <2> QED
    BY <2>1, <2>2, Zenon DEF EventMatchesRun
<1>6. Orphans' = Orphans \union {n} /\ n \notin Orphans
  BY <1>1, <1>3, <1>4 DEF Orphans
<1>7. IsFiniteSet(Orphans) /\ Cardinality(Orphans) \in Nat
  BY <1>1, OrphansFinite
<1>8. Cardinality(Orphans') = Cardinality(Orphans) + 1
  BY <1>6, <1>7, FS_AddElement
<1> QED
  BY <1>3, <1>5, <1>6, <1>7, <1>8

\* StoreEvent takes the script's run out of those without an event.
LEMMA EventStored ==
    ASSUME RunsInv, StoreEvent, script.pc = "append"
    PROVE  /\ agentRuns' = agentRuns
           /\ \A e \in rawEvents' : EventMatchesRun(e)'
           /\ Cardinality(Orphans') = Cardinality(Orphans) - 1
           /\ Cardinality(Orphans) \in Nat
<1> DEFINE new == RawEvent(script.result, script.run)
<1>1. /\ agentRuns \in Seq(Runs) /\ script.result \in Results
      /\ script.run \in DOMAIN agentRuns /\ agentRuns[script.run] = AgentRun(script.result)
      /\ script.run \in Orphans
      /\ agentRuns' = agentRuns /\ rawEvents' = rawEvents \union {new}
  BY DEF RunsInv, StoreEvent, ScriptKnowsRun
<1>2. new.subject = script.run /\ new.exit = script.result.exit /\ new.timedOut = script.result.timedOut
  BY DEF RawEvent
<1> HIDE DEF new
<1>3. EventMatchesRun(new)
  <2>1. agentRuns[new.subject] = AgentRun(script.result) /\ new.subject \in DOMAIN agentRuns
    BY <1>1, <1>2
  <2>2. /\ AgentRun(script.result).exit = script.result.exit
        /\ (AgentRun(script.result).status = "completed") = (script.result.exit = 0)
        /\ (AgentRun(script.result).summary = "timed out") = script.result.timedOut
    BY <1>1, RunFacts, Zenon
  <2> QED
    BY <1>2, <2>1, <2>2, Zenon DEF EventMatchesRun
<1>4. \A e \in rawEvents' : EventMatchesRun(e)'
  BY <1>1, <1>3 DEF RunsInv, RunsAndEventsAgree, EventMatchesRun
<1>5. Orphans' = Orphans \ {script.run}
  BY <1>1, <1>2 DEF Orphans
<1>6. IsFiniteSet(Orphans) /\ Cardinality(Orphans) \in Nat
  BY <1>1, OrphansFinite
<1>7. Cardinality(Orphans') = Cardinality(Orphans) - 1
  BY <1>1, <1>5, <1>6, FS_RemoveElement
<1> QED
  BY <1>1, <1>4, <1>6, <1>7

\* A script that has not begun, or has ended, is idle.
LEMMA NoScriptTyped ==
    NoScript.pc = "idle" /\ NoScript \in [pc : {"idle", "insert", "append", "read", "report"},
                                          result : Results, run : Nat]
  BY DEF NoScript, NoResult, Results

\* Steps of the other programs keep the invariant of the script.
LEMMA RunsUnchanged == RunsInv /\ UNCHANGED runVars => RunsInv'
  BY DEF RunsInv, runVars, ScriptKnowsRun, RunsAndEventsAgree, EventMatchesRun, Orphans

\* Nothing was stored; what is said of the stored records is said again.
LEMMA NothingStored ==
    ASSUME RunsInv, UNCHANGED <<agentRuns, rawEvents>>
    PROVE  /\ agentRuns' \in Seq(Runs) /\ \A e \in rawEvents' : EventMatchesRun(e)'
           /\ Orphans' = Orphans /\ Cardinality(Orphans) \in Nat
           /\ Cardinality(Orphans) <= runFaults + AtIt
  BY OrphansFinite DEF RunsInv, RunsAndEventsAgree, EventMatchesRun, Orphans, AtIt

\* So do its own steps and its deaths.
LEMMA RunStepInv == RunsInv /\ RunNext => RunsInv'
<1> SUFFICES ASSUME RunsInv, RunNext PROVE RunsInv'
  OBVIOUS
<1>0. /\ script.pc \in {"idle", "insert", "append", "read", "report"}
      /\ script.result \in Results /\ script.run \in Nat /\ runFaults \in Nat
      /\ Cardinality(Orphans) <= runFaults + AtIt
      /\ script \in [pc : {"idle", "insert", "append", "read", "report"},
                     result : Results, run : Nat]
  BY DEF RunsInv, RunsAndEventsAgree, AtIt
<1>1. ASSUME UNCHANGED <<agentRuns, rawEvents>>, script'.pc \notin {"append", "read", "report"},
             script' \in [pc : {"idle", "insert", "append", "read", "report"},
                          result : Results, run : Nat],
             runFaults' = runFaults + AtIt \/ (runFaults' = runFaults /\ script.pc # "append")
             \/ runFaults' = runFaults + 1
      PROVE  RunsInv'
  <2>1. /\ agentRuns' \in Seq(Runs) /\ \A e \in rawEvents' : EventMatchesRun(e)'
        /\ Orphans' = Orphans /\ Cardinality(Orphans) \in Nat
    BY <1>1, NothingStored
  <2>2. runFaults' \in Nat /\ Cardinality(Orphans') <= runFaults'
    BY <1>0, <1>1, <2>1 DEF AtIt
  <2> QED
    BY <1>1, <2>1, <2>2 DEF RunsInv, ScriptKnowsRun, RunsAndEventsAgree
<1>2. CASE RunContainer
  <2>1. PICK result \in Results : script' = [pc |-> "insert", result |-> result, run |-> 0]
    BY <1>2 DEF RunContainer
  <2> QED
    BY <1>1, <1>2, <2>1 DEF RunContainer
<1>3. CASE InsertRun
  <2> DEFINE n == Len(agentRuns) + 1
  <2>1. /\ agentRuns' \in Seq(Runs) /\ Len(agentRuns') = n
        /\ n \in DOMAIN agentRuns' /\ agentRuns'[n] = AgentRun(script.result)
        /\ \A e \in rawEvents' : EventMatchesRun(e)'
        /\ Orphans' = Orphans \union {n}
        /\ Cardinality(Orphans') = Cardinality(Orphans) + 1
        /\ Cardinality(Orphans) \in Nat
        /\ script.pc = "insert" /\ runFaults' = runFaults
    BY <1>3, RunStored DEF InsertRun
  <2>2. /\ script'.pc = "append" /\ script'.run = n /\ script'.result = script.result
        /\ script' \in [pc : {"idle", "insert", "append", "read", "report"},
                        result : Results, run : Nat]
    <3>1. n \in Nat
      BY DEF RunsInv
    <3> QED
      BY <1>0, <1>3, <2>1, <3>1 DEF InsertRun
  <2> HIDE DEF n
  <2>3. Cardinality(Orphans') <= runFaults' + 1
    BY <1>0, <2>1 DEF AtIt
  <2> QED
    BY <1>0, <2>1, <2>2, <2>3 DEF RunsInv, ScriptKnowsRun, RunsAndEventsAgree
<1>4. CASE AppendRawEvent
  <2>1. /\ agentRuns' = agentRuns /\ \A e \in rawEvents' : EventMatchesRun(e)'
        /\ Cardinality(Orphans') = Cardinality(Orphans) - 1
        /\ Cardinality(Orphans) \in Nat
        /\ script.pc = "append" /\ runFaults' = runFaults
    BY <1>4, EventStored DEF AppendRawEvent
  <2>2. /\ script'.pc = "read" /\ script'.run = script.run /\ script'.result = script.result
        /\ script' \in [pc : {"idle", "insert", "append", "read", "report"},
                        result : Results, run : Nat]
    BY <1>0, <1>4 DEF AppendRawEvent
  <2>3. Cardinality(Orphans') <= runFaults'
    BY <1>0, <2>1 DEF AtIt
  <2> QED
    BY <1>0, <2>1, <2>2, <2>3 DEF RunsInv, ScriptKnowsRun, RunsAndEventsAgree
<1>5. CASE ReadBack
  <2>1. CASE script' = NoScript
    BY <1>1, <1>5, <2>1, NoScriptTyped DEF ReadBack
  <2>2. CASE script' = [script EXCEPT !.pc = "report"]
    <3>1. /\ script'.pc = "report" /\ script'.run = script.run /\ script'.result = script.result
          /\ script' \in [pc : {"idle", "insert", "append", "read", "report"},
                          result : Results, run : Nat]
      BY <1>0, <2>2
    <3>2. /\ agentRuns' \in Seq(Runs) /\ \A e \in rawEvents' : EventMatchesRun(e)'
          /\ Orphans' = Orphans /\ Cardinality(Orphans) \in Nat
          /\ UNCHANGED <<agentRuns, rawEvents, runFaults>> /\ script.pc = "read"
      BY <1>5, NothingStored DEF ReadBack
    <3> QED
      BY <1>0, <3>1, <3>2 DEF RunsInv, ScriptKnowsRun, RunsAndEventsAgree, AtIt
  <2> QED
    BY <1>5, <2>1, <2>2 DEF ReadBack
<1>6. CASE ReportRun
  BY <1>1, <1>6, NoScriptTyped DEF ReportRun
<1>7. CASE ScriptDies
  <2>1. /\ runFaults' = runFaults + 1 /\ script' = NoScript
        /\ script.pc \in {"insert", "append", "read"}
    BY <1>7 DEF ScriptDies
  <2>2. CASE UNCHANGED <<agentRuns, rawEvents>>
    BY <1>1, <2>1, <2>2, NoScriptTyped
  <2>3. CASE script.pc = "insert" /\ StoreRun
    <3>1. /\ agentRuns' \in Seq(Runs) /\ \A e \in rawEvents' : EventMatchesRun(e)'
          /\ Cardinality(Orphans') = Cardinality(Orphans) + 1 /\ Cardinality(Orphans) \in Nat
      BY <2>3, RunStored
    <3>2. Cardinality(Orphans') <= runFaults' /\ runFaults' \in Nat
      BY <1>0, <2>1, <2>3, <3>1 DEF AtIt
    <3> QED
      BY <2>1, <3>1, <3>2, NoScriptTyped DEF RunsInv, ScriptKnowsRun, RunsAndEventsAgree
  <2>4. CASE script.pc = "append" /\ StoreEvent
    <3>1. /\ agentRuns' = agentRuns /\ \A e \in rawEvents' : EventMatchesRun(e)'
          /\ Cardinality(Orphans') = Cardinality(Orphans) - 1 /\ Cardinality(Orphans) \in Nat
      BY <2>4, EventStored
    <3>2. Cardinality(Orphans') <= runFaults' /\ runFaults' \in Nat
      BY <1>0, <2>1, <2>4, <3>1 DEF AtIt
    <3> QED
      BY <2>1, <3>1, <3>2, NoScriptTyped DEF RunsInv, ScriptKnowsRun, RunsAndEventsAgree
  <2> QED
    BY <1>7, <2>2, <2>3, <2>4 DEF ScriptDies
<1> QED
  BY <1>2, <1>3, <1>4, <1>5, <1>6, <1>7 DEF RunNext
\* No run is stored when the programs start.
LEMMA RunInitInv == RunInit => RunsInv
<1> SUFFICES ASSUME RunInit PROVE RunsInv
  OBVIOUS
<1>1. /\ agentRuns = <<>> /\ rawEvents = {} /\ script = NoScript /\ runFaults = 0
  BY DEF RunInit
<1>2. Orphans = {} /\ Cardinality(Orphans) = 0
  <2>1. Orphans = {}
    BY <1>1 DEF Orphans
  <2> QED
    BY <2>1, FS_EmptySet
<1>3. agentRuns \in Seq(Runs)
  BY <1>1
<1> QED
  BY <1>1, <1>2, <1>3, NoScriptTyped DEF RunsInv, ScriptKnowsRun, RunsAndEventsAgree

\* Only the script touches its variables.
LEMMA RunsStepInv == RunsInv /\ [RecordsNext]_recordsVars => RunsInv'
<1> SUFFICES ASSUME RunsInv, [RecordsNext]_recordsVars PROVE RunsInv'
  OBVIOUS
<1>1. RunNext \/ UNCHANGED runVars
  BY Zenon DEF RecordsNext, WorkerStep, AppenderStep, recordsVars
<1> QED
  BY <1>1, RunStepInv, RunsUnchanged

(***************************************************************************)
(* The inductive invariant of the script that runs containers: it knows    *)
(* the run it stored, whose event is still to come.                        *)
(***************************************************************************)
THEOREM RunsInvariance == RecordsSpec => []RunsInv
<1>1. RecordsInit => RunsInv
  BY RunInitInv DEF RecordsInit
<1> QED
  BY <1>1, RunsStepInv, PTL DEF RecordsSpec

(***************************************************************************)
(* Every stored event tells the outcome of a stored run, timeouts told     *)
(* from commands that exit with their code; and however often the script   *)
(* dies, before or after a store call took effect, each death leaves at    *)
(* most one run without its event.                                         *)
(***************************************************************************)
THEOREM RunsAgree == RecordsSpec => []RunsAndEventsAgree
<1>1. RunsInv => RunsAndEventsAgree
  BY DEF RunsInv
<1> QED
  BY <1>1, RunsInvariance, PTL

-------------------------------------------------------------------------------
(* The values of the variables. *)

\* The calls of append_event
AppendsTyped ==
    /\ event \in Appenders \union {NoOne}
    /\ append \in [Appenders -> {"start", "insert", "stored", "refused"}]

\* A query has found only items it has looked at.
LookedAt == query.found \intersect Waiting = {}

\* At first appends are typed, and no query has found anything;
LEMMA RecordsInitTyped == RecordsInit => AppendsTyped /\ LookedAt
<1> SUFFICES ASSUME RecordsInit PROVE AppendsTyped /\ LookedAt
  OBVIOUS
<1>1. AppendsTyped
  BY DEF RecordsInit, AppendsTyped
<1>2. LookedAt
  BY DEF RecordsInit, LookedAt, NoQuery
<1> QED
  BY <1>1, <1>2

\* the event is stored by one of its appenders,
LEMMA AppendsStepTyped == AppendsTyped /\ [RecordsNext]_recordsVars => AppendsTyped'
<1> SUFFICES ASSUME AppendsTyped, [RecordsNext]_recordsVars PROVE AppendsTyped'
  OBVIOUS
<1>1. CASE UNCHANGED appendVars
  BY <1>1 DEF AppendsTyped, appendVars
<1>2. CASE AppenderStep
  BY <1>2 DEF AppenderStep, CheckEvent, InsertEvent, RetryAppend, AppendsTyped
<1>3. ASSUME WorkerStep PROVE UNCHANGED appendVars
  BY <1>3, Zenon
  DEF WorkerStep, FindWorkItems, ReadStateRecord, ReturnWork, PutState, PutWorkItem
<1> QED
  BY <1>1, <1>2, <1>3, Zenon DEF RecordsNext, recordsVars

\* and a query finds only what it looks at.
LEMMA LookedAtStep == RecordsInv /\ LookedAt /\ [RecordsNext]_recordsVars => LookedAt'
<1> SUFFICES ASSUME RecordsInv, LookedAt, [RecordsNext]_recordsVars PROVE LookedAt'
  OBVIOUS
<1>1. ASSUME NEW q \in Queries, FindWorkItems(q) PROVE LookedAt'
  BY <1>1 DEF FindWorkItems, LookedAt
<1>2. ASSUME ReadStateRecord PROVE LookedAt'
  <2>1. PICK i \in Waiting :
           query' = [query EXCEPT
              !.todo = Restrict(query.todo, Waiting \ {i}),
              !.found = IF IsRunnable(query.todo[i], records[i], query.asks)
                        THEN query.found \union {i} ELSE query.found]
    BY <1>2 DEF ReadStateRecord
  <2>2. query \in QueryStates
    BY DEF RecordsInv, QueryInv
  <2>3. query'.found \subseteq query.found \union {i}
    BY <2>1, <2>2 DEF QueryStates
  <2>4. query'.todo = Restrict(query.todo, Waiting \ {i})
    BY <2>1, <2>2 DEF QueryStates
  <2>5. Waiting' = Waiting \ {i}
    BY <2>4 DEF Waiting, Restrict
  <2> QED
    BY <2>3, <2>5 DEF LookedAt
<1>3. ASSUME ReturnWork PROVE LookedAt'
  BY <1>3 DEF ReturnWork, LookedAt, NoQuery
<1>4. CASE query' = query
  BY <1>4 DEF LookedAt, Waiting
<1>5. ASSUME NEW i \in Items,
             PutState(i) \/ \E item \in SomeWorkItems : PutWorkItem(i, item)
      PROVE  query' = query
  BY <1>5, Zenon DEF PutState, PutWorkItem
<1>6. CASE WorkerStep
  BY <1>1, <1>2, <1>3, <1>4, <1>5, <1>6 DEF WorkerStep
<1>7. ASSUME UNCHANGED queryVars PROVE query' = query
  BY <1>7 DEF queryVars
<1>8. ASSUME AppenderStep PROVE UNCHANGED queryVars
  BY <1>8, Zenon DEF AppenderStep, CheckEvent, InsertEvent, RetryAppend
<1> QED
  BY <1>4, <1>6, <1>7, <1>8, Zenon DEF RecordsNext, recordsVars

(***************************************************************************)
(* Every record, query, event, run and script is one the code may hold.    *)
(***************************************************************************)
THEOREM RecordsTypeCorrect == RecordsSpec => []RecordsTypeOK
<1>1. RecordsInit => AppendsTyped /\ LookedAt
  BY RecordsInitTyped
<1>2. AppendsTyped /\ [RecordsNext]_recordsVars => AppendsTyped'
  BY AppendsStepTyped
<1>3. RecordsInv /\ LookedAt /\ [RecordsNext]_recordsVars => LookedAt'
  BY LookedAtStep
<1>4. RecordsInv /\ RunsInv /\ AppendsTyped /\ LookedAt => RecordsTypeOK
  <2> SUFFICES ASSUME RecordsInv, RunsInv, AppendsTyped, LookedAt PROVE RecordsTypeOK
    OBVIOUS
  <2>1. \A i \in Items : records[i] = NoRecord \/ records[i] \in StateRecords
    BY DEF RecordsInv, RecordsTyped
  <2>2. \A r \in DOMAIN agentRuns : agentRuns[r] \in Runs
    BY DEF RunsInv
  <2>3. /\ script.pc \in {"idle", "insert", "append", "read", "report"}
        /\ script.pc \in {"append", "read", "report"} => script.run \in DOMAIN agentRuns
    BY DEF RunsInv, ScriptKnowsRun
  <2> QED
    BY <2>1, <2>2, <2>3
    DEF RecordsTypeOK, RecordsInv, RecordsTyped, QueryInv, QueryStates, Todos, AppendsTyped,
        LookedAt, Runs
<1> QED
  BY <1>1, <1>2, <1>3, <1>4, RecordsInvariance, RunsInvariance, PTL DEF RecordsSpec

-------------------------------------------------------------------------------
(* The clients of the store. *)

\* Seen from the bucket the programs are the store's clients and nobody else.
LEMMA StoreStep == [RecordsNext]_recordsVars => [Next]_vars
  BY Zenon DEF RecordsNext, recordsVars

(***************************************************************************)
(* Programs of the other kinds leave the clients' bucket alone: the        *)
(* composition implements the store by itself.                             *)
(***************************************************************************)
THEOREM StoreRefined == RecordsSpec => Spec
<1>1. RecordsInit => Init
  BY DEF RecordsInit
<1> QED
  BY <1>1, StoreStep, PTL DEF RecordsSpec, Spec

\* No two stored documents share a key of the unique index, beside programs of
\* all kinds.
THEOREM KeysUniqueAmongPrograms == RecordsSpec => []UniqueKeys
  BY StoreRefined, KeysStayUnique, PTL

\* A version names one content, beside programs of all kinds.
THEOREM VersionsAmongPrograms == RecordsSpec => []VersionNamesContent
  BY StoreRefined, VersionsNameContents, PTL

\* No client's edit is lost, beside programs of all kinds.
THEOREM AtomicAmongPrograms == RecordsSpec => AtomicSpec
  BY StoreRefined, Implementation, PTL
===============================================================================
