--------------------------- MODULE RecordRepository ---------------------------
(***************************************************************************)
(* The workflow queries of src/hoisa/adapters/persistence/core.py over the *)
(* document store.  Each store call is one step; a query that makes one    *)
(* call per record awaits between them, and other programs write meanwhile.*)
(*                                                                         *)
(* Leases: a worker asks for runnable work as of a time it took before the *)
(* query (`now`), while anybody writes work items and state records.  The  *)
(* query keeps the work items as it found them and reads the records one   *)
(* by one.  No program deletes either.                                     *)
(* Events: append_event looks for the id and then inserts.                 *)
(***************************************************************************)
EXTENDS Integers, FiniteSets, Functions

CONSTANTS
    Items,      \* work item ids, in the order of their creation
    LeaseHolders, \* worker ids in leases
    MaxTime,    \* bound: the last point in time
    Appenders   \* programs that append an event of the same id

ASSUME RepositoryAssumption ==
    /\ Items \subseteq Nat
    /\ MaxTime \in Nat

VARIABLES
    workItems, \* the WorkItem records
    records,   \* the WorkflowStateRecord of each item, or NoRecord
    query,     \* the find_runnable_work call in progress
    ever,      \* history: items that, as the query found them, were runnable at
               \* some moment before it looked at them
    always,    \* history: items that, as they were stored, were runnable at all
               \* those moments
    event,     \* who appended the stored event with the id, or NoOne
    append     \* where each append_event call is

queryVars == <<workItems, records, query, ever, always>>
appendVars == <<event, append>>

Times == 0..MaxTime

NoTime == -1

NoLease == [worker |-> "none", expires |-> 0]

Leases == {NoLease} \union [worker : LeaseHolders, expires : Times]

\* An item or a record as a query sees it: `fits` when its stage, status and
\* risk are the ones asked for.  `home` is the same for project and repository,
\* which only the work item has; FALSE stands for an item not yet stored, too.
WorkItems == [fits : BOOLEAN, home : BOOLEAN, blocked : BOOLEAN]

StateRecords == [fits : BOOLEAN, blocked : BOOLEAN, lease : Leases]

NoRecord == [lease |-> NoLease]

Queries == [now : Times \union {NoTime}, includeBlocked : BOOLEAN]

NoOne == "nobody"

-------------------------------------------------------------------------------
(* The lease queries: one find each. *)

\* The worker of a query that names none
AnyHolder == "any"

\* list_workflow_states_by_worker
StatesByWorker(worker) ==
    { i \in Items : records[i] # NoRecord /\ worker \in {AnyHolder, records[i].lease.worker} }

Leased(worker) == { i \in StatesByWorker(worker) : records[i].lease # NoLease }

\* The condition of list_active_leases
Active(record, now) ==
    record.lease # NoLease /\ (now = NoTime \/ record.lease.expires > now)

ActiveLeases(worker, now) == { i \in Leased(worker) : Active(records[i], now) }

\* Without a time no lease is expired.
ExpiredLeases(worker, now) ==
    IF now = NoTime THEN {} ELSE { i \in Leased(worker) : records[i].lease.expires <= now }

-------------------------------------------------------------------------------
(* find_runnable_work *)

\* As IsRunnable, with a lease that runs out at the time asked for kept.
RunnableOnceExpired(item, record, q) ==
    /\ IF record = NoRecord THEN item.fits ELSE record.fits
    /\ item.home
    /\ \/ q.includeBlocked
       \/ ~ item.blocked /\ (record # NoRecord => ~ record.blocked)
    /\ \/ q.now = NoTime
       \/ record.lease = NoLease
       \/ record.lease.expires < q.now

\* _is_runnable: the state record, where there is one, decides instead of the
\* work item; a blocker of either counts.
IsRunnable(item, record, q) ==
    /\ IF record = NoRecord THEN item.fits ELSE record.fits
    /\ item.home
    /\ \/ q.includeBlocked
       \/ ~ item.blocked /\ (record # NoRecord => ~ record.blocked)
    /\ \/ q.now = NoTime
       \/ record.lease = NoLease
       \/ record.lease.expires <= q.now

\* `todo` are the work items, as they were found, still to look at.
NoQuery == [busy |-> FALSE, asks |-> [now |-> NoTime, includeBlocked |-> FALSE],
            todo |-> [i \in {} |-> i], found |-> {}]

Waiting == DOMAIN query.todo

\* What the port promises (src/hoisa/ports/persistence.py: RunnableWorkQuery):
\* work for which the Hoisa-owned state, if there is any, fits and is not blocked,
\* and which nobody holds an active lease on.
Offerable(item, record, q) ==
    /\ item.home
    /\ \/ record = NoRecord /\ item.fits
       \/ record \in StateRecords /\ record.fits
    /\ ~ q.includeBlocked =>
          ~ item.blocked /\ (record \in StateRecords => ~ record.blocked)
    /\ q.now # NoTime => ~ Active(record, q.now)

OfferableItems(items, recs, q) ==
    { i \in DOMAIN items : Offerable(items[i], recs[i], q) }

\* find(WorkItem): the items of one moment
FindWorkItems(q) ==
    /\ ~ query.busy
    /\ query' = [busy |-> TRUE, asks |-> q, todo |-> workItems, found |-> {}]
    /\ ever' = OfferableItems(workItems, records, q)
    /\ always' = ever'
    /\ UNCHANGED <<workItems, records, appendVars>>

\* Items are found in the order of their creation.
IsFirst(i, items) == \A j \in items : i <= j

\* get(WorkflowStateRecord) for the next item
ReadStateRecord ==
    /\ \E i \in Waiting :
         /\ IsFirst(i, Waiting)
         /\ query' = [query EXCEPT
              !.todo = Restrict(@, Waiting \ {i}),
              !.found = IF IsRunnable(query.todo[i], records[i], query.asks)
                        THEN @ \union {i} ELSE @]
    /\ UNCHANGED <<workItems, records, ever, always, appendVars>>

ReturnWork ==
    /\ query.busy /\ Waiting = {}
    /\ query' = NoQuery
    /\ ever' = {}
    /\ always' = {}
    /\ UNCHANGED <<workItems, records, appendVars>>

\* The histories of a query take in work items and records as they are now.
SeenBy(items, recs) ==
    /\ ever' = ever \union OfferableItems(query.todo, recs, query.asks)
    /\ always' = always \intersect ((Items \ Waiting) \union OfferableItems(items, recs, query.asks))

\* Another program inserts or saves the state record of an item, whose id is
\* the item's,
PutState(i) ==
    /\ \E r \in StateRecords : records' = [records EXCEPT ![i] = r]
    /\ SeenBy(workItems, records')
    /\ UNCHANGED <<workItems, query, appendVars>>

\* or the work item itself.
PutWorkItem(i, item) ==
    /\ workItems' = [workItems EXCEPT ![i] = item]
    /\ SeenBy(workItems', records)
    /\ UNCHANGED <<records, query, appendVars>>

-------------------------------------------------------------------------------
(* append_event of an event that has an id *)

CheckEvent(p) ==
    /\ append[p] = "start"
    /\ append' = [append EXCEPT ![p] = IF event = NoOne THEN "insert" ELSE "refused"]
    /\ UNCHANGED <<event, queryVars>>

InsertEventUnchecked(p) ==
    /\ append[p] = "insert"
    /\ append' = [append EXCEPT ![p] = "stored"]
    /\ event' = p
    /\ UNCHANGED queryVars

\* The store's insert refuses an id it has.
InsertEvent(p) ==
    /\ append[p] = "insert"
    /\ IF event = NoOne
       THEN append' = [append EXCEPT ![p] = "stored"] /\ event' = p
       ELSE append' = [append EXCEPT ![p] = "refused"] /\ UNCHANGED event
    /\ UNCHANGED queryVars

\* A program whose call was refused, or whose answer was lost, appends again.
RetryAppend(p) ==
    /\ append[p] \in {"refused", "stored"}
    /\ append' = [append EXCEPT ![p] = "start"]
    /\ UNCHANGED <<event, queryVars>>
==============================================================================
