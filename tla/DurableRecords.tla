---------------------------- MODULE DurableRecords ----------------------------
(***************************************************************************)
(* Programs on one database: RecordRepository's workers and writers,       *)
(* DockerRun's script and DocumentStore's clients.  They keep to different *)
(* collections (workflow states, workflow events of a given id, agent runs *)
(* and the events about them, the clients' bucket), so their steps         *)
(* commute: a behaviour of all of them is one of each, and `program` says  *)
(* which of them runs.                                                     *)
(***************************************************************************)
EXTENDS RecordRepository, DockerRun, DocumentStore

CONSTANTS
    SomeWorkItems \* bound: the work items that are stored

ASSUME RecordsAssumption == SomeWorkItems \subseteq WorkItems /\ SomeWorkItems # {}

VARIABLES
    program

recordsVars == <<queryVars, appendVars, runVars, vars, program>>

RecordsInit ==
    /\ program \in {"worker", "appender", "script", "client"}
    /\ workItems \in IF program = "worker" THEN [Items -> SomeWorkItems]
                     ELSE { [i \in Items |-> CHOOSE w \in SomeWorkItems : TRUE] }
    /\ records = [i \in Items |-> NoRecord]
    /\ query = NoQuery
    /\ ever = {}
    /\ always = {}
    /\ event = NoOne
    /\ append = [p \in Appenders |-> "start"]
    /\ RunInit
    /\ Init

WorkerStep ==
    /\ \/ \E q \in Queries : FindWorkItems(q)
       \/ ReadStateRecord
       \/ ReturnWork
       \/ \E i \in Items : PutState(i)
       \/ \E i \in Items, item \in SomeWorkItems : PutWorkItem(i, item)
    /\ UNCHANGED runVars

AppenderStep ==
    /\ \E p \in Appenders : CheckEvent(p) \/ InsertEvent(p) \/ RetryAppend(p)
    /\ UNCHANGED runVars

RecordsNext ==
    /\ \/ program = "worker" /\ WorkerStep /\ UNCHANGED vars
       \/ program = "appender" /\ AppenderStep /\ UNCHANGED vars
       \/ program = "script" /\ RunNext /\ UNCHANGED <<queryVars, appendVars, vars>>
       \/ program = "client" /\ Next /\ UNCHANGED <<queryVars, appendVars, runVars>>
    /\ UNCHANGED program

RecordsSpec == RecordsInit /\ [][RecordsNext]_recordsVars

-------------------------------------------------------------------------------
(* Properties *)

\* The values each variable ranges over; a query has found only items it has
\* looked at.
RecordsTypeOK ==
    /\ workItems \in [Items -> WorkItems]
    /\ \A i \in Items : records[i] = NoRecord \/ records[i] \in StateRecords
    /\ query \in [busy : BOOLEAN, asks : Queries,
                 todo : UNION { [items -> WorkItems] : items \in SUBSET Items },
                 found : SUBSET Items]
    /\ query.found \intersect Waiting = {}
    /\ event \in Appenders \union {NoOne}
    /\ append \in [Appenders -> {"start", "insert", "stored", "refused"}]
    /\ \A r \in DOMAIN agentRuns :
          agentRuns[r] \in [exit : {0, 1, Timeout}, status : {"completed", "failed"},
                            summary : {"completed", "exited", "timed out"}]
    /\ script.pc \in {"idle", "insert", "append", "read", "report"}
    /\ script.pc \in {"append", "read", "report"} => script.run \in DOMAIN agentRuns

Answered == query.busy /\ Waiting = {}

\* Although find_runnable_work reads the records one after the other, and these
\* and the work items are written meanwhile, each item it offers was, as it was
\* found, runnable at some moment before its record was read, its lease run out at
\* the time asked for; and what was runnable until then, as it was stored, is
\* offered.  An offer may be of an item that has since been blocked: the query goes
\* by the work item it found.
OffersAreRunnable ==
    Answered => always \subseteq query.found /\ query.found \subseteq ever

\* At every time a leased record is active or expired, for its worker and for
\* all of them, and never both.
LeasesPartition ==
    \A worker \in LeaseHolders \union {AnyHolder}, now \in Times \union {NoTime} :
        /\ ActiveLeases(worker, now) \intersect ExpiredLeases(worker, now) = {}
        /\ ActiveLeases(worker, now) \union ExpiredLeases(worker, now) = Leased(worker)

\* Of the programs that append an event of one id, however often they try, the
\* first stays the author of the event.
EventsAreAppendOnly ==
    [][event # NoOne => event' = event]_recordsVars

EventMatchesRun(e) ==
    /\ e.subject \in DOMAIN agentRuns
    /\ agentRuns[e.subject].exit = e.exit
    /\ (agentRuns[e.subject].status = "completed") = (e.exit = 0)
    /\ (agentRuns[e.subject].summary = "timed out") = e.timedOut

Orphans == { r \in DOMAIN agentRuns : \A e \in rawEvents : e.subject # r }

\* Whatever raw event there is belongs to a stored run and tells the same outcome,
\* a timeout told from a command that exits with the same code; and only a script
\* that is at it or has died leaves a run without its event, one run each.
RunsAndEventsAgree ==
    /\ \A e \in rawEvents : EventMatchesRun(e)
    /\ Cardinality(Orphans) <= runFaults + IF script.pc = "append" THEN 1 ELSE 0
==============================================================================
