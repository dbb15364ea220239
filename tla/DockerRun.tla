------------------------------ MODULE DockerRun ------------------------------
(***************************************************************************)
(* scripts/poc_docker_agent_run.py: run one command in a container, store  *)
(* an AgentRun, append the event with the raw result, read both back and   *)
(* report.  The process may die, or a store call may raise, anywhere; a    *)
(* call that raises may still have stored its record.                      *)
(***************************************************************************)
EXTENDS Naturals, FiniteSets, Sequences

CONSTANTS
    MaxRuns,     \* bound: containers run
    MaxRunFaults \* bound: scripts that die

ASSUME DockerRunAssumption ==
    /\ MaxRuns \in Nat
    /\ MaxRunFaults \in Nat

VARIABLES
    agentRuns, \* the AgentRun records, in the order of insertion
    rawEvents, \* the AGENT_RUN_COMPLETED events
    script,    \* the script's next step and the result it holds
    runs,      \* containers run so far
    runFaults  \* scripts that died so far

runVars == <<agentRuns, rawEvents, script, runs, runFaults>>

Timeout == 124

\* The command may exit with the code that stands for a timeout.
Results ==
    { r \in [exit : {0, 1, Timeout}, timedOut : BOOLEAN] : r.timedOut => r.exit = Timeout }

NoResult == [exit |-> 0, timedOut |-> FALSE]

NoScript == [pc |-> "idle", result |-> NoResult, run |-> 0]

RunInit ==
    /\ agentRuns = <<>>
    /\ rawEvents = {}
    /\ script = NoScript
    /\ runs = 0
    /\ runFaults = 0

\* run_docker_agent
RunContainer ==
    /\ script.pc = "idle"
    /\ runs < MaxRuns
    /\ runs' = runs + 1
    /\ \E r \in Results : script' = [pc |-> "insert", result |-> r, run |-> 0]
    /\ UNCHANGED <<agentRuns, rawEvents, runFaults>>

\* result_summary
Summary(result) ==
    IF result.timedOut THEN "timed out"
    ELSE IF result.exit = 0 THEN "completed" ELSE "exited"

RunStatus(result) == IF result.exit = 0 THEN "completed" ELSE "failed"

\* agent_run_from_result
AgentRun(result) ==
    [exit |-> result.exit, status |-> RunStatus(result), summary |-> Summary(result)]

\* raw_result_event_from_result
RawEvent(result, run) ==
    [subject |-> run, exit |-> result.exit, timedOut |-> result.timedOut]

StoreRunUnlessTimedOut ==
    /\ agentRuns' = IF script.result.timedOut THEN agentRuns
                    ELSE Append(agentRuns, AgentRun(script.result))
    /\ UNCHANGED rawEvents

StoreRun ==
    /\ agentRuns' = Append(agentRuns, AgentRun(script.result))
    /\ UNCHANGED rawEvents

StoreEventOfLatestRun ==
    /\ rawEvents' = rawEvents \union { RawEvent(script.result, Len(agentRuns) + 1) }
    /\ UNCHANGED agentRuns

StoreEvent ==
    /\ rawEvents' = rawEvents \union { RawEvent(script.result, script.run) }
    /\ UNCHANGED agentRuns

\* connector.insert(AgentRun)
InsertRun ==
    /\ script.pc = "insert"
    /\ StoreRun
    /\ script' = [script EXCEPT !.pc = "append", !.run = Len(agentRuns')]
    /\ UNCHANGED <<runs, runFaults>>

\* append_event; the event gets its id from the store.
AppendRawEvent ==
    /\ script.pc = "append"
    /\ StoreEvent
    /\ script' = [script EXCEPT !.pc = "read"]
    /\ UNCHANGED <<runs, runFaults>>

\* get both records by the ids the store returned
ReadBack ==
    /\ script.pc = "read"
    /\ script' = IF /\ script.run \in DOMAIN agentRuns
                    /\ RawEvent(script.result, script.run) \in rawEvents
                 THEN [script EXCEPT !.pc = "report"] ELSE NoScript
    /\ UNCHANGED <<agentRuns, rawEvents, runs, runFaults>>

\* main prints the payload.
ReportRun ==
    /\ script.pc = "report"
    /\ script' = NoScript
    /\ UNCHANGED <<agentRuns, rawEvents, runs, runFaults>>

\* The script dies before a store call, or the call raises before or after the
\* store did it.
ScriptDies ==
    /\ script.pc \in {"insert", "append", "read"}
    /\ runFaults < MaxRunFaults
    /\ runFaults' = runFaults + 1
    /\ \/ UNCHANGED <<agentRuns, rawEvents>>
       \/ script.pc = "insert" /\ StoreRun
       \/ script.pc = "append" /\ StoreEvent
    /\ script' = NoScript
    /\ UNCHANGED runs

RunNext ==
    \/ RunContainer
    \/ InsertRun
    \/ AppendRawEvent
    \/ ReadBack
    \/ ReportRun
    \/ ScriptDies

==============================================================================
