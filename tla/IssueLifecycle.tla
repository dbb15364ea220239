---------------------------- MODULE IssueLifecycle ----------------------------
(***************************************************************************)
(* What the helper promises of an issue, whoever runs its commands: the    *)
(* stage machine of docs/github-workflow.md over atomic steps.  An issue   *)
(* moves along a row of the transition table and is queued again, is       *)
(* claimed where it stands, or is reset for planning.  Decisions of the    *)
(* approver move it only out of a stage that waits for the approver.       *)
(***************************************************************************)
EXTENDS WorkflowTransitions

CONSTANT Issues

VARIABLE state \* per issue: [status, stage, route]

States == [status : Statuses, stage : Stages, route : ReviewRoutes]

Init == state \in [Issues -> { s \in States : s.status = "Todo" /\ s.stage = "Planning" }]

Transition(i) ==
    \E signal \in Signals :
        /\ IsTransition(state[i].stage, signal, state[i].route)
        /\ signal \in HumanSignals => state[i].stage \in HumanStages
        /\ state' = [state EXCEPT
                        ![i].status = "Todo",
                        ![i].stage = NextStage(state[i].stage, signal, state[i].route)]

Claim(i) ==
    /\ state[i].stage \in AgentStages
    /\ state' = [state EXCEPT ![i].status = "InProgress"]

Reset(i) ==
    state' = [state EXCEPT ![i] =
                [status |-> "Todo", stage |-> "Planning", route |-> "HumanOnly"]]

Next == \E i \in Issues : Transition(i) \/ Claim(i) \/ Reset(i)

Spec == Init /\ [][Next]_state
==============================================================================
