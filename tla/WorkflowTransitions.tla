------------------------- MODULE WorkflowTransitions -------------------------
(***************************************************************************)
(* The pure stage machine of src/hoisa/domain/workflow_transitions.py: the *)
(* decision transition_workflow takes for a stage, a signal and a review   *)
(* route.  The text of a decision ("reason") is not modelled.              *)
(* Stage, status and route names are the code's without their blanks.      *)
(***************************************************************************)

AgentStages == {"Planning", "PlanReview", "Implementation", "ImplementationReview"}

HumanStages == {"PlanApproval", "Implemented"}

Stages == AgentStages \union HumanStages

Statuses == {"Todo", "InProgress", "Done", "Blocked"}

ReviewRoutes == {"HumanOnly", "ReviewPlan", "ReviewImplementation", "ReviewBoth"}

HumanSignals == {"human-approved", "human-requested-changes", "human-requested-review"}

AgentSignals == {"plan-posted", "review-ready", "review-changes", "implementation-complete"}

Signals == HumanSignals \union AgentSignals

PlanReviewRoutes == {"ReviewPlan", "ReviewBoth"}

ImplementationReviewRoutes == {"ReviewImplementation", "ReviewBoth"}

(***************************************************************************)
(* One row per branch of transition_workflow.  The order of the branches   *)
(* does not matter: no two rows share a stage and a signal.                *)
(***************************************************************************)
Row(stage, signal, next) == [stage |-> stage, signal |-> signal, next |-> next]

TransitionTable(route) ==
    { Row("Planning", "plan-posted",
          IF route \in PlanReviewRoutes THEN "PlanReview" ELSE "PlanApproval"),
      Row("PlanReview", "review-ready", "PlanApproval"),
      Row("PlanReview", "review-changes", "Planning"),
      Row("PlanApproval", "human-approved", "Implementation"),
      Row("PlanApproval", "human-requested-changes", "Planning"),
      Row("PlanApproval", "human-requested-review", "PlanReview"),
      Row("Implementation", "implementation-complete",
          IF route \in ImplementationReviewRoutes
          THEN "ImplementationReview" ELSE "Implemented"),
      Row("ImplementationReview", "review-ready", "Implemented"),
      Row("ImplementationReview", "review-changes", "Implementation"),
      Row("Implemented", "human-requested-changes", "Implementation"),
      Row("Implemented", "human-requested-review", "ImplementationReview") }

\* Where transition_workflow returns a decision; elsewhere it raises
\* WorkflowTransitionError.
IsTransition(stage, signal, route) ==
    \E row \in TransitionTable(route) : row.stage = stage /\ row.signal = signal

NextStage(stage, signal, route) ==
    (CHOOSE row \in TransitionTable(route) :
        row.stage = stage /\ row.signal = signal).next

OwnerOf(stage) == IF stage \in AgentStages THEN "agent" ELSE "human"

\* WorkflowTransitionDecision: the fields the callers use.
TransitionWorkflow(stage, signal, route) ==
    [stage  |-> NextStage(stage, signal, route),
     status |-> "Todo",
     owner  |-> OwnerOf(NextStage(stage, signal, route))]
==============================================================================
