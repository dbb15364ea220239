---------------------------- MODULE SelectNextWork ----------------------------
(***************************************************************************)
(* The pure selection policy of                                            *)
(* src/hoisa/app/workflows/select_next_work.py: which item, and which      *)
(* action, a worker is given.  A selectable item is a record               *)
(*   [number, phase, status, stage, type, identities, routing, blocked,    *)
(*    linked]                                                              *)
(* whose labels are kept apart by the use the policy makes of them:        *)
(* `identities` are worker identity labels, `routing` the agent:* labels.  *)
(* `phase` is the first number of the phase name, or NoPhase.              *)
(***************************************************************************)
EXTENDS Naturals, WorkflowTransitions

NoPhase == "no-phase"

Modes == {"auto", "plan", "implement", "review"}

Actions == {"plan", "review-plan", "implement", "review-implementation"}

StageAction(stage) ==
    CASE stage = "Planning"              -> "plan"
      [] stage = "PlanReview"            -> "review-plan"
      [] stage = "Implementation"        -> "implement"
      [] stage = "ImplementationReview"  -> "review-implementation"
      [] OTHER                           -> "none"

ActionsForMode(mode) ==
    CASE mode = "plan"      -> {"plan"}
      [] mode = "implement" -> {"implement"}
      [] mode = "review"    -> {"review-plan", "review-implementation"}
      [] OTHER              -> Actions

AgentLabelAllows(routing, agent) == routing = {} \/ agent \in routing

\* Items without a phase number sort as phase 999.
PhaseRank(phase) == IF phase = NoPhase THEN 999 ELSE phase

SortsBefore(a, b) ==
    \/ PhaseRank(a.phase) < PhaseRank(b.phase)
    \/ PhaseRank(a.phase) = PhaseRank(b.phase) /\ a.number < b.number

\* a sorts before all other items.
IsFirst(a, items) == \A b \in items \ {a} : SortsBefore(a, b)

\* In Progress items that carry this worker's identity label.
OwnedItems(items, mode, identity) ==
    { i \in items :
        /\ i.status = "InProgress"
        /\ identity \in i.identities
        /\ StageAction(i.stage) \in ActionsForMode(mode) }

EligibleStageItems(items, agent, mode) ==
    { i \in items :
        /\ i.status = "Todo"
        /\ i.stage \in AgentStages
        /\ StageAction(i.stage) \in ActionsForMode(mode)
        /\ ~ i.blocked
        /\ i.stage = "Planning" => ~ i.linked
        /\ i.type \in {"task", "spike"}
        /\ AgentLabelAllows(i.routing, agent) }

\* A variant that stands for a plausible mistake: the queue comes first.
CandidatesPreferQueue(items, agent, mode, identity) ==
    LET queued == EligibleStageItems(items, agent, mode)
    IN  IF queued # {} THEN queued ELSE OwnedItems(items, mode, identity)

\* The items select_next_work_item chooses the first of: work the worker
\* already owns has precedence over the queue.
Candidates(items, agent, mode, identity) ==
    LET owned == OwnedItems(items, mode, identity)
    IN  IF owned # {} THEN owned ELSE EligibleStageItems(items, agent, mode)
==============================================================================
