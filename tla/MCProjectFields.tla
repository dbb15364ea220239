---------------------------- MODULE MCProjectFields ----------------------------
(* ProjectFields for TLC. *)
EXTENDS ProjectFields

Legacy(legacy, stage, route, status) ==
    [legacy |-> legacy, stage |-> stage, route |-> route, status |-> status]

\* A new Project has none of the fields; an older one has some of them, or
\* lacks the status only.
FieldKinds ==
    { {}, {"Status", "Agent"}, {"Agent", "WorkflowStage", "ReviewRoute"}, Required }

\* Items nobody has migrated, with a status and without, one that lacks only the
\* route, one that has all, and an issue that is not in the Project.
LegacyKinds ==
    { Legacy(Blank, Blank, Blank, Blank),
      Legacy("NeedsApproval", Blank, Blank, "Todo"),
      Legacy("Approved", Blank, "ReviewBoth", "Todo"),
      Legacy("NeedsApproval", "Implemented", Blank, Blank),
      Legacy("Approved", "Planning", "ReviewPlan", "InProgress"),
      Legacy(Blank, Blank, Blank, "absent") }
===============================================================================
