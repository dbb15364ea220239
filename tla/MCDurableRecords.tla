--------------------------- MODULE MCDurableRecords ---------------------------
(* DurableRecords for TLC. *)
EXTENDS DurableRecords, TLC

\* A work item that fits the query and a blocked one of another stage, both of
\* the project asked for.
FewWorkItems ==
    { [fits |-> TRUE, home |-> TRUE, blocked |-> FALSE],
      [fits |-> FALSE, home |-> TRUE, blocked |-> TRUE] }

\* A key is the tuple of the unique index's fields.
MCKeys == { <<"k1">>, <<"k2">> }

\* Clients differ only by name.
ClientSymmetry == Permutations(Clients)
==============================================================================
