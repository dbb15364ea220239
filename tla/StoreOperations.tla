--------------------------- MODULE StoreOperations ---------------------------
(***************************************************************************)
(* What insert and save of src/hoisa/adapters/persistence/memory.py do to  *)
(* the bucket of one document type.  A bucket maps ids to documents:       *)
(* records with at least                                                   *)
(*   version   the optimistic lock's counter, 0 in a document that was     *)
(*             never stored, also the one a bucket holds under a free id   *)
(*   key       the fields of the type's unique index, or NoKey when the    *)
(*             type has none or a sparse index misses a field              *)
(* A call is one step: neither method awaits anything between its checks   *)
(* and its write, and Antonic's MongoDB commands are atomic per document.  *)
(* Timestamps are not modelled.                                            *)
(***************************************************************************)
EXTENDS Naturals

NoKey == <<>>

Stored(bucket) == { id \in DOMAIN bucket : bucket[id].version > 0 }

\* _reject_unique_collisions
Collides(bucket, id, doc) ==
    /\ doc.key # NoKey
    /\ \E other \in Stored(bucket) \ {id} : bucket[other].key = doc.key

InsertOutcome(bucket, id, doc) ==
    IF id \in Stored(bucket) \/ Collides(bucket, id, doc) THEN "duplicate" ELSE "stored"

Inserted(bucket, id, doc) == [bucket EXCEPT ![id] = [doc EXCEPT !.version = 1]]

\* Variants that stand for plausible mistakes are kept beside the definition
\* they vary; README.md says which property each one breaks.
SaveOutcomeIgnoresVersion(bucket, id, doc) ==
    CASE doc.version = 0        -> InsertOutcome(bucket, id, doc)
      [] doc.version > 0 /\ id \notin Stored(bucket) -> "not-found"
      [] OTHER -> IF Collides(bucket, id, doc) THEN "duplicate" ELSE "stored"

SaveOutcomeIgnoresIndexes(bucket, id, doc) ==
    CASE doc.version = 0        -> InsertOutcome(bucket, id, doc)
      [] doc.version > 0 /\ id \notin Stored(bucket) -> "not-found"
      [] OTHER -> IF bucket[id].version # doc.version THEN "conflict" ELSE "stored"

\* A document that was never stored is inserted; otherwise the version of the
\* caller's copy must be the stored one, and only then indexes are looked at.
SaveOutcome(bucket, id, doc) ==
    IF doc.version = 0 THEN InsertOutcome(bucket, id, doc)
    ELSE IF id \notin Stored(bucket) THEN "not-found"
    ELSE IF bucket[id].version # doc.version THEN "conflict"
    ELSE IF Collides(bucket, id, doc) THEN "duplicate"
    ELSE "stored"

SavedKeepsVersion(bucket, id, doc) ==
    [bucket EXCEPT ![id] = [doc EXCEPT !.version = IF @ = 0 THEN 1 ELSE @]]

Saved(bucket, id, doc) == [bucket EXCEPT ![id] = [doc EXCEPT !.version = @ + 1]]
==============================================================================
