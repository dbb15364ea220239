--------------------------- MODULE AtomicDocuments ---------------------------
(***************************************************************************)
(* What the document store promises its clients: a document is created     *)
(* once, and every later edit is made to the document as it is at that     *)
(* moment, none overwriting another; no two documents ever share a key.    *)
(***************************************************************************)
EXTENDS Naturals

CONSTANTS Ids, Clients, Keys

VARIABLES
    existing, \* the ids of the documents there are
    docs      \* per id: [key, edits], edits counted by client

Unedited == [c \in Clients |-> 0]

Free(key, id) ==
    key = <<>> \/ \A other \in existing \ {id} : docs[other].key # key

Init ==
    /\ existing = {}
    /\ docs = [id \in Ids |-> [key |-> <<>>, edits |-> Unedited]]

Create(id, key, edits) ==
    /\ id \notin existing
    /\ Free(key, id)
    /\ existing' = existing \union {id}
    /\ docs' = [docs EXCEPT ![id] = [key |-> key, edits |-> edits]]

Edit(c, id, key) ==
    /\ id \in existing
    /\ Free(key, id)
    /\ LET edits == docs[id].edits
       IN  docs' = [docs EXCEPT ![id] =
                      [key |-> key, edits |-> [edits EXCEPT ![c] = edits[c] + 1]]]
    /\ UNCHANGED existing

Next ==
    \E c \in Clients, id \in Ids, key \in Keys \union {<<>>} :
        \/ Create(id, key, Unedited)
        \/ Create(id, key, [Unedited EXCEPT ![c] = 1])
        \/ Edit(c, id, key)

Spec == Init /\ [][Next]_<<existing, docs>>
==============================================================================
