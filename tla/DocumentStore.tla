---------------------------- MODULE DocumentStore ----------------------------
(***************************************************************************)
(* Clients of one bucket of the document store.  A client holds at most    *)
(* one document: one it built, one it read, or what its last insert or     *)
(* save returned.  It may hold that copy for as long as it likes, while    *)
(* other clients save theirs.                                              *)
(***************************************************************************)
EXTENDS StoreOperations

CONSTANTS
    Ids,       \* document ids
    Clients,   \* processes with a store connection
    Keys,      \* values of the unique index
    MaxVersion \* bound: no document is saved beyond this version

ASSUME StoreAssumption ==
    /\ Ids \subseteq Nat \ {0}
    /\ MaxVersion \in Nat

VARIABLES
    bucket, \* the documents the store holds
    copy    \* the document each client holds

vars == <<bucket, copy>>

\* A document's content is its key and how often each client edited it.
Docs == [version : Nat, key : Keys \union {NoKey}, edits : [Clients -> Nat]]

NewDoc(key) == [version |-> 0, key |-> key, edits |-> [c \in Clients |-> 0]]

Holding(id, doc) == [id |-> id, doc |-> doc]

NoCopy == Holding(0, NewDoc(NoKey))

Holds(c) == copy[c].id # 0

Init ==
    /\ bucket = [id \in Ids |-> NewDoc(NoKey)]
    /\ copy = [c \in Clients |-> NoCopy]

\* The client builds a document, with an id of its own or a generated one.
Build(c) ==
    /\ ~ Holds(c)
    /\ \E id \in Ids, key \in Keys \union {NoKey} :
          copy' = [copy EXCEPT ![c] = Holding(id, NewDoc(key))]
    /\ UNCHANGED bucket

\* get, by id or by a filter the document matches
Get(c) ==
    /\ \E id \in Stored(bucket) : copy' = [copy EXCEPT ![c] = Holding(id, bucket[id])]
    /\ UNCHANGED bucket

\* The client keeps the document the call returns, or gives up with the error.
Keep(c, id, outcome, next) ==
    IF outcome = "stored"
    THEN /\ bucket' = next
         /\ copy' = [copy EXCEPT ![c] = Holding(id, next[id])]
    ELSE /\ copy' = [copy EXCEPT ![c] = NoCopy]
         /\ UNCHANGED bucket

Insert(c) ==
    /\ Holds(c)
    /\ LET id == copy[c].id  doc == copy[c].doc
       IN  Keep(c, id, InsertOutcome(bucket, id, doc), Inserted(bucket, id, doc))

Edited(doc, c, key) ==
    [version |-> doc.version, key |-> key, edits |-> [doc.edits EXCEPT ![c] = @ + 1]]

\* The client edits its copy, the key included, and saves it.
Save(c, key) ==
    /\ Holds(c)
    /\ copy[c].doc.version < MaxVersion
    /\ LET id  == copy[c].id
           doc == Edited(copy[c].doc, c, key)
       IN  Keep(c, id, SaveOutcome(bucket, id, doc), Saved(bucket, id, doc))

Next ==
    \E c \in Clients :
        \/ Build(c)
        \/ Get(c)
        \/ Insert(c)
        \/ \E key \in Keys \union {NoKey} : Save(c, key)

Spec == Init /\ [][Next]_vars

-------------------------------------------------------------------------------
\* The values each variable ranges over.
TypeOK ==
    /\ bucket \in [Ids -> Docs]
    /\ copy \in [Clients -> [id : Ids \union {0}, doc : Docs]]

\* No two stored documents have the same key, however keys move between
\* documents by saves of old copies.
UniqueKeys ==
    \A id, other \in Stored(bucket) :
        bucket[id].key = bucket[other].key => id = other \/ bucket[id].key = NoKey

\* A version names one content: a copy whose version is still the stored one is
\* the stored document.  The optimistic lock rests on this.
VersionNamesContent ==
    \A c \in Clients : Holds(c) /\ copy[c].doc.version > 0 =>
        LET id == copy[c].id
        IN  /\ copy[c].doc.version <= bucket[id].version
            /\ copy[c].doc.version = bucket[id].version => copy[c].doc = bucket[id]

\* A new document a client holds has not been edited.
NewIsUnedited ==
    \A c \in Clients : Holds(c) /\ copy[c].doc.version = 0 =>
        copy[c].doc.edits = NewDoc(NoKey).edits

\* The inductive invariant of DocumentStore_proofs.
IndInv ==
    /\ TypeOK
    /\ UniqueKeys
    /\ VersionNamesContent
    /\ NewIsUnedited

\* What a client of AtomicDocuments sees of the bucket.
Atomic ==
    INSTANCE AtomicDocuments WITH
        existing <- Stored(bucket),
        docs     <- [id \in Ids |-> [key |-> bucket[id].key, edits |-> bucket[id].edits]]

\* Clients that hold copies and save them when they like edit the documents as
\* AtomicDocuments says: a save that would overwrite an edit is refused.
AtomicSpec == Atomic!Spec
==============================================================================
