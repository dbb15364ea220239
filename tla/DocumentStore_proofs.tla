------------------------- MODULE DocumentStore_proofs -------------------------
(***************************************************************************)
(* Proofs about DocumentStore: its invariants, for any ids, clients, keys  *)
(* and versions, and that it implements AtomicDocuments.                   *)
(***************************************************************************)
EXTENDS DocumentStore, TLAPS

(***************************************************************************)
(* What the outcome "stored" of an insert or a save tells: the caller's    *)
(* document was never stored, or is the stored version, and its key is     *)
(* free.                                                                   *)
(***************************************************************************)
LEMMA InsertStored ==
    ASSUME NEW id \in Ids, NEW doc, bucket \in [Ids -> Docs],
           InsertOutcome(bucket, id, doc) = "stored"
    PROVE  bucket[id].version = 0 /\ ~ Collides(bucket, id, doc)
BY DEF InsertOutcome, Stored, Docs

\* Likewise for save, which inserts what was never stored.
LEMMA SaveStored ==
    ASSUME NEW id \in Ids, NEW doc \in Docs, bucket \in [Ids -> Docs],
           SaveOutcome(bucket, id, doc) = "stored"
    PROVE  bucket[id].version = doc.version /\ ~ Collides(bucket, id, doc)
<1>1. CASE doc.version = 0
    BY <1>1, InsertStored DEF SaveOutcome
<1>2. CASE doc.version # 0
    BY <1>2 DEF SaveOutcome
<1> QED BY <1>1, <1>2

\* Documents clients build are typed.
LEMMA NewDocTyped ==
    ASSUME NEW key \in Keys \union {NoKey}
    PROVE  NewDoc(key) \in Docs
BY DEF NewDoc, Docs

(***************************************************************************)
(* A document written with the next version under its id, by a caller that *)
(* had the stored version and a free key, and kept by that caller.         *)
(***************************************************************************)
LEMMA WriteKept ==
    ASSUME IndInv, NEW c \in Clients, NEW id \in Ids, NEW doc \in Docs,
           doc.version = bucket[id].version + 1,
           ~ Collides(bucket, id, doc),
           bucket' = [bucket EXCEPT ![id] = doc],
           copy' = [copy EXCEPT ![c] = Holding(id, doc)]
    PROVE  IndInv'
<1>1. TypeOK'
    BY DEF IndInv, TypeOK, Holding
<1>2. UniqueKeys'
    <2> SUFFICES ASSUME NEW a \in Stored(bucket'), NEW b \in Stored(bucket'),
                        bucket'[a].key = bucket'[b].key, a # b
                 PROVE  bucket'[a].key = NoKey
        BY DEF UniqueKeys
    <2>1. a \in Ids /\ b \in Ids
        BY DEF Stored, IndInv, TypeOK
    <2>2. CASE a # id /\ b # id
        BY <2>1, <2>2 DEF IndInv, TypeOK, UniqueKeys, Stored
    <2>3. CASE a = id \/ b = id
        BY <2>1, <2>3 DEF IndInv, TypeOK, Stored, Collides
    <2> QED BY <2>2, <2>3
<1>3. VersionNamesContent'
    <2> SUFFICES ASSUME NEW d \in Clients, Holds(d)', copy'[d].doc.version > 0
                 PROVE  /\ copy'[d].doc.version <= bucket'[copy'[d].id].version
                        /\ copy'[d].doc.version = bucket'[copy'[d].id].version
                             => copy'[d].doc = bucket'[copy'[d].id]
        BY DEF VersionNamesContent
    <2>1. CASE d = c
        BY <2>1 DEF IndInv, TypeOK, Holding, Docs
    <2>2. CASE d # c
        <3>1. copy'[d] = copy[d] /\ Holds(d)
            BY <2>2 DEF IndInv, TypeOK, Holds
        <3>2. copy[d].id \in Ids /\ copy[d].doc \in Docs
            BY <3>1 DEF IndInv, TypeOK, Holds
        <3>3. CASE copy[d].id = id
            <4>1. copy[d].doc.version <= bucket[id].version
                BY <3>1, <3>3 DEF IndInv, VersionNamesContent
            <4>2. bucket'[id] = doc /\ bucket[id].version \in Nat
                BY DEF IndInv, TypeOK, Docs
            <4>3. copy[d].doc.version \in Nat
                BY <3>2 DEF Docs
            <4> QED BY <3>1, <3>3, <4>1, <4>2, <4>3
        <3>4. CASE copy[d].id # id
            BY <3>1, <3>2, <3>4 DEF IndInv, TypeOK, VersionNamesContent
        <3> QED BY <3>3, <3>4
    <2> QED BY <2>1, <2>2
<1>4. NewIsUnedited'
    <2>1. doc.version # 0
        BY DEF IndInv, TypeOK, Docs
    <2> QED BY <2>1 DEF IndInv, TypeOK, NewIsUnedited, Holds, Holding
<1> QED BY <1>1, <1>2, <1>3, <1>4 DEF IndInv

\* A client that takes a copy of a stored document, builds one or drops its copy
\* leaves the bucket as it is.
LEMMA CopyKept ==
    ASSUME IndInv, UNCHANGED bucket, NEW c \in Clients, NEW id, NEW doc,
           copy' = [copy EXCEPT ![c] = Holding(id, doc)],
           \/ id = 0 /\ doc = NewDoc(NoKey)
           \/ id \in Stored(bucket) /\ doc = bucket[id]
           \/ id \in Ids /\ \E key \in Keys \union {NoKey} : doc = NewDoc(key)
    PROVE  IndInv'
<1>1. id \in Ids \union {0} /\ doc \in Docs
    BY NewDocTyped DEF IndInv, TypeOK, Stored
<1>2. TypeOK'
    BY <1>1 DEF IndInv, TypeOK, Holding
<1>3. UniqueKeys'
    BY DEF IndInv, UniqueKeys
<1>4. VersionNamesContent'
    <2> SUFFICES ASSUME NEW d \in Clients, Holds(d)', copy'[d].doc.version > 0
                 PROVE  /\ copy'[d].doc.version <= bucket[copy'[d].id].version
                        /\ copy'[d].doc.version = bucket[copy'[d].id].version
                             => copy'[d].doc = bucket[copy'[d].id]
        BY DEF VersionNamesContent
    <2>1. CASE d = c
        <3>1. copy'[d].id = id /\ copy'[d].doc = doc
            BY <2>1 DEF IndInv, TypeOK, Holding
        <3>2. id \in Stored(bucket) /\ doc = bucket[id]
            BY <3>1 DEF NewDoc
        <3>3. doc.version \in Nat
            BY <1>1 DEF Docs
        <3> QED BY <3>1, <3>2, <3>3
    <2>2. CASE d # c
        BY <2>2 DEF IndInv, TypeOK, VersionNamesContent, Holds
    <2> QED BY <2>1, <2>2
<1>5. NewIsUnedited'
    <2> SUFFICES ASSUME NEW d \in Clients, Holds(d)', copy'[d].doc.version = 0
                 PROVE  copy'[d].doc.edits = NewDoc(NoKey).edits
        BY DEF NewIsUnedited, NewDoc
    <2>1. CASE d = c
        BY <2>1 DEF IndInv, TypeOK, Holding, Stored, NewDoc
    <2>2. CASE d # c
        BY <2>2 DEF IndInv, TypeOK, NewIsUnedited, Holds, NewDoc
    <2> QED BY <2>1, <2>2
<1> QED BY <1>2, <1>3, <1>4, <1>5 DEF IndInv

(***************************************************************************)
(* What a step does to the bucket: nothing, or it writes one document that *)
(* a client inserts, or that it edited.                                    *)
(***************************************************************************)
Wrote(c, id, doc) ==
    /\ doc \in Docs
    /\ doc.version = bucket[id].version + 1
    /\ ~ Collides(bucket, id, doc)
    /\ bucket' = [bucket EXCEPT ![id] = doc]
    /\ copy' = [copy EXCEPT ![c] = Holding(id, doc)]

\* A copy in a client's hands names a document and is typed.
LEMMA HeldTyped ==
    ASSUME IndInv, NEW c \in Clients, Holds(c)
    PROVE  copy[c].id \in Ids /\ copy[c].doc \in Docs
BY DEF IndInv, TypeOK, Holds

\* A refused call raises, and the client drops its copy.
Dropped(c) == UNCHANGED bucket /\ copy' = [copy EXCEPT ![c] = NoCopy]

\* An insert writes the copy with version 1, or is refused.
LEMMA InsertWrites ==
    ASSUME IndInv, NEW c \in Clients, Insert(c)
    PROVE  LET id  == copy[c].id
               doc == [copy[c].doc EXCEPT !.version = 1]
           IN  \/ Dropped(c)
               \/ bucket[id].version = 0 /\ Wrote(c, id, doc)
<1> DEFINE id  == copy[c].id
           doc == [copy[c].doc EXCEPT !.version = 1]
<1>1. id \in Ids /\ copy[c].doc \in Docs /\ bucket \in [Ids -> Docs]
    BY HeldTyped DEF Insert, IndInv, TypeOK
<1>2. CASE InsertOutcome(bucket, id, copy[c].doc) = "stored"
    <2>1. bucket[id].version = 0 /\ ~ Collides(bucket, id, copy[c].doc)
        BY <1>1, <1>2, InsertStored
    <2>2. doc \in Docs /\ doc.key = copy[c].doc.key /\ doc.version = 1
        BY <1>1 DEF Docs
    <2>3. bucket' = [bucket EXCEPT ![id] = doc] /\ copy' = [copy EXCEPT ![c] = Holding(id, doc)]
        BY <1>1, <1>2 DEF Insert, Keep, Inserted
    <2> QED BY <2>1, <2>2, <2>3 DEF Wrote, Collides
<1>3. CASE InsertOutcome(bucket, id, copy[c].doc) # "stored"
    BY <1>3 DEF Insert, Keep, Dropped
<1> QED BY <1>2, <1>3

\* A save writes the edited copy with the next version, or is refused.
LEMMA SaveWrites ==
    ASSUME IndInv, NEW c \in Clients, NEW key \in Keys \union {NoKey}, Save(c, key)
    PROVE  LET id  == copy[c].id
               doc == [version |-> copy[c].doc.version + 1, key |-> key,
                       edits |-> [copy[c].doc.edits EXCEPT ![c] = @ + 1]]
           IN  \/ Dropped(c)
               \/ bucket[id].version = copy[c].doc.version /\ Wrote(c, id, doc)
<1> DEFINE id     == copy[c].id
           edited == Edited(copy[c].doc, c, key)
           doc    == [version |-> copy[c].doc.version + 1, key |-> key,
                      edits |-> [copy[c].doc.edits EXCEPT ![c] = @ + 1]]
<1>1. id \in Ids /\ copy[c].doc \in Docs /\ bucket \in [Ids -> Docs]
    BY HeldTyped DEF Save, IndInv, TypeOK
<1>2. edited \in Docs /\ doc \in Docs /\ edited.version = copy[c].doc.version /\ edited.key = key
    BY <1>1 DEF Docs, Edited
<1>3. [edited EXCEPT !.version = @ + 1] = doc
    BY DEF Edited
<1>4. CASE SaveOutcome(bucket, id, edited) = "stored"
    <2>1. bucket[id].version = copy[c].doc.version /\ ~ Collides(bucket, id, edited)
        BY <1>1, <1>2, <1>4, SaveStored
    <2>2. bucket' = [bucket EXCEPT ![id] = doc] /\ copy' = [copy EXCEPT ![c] = Holding(id, doc)]
        BY <1>1, <1>3, <1>4 DEF Save, Keep, Saved
    <2> QED BY <1>2, <2>1, <2>2 DEF Wrote, Collides
<1>5. CASE SaveOutcome(bucket, id, edited) # "stored"
    BY <1>5 DEF Save, Keep, Dropped
<1> QED BY <1>4, <1>5

-------------------------------------------------------------------------------
\* An empty bucket and no copies satisfy the invariant.
LEMMA InitInvariant == Init => IndInv
<1> SUFFICES ASSUME Init PROVE IndInv
    OBVIOUS
<1>1. NewDoc(NoKey) \in Docs /\ NewDoc(NoKey).version = 0
    BY NewDocTyped DEF NewDoc
<1>2. TypeOK
    BY <1>1 DEF Init, TypeOK, NoCopy, Holding
<1>3. Stored(bucket) = {}
    BY <1>1 DEF Init, Stored
<1>4. \A c \in Clients : ~ Holds(c)
    BY DEF Init, Holds, NoCopy, Holding
<1> QED BY <1>2, <1>3, <1>4 DEF IndInv, UniqueKeys, VersionNamesContent, NewIsUnedited

\* A refused call preserves the invariant.
LEMMA DropKept ==
    ASSUME IndInv, NEW c \in Clients, Dropped(c)
    PROVE  IndInv'
BY CopyKept DEF Dropped, NoCopy

\* Every step preserves the invariant.
LEMMA StepKept == IndInv /\ [Next]_vars => IndInv'
<1> SUFFICES ASSUME IndInv, [Next]_vars PROVE IndInv'
    OBVIOUS
<1>1. ASSUME NEW c \in Clients, Build(c) PROVE IndInv'
    BY <1>1, CopyKept DEF Build
<1>2. ASSUME NEW c \in Clients, Get(c) PROVE IndInv'
    BY <1>2, CopyKept DEF Get
<1>3. ASSUME NEW c \in Clients, Insert(c) PROVE IndInv'
    <2>1. copy[c].id \in Ids
        BY <1>3, HeldTyped DEF Insert
    <2> QED BY <1>3, <2>1, InsertWrites, DropKept, WriteKept DEF Wrote
<1>4. ASSUME NEW c \in Clients, NEW key \in Keys \union {NoKey}, Save(c, key) PROVE IndInv'
    <2>1. copy[c].id \in Ids
        BY <1>4, HeldTyped DEF Save
    <2> QED BY <1>4, <2>1, SaveWrites, DropKept, WriteKept DEF Wrote
<1>5. CASE UNCHANGED vars
    BY <1>5 DEF vars, IndInv, TypeOK, UniqueKeys, VersionNamesContent, NewIsUnedited,
                Stored, Holds
<1> QED BY <1>1, <1>2, <1>3, <1>4, <1>5 DEF Next

\* The inductive invariant of the document store.
THEOREM Invariance == Spec => []IndInv
BY InitInvariant, StepKept, PTL DEF Spec

\* Every document the store holds, and every copy in a client's hands, is typed,
\* for any ids, clients and keys.
THEOREM TypeCorrect == Spec => []TypeOK
<1>1. IndInv => TypeOK
    BY DEF IndInv
<1> QED BY <1>1, Invariance, PTL

\* No two stored documents share a key of the unique index, whatever old copies
\* clients save.
THEOREM KeysStayUnique == Spec => []UniqueKeys
<1>1. IndInv => UniqueKeys
    BY DEF IndInv
<1> QED BY <1>1, Invariance, PTL

\* A version names one content: the version check of save compares contents.
THEOREM VersionsNameContents == Spec => []VersionNamesContent
<1>1. IndInv => VersionNamesContent
    BY DEF IndInv
<1> QED BY <1>1, Invariance, PTL

-------------------------------------------------------------------------------
(* The store implements AtomicDocuments. *)

\* The contents AtomicDocuments sees of a bucket.
Contents(b) == [id \in Ids |-> [key |-> b[id].key, edits |-> b[id].edits]]

\* A document a client writes under a free key.
LEMMA WriteMaps ==
    ASSUME IndInv, NEW c \in Clients, NEW id \in Ids, NEW doc, Wrote(c, id, doc)
    PROVE  /\ Atomic!Free(doc.key, id)
           /\ Stored(bucket') = Stored(bucket) \union {id}
           /\ Contents(bucket') =
                [Contents(bucket) EXCEPT ![id] = [key |-> doc.key, edits |-> doc.edits]]
<1>1. bucket \in [Ids -> Docs] /\ bucket' = [bucket EXCEPT ![id] = doc]
    BY DEF IndInv, TypeOK, Wrote
<1>2. doc.version > 0
    BY <1>1 DEF Wrote, Docs
<1>3. Atomic!Free(doc.key, id)
    BY <1>1 DEF Wrote, Collides, Stored, NoKey, Atomic!Free
<1>4. Stored(bucket') = Stored(bucket) \union {id}
    BY <1>1, <1>2 DEF Stored
<1>5. Contents(bucket') =
        [Contents(bucket) EXCEPT ![id] = [key |-> doc.key, edits |-> doc.edits]]
    BY <1>1 DEF Contents
<1> QED BY <1>3, <1>4, <1>5

\* A stored insert creates an unedited document; a refused one is a stutter.
LEMMA InsertMaps ==
    ASSUME IndInv, NEW c \in Clients, Insert(c)
    PROVE  UNCHANGED bucket \/ Atomic!Next
<1> DEFINE id == copy[c].id
<1>1. id \in Ids /\ copy[c].doc \in Docs /\ bucket \in [Ids -> Docs]
    BY HeldTyped DEF Insert, IndInv, TypeOK
<1>2. CASE Dropped(c)
    BY <1>2 DEF Dropped
<1>3. ASSUME NEW i \in Ids, NEW doc, i = id, doc = [copy[c].doc EXCEPT !.version = 1],
             bucket[i].version = 0, Wrote(c, i, doc)
      PROVE  Atomic!Next
    <2>1. copy[c].doc.version = 0
        BY <1>1, <1>3 DEF IndInv, VersionNamesContent, Insert, Docs
    <2>2. doc.edits = Atomic!Unedited /\ doc.key \in Keys \union {NoKey}
        BY <1>1, <1>3, <2>1 DEF IndInv, NewIsUnedited, Insert, NewDoc, Atomic!Unedited, Docs
    <2>3. /\ Atomic!Free(doc.key, i)
          /\ Stored(bucket') = Stored(bucket) \union {i}
          /\ Contents(bucket') =
                [Contents(bucket) EXCEPT ![i] = [key |-> doc.key, edits |-> doc.edits]]
        <3>1. Wrote(c, i, doc)
            BY <1>3
        <3> QED BY <3>1, WriteMaps, Zenon
    <2>4. i \notin Stored(bucket)
        BY <1>1, <1>3 DEF Stored
    <2>5. Atomic!Create(i, doc.key, Atomic!Unedited)
        BY <2>2, <2>3, <2>4 DEF Atomic!Create, Contents
    <2> QED BY <1>3, <2>2, <2>5 DEF Atomic!Next, NoKey
<1> QED BY <1>1, <1>2, <1>3, InsertWrites DEF Wrote

\* A stored save creates a document or edits the stored one.
LEMMA SaveMaps ==
    ASSUME IndInv, NEW c \in Clients, NEW key \in Keys \union {NoKey}, Save(c, key)
    PROVE  UNCHANGED bucket \/ Atomic!Next
<1> DEFINE id == copy[c].id
<1>1. id \in Ids /\ copy[c].doc \in Docs /\ bucket \in [Ids -> Docs]
    BY HeldTyped DEF Save, IndInv, TypeOK
<1>2. CASE Dropped(c)
    BY <1>2 DEF Dropped
<1>3. ASSUME NEW i \in Ids, NEW doc, i = id,
             doc = [version |-> copy[c].doc.version + 1, key |-> key,
                    edits |-> [copy[c].doc.edits EXCEPT ![c] = @ + 1]],
             bucket[i].version = copy[c].doc.version, Wrote(c, i, doc)
      PROVE  Atomic!Next
    <2>1. /\ Atomic!Free(key, i)
          /\ Stored(bucket') = Stored(bucket) \union {i}
          /\ Contents(bucket') =
                [Contents(bucket) EXCEPT ![i] = [key |-> key, edits |-> doc.edits]]
        BY <1>3, WriteMaps
    <2>2. CASE copy[c].doc.version = 0
        <3>1. doc.edits = [Atomic!Unedited EXCEPT ![c] = 1]
            BY <1>1, <1>3, <2>2 DEF IndInv, NewIsUnedited, Save, NewDoc, Atomic!Unedited
        <3>2. i \notin Stored(bucket)
            BY <1>1, <1>3, <2>2 DEF Stored
        <3>3. Atomic!Create(i, key, [Atomic!Unedited EXCEPT ![c] = 1])
            BY <2>1, <3>1, <3>2 DEF Atomic!Create, Contents
        <3> QED BY <1>3, <3>3 DEF Atomic!Next, NoKey
    <2>3. CASE copy[c].doc.version # 0
        <3>1. copy[c].doc = bucket[i]
            BY <1>1, <1>3, <2>3 DEF IndInv, VersionNamesContent, Save, Docs
        <3>2. i \in Stored(bucket)
            BY <1>1, <1>3, <2>3 DEF Stored, Docs
        <3>3. /\ Contents(bucket)[i].edits = bucket[i].edits
              /\ doc.edits = [bucket[i].edits EXCEPT ![c] = bucket[i].edits[c] + 1]
            BY <1>1, <1>3, <3>1 DEF Contents
        <3>4. Atomic!Edit(c, i, key)
            BY <2>1, <3>2, <3>3 DEF Atomic!Edit, Contents
        <3> QED BY <1>3, <3>4 DEF Atomic!Next, NoKey
    <2> QED BY <2>2, <2>3
<1> QED BY <1>1, <1>2, <1>3, SaveWrites DEF Wrote

\* Every step maps to a step of AtomicDocuments or a stutter.
LEMMA StepMaps ==
    IndInv /\ [Next]_vars => [Atomic!Next]_<<Stored(bucket), Contents(bucket)>>
<1> SUFFICES ASSUME IndInv, [Next]_vars
             PROVE  UNCHANGED bucket \/ Atomic!Next
    BY DEF Contents, Stored
<1> QED BY InsertMaps, SaveMaps DEF Next, Build, Get, vars

\* The empty bucket maps to no documents.
LEMMA InitMaps == Init => Atomic!Init
<1> SUFFICES ASSUME Init PROVE Atomic!Init
    OBVIOUS
<1>1. \A id \in Ids : bucket[id] = NewDoc(NoKey)
    BY DEF Init
<1>2. /\ NewDoc(NoKey).version = 0 /\ NewDoc(NoKey).key = <<>>
      /\ NewDoc(NoKey).edits = Atomic!Unedited
    BY DEF NewDoc, NoKey, Atomic!Unedited
<1>3. Stored(bucket) = {}
    BY <1>1, <1>2 DEF Stored, Init
<1>4. Contents(bucket) = [id \in Ids |-> [key |-> <<>>, edits |-> Atomic!Unedited]]
    BY <1>1, <1>2 DEF Contents
<1> QED BY <1>3, <1>4 DEF Atomic!Init, Contents

\* Whatever copies clients hold and save, documents change as if every insert
\* and edit had been made to the stored document at once: no edit is lost.
THEOREM Implementation == Spec => AtomicSpec
<1>1. IndInv /\ [Next]_vars => [Atomic!Next]_<<Stored(bucket), Contents(bucket)>>
    BY StepMaps
<1> QED BY <1>1, InitMaps, Invariance, PTL DEF Spec, AtomicSpec, Atomic!Spec, Contents
==============================================================================
