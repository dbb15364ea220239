----------------------- MODULE GitHubBootstrap_proofs -----------------------
(***************************************************************************)
(* Proofs about GitHubBootstrap, for any bootstraps, projects, repositories *)
(* and record ids.  Every step leaves the store alone or writes one record, *)
(* under a free id or over a record of the same identity; the lemmas on     *)
(* writes come first, then what a bootstrap knows when it writes.           *)
(***************************************************************************)
EXTENDS GitHubBootstrap, TLAPS, WellFoundedInduction

StoreTyped == store \in [Collections -> [Ids -> Documents]]

\* The records a record refers to are there.
Resolves(c, doc) ==
    /\ c = "target_repos" => doc.owner \in Stored(store["projects"])
    /\ c = "source_connections" =>
          /\ doc.identity[1] \in Stored(store["projects"])
          /\ doc.identity[2] \in Stored(store["target_repos"])
    /\ c \in {"tool_connections", "tool_policies"} =>
          doc.identity[1] \in Stored(store["projects"])
    /\ c = "sync_cursors" => doc.identity[1] \in Stored(store["source_connections"])

\* What the code sees to before it writes `doc` under `id`.
Fits(c, id, doc) ==
    /\ doc.version > 0
    /\ doc.identity # NoKey
    /\ doc.key = IF c \in Indexed THEN doc.identity ELSE NoKey
    /\ store[c][id].version = 0 \/ store[c][id].identity = doc.identity
    /\ Resolves(c, doc)

\* No record but the one under `id` has the identity.
OnlyOne(c, id, identity) ==
    \A other \in Ids \ {id} :
        store[c][other].version > 0 => store[c][other].identity # identity

Write(c, id, doc) == store' = [store EXCEPT ![c] = [store[c] EXCEPT ![id] = doc]]

\* No record goes away or changes its identity.
RecordsStay ==
    \A c \in Collections, id \in Ids :
        store[c][id].version > 0 =>
            store'[c][id].version > 0 /\ store'[c][id].identity = store[c][id].identity

StoreInv == StoreTyped /\ StoredAsAsked /\ IndexesHold /\ ReferencesResolve

-------------------------------------------------------------------------------
\* The stored ids of a bucket are its ids with a version.
LEMMA StoredIds ==
    ASSUME StoreTyped, NEW c \in Collections, NEW id
    PROVE  id \in Stored(store[c]) <=> id \in Ids /\ store[c][id].version > 0
BY DEF StoreTyped, Stored

\* The same after a step.
LEMMA StoredIdsNext ==
    ASSUME StoreTyped', NEW c \in Collections, NEW id
    PROVE  id \in Stored(store'[c]) <=> id \in Ids /\ store'[c][id].version > 0
BY DEF StoreTyped, Stored

\* ReferencesResolve, record by record.
LEMMA EachResolves ==
    ASSUME StoreTyped
    PROVE  ReferencesResolve <=>
             \A c \in Collections, id \in Ids :
                store[c][id].version > 0 => Resolves(c, store[c][id])
<1>1. \A c \in Collections : \A r : r \in Records(c) <=>
          \E id \in Ids : store[c][id].version > 0 /\ r = store[c][id]
    BY StoredIds DEF Records
<1>2. Collections = {"projects", "target_repos", "source_connections",
                     "tool_connections", "tool_policies", "sync_cursors"}
    BY DEF Collections
<1>3. ASSUME ReferencesResolve, NEW c \in Collections, NEW id \in Ids, store[c][id].version > 0
      PROVE  Resolves(c, store[c][id])
    BY <1>1, <1>3, Zenon DEF ReferencesResolve, Resolves
<1>4. ASSUME \A c \in Collections, id \in Ids :
                store[c][id].version > 0 => Resolves(c, store[c][id])
      PROVE  ReferencesResolve
    <2>1. ASSUME NEW c \in Collections, NEW r \in Records(c)
          PROVE  Resolves(c, r)
        BY <1>1, <1>4, <2>1
    <2> QED
        BY <1>2, <2>1 DEF ReferencesResolve, Resolves
<1> QED
    BY <1>3, <1>4

\* The same after a step.
LEMMA EachResolvesNext ==
    ASSUME StoreTyped'
    PROVE  ReferencesResolve' <=>
             \A c \in Collections, id \in Ids :
                store'[c][id].version > 0 => Resolves(c, store[c][id])'
<1>1. \A c \in Collections : \A r : r \in Records(c)' <=>
          \E id \in Ids : store'[c][id].version > 0 /\ r = store'[c][id]
    BY StoredIdsNext DEF Records
<1>2. Collections = {"projects", "target_repos", "source_connections",
                     "tool_connections", "tool_policies", "sync_cursors"}
    BY DEF Collections
<1>3. ASSUME ReferencesResolve', NEW c \in Collections, NEW id \in Ids, store'[c][id].version > 0
      PROVE  Resolves(c, store[c][id])'
    BY <1>1, <1>3, Zenon DEF ReferencesResolve, Resolves
<1>4. ASSUME \A c \in Collections, id \in Ids :
                store'[c][id].version > 0 => Resolves(c, store[c][id])'
      PROVE  ReferencesResolve'
    <2>1. ASSUME NEW c \in Collections, NEW r, r \in Records(c)'
          PROVE  Resolves(c, r)'
        BY <1>1, <1>4, <2>1 DEF Resolves
    <2> QED
        BY <1>2, <2>1 DEF ReferencesResolve, Resolves
<1> QED
    BY <1>3, <1>4

\* A write changes one record.
LEMMA Written ==
    ASSUME StoreTyped, NEW c \in Collections, NEW id \in Ids, NEW doc \in Documents,
           Write(c, id, doc)
    PROVE  /\ StoreTyped'
           /\ store'[c][id] = doc
           /\ \A d \in Collections, o \in Ids :
                 d # c \/ o # id => store'[d][o] = store[d][o]
<1>1. [store[c] EXCEPT ![id] = doc] \in [Ids -> Documents]
    BY DEF StoreTyped
<1>2. StoreTyped'
    BY <1>1 DEF StoreTyped, Write
<1>3. store'[c] = [store[c] EXCEPT ![id] = doc] /\ \A d \in Collections \ {c} : store'[d] = store[d]
    BY DEF StoreTyped, Write
<1>4. store[c] \in [Ids -> Documents]
    BY DEF StoreTyped
<1> QED
    BY <1>2, <1>3, <1>4
\* A record that fits goes under a free id or over a record of its identity, so
\* nothing that was there goes away.
LEMMA WriteStays ==
    ASSUME StoreTyped, NEW c \in Collections, NEW id \in Ids, NEW doc \in Documents,
           Write(c, id, doc), Fits(c, id, doc)
    PROVE  RecordsStay
<1>1. /\ store'[c][id] = doc
      /\ \A d \in Collections, o \in Ids : d # c \/ o # id => store'[d][o] = store[d][o]
    BY Written
<1>2. ASSUME NEW d \in Collections, NEW o \in Ids, store[d][o].version > 0
      PROVE  store'[d][o].version > 0 /\ store'[d][o].identity = store[d][o].identity
    <2>1. CASE d = c /\ o = id
        BY <1>1, <1>2, <2>1 DEF Fits
    <2>2. CASE d # c \/ o # id
        BY <1>1, <1>2, <2>2
    <2> QED
        BY <2>1, <2>2
<1> QED
    BY <1>2 DEF RecordsStay

\* What a record refers to stays there with the records.
LEMMA ResolvesStays ==
    ASSUME StoreTyped, StoreTyped', RecordsStay, NEW c, NEW doc, Resolves(c, doc)
    PROVE  Resolves(c, doc)'
<1>1. \A d \in Collections : \A x : x \in Stored(store[d]) => x \in Stored(store'[d])
    BY StoredIds, StoredIdsNext DEF RecordsStay
<1>2. {"projects", "target_repos", "source_connections"} \subseteq Collections
    BY DEF Collections
<1> QED
    BY <1>1, <1>2 DEF Resolves

\* Unique, with the ids it speaks of.
LEMMA UniqueIds ==
    ASSUME StoreTyped, NEW c \in Collections
    PROVE  Unique(c) <=>
             \A id, other \in Ids :
                /\ store[c][id].version > 0 /\ store[c][other].version > 0
                /\ store[c][id].identity = store[c][other].identity
                => id = other
BY StoredIds DEF Unique

\* The same after a step.
LEMMA UniqueIdsNext ==
    ASSUME StoreTyped', NEW c \in Collections
    PROVE  Unique(c)' <=>
             \A id, other \in Ids :
                /\ store'[c][id].version > 0 /\ store'[c][other].version > 0
                /\ store'[c][id].identity = store'[c][other].identity
                => id = other
BY StoredIdsNext DEF Unique

\* A record whose identity no other has keeps identities unique.
LEMMA WriteUnique ==
    ASSUME StoreTyped, NEW c \in Collections, NEW id \in Ids, NEW doc \in Documents,
           Write(c, id, doc), NEW d \in Collections, Unique(d),
           d = c => OnlyOne(c, id, doc.identity)
    PROVE  Unique(d)'
<1>1. /\ StoreTyped'
      /\ store'[c][id] = doc
      /\ \A e \in Collections, o \in Ids : e # c \/ o # id => store'[e][o] = store[e][o]
    BY Written
<1>2. ASSUME NEW a \in Ids, NEW o \in Ids, store'[d][a].version > 0, store'[d][o].version > 0,
             store'[d][a].identity = store'[d][o].identity, a # o
      PROVE  FALSE
    <2>1. CASE d # c \/ (a # id /\ o # id)
        <3>1. store'[d][a] = store[d][a] /\ store'[d][o] = store[d][o]
            BY <1>1, <2>1
        <3> QED
            BY <1>2, <3>1, UniqueIds
    <2>2. CASE d = c /\ a = id
        <3>1. store'[d][a] = doc /\ store'[d][o] = store[d][o]
            BY <1>1, <1>2, <2>2
        <3> QED
            BY <1>2, <2>2, <3>1 DEF OnlyOne
    <2>3. CASE d = c /\ o = id
        <3>1. store'[d][o] = doc /\ store'[d][a] = store[d][a]
            BY <1>1, <1>2, <2>3
        <3> QED
            BY <1>2, <2>3, <3>1 DEF OnlyOne
    <2> QED
        BY <2>1, <2>2, <2>3
<1> QED
    BY <1>1, <1>2, UniqueIdsNext

(***************************************************************************)
(* The write the bootstrap makes keeps everything the store promises.      *)
(***************************************************************************)
LEMMA WriteKept ==
    ASSUME StoreInv, NEW c \in Collections, NEW id \in Ids, NEW doc \in Documents,
           Write(c, id, doc), Fits(c, id, doc),
           c \in Indexed => OnlyOne(c, id, doc.identity)
    PROVE  StoreInv' /\ RecordsStay
<1>1. StoreTyped
    BY DEF StoreInv
<1>2. /\ StoreTyped'
      /\ store'[c][id] = doc
      /\ \A d \in Collections, o \in Ids : d # c \/ o # id => store'[d][o] = store[d][o]
    BY <1>1, Written
<1>3. RecordsStay
    BY <1>1, WriteStays
<1>4. StoredAsAsked'
    <2>1. ASSUME NEW d \in Collections, NEW o \in Ids
          PROVE  IF store'[d][o].version = 0 THEN store'[d][o] = NoRecord
                 ELSE /\ store'[d][o].identity # NoKey
                      /\ store'[d][o].key =
                            IF d \in Indexed THEN store'[d][o].identity ELSE NoKey
        <3>1. CASE d = c /\ o = id
            <4>1. doc.version # 0
                BY DEF Fits, Documents
            <4> QED
                BY <1>2, <3>1, <4>1 DEF Fits
        <3>2. CASE d # c \/ o # id
            <4>1. store'[d][o] = store[d][o]
                BY <1>2, <3>2
            <4> QED
                BY <4>1 DEF StoreInv, StoredAsAsked
        <3> QED
            BY <3>1, <3>2
    <2> QED
        BY <2>1 DEF StoredAsAsked
<1>5. IndexesHold'
    <2>1. Indexed \subseteq Collections
        BY DEF Indexed, TargetRepoIndex, ToolPolicyIndex, SyncCursorIndex, Collections
    <2>2. ASSUME NEW d \in Indexed PROVE Unique(d)'
        BY <1>1, <2>1, WriteUnique DEF StoreInv, IndexesHold
    <2> QED
        BY <2>2 DEF IndexesHold
<1>6. ReferencesResolve'
    <2>1. ASSUME NEW d \in Collections, NEW o \in Ids, store'[d][o].version > 0
          PROVE  Resolves(d, store[d][o])'
        <3>1. CASE d = c /\ o = id
            <4>1. Resolves(c, doc)
                BY DEF Fits
            <4>2. Resolves(c, doc)'
                BY <1>1, <1>2, <1>3, <4>1, ResolvesStays
            <4> QED
                BY <1>2, <3>1, <4>2 DEF Resolves
        <3>2. CASE d # c \/ o # id
            <4>1. store'[d][o] = store[d][o]
                BY <1>2, <3>2
            <4>2. Resolves(d, store[d][o])
                BY <1>1, <2>1, <4>1, EachResolves DEF StoreInv
            <4>3. \A e \in Collections : \A x : x \in Stored(store[e]) => x \in Stored(store'[e])
                BY <1>1, <1>2, <1>3, StoredIds, StoredIdsNext DEF RecordsStay
            <4>4. {"projects", "target_repos", "source_connections"} \subseteq Collections
                BY DEF Collections
            <4> QED
                BY <4>1, <4>2, <4>3, <4>4 DEF Resolves
        <3> QED
            BY <3>1, <3>2
    <2> QED
        BY <1>2, <2>1, EachResolvesNext
<1> QED
    BY <1>2, <1>3, <1>4, <1>5, <1>6 DEF StoreInv
-------------------------------------------------------------------------------
\* The fields of a typed job.
LEMMA JobTyped ==
    ASSUME TypeOK, NEW b \in Bootstraps
    PROVE  /\ pc[b] \in Collections \union {"idle"}
           /\ job[b] \in Jobs
           /\ job[b].project \in Ids \union {0} /\ job[b].target \in Ids \union {0}
           /\ job[b].source \in Ids \union {0} /\ job[b].found \in Ids \union {0}
           /\ job[b].action \in 1..ActionCount /\ job[b].version \in Nat
           /\ job[b].looked \in BOOLEAN
<1>1. job[b] \in Jobs /\ pc[b] \in Collections \union {"idle"}
    BY DEF TypeOK
<1> QED
    BY <1>1 DEF Jobs

\* Past the upserts into a collection the bootstrap holds their record.
LEMMA Held ==
    ASSUME TypeOK, NEW b \in Bootstraps, Progress(b), pc[b] # "idle"
    PROVE  /\ job[b].name \in ProjectNames /\ job[b].repo \in Repos
           /\ pc[b] # "projects" => job[b].project \in Stored(store["projects"])
           /\ pc[b] \in Later("target_repos") => job[b].target \in Stored(store["target_repos"])
           /\ pc[b] = "sync_cursors" =>
                 job[b].source \in Stored(store["source_connections"])
<1>1. pc[b] \in Collections
    BY JobTyped
<1>2. pc[b] # "projects" => Past(b, "projects")
    BY <1>1 DEF Past, Later
<1>3. pc[b] \in Later("target_repos") => Past(b, "target_repos")
    BY DEF Past
<1>4. pc[b] = "sync_cursors" => Past(b, "source_connections")
    BY DEF Past, Later
<1> QED
    BY <1>2, <1>3, <1>4 DEF Progress, Holding

(***************************************************************************)
(* The record a bootstrap writes has an identity, and what it refers to is *)
(* there.                                                                  *)
(***************************************************************************)
LEMMA CandidateFits ==
    ASSUME TypeOK, NEW b \in Bootstraps, Progress(b), pc[b] # "idle"
    PROVE  /\ pc[b] \in Collections
           /\ Identity(b) \in Identities /\ Identity(b) # NoKey
           /\ Candidate(b) \in Documents
           /\ Candidate(b).version = job[b].version
           /\ Candidate(b).identity = Identity(b)
           /\ Candidate(b).key = IF pc[b] \in Indexed THEN Identity(b) ELSE NoKey
           /\ Candidate(b).cursor = 0
           /\ Resolves(pc[b], Candidate(b))
<1>1. pc[b] \in Collections
    BY JobTyped
<1>2. StoreTyped
    BY DEF TypeOK, StoreTyped
<1>3. /\ job[b].name \in ProjectNames /\ job[b].repo \in Repos
      /\ pc[b] # "projects" => job[b].project \in Ids /\ job[b].project \in Stored(store["projects"])
      /\ pc[b] \in Later("target_repos") =>
            job[b].target \in Ids /\ job[b].target \in Stored(store["target_repos"])
      /\ pc[b] = "sync_cursors" =>
            job[b].source \in Ids /\ job[b].source \in Stored(store["source_connections"])
    BY <1>2, Held, StoredIds DEF Collections
<1>4. job[b].action \in 1..ActionCount /\ job[b].version \in Nat /\ job[b].project \in Ids \union {0}
    BY JobTyped
<1>5. Identity(b) \in Identities /\ Identity(b) # NoKey
    <2>1. CASE pc[b] = "projects"
        BY <1>3, <2>1 DEF Identity, Identities, NoKey
    <2>2. CASE pc[b] = "target_repos"
        BY <1>3, <2>2 DEF Identity, Identities, NoKey
    <2>3. CASE pc[b] = "source_connections"
        BY <1>3, <2>3 DEF Identity, Identities, NoKey, Later, Collections
    <2>4. CASE pc[b] = "tool_connections"
        BY <1>3, <2>4 DEF Identity, Identities, NoKey
    <2>5. CASE pc[b] = "tool_policies"
        BY <1>3, <1>4, <2>5 DEF Identity, Identities, NoKey
    <2>6. CASE pc[b] = "sync_cursors"
        BY <1>3, <2>6 DEF Identity, Identities, NoKey
    <2> QED
        BY <1>1, <2>1, <2>2, <2>3, <2>4, <2>5, <2>6 DEF Collections
<1>6. /\ Candidate(b).version = job[b].version
      /\ Candidate(b).identity = Identity(b)
      /\ Candidate(b).key = IF pc[b] \in Indexed THEN Identity(b) ELSE NoKey
      /\ Candidate(b).cursor = 0
      /\ Candidate(b).owner = IF pc[b] = "target_repos" THEN job[b].project ELSE 0
    BY DEF Candidate
<1>7. Candidate(b) \in Documents
    BY <1>4, <1>5 DEF Candidate, Documents
<1>8. Resolves(pc[b], Candidate(b))
    <2>1. CASE pc[b] = "projects"
        BY <2>1 DEF Resolves
    <2>2. CASE pc[b] = "target_repos"
        BY <1>3, <1>6, <2>2 DEF Resolves
    <2>3. CASE pc[b] = "source_connections"
        <3>1. Identity(b) = <<job[b].project, job[b].target>>
            BY <2>3 DEF Identity
        <3>2. pc[b] \in Later("target_repos") /\ pc[b] # "projects"
            BY <2>3 DEF Later, Collections
        <3> QED
            BY <1>3, <1>6, <2>3, <3>1, <3>2 DEF Resolves
    <2>4. CASE pc[b] = "tool_connections"
        BY <1>3, <1>6, <2>4 DEF Resolves, Identity
    <2>5. CASE pc[b] = "tool_policies"
        BY <1>3, <1>6, <2>5 DEF Resolves, Identity
    <2>6. CASE pc[b] = "sync_cursors"
        BY <1>3, <1>6, <2>6 DEF Resolves, Identity
    <2> QED
        BY <1>1, <2>1, <2>2, <2>3, <2>4, <2>5, <2>6 DEF Collections
<1> QED
    BY <1>1, <1>5, <1>6, <1>7, <1>8

\* The records a bootstrap's filter matches.
LEMMA MatchIds ==
    ASSUME StoreTyped, NEW b \in Bootstraps, pc[b] \in Collections, NEW id
    PROVE  id \in Matches(b) <=> id \in Ids /\ Holding(pc[b], id, Identity(b))
BY StoredIds DEF Matches, Holding

\* A record that is there stays there.
LEMMA HoldingStays ==
    ASSUME StoreTyped, StoreTyped', RecordsStay, NEW c \in Collections, NEW id, NEW identity,
           Holding(c, id, identity)
    PROVE  Holding(c, id, identity)'
BY StoredIds, StoredIdsNext DEF Holding, RecordsStay

\* A record that is there, under whatever id, stays there.
LEMMA HasRecordStays ==
    ASSUME StoreTyped, StoreTyped', RecordsStay, NEW c \in Collections, NEW identity,
           HasRecord(c, identity)
    PROVE  HasRecord(c, identity)'
BY HoldingStays DEF HasRecord
\* What a bootstrap has made so far is there after a step of another.
LEMMA ProgressStays ==
    ASSUME TypeOK, StoreTyped', RecordsStay, NEW b \in Bootstraps, Progress(b),
           pc'[b] = pc[b], job'[b] = job[b], applied'[b] = applied[b]
    PROVE  Progress(b)'
<1>1. StoreTyped
    BY DEF TypeOK, StoreTyped
<1>2. \A c \in Collections : Past(b, c)' <=> Past(b, c)
    BY DEF Past
<1>3. \A c \in Collections : \A id, identity :
          Holding(c, id, identity) => Holding(c, id, identity)'
    BY <1>1, HoldingStays
<1>4. \A c \in Collections : \A identity : HasRecord(c, identity) => HasRecord(c, identity)'
    BY <1>1, HasRecordStays
<1>5. Collections = {"projects", "target_repos", "source_connections",
                     "tool_connections", "tool_policies", "sync_cursors"}
    BY DEF Collections
<1> QED
    BY <1>2, <1>3, <1>4, <1>5 DEF Progress

-------------------------------------------------------------------------------
\* What Proceed leaves behind, field by field.
LEMMA Proceeded ==
    ASSUME TypeOK, NEW b \in Bootstraps, NEW id \in Ids \union {0}, pc[b] # "idle",
           Proceed(b, id)
    PROVE  /\ pc' \in [Bootstraps -> Collections \union {"idle"}]
           /\ job' \in [Bootstraps -> Jobs]
           /\ applied' \in [Bootstraps -> BOOLEAN]
           /\ pc'[b] = Following(b)
           /\ applied'[b] <=> pc[b] = "sync_cursors"
           /\ job'[b].name = job[b].name /\ job'[b].repo = job[b].repo
           /\ job'[b].project = IF pc[b] = "projects" THEN id ELSE job[b].project
           /\ job'[b].target = IF pc[b] = "target_repos" THEN id ELSE job[b].target
           /\ job'[b].source = IF pc[b] = "source_connections" THEN id ELSE job[b].source
           /\ job'[b].action = IF MorePolicies(b) THEN job[b].action + 1 ELSE job[b].action
           /\ ~ job'[b].looked /\ job'[b].found = 0 /\ job'[b].version = 0
           /\ \A o \in Bootstraps \ {b} :
                 pc'[o] = pc[o] /\ job'[o] = job[o] /\ applied'[o] = applied[o]
<1> DEFINE action == IF MorePolicies(b) THEN job[b].action + 1 ELSE job[b].action
           project == IF pc[b] = "projects" THEN id ELSE job[b].project
           target == IF pc[b] = "target_repos" THEN id ELSE job[b].target
           source == IF pc[b] = "source_connections" THEN id ELSE job[b].source
           next == [job[b] EXCEPT
                      !.project = project,
                      !.target  = target,
                      !.source  = source,
                      !.action  = action,
                      !.looked  = FALSE,
                      !.found   = 0,
                      !.version = 0]
<1>1. job[b] \in Jobs /\ job[b].action \in 1..ActionCount
    BY JobTyped
<1>2. action \in 1..ActionCount
    BY <1>1, BootstrapAssumption DEF MorePolicies
<1>3. /\ job'[b] = next
      /\ \A o \in Bootstraps \ {b} : job'[o] = job[o]
      /\ job' = [o \in Bootstraps |-> job'[o]]
    <2>1. job \in [Bootstraps -> Jobs]
        BY DEF TypeOK
    <2>2. job'[b] = next
        BY <1>1, <2>1 DEF Proceed, Jobs
    <2>3. \A o \in Bootstraps \ {b} : job'[o] = job[o]
        BY <2>1 DEF Proceed
    <2>4. job' = [o \in Bootstraps |-> job'[o]]
        BY <2>1 DEF Proceed
    <2> QED
        BY <2>2, <2>3, <2>4
<1>4. next \in Jobs
    <2>1. project \in Ids \union {0} /\ target \in Ids \union {0} /\ source \in Ids \union {0}
        BY JobTyped
    <2> HIDE DEF action, project, target, source
    <2> QED
        BY <1>1, <1>2, <2>1 DEF Jobs
<1>5. /\ next.name = job[b].name /\ next.repo = job[b].repo
      /\ next.project = project /\ next.target = target /\ next.source = source
      /\ next.action = action
      /\ ~ next.looked /\ next.found = 0 /\ next.version = 0
    BY <1>1 DEF Jobs
<1>6. Following(b) \in Collections \union {"idle"}
    BY JobTyped DEF Following, Collections
<1> HIDE DEF next
<1>7. job' \in [Bootstraps -> Jobs]
    BY <1>3, <1>4 DEF TypeOK
<1>8. /\ pc' \in [Bootstraps -> Collections \union {"idle"}] /\ pc'[b] = Following(b)
      /\ \A o \in Bootstraps \ {b} : pc'[o] = pc[o]
    BY <1>6 DEF Proceed, TypeOK
<1>9. /\ applied' \in [Bootstraps -> BOOLEAN]
      /\ applied'[b] <=> pc[b] = "sync_cursors"
      /\ \A o \in Bootstraps \ {b} : applied'[o] = applied[o]
    <2>1. applied' = [applied EXCEPT ![b] = (pc[b] = "sync_cursors")]
        BY DEF Proceed
    <2>2. (pc[b] = "sync_cursors") \in BOOLEAN
        OBVIOUS
    <2> QED
        BY <2>1, <2>2 DEF TypeOK
<1> QED
    BY <1>3, <1>5, <1>7, <1>8, <1>9
(***************************************************************************)
(* A bootstrap whose upsert returned has what it upserted, besides what it *)
(* had made before.                                                        *)
(***************************************************************************)
LEMMA ProgressMade ==
    ASSUME TypeOK, StoreTyped', RecordsStay, NEW b \in Bootstraps, NEW id \in Ids \union {0},
           pc[b] # "idle", Progress(b), Proceed(b, id),
           NEW c, NEW identity, c = pc[b], identity = Identity(b), HasRecord(c, identity)',
           c # "sync_cursors" => Holding(c, id, identity)'
    PROVE  Progress(b)'
<1>1. /\ pc'[b] = Following(b)
      /\ applied'[b] <=> pc[b] = "sync_cursors"
      /\ job'[b].name = job[b].name /\ job'[b].repo = job[b].repo
      /\ job'[b].project = IF pc[b] = "projects" THEN id ELSE job[b].project
      /\ job'[b].target = IF pc[b] = "target_repos" THEN id ELSE job[b].target
      /\ job'[b].source = IF pc[b] = "source_connections" THEN id ELSE job[b].source
      /\ job'[b].action = IF MorePolicies(b) THEN job[b].action + 1 ELSE job[b].action
    BY Proceeded
<1>2. StoreTyped
    BY DEF TypeOK, StoreTyped
<1>3. \A d \in Collections : \A x, i : Holding(d, x, i) => Holding(d, x, i)'
    BY <1>2, HoldingStays
<1>4. \A d \in Collections : \A i : HasRecord(d, i) => HasRecord(d, i)'
    BY <1>2, HasRecordStays
<1>5. Collections = {"projects", "target_repos", "source_connections",
                     "tool_connections", "tool_policies", "sync_cursors"}
    BY DEF Collections
<1>6. pc[b] \in Collections
    BY JobTyped
<1>7. job[b].action \in 1..ActionCount /\ ActionCount \in Nat
    BY JobTyped, BootstrapAssumption
<1>8. ~ applied[b] /\ job[b].name \in ProjectNames /\ job[b].repo \in Repos
    BY DEF Progress
<1>10. CASE pc[b] = "projects"
    <2>1. pc'[b] = "target_repos"
        BY <1>1, <1>10 DEF Following
    <2>2. identity = <<job[b].name>>
        BY <1>10 DEF Identity
    <2> QED
        BY <1>1, <1>3, <1>4, <1>5, <1>7, <1>8, <1>10, <2>1, <2>2
        DEF Progress, Past, Later, MorePolicies
<1>11. CASE pc[b] = "target_repos"
    <2>1. pc'[b] = "source_connections"
        BY <1>1, <1>11 DEF Following
    <2>2. identity = <<job[b].repo>>
        BY <1>11 DEF Identity
    <2> QED
        BY <1>1, <1>3, <1>4, <1>5, <1>7, <1>8, <1>11, <2>1, <2>2
        DEF Progress, Past, Later, MorePolicies
<1>12. CASE pc[b] = "source_connections"
    <2>1. pc'[b] = "tool_connections"
        BY <1>1, <1>12 DEF Following
    <2>2. identity = <<job[b].project, job[b].target>>
        BY <1>12 DEF Identity
    <2> QED
        BY <1>1, <1>3, <1>4, <1>5, <1>7, <1>8, <1>12, <2>1, <2>2
        DEF Progress, Past, Later, MorePolicies
<1>13. CASE pc[b] = "tool_connections"
    <2>1. pc'[b] = "tool_policies"
        BY <1>1, <1>13 DEF Following
    <2>2. identity = <<job[b].project>>
        BY <1>13 DEF Identity
    <2> QED
        BY <1>1, <1>3, <1>4, <1>5, <1>7, <1>8, <1>13, <2>1, <2>2
        DEF Progress, Past, Later, MorePolicies
<1>14. CASE pc[b] = "tool_policies"
    <2>1. pc'[b] = IF job[b].action < ActionCount THEN "tool_policies" ELSE "sync_cursors"
        BY <1>1, <1>14 DEF Following, MorePolicies
    <2>2. identity = <<job[b].project, job[b].action>>
        BY <1>14 DEF Identity
    <2> QED
        BY <1>1, <1>3, <1>4, <1>5, <1>7, <1>8, <1>14, <2>1, <2>2
        DEF Progress, Past, Later, MorePolicies
<1>15. CASE pc[b] = "sync_cursors"
    <2>1. pc'[b] = "idle"
        BY <1>1, <1>15 DEF Following
    <2>2. identity = <<job[b].source>>
        BY <1>15 DEF Identity
    <2> QED
        BY <1>1, <1>3, <1>4, <1>5, <1>7, <1>8, <1>15, <2>1, <2>2
        DEF Progress, Past, Later, MorePolicies
<1> QED
    BY <1>5, <1>6, <1>10, <1>11, <1>12, <1>13, <1>14, <1>15
-------------------------------------------------------------------------------
\* The bootstraps a step is not by.
OthersIdle(b) ==
    \A o \in Bootstraps \ {b} :
        pc'[o] = pc[o] /\ job'[o] = job[o] /\ applied'[o] = applied[o]

\* What another bootstrap found is still there: it does not run alone.
LEMMA OthersKnow ==
    ASSUME BootstrapInv, StoreTyped', RecordsStay, NEW b \in Bootstraps, pc[b] # "idle",
           OthersIdle(b), alone' = alone, NEW o \in Bootstraps \ {b}
    PROVE  KnowsMatch(o)'
<1>1. pc'[o] = pc[o] /\ job'[o] = job[o] /\ KnowsMatch(o)
    BY DEF OthersIdle, BootstrapInv
<1>2. CASE pc[o] = "idle"
    BY <1>1, <1>2 DEF KnowsMatch
<1>3. CASE pc[o] # "idle"
    <2>1. ~ alone'[o]
        BY <1>1, <1>3 DEF KnowsMatch
    <2>2. pc[o] \in Collections /\ StoreTyped
        BY <1>3, JobTyped DEF BootstrapInv, TypeOK, StoreTyped
    <2>3. Identity(o)' = Identity(o)
        BY <1>1 DEF Identity
    <2>4. Holding(pc[o], job[o].found, Identity(o)) => Holding(pc[o], job[o].found, Identity(o))'
        BY <1>1, <2>2, <2>3, StoredIds, StoredIdsNext DEF Holding, RecordsStay
    <2> QED
        BY <1>1, <1>3, <2>1, <2>4 DEF KnowsMatch
<1> QED
    BY <1>2, <1>3

(***************************************************************************)
(* What a step of a running bootstrap must show: for the store, its own    *)
(* variables, its own progress, and, when it runs alone, unique identities. *)
(***************************************************************************)
LEMMA StepKept ==
    ASSUME BootstrapInv, NEW b \in Bootstraps, pc[b] # "idle",
           StoreInv', RecordsStay, OthersIdle(b),
           pc' \in [Bootstraps -> Collections \union {"idle"}],
           job' \in [Bootstraps -> Jobs], applied' \in [Bootstraps -> BOOLEAN],
           alone' = alone, overlapped' = overlapped, starts' = starts, crashes' \in Nat,
           Progress(b)', KnowsMatch(b)',
           alone[b] => \A c \in Collections : Unique(c) => Unique(c)'
    PROVE  BootstrapInv'
<1>1. TypeOK'
    BY DEF BootstrapInv, TypeOK, StoreInv, StoreTyped
<1>2. ASSUME NEW o \in Bootstraps PROVE Progress(o)' /\ KnowsMatch(o)'
    <2>1. CASE o = b
        BY <2>1
    <2>2. CASE o # b
        <3>1. KnowsMatch(o)'
            BY <2>2, OthersKnow DEF StoreInv
        <3>2. Progress(o)'
            BY <2>2, ProgressStays DEF StoreInv, OthersIdle, BootstrapInv
        <3> QED
            BY <3>1, <3>2
    <2> QED
        BY <2>1, <2>2
<1>3. NeverOverlapped'
    <2> SUFFICES ASSUME ~ overlapped'
                 PROVE  /\ \A c \in Collections : Unique(c)'
                        /\ \A o \in Bootstraps : pc'[o] # "idle" => alone'[o]
        BY DEF NeverOverlapped
    <2>1. /\ \A c \in Collections : Unique(c)
          /\ \A o \in Bootstraps : pc[o] # "idle" => alone[o]
        BY DEF BootstrapInv, NeverOverlapped
    <2>2. alone[b]
        BY <2>1
    <2>3. ASSUME NEW o \in Bootstraps, pc'[o] # "idle" PROVE alone'[o]
        BY <2>1, <2>2, <2>3 DEF OthersIdle
    <2> QED
        BY <2>1, <2>2, <2>3
<1> QED
    BY <1>1, <1>2, <1>3 DEF BootstrapInv, StoreInv
\* A bootstrap that is refused or killed leaves the store as it is.
LEMMA RefusedKept ==
    ASSUME BootstrapInv, NEW b \in Bootstraps, pc[b] # "idle", Refused(b),
           alone' = alone, overlapped' = overlapped, starts' = starts, crashes' \in Nat
    PROVE  BootstrapInv'
<1>1. store' = store /\ applied' = applied
    BY DEF Refused
<1>2. StoreInv' /\ RecordsStay /\ \A c \in Collections : Unique(c) => Unique(c)'
    <2>1. StoreInv
        BY DEF BootstrapInv, TypeOK, StoreInv, StoreTyped
    <2> QED
        BY <1>1, <2>1
        DEF StoreInv, StoreTyped, StoredAsAsked, IndexesHold, Unique, ReferencesResolve, Records,
            RecordsStay
<1>3. NoJob \in Jobs
    BY BootstrapAssumption DEF NoJob, Jobs
<1>4. /\ pc' \in [Bootstraps -> Collections \union {"idle"}]
      /\ job' \in [Bootstraps -> Jobs]
      /\ applied' \in [Bootstraps -> BOOLEAN]
      /\ pc'[b] = "idle" /\ job'[b] = NoJob /\ OthersIdle(b)
    BY <1>3 DEF BootstrapInv, TypeOK, Refused, OthersIdle
<1>5. ~ applied[b]
    BY DEF BootstrapInv, Progress
<1>6. Progress(b)'
    <2>1. \A c \in Collections : ~ Past(b, c)'
        BY <1>1, <1>4, <1>5 DEF Past, Later, Collections
    <2> QED
        BY <1>1, <1>4, <1>5, <2>1 DEF Progress, Collections
<1>7. KnowsMatch(b)'
    BY <1>4 DEF KnowsMatch
<1> QED
    BY <1>2, <1>4, <1>6, <1>7, StepKept

(***************************************************************************)
(* The upsert of a bootstrap that writes a record that fits, whose identity *)
(* no other record of the collection has: by the unique index, or because  *)
(* the bootstrap runs alone and looked.                                    *)
(***************************************************************************)
LEMMA UpsertKept ==
    ASSUME BootstrapInv, NEW b \in Bootstraps, pc[b] # "idle",
           NEW id \in Ids, NEW doc \in Documents,
           Write(pc[b], id, doc), Fits(pc[b], id, doc), doc.identity = Identity(b),
           pc[b] \in Indexed => OnlyOne(pc[b], id, Identity(b)),
           alone[b] /\ Unique(pc[b]) => OnlyOne(pc[b], id, Identity(b)),
           Proceed(b, id), UNCHANGED <<alone, overlapped, starts, crashes>>
    PROVE  BootstrapInv'
<1> SUFFICES ASSUME NEW c, NEW identity, c = pc[b], identity = Identity(b)
             PROVE  BootstrapInv'
    OBVIOUS
<1>1. TypeOK /\ StoreTyped /\ StoreInv /\ Progress(b) /\ KnowsMatch(b) /\ c \in Collections
    BY JobTyped DEF BootstrapInv, TypeOK, StoreInv, StoreTyped
<1>2. StoreInv' /\ RecordsStay
    BY <1>1, WriteKept
<1>3. StoreTyped' /\ store'[c][id] = doc
    BY <1>1, Written
<1>4. doc.version > 0 /\ doc.identity = identity
    BY DEF Fits
<1>5. Holding(c, id, identity)'
    BY <1>1, <1>3, <1>4, StoredIdsNext DEF Holding
<1>6. HasRecord(c, identity)'
    BY <1>5 DEF HasRecord
<1>7. Progress(b)'
    BY <1>1, <1>2, <1>3, <1>5, <1>6, ProgressMade
<1>8. KnowsMatch(b)' /\ OthersIdle(b)
    <2>1. /\ ~ job'[b].looked /\ job'[b].found = 0 /\ job'[b].version = 0
          /\ OthersIdle(b)
        BY <1>1, Proceeded DEF OthersIdle
    <2>2. alone[b] => \A other \in Bootstraps \ {b} : pc[other] = "idle"
        BY <1>1 DEF KnowsMatch
    <2> QED
        BY <2>1, <2>2 DEF KnowsMatch, OthersIdle
<1>9. alone[b] => \A d \in Collections : Unique(d) => Unique(d)'
    BY <1>1, <1>4, WriteUnique
<1>10. /\ pc' \in [Bootstraps -> Collections \union {"idle"}]
       /\ job' \in [Bootstraps -> Jobs] /\ applied' \in [Bootstraps -> BOOLEAN]
       /\ crashes' \in Nat
    BY <1>1, Proceeded DEF TypeOK
<1> QED
    BY <1>2, <1>7, <1>8, <1>9, <1>10, StepKept
-------------------------------------------------------------------------------
\* Among free ids there is a least one, which is the new id of an insert.
LEMMA LeastExists ==
    ASSUME NEW S \in SUBSET Nat, S # {}
    PROVE  (CHOOSE new \in S : \A other \in S : new <= other) \in S
<1> DEFINE R == OpToRel(<, Nat)
<1>1. IsWellFoundedOn(R, Nat)
    BY NatLessThanWellFounded
<1>2. \A x, y \in Nat : x < y => <<x, y>> \in R
    BY DEF OpToRel
<1> HIDE DEF R
<1>3. \E x \in S : \A y \in S : ~ (<<y, x>> \in R)
    BY <1>1, WFMin, Zenon
<1>4. PICK least \in S : \A y \in S : ~ (<<y, least>> \in R)
    BY <1>3
<1>5. \A y \in S : least <= y
    <2>1. \A y \in S : y \in Nat /\ least \in Nat /\ ~ (y < least)
        BY <1>2, <1>4
    <2> QED
        BY <2>1
<1>6. \E new \in S : \A other \in S : new <= other
    BY <1>4, <1>5
<1> QED
    BY <1>6

(***************************************************************************)
(* What the insert of a record that was not found does.  Alone, it is not  *)
(* refused: what holds the key of a unique index would have been found.    *)
(***************************************************************************)
LEMMA InsertWrites ==
    ASSUME BootstrapInv, NEW b \in Bootstraps, InsertRecord(b)
    PROVE  \/ ~ alone[b] /\ Refused(b)
           \/ \E id \in Ids, doc \in Documents :
                 /\ Write(pc[b], id, doc) /\ Fits(pc[b], id, doc) /\ Proceed(b, id)
                 /\ doc.identity = Identity(b) /\ doc.cursor = 0
                 /\ store[pc[b]][id].version = 0
                 /\ pc[b] \in Indexed => OnlyOne(pc[b], id, Identity(b))
                 /\ alone[b] => OnlyOne(pc[b], id, Identity(b))
<1> DEFINE c == pc[b]
           bucket == store[pc[b]]
           free == Ids \ Stored(bucket)
           id == CHOOSE new \in free : \A other \in free : new <= other
           doc == [Candidate(b) EXCEPT !.version = 1]
<1>1. TypeOK /\ StoreTyped /\ Progress(b) /\ KnowsMatch(b) /\ pc[b] # "idle" /\ c \in Collections
    BY JobTyped DEF BootstrapInv, TypeOK, StoreTyped, InsertRecord
<1>2. free # {} /\ job[b].looked /\ job[b].found = 0
    BY DEF InsertRecord
<1>3. id \in free
    BY <1>2, LeastExists, BootstrapAssumption
<1>4. id \in Ids /\ bucket[id].version = 0
    <2>1. id \in Ids /\ ~ (bucket[id].version > 0)
        BY <1>1, <1>3, StoredIds
    <2>2. bucket[id] \in Documents
        BY <1>1, <2>1 DEF StoreTyped
    <2> QED
        BY <2>1, <2>2 DEF Documents
<1>5. alone[b] => OnlyOne(c, id, Identity(b))
    <2>1. alone[b] => Matches(b) = {}
        BY <1>1, <1>2 DEF KnowsMatch
    <2> QED
        BY <1>1, <2>1, MatchIds, StoredIds DEF OnlyOne, Holding
<1>6. /\ Candidate(b) \in Documents /\ Candidate(b).identity = Identity(b)
      /\ Candidate(b).key = IF c \in Indexed THEN Identity(b) ELSE NoKey
      /\ Candidate(b).cursor = 0 /\ Identity(b) # NoKey /\ Resolves(c, Candidate(b))
    BY <1>1, CandidateFits
<1>7. /\ doc \in Documents /\ doc.identity = Identity(b) /\ doc.version = 1 /\ doc.cursor = 0
      /\ doc.key = Candidate(b).key /\ doc.owner = Candidate(b).owner
    BY <1>6 DEF Documents
<1>8. c \in Indexed =>
        \A other \in Ids : bucket[other].version > 0 => bucket[other].key = bucket[other].identity
    BY <1>1 DEF BootstrapInv, StoredAsAsked
<1>9. CASE InsertOutcome(bucket, id, Candidate(b)) = "stored"
    <2>1. store' = [store EXCEPT ![c] = Inserted(bucket, id, Candidate(b))] /\ Proceed(b, id)
        BY <1>9 DEF InsertRecord
    <2>2. Write(c, id, doc)
        BY <2>1 DEF Write, Inserted
    <2>3. Resolves(c, doc)
        BY <1>6, <1>7 DEF Resolves
    <2>4. Fits(c, id, doc)
        BY <1>4, <1>6, <1>7, <2>3 DEF Fits
    <2>5. c \in Indexed => OnlyOne(c, id, Identity(b))
        <3> SUFFICES ASSUME c \in Indexed PROVE OnlyOne(c, id, Identity(b))
            OBVIOUS
        <3>1. ~ Collides(bucket, id, Candidate(b))
            BY <1>9 DEF InsertOutcome
        <3>2. \A other \in Ids \ {id} : bucket[other].version > 0 => bucket[other].key # Identity(b)
            BY <1>1, <1>6, <3>1, StoredIds DEF Collides
        <3> QED
            BY <1>8, <3>2 DEF OnlyOne
    <2> HIDE DEF id, doc
    <2> QED
        BY <1>4, <1>5, <1>7, <2>1, <2>2, <2>4, <2>5
<1>10. CASE InsertOutcome(bucket, id, Candidate(b)) # "stored"
    <2>1. Refused(b)
        BY <1>10 DEF InsertRecord
    <2>2. Collides(bucket, id, Candidate(b))
        BY <1>3, <1>10 DEF InsertOutcome
    <2>3. PICK other \in Ids \ {id} :
              bucket[other].version > 0 /\ bucket[other].key = Candidate(b).key
        BY <1>1, <2>2, StoredIds DEF Collides
    <2>4. c \in Indexed /\ Candidate(b).key = Identity(b)
        BY <1>6, <2>2 DEF Collides
    <2>5. bucket[other].identity = Identity(b)
        BY <1>8, <2>3, <2>4
    <2>6. ~ alone[b]
        BY <1>5, <2>3, <2>5 DEF OnlyOne
    <2> QED
        BY <2>1, <2>6
<1> QED
    BY <1>9, <1>10
(***************************************************************************)
(* What the save of a record that was found does.  Alone, it is not        *)
(* refused: the version read is the stored one, and no other record has    *)
(* the identity in a unique index.                                         *)
(***************************************************************************)
LEMMA SaveWrites ==
    ASSUME BootstrapInv, NEW b \in Bootstraps, SaveRecord(b)
    PROVE  \/ ~ alone[b] /\ Refused(b)
           \/ \E id \in Ids, doc \in Documents :
                 /\ Write(pc[b], id, doc) /\ Fits(pc[b], id, doc) /\ Proceed(b, id)
                 /\ doc.identity = Identity(b) /\ pc[b] # "sync_cursors"
                 /\ Holding(pc[b], id, Identity(b))
                 /\ pc[b] \in Indexed => OnlyOne(pc[b], id, Identity(b))
                 /\ Unique(pc[b]) => OnlyOne(pc[b], id, Identity(b))
<1> DEFINE c == pc[b]
           bucket == store[pc[b]]
           id == job[b].found
           doc == [Candidate(b) EXCEPT !.version = @ + 1]
<1>1. TypeOK /\ StoreTyped /\ Progress(b) /\ KnowsMatch(b) /\ pc[b] # "idle" /\ c \in Collections
    BY JobTyped DEF BootstrapInv, TypeOK, StoreTyped, SaveRecord
<1>2. /\ pc[b] # "sync_cursors" /\ Holding(c, id, Identity(b)) /\ job[b].version > 0
      /\ alone[b] => job[b].version = bucket[id].version
    BY <1>1 DEF KnowsMatch, SaveRecord
<1>3. id \in Ids /\ id \in Stored(bucket) /\ bucket[id].identity = Identity(b)
    BY <1>1, <1>2, StoredIds DEF Holding
<1>4. /\ Candidate(b) \in Documents /\ Candidate(b).identity = Identity(b)
      /\ Candidate(b).key = IF c \in Indexed THEN Identity(b) ELSE NoKey
      /\ Candidate(b).version = job[b].version
      /\ Identity(b) # NoKey /\ Resolves(c, Candidate(b))
    BY <1>1, CandidateFits
<1>5. /\ doc \in Documents /\ doc.identity = Identity(b) /\ doc.version > 0
      /\ doc.key = Candidate(b).key /\ doc.owner = Candidate(b).owner
    BY <1>4 DEF Documents
<1>6. /\ Unique(c) => OnlyOne(c, id, Identity(b))
      /\ c \in Indexed => OnlyOne(c, id, Identity(b))
    <2>1. bucket[id].version > 0
        BY <1>1, <1>3, StoredIds
    <2>2. Unique(c) => OnlyOne(c, id, Identity(b))
        BY <1>1, <1>3, <2>1, UniqueIds DEF OnlyOne
    <2>3. c \in Indexed => Unique(c)
        BY DEF BootstrapInv, IndexesHold
    <2> QED
        BY <2>2, <2>3
<1>7. job[b].version # 0
    BY <1>2
<1>8. CASE SaveOutcome(bucket, id, Candidate(b)) = "stored"
    <2>1. store' = [store EXCEPT ![c] = Saved(bucket, id, Candidate(b))] /\ Proceed(b, id)
        BY <1>8 DEF SaveRecord
    <2>2. Write(c, id, doc)
        BY <2>1 DEF Write, Saved
    <2>3. Resolves(c, doc)
        BY <1>4, <1>5 DEF Resolves
    <2>4. Fits(c, id, doc)
        BY <1>3, <1>4, <1>5, <2>3 DEF Fits
    <2> HIDE DEF id, doc
    <2> QED
        BY <1>2, <1>3, <1>5, <1>6, <2>1, <2>2, <2>4
<1>9. CASE SaveOutcome(bucket, id, Candidate(b)) # "stored"
    <2>1. Refused(b)
        BY <1>9 DEF SaveRecord
    <2>2. ASSUME alone[b] PROVE FALSE
        <3>1. Collides(bucket, id, Candidate(b))
            BY <1>2, <1>3, <1>4, <1>7, <1>9, <2>2 DEF SaveOutcome
        <3>2. PICK other \in Ids \ {id} :
                  bucket[other].version > 0 /\ bucket[other].key = Candidate(b).key
            BY <1>1, <3>1, StoredIds DEF Collides
        <3>3. c \in Indexed /\ Candidate(b).key = Identity(b)
            BY <1>4, <3>1 DEF Collides
        <3>4. bucket[other].identity = Identity(b)
            BY <1>1, <3>2, <3>3 DEF BootstrapInv, StoredAsAsked
        <3> QED
            BY <1>6, <3>2, <3>3, <3>4 DEF OnlyOne
    <2> QED
        BY <2>1, <2>2
<1> QED
    BY <1>8, <1>9
-------------------------------------------------------------------------------
\* Inserts keep the invariant.
LEMMA InsertKept ==
    ASSUME BootstrapInv, NEW b \in Bootstraps, InsertRecord(b)
    PROVE  BootstrapInv'
<1>1. pc[b] # "idle" /\ UNCHANGED <<alone, overlapped, starts, crashes>> /\ crashes \in Nat
    BY DEF InsertRecord, BootstrapInv, TypeOK
<1>2. CASE Refused(b)
    BY <1>1, <1>2, RefusedKept
<1>3. CASE ~ Refused(b)
    BY <1>1, <1>3, InsertWrites, UpsertKept
<1> QED
    BY <1>2, <1>3

\* So do saves.
LEMMA SaveKept ==
    ASSUME BootstrapInv, NEW b \in Bootstraps, SaveRecord(b)
    PROVE  BootstrapInv'
<1>1. pc[b] # "idle" /\ UNCHANGED <<alone, overlapped, starts, crashes>> /\ crashes \in Nat
    BY DEF SaveRecord, BootstrapInv, TypeOK
<1>2. CASE Refused(b)
    BY <1>1, <1>2, RefusedKept
<1>3. CASE ~ Refused(b)
    BY <1>1, <1>3, SaveWrites, UpsertKept
<1> QED
    BY <1>2, <1>3

\* A step that leaves the store alone keeps what holds of it.
LEMMA SameStore ==
    ASSUME BootstrapInv, store' = store
    PROVE  StoreInv' /\ RecordsStay /\ \A c \in Collections : Unique(c) <=> Unique(c)'
<1>1. StoreInv
    BY DEF BootstrapInv, TypeOK, StoreInv, StoreTyped
<1> QED
    BY <1>1
    DEF StoreInv, StoreTyped, StoredAsAsked, IndexesHold, Unique, ReferencesResolve, Records,
        RecordsStay

\* A lookup that reads one of the records that match, or none if none does.
LEMMA ReadKept ==
    ASSUME BootstrapInv, NEW b \in Bootstraps, pc[b] # "idle", ReadMatch(b),
           pc[b] = "sync_cursors" => Matches(b) = {},
           UNCHANGED <<store, alone, overlapped, starts, crashes>>
    PROVE  BootstrapInv'
<1>1. TypeOK /\ StoreTyped /\ Progress(b) /\ KnowsMatch(b) /\ pc[b] \in Collections
    BY JobTyped DEF BootstrapInv, TypeOK, StoreTyped
<1>2. StoreInv' /\ RecordsStay /\ \A c \in Collections : Unique(c) => Unique(c)'
    BY SameStore
<1>3. PICK id \in IF Matches(b) = {} THEN {0} ELSE Matches(b) :
          job' = [job EXCEPT ![b].looked = TRUE,
                             ![b].found = id,
                             ![b].version = IF id = 0 THEN 0 ELSE store[pc[b]][id].version]
    BY DEF ReadMatch
<1>4. \A x : x \in Matches(b) <=>
          x \in Ids /\ store[pc[b]][x].version > 0 /\ store[pc[b]][x].identity = Identity(b)
    BY <1>1, MatchIds, StoredIds DEF Holding
<1>5. 0 \notin Ids
    BY BootstrapAssumption
<1>6. \/ Matches(b) = {} /\ id = 0
      \/ Matches(b) # {} /\ id \in Matches(b) /\ id # 0
    BY <1>3, <1>4, <1>5
<1> DEFINE version == IF id = 0 THEN 0 ELSE store[pc[b]][id].version
           next == [job[b] EXCEPT !.looked = TRUE, !.found = id, !.version = version]
<1>7. id \in Ids \union {0} /\ version \in Nat
    <2>1. CASE id = 0
        BY <2>1
    <2>2. CASE id # 0
        <3>1. id \in Ids
            BY <1>4, <1>6, <2>2
        <3>2. store[pc[b]][id] \in Documents
            BY <1>1, <3>1 DEF StoreTyped
        <3> QED
            BY <2>2, <3>1, <3>2 DEF Documents
    <2> QED
        BY <2>1, <2>2
<1>8. job[b] \in Jobs
    BY <1>1 DEF TypeOK
<1>9. next \in Jobs
    <2> HIDE DEF version
    <2> QED
        BY <1>7, <1>8 DEF Jobs
<1>10. /\ job' = [o \in Bootstraps |-> job'[o]]
       /\ job'[b] = next /\ \A o \in Bootstraps \ {b} : job'[o] = job[o]
    <2>1. job \in [Bootstraps -> Jobs]
        BY <1>1 DEF TypeOK
    <2>2. job' = [o \in Bootstraps |-> job'[o]] /\ \A o \in Bootstraps \ {b} : job'[o] = job[o]
        BY <1>3, <2>1
    <2>3. job'[b] = next
        BY <1>3, <1>8, <2>1 DEF Jobs
    <2> QED
        BY <2>2, <2>3
<1>11. /\ next.looked /\ next.found = id /\ next.version = version
       /\ next.name = job[b].name /\ next.repo = job[b].repo
       /\ next.project = job[b].project /\ next.target = job[b].target
       /\ next.source = job[b].source /\ next.action = job[b].action
    BY <1>8 DEF Jobs
<1> HIDE DEF next
<1>12. job' \in [Bootstraps -> Jobs]
    BY <1>1, <1>9, <1>10 DEF TypeOK
<1>13. pc' = pc /\ applied' = applied
    BY DEF ReadMatch
<1>14. Identity(b)' = Identity(b) /\ Matches(b)' = Matches(b)
    <2>1. Identity(b)' = Identity(b)
        BY <1>10, <1>11, <1>13 DEF Identity
    <2> QED
        BY <1>13, <2>1 DEF Matches
<1>15. Progress(b)'
    <2>1. \A c : Past(b, c)' <=> Past(b, c)
        BY <1>13 DEF Past
    <2>2. \A c, x, i : Holding(c, x, i)' <=> Holding(c, x, i)
        BY DEF Holding
    <2>3. \A c, i : HasRecord(c, i)' <=> HasRecord(c, i)
        BY <2>2 DEF HasRecord
    <2> QED
        BY <1>1, <1>10, <1>11, <1>13, <2>1, <2>2, <2>3 DEF Progress
<1>16. KnowsMatch(b)'
    BY <1>1, <1>4, <1>6, <1>10, <1>11, <1>13, <1>14, StoredIds DEF KnowsMatch, Holding
<1> QED
    BY <1>1, <1>2, <1>10, <1>12, <1>13, <1>15, <1>16, StepKept DEF TypeOK, OthersIdle
\* Lookups keep the invariant; the one that finds a cursor ends the bootstrap.
LEMMA LookUpKept ==
    ASSUME BootstrapInv, NEW b \in Bootstraps, LookUp(b)
    PROVE  BootstrapInv'
<1>1. /\ pc[b] # "idle" /\ UNCHANGED <<store, alone, overlapped, starts, crashes>>
      /\ crashes \in Nat
    BY DEF LookUp, BootstrapInv, TypeOK
<1>2. TypeOK /\ StoreTyped /\ Progress(b) /\ KnowsMatch(b) /\ pc[b] \in Collections
    BY <1>1, JobTyped DEF BootstrapInv, TypeOK, StoreTyped
<1>3. CASE pc[b] = "sync_cursors" /\ Matches(b) # {}
    <2>1. Proceed(b, 0)
        BY <1>3 DEF LookUp
    <2>2. StoreInv' /\ RecordsStay /\ \A c \in Collections : Unique(c) => Unique(c)'
        BY <1>1, SameStore
    <2> SUFFICES ASSUME NEW c, NEW identity, c = pc[b], identity = Identity(b)
                 PROVE  BootstrapInv'
        OBVIOUS
    <2>3. PICK id \in Matches(b) : TRUE
        BY <1>3
    <2>4. id \in Ids /\ Holding(c, id, identity)
        BY <1>2, <2>3, MatchIds
    <2>5. HasRecord(c, identity)
        BY <2>4 DEF HasRecord
    <2>6. HasRecord(c, identity)'
        BY <1>2, <2>2, <2>5, HasRecordStays DEF StoreInv
    <2>7. Progress(b)'
        BY <1>1, <1>2, <1>3, <2>1, <2>2, <2>6, ProgressMade DEF StoreInv
    <2>8. /\ pc' \in [Bootstraps -> Collections \union {"idle"}]
          /\ job' \in [Bootstraps -> Jobs] /\ applied' \in [Bootstraps -> BOOLEAN]
          /\ pc'[b] = Following(b) /\ OthersIdle(b)
        BY <1>1, <1>2, <2>1, Proceeded DEF OthersIdle
    <2>9. pc'[b] = "idle"
        BY <1>3, <2>8 DEF Following
    <2>10. KnowsMatch(b)'
        BY <2>9 DEF KnowsMatch
    <2> QED
        BY <1>1, <2>2, <2>7, <2>8, <2>10, StepKept
<1>4. CASE ~ (pc[b] = "sync_cursors" /\ Matches(b) # {})
    BY <1>1, <1>4, ReadKept DEF LookUp
<1> QED
    BY <1>3, <1>4

\* A bootstrap that starts is alone when none is running.
LEMMA StartKept ==
    ASSUME BootstrapInv, NEW b \in Bootstraps, Start(b)
    PROVE  BootstrapInv'
<1>1. /\ pc[b] = "idle" /\ store' = store /\ crashes' = crashes /\ starts' = starts + 1
      /\ overlapped' = (overlapped \/ Running # {})
    BY DEF Start
<1>2. StoreInv' /\ RecordsStay /\ \A c \in Collections : Unique(c) <=> Unique(c)'
    BY <1>1, SameStore
<1>3. PICK name \in ProjectNames, repo \in Repos :
          job' = [job EXCEPT ![b] = [NoJob EXCEPT !.name = name, !.repo = repo]]
    BY DEF Start
<1>4. [NoJob EXCEPT !.name = name, !.repo = repo] \in Jobs
    <2>1. NoJob \in Jobs
        BY BootstrapAssumption DEF NoJob, Jobs
    <2> QED
        BY <2>1 DEF Jobs
<1>5. /\ job' \in [Bootstraps -> Jobs]
      /\ job'[b] = [NoJob EXCEPT !.name = name, !.repo = repo]
      /\ \A o \in Bootstraps \ {b} : job'[o] = job[o]
    BY <1>3, <1>4 DEF BootstrapInv, TypeOK
<1>6. /\ job'[b].name = name /\ job'[b].repo = repo /\ job'[b].action = 1
      /\ ~ job'[b].looked /\ job'[b].found = 0 /\ job'[b].version = 0
    BY <1>5 DEF NoJob
<1>7. /\ pc' \in [Bootstraps -> Collections \union {"idle"}]
      /\ applied' \in [Bootstraps -> BOOLEAN]
      /\ pc'[b] = "projects" /\ ~ applied'[b]
      /\ \A o \in Bootstraps \ {b} : pc'[o] = pc[o] /\ applied'[o] = applied[o]
    BY DEF BootstrapInv, TypeOK, Start, Collections
<1>8. /\ alone' \in [Bootstraps -> BOOLEAN]
      /\ alone'[b] <=> Running = {}
      /\ \A o \in Bootstraps : pc[o] # "idle" => ~ alone'[o]
      /\ alone'[b] => \A o \in Bootstraps : pc[o] = "idle"
    BY DEF Start, Running
<1>9. TypeOK'
    BY <1>1, <1>2, <1>5, <1>7, <1>8 DEF BootstrapInv, TypeOK, StoreInv, StoreTyped
<1>10. ASSUME NEW o \in Bootstraps PROVE Progress(o)' /\ KnowsMatch(o)'
    <2>1. CASE o = b
        <3>1. \A c \in Collections : ~ Past(b, c)'
            BY <1>7 DEF Past, Later, Collections
        <3>2. Progress(b)'
            BY <1>6, <1>7, <3>1 DEF Progress, Collections
        <3>3. KnowsMatch(b)'
            BY <1>6, <1>7, <1>8 DEF KnowsMatch
        <3> QED
            BY <2>1, <3>2, <3>3
    <2>2. CASE o # b
        <3>1. /\ pc'[o] = pc[o] /\ job'[o] = job[o] /\ applied'[o] = applied[o]
              /\ TypeOK /\ Progress(o) /\ KnowsMatch(o)
            BY <1>5, <1>7, <2>2 DEF BootstrapInv
        <3>2. Progress(o)'
            BY <1>2, <3>1, ProgressStays DEF StoreInv
        <3>3. pc'[o] # "idle" => ~ alone'[o]
            BY <1>8, <3>1
        <3>4. Identity(o)' = Identity(o)
            BY <3>1 DEF Identity
        <3>5. KnowsMatch(o)'
            BY <1>1, <3>1, <3>3, <3>4 DEF KnowsMatch, Holding
        <3> QED
            BY <3>2, <3>5
    <2> QED
        BY <2>1, <2>2
<1>11. NeverOverlapped'
    <2> SUFFICES ASSUME ~ overlapped'
                 PROVE  /\ \A c \in Collections : Unique(c)'
                        /\ \A o \in Bootstraps : pc'[o] # "idle" => alone'[o]
        BY DEF NeverOverlapped
    <2>1. ~ overlapped /\ Running = {}
        BY <1>1
    <2>2. \A c \in Collections : Unique(c)'
        BY <1>2, <2>1 DEF BootstrapInv, NeverOverlapped
    <2>3. \A o \in Bootstraps : pc'[o] # "idle" => o = b
        BY <1>7, <2>1 DEF Running
    <2> QED
        BY <1>8, <2>1, <2>2, <2>3
<1> QED
    BY <1>2, <1>9, <1>10, <1>11 DEF BootstrapInv, StoreInv
(***************************************************************************)
(* A source sync moves a cursor.  It is no bootstrap's step, and none that *)
(* runs alone holds the version of a cursor: a cursor that is found ends   *)
(* the bootstrap.                                                          *)
(***************************************************************************)
LEMMA AdvanceWrites ==
    ASSUME StoreInv, AdvanceCursor
    PROVE  \E id \in Ids, doc \in Documents :
              /\ Write("sync_cursors", id, doc) /\ Fits("sync_cursors", id, doc)
              /\ store["sync_cursors"][id].version > 0
              /\ doc.identity = store["sync_cursors"][id].identity
              /\ doc.cursor = store["sync_cursors"][id].cursor + 1
<1> DEFINE c == "sync_cursors"
<1>1. StoreTyped /\ c \in Collections /\ c \in Indexed
    BY DEF StoreInv, Collections, Indexed, SyncCursorIndex
<1>2. PICK id \in Stored(store[c]) :
          store' = [store EXCEPT ![c][id].cursor = @ + 1, ![c][id].version = @ + 1]
    BY DEF AdvanceCursor
<1> DEFINE old == store[c][id]
           doc == [old EXCEPT !.cursor = @ + 1, !.version = @ + 1]
<1>3. id \in Ids /\ old.version > 0 /\ old \in Documents
    BY <1>1, <1>2, StoredIds DEF StoreTyped
<1>4. /\ doc \in Documents /\ doc.cursor = old.cursor + 1 /\ doc.version = old.version + 1
      /\ doc.version > 0
      /\ doc.identity = old.identity /\ doc.key = old.key /\ doc.owner = old.owner
    <2>1. old.version \in Nat /\ old.cursor \in Nat
        BY <1>3 DEF Documents
    <2>2. old.version + 1 \in Nat /\ old.cursor + 1 \in Nat /\ old.version + 1 > 0
        BY <2>1
    <2>3. doc = [old EXCEPT !.cursor = old.cursor + 1, !.version = old.version + 1]
        OBVIOUS
    <2> HIDE DEF old, doc
    <2> QED
        BY <1>3, <2>2, <2>3 DEF Documents
<1>5. Write(c, id, doc)
    BY <1>1, <1>2, <1>3 DEF Write, StoreTyped, Documents
<1>6. Resolves(c, old)
    BY <1>1, <1>3, EachResolves DEF StoreInv
<1>7. Resolves(c, doc)
    BY <1>4, <1>6 DEF Resolves
<1>8. old.identity # NoKey /\ old.key = old.identity
    BY <1>1, <1>3 DEF StoreInv, StoredAsAsked
<1>9. Fits(c, id, doc)
    BY <1>1, <1>4, <1>7, <1>8 DEF Fits
<1> HIDE DEF doc
<1> QED
    BY <1>3, <1>4, <1>5, <1>9

\* A source sync keeps the invariant.
LEMMA AdvanceKept ==
    ASSUME BootstrapInv, AdvanceCursor
    PROVE  BootstrapInv'
<1>1. StoreInv /\ TypeOK
    BY DEF BootstrapInv, TypeOK, StoreInv, StoreTyped
<1>2. UNCHANGED <<pc, job, applied, alone, overlapped, starts, crashes>>
    BY DEF AdvanceCursor
<1>3. PICK id \in Ids, doc \in Documents :
          /\ Write("sync_cursors", id, doc) /\ Fits("sync_cursors", id, doc)
          /\ store["sync_cursors"][id].version > 0
          /\ doc.identity = store["sync_cursors"][id].identity
    BY <1>1, AdvanceWrites
<1>4. StoreTyped /\ "sync_cursors" \in Collections /\ "sync_cursors" \in Indexed
    BY <1>1 DEF StoreInv, Collections, Indexed, SyncCursorIndex
<1>5. OnlyOne("sync_cursors", id, doc.identity)
    BY <1>1, <1>3, <1>4, UniqueIds DEF OnlyOne, StoreInv, IndexesHold
<1>6. StoreInv' /\ RecordsStay
    BY <1>1, <1>3, <1>4, <1>5, WriteKept
<1>7. \A c \in Collections : Unique(c) => Unique(c)'
    BY <1>3, <1>4, <1>5, WriteUnique
<1>8. TypeOK'
    BY <1>1, <1>2, <1>6 DEF TypeOK, StoreInv, StoreTyped
<1>9. NeverOverlapped'
    BY <1>2, <1>7 DEF BootstrapInv, NeverOverlapped
<1>10. /\ StoreTyped'
       /\ \A c \in Collections : c # "sync_cursors" => store'[c] = store[c]
       /\ \A o \in Ids : store["sync_cursors"][o].version > 0 <=> store'["sync_cursors"][o].version > 0
       /\ \A o \in Ids : store'["sync_cursors"][o].identity = store["sync_cursors"][o].identity
    <2>1. /\ StoreTyped' /\ store'["sync_cursors"][id] = doc
          /\ \A d \in Collections, o \in Ids :
                d # "sync_cursors" \/ o # id => store'[d][o] = store[d][o]
        BY <1>3, <1>4, Written
    <2>2. doc.version > 0
        BY <1>3 DEF Fits
    <2>3. \A c \in Collections : c # "sync_cursors" => store'[c] = store[c]
        BY <1>3, <1>4 DEF Write, StoreTyped
    <2> QED
        BY <1>3, <1>4, <2>1, <2>2, <2>3
<1>11. ASSUME NEW b \in Bootstraps PROVE Progress(b)' /\ KnowsMatch(b)'
    <2>1. Progress(b)'
        BY <1>1, <1>2, <1>6, ProgressStays DEF BootstrapInv, StoreInv
    <2>2. KnowsMatch(b)'
        <3>1. CASE pc[b] = "idle"
            BY <1>2, <3>1 DEF KnowsMatch
        <3>2. CASE pc[b] # "idle"
            <4>1. KnowsMatch(b) /\ pc[b] \in Collections
                BY <1>1, <3>2, JobTyped DEF BootstrapInv
            <4>2. Identity(b)' = Identity(b)
                BY <1>2 DEF Identity
            <4>3. \A x, i : Holding(pc[b], x, i)' <=> Holding(pc[b], x, i)
                <5>1. CASE pc[b] = "sync_cursors"
                    BY <1>2, <1>4, <1>10, <5>1, StoredIds, StoredIdsNext DEF Holding
                <5>2. CASE pc[b] # "sync_cursors"
                    BY <1>2, <1>10, <4>1, <5>2 DEF Holding
                <5> QED
                    BY <5>1, <5>2
            <4>4. Matches(b)' = Matches(b)
                <5>1. \A x : x \in Matches(b) <=> x \in Stored(store[pc[b]]) /\
                                 store[pc[b]][x].identity = Identity(b)
                    BY DEF Matches
                <5>2. \A x : x \in Matches(b)' <=> x \in Stored(store'[pc[b]]) /\
                                 store'[pc[b]][x].identity = Identity(b)
                    BY <1>2, <4>2 DEF Matches
                <5> QED
                    BY <1>2, <4>3, <5>1, <5>2 DEF Holding
            <4>5. pc[b] # "sync_cursors" => store'[pc[b]] = store[pc[b]]
                BY <1>10, <4>1
            <4> QED
                BY <1>2, <3>2, <4>1, <4>2, <4>3, <4>4, <4>5 DEF KnowsMatch
        <3> QED
            BY <3>1, <3>2
    <2> QED
        BY <2>1, <2>2
<1> QED
    BY <1>6, <1>8, <1>9, <1>11 DEF BootstrapInv, StoreInv
-------------------------------------------------------------------------------
\* The invariant holds at first: nothing is stored and nothing runs.
LEMMA InitInv ==
    ASSUME Init
    PROVE  BootstrapInv
<1>1. /\ \A c \in Collections, id \in Ids : store[c][id] = NoRecord
      /\ store \in [Collections -> [Ids -> Documents]]
    <2>1. NoRecord \in Documents
        BY DEF NoRecord, Documents, NoKey
    <2> QED
        BY <2>1 DEF Init
<1>2. NoRecord.version = 0
    BY DEF NoRecord
<1>3. /\ pc = [b \in Bootstraps |-> "idle"] /\ job = [b \in Bootstraps |-> NoJob]
      /\ applied = [b \in Bootstraps |-> FALSE] /\ alone = [b \in Bootstraps |-> FALSE]
      /\ overlapped = FALSE /\ starts = 0 /\ crashes = 0
    BY DEF Init
<1>4. TypeOK
    <2>1. NoJob \in Jobs
        BY BootstrapAssumption DEF NoJob, Jobs
    <2> QED
        BY <1>1, <1>3, <2>1 DEF TypeOK
<1>5. StoreTyped /\ StoredAsAsked
    BY <1>1, <1>2 DEF StoreTyped, StoredAsAsked
<1>6. ReferencesResolve
    BY <1>1, <1>2, <1>5, EachResolves
<1>7. \A c \in Collections : Unique(c)
    BY <1>1, <1>2, <1>5, UniqueIds
<1>8. IndexesHold
    BY <1>7 DEF IndexesHold, Indexed, TargetRepoIndex, ToolPolicyIndex, SyncCursorIndex,
                Collections
<1>9. NeverOverlapped
    BY <1>3, <1>7 DEF NeverOverlapped
<1>10. ASSUME NEW b \in Bootstraps PROVE Progress(b) /\ KnowsMatch(b)
    <2>1. pc[b] = "idle" /\ ~ applied[b]
        BY <1>3
    <2>2. \A c \in Collections : ~ Past(b, c)
        BY <2>1 DEF Past, Later, Collections
    <2> QED
        BY <2>1, <2>2 DEF Progress, KnowsMatch, Collections
<1> QED
    BY <1>4, <1>5, <1>6, <1>8, <1>9, <1>10 DEF BootstrapInv

\* Every step keeps it.
LEMMA NextInv ==
    ASSUME BootstrapInv, [Next]_vars
    PROVE  BootstrapInv'
<1>1. ASSUME NEW b \in Bootstraps, Start(b) PROVE BootstrapInv'
    BY <1>1, StartKept
<1>2. ASSUME NEW b \in Bootstraps, LookUp(b) PROVE BootstrapInv'
    BY <1>2, LookUpKept
<1>3. ASSUME NEW b \in Bootstraps, InsertRecord(b) PROVE BootstrapInv'
    BY <1>3, InsertKept
<1>4. ASSUME NEW b \in Bootstraps, SaveRecord(b) PROVE BootstrapInv'
    BY <1>4, SaveKept
<1>5. ASSUME NEW b \in Bootstraps, Crash(b) PROVE BootstrapInv'
    <2>1. /\ pc[b] # "idle" /\ Refused(b) /\ alone' = alone /\ overlapped' = overlapped
          /\ starts' = starts /\ crashes' \in Nat
        BY <1>5 DEF Crash, BootstrapInv, TypeOK
    <2> QED
        BY <2>1, RefusedKept
<1>6. ASSUME AdvanceCursor PROVE BootstrapInv'
    BY <1>6, AdvanceKept
<1>7. ASSUME UNCHANGED vars PROVE BootstrapInv'
    <2>1. /\ store' = store /\ pc' = pc /\ job' = job /\ applied' = applied /\ alone' = alone
          /\ overlapped' = overlapped /\ starts' = starts /\ crashes' = crashes
        BY <1>7 DEF vars
    <2>2. StoreInv' /\ RecordsStay /\ \A c \in Collections : Unique(c) <=> Unique(c)'
        BY <2>1, SameStore
    <2>3. TypeOK' /\ NeverOverlapped'
        BY <2>1, <2>2 DEF BootstrapInv, TypeOK, NeverOverlapped
    <2>4. ASSUME NEW b \in Bootstraps PROVE Progress(b)' /\ KnowsMatch(b)'
        <3>1. Progress(b)'
            BY <2>1, <2>2, ProgressStays DEF BootstrapInv, StoreInv
        <3>2. KnowsMatch(b)'
            <4>1. Identity(b)' = Identity(b)
                BY <2>1 DEF Identity
            <4>2. Matches(b)' = Matches(b) /\ \A c, x, i : Holding(c, x, i)' <=> Holding(c, x, i)
                BY <2>1, <4>1 DEF Matches, Holding
            <4> QED
                BY <2>1, <4>1, <4>2 DEF BootstrapInv, KnowsMatch
        <3> QED
            BY <3>1, <3>2
    <2> QED
        BY <2>2, <2>3, <2>4 DEF BootstrapInv, StoreInv
<1> QED
    BY <1>1, <1>2, <1>3, <1>4, <1>5, <1>6, <1>7 DEF Next

(***************************************************************************)
(* The inductive invariant: what is stored, and what every bootstrap has   *)
(* made and found, whoever else writes or is killed.                       *)
(***************************************************************************)
THEOREM BootstrapInvariance == Spec => []BootstrapInv
<1>1. Init => BootstrapInv
    BY InitInv
<1>2. BootstrapInv /\ [Next]_vars => BootstrapInv'
    BY NextInv
<1> QED
    BY <1>1, <1>2, PTL DEF Spec

\* TypeOK: the records a bootstrap writes, the ids it remembers and the action
\* it is at are what the code's types say.
THEOREM BootstrapTypeCorrect == Spec => []TypeOK
<1>1. BootstrapInv => TypeOK
    BY DEF BootstrapInv
<1> QED
    BY <1>1, BootstrapInvariance, PTL

\* ReferencesResolve: the upserts are in an order in which no record refers to
\* one that is not there yet, wherever a bootstrap was stopped.
THEOREM ReferencesHold == Spec => []ReferencesResolve
<1>1. BootstrapInv => ReferencesResolve
    BY DEF BootstrapInv
<1> QED
    BY <1>1, BootstrapInvariance, PTL

\* RerunsDuplicateNothing: unique indexes hold under overlapping bootstraps, and
\* the lookup before each insert does where there is no index, if none overlap.
THEOREM NothingDuplicated == Spec => []RerunsDuplicateNothing
<1>1. BootstrapInv => RerunsDuplicateNothing
    BY DEF BootstrapInv, IndexesHold, NeverOverlapped, RerunsDuplicateNothing
<1> QED
    BY <1>1, BootstrapInvariance, PTL

\* AppliedIsComplete: a bootstrap that returned left the whole connection behind,
\* whoever else was at work, up to the last policy and the cursor.
THEOREM ConnectionComplete == Spec => []AppliedIsComplete
<1>1. ASSUME BootstrapInv PROVE AppliedIsComplete
    <2> SUFFICES ASSUME NEW b \in Bootstraps, applied[b]
                 PROVE  LET j == job[b]
                        IN  /\ store["projects"][j.project].identity = <<j.name>>
                            /\ store["target_repos"][j.target].identity = <<j.repo>>
                            /\ store["source_connections"][j.source].identity
                                  = <<j.project, j.target>>
                            /\ \E r \in Records("tool_connections") : r.identity = <<j.project>>
                            /\ \A a \in 1..ActionCount :
                                  \E r \in Records("tool_policies") : r.identity = <<j.project, a>>
                            /\ \E r \in Records("sync_cursors") : r.identity = <<j.source>>
        BY DEF AppliedIsComplete
    <2>1. \A c : Past(b, c)
        BY DEF Past
    <2>2. \A c, identity : HasRecord(c, identity) => \E r \in Records(c) : r.identity = identity
        BY DEF HasRecord, Holding, Records
    <2>3. Progress(b)
        BY <1>1 DEF BootstrapInv
    <2> QED
        BY <2>1, <2>2, <2>3 DEF Progress, Holding
<1> QED
    BY <1>1, BootstrapInvariance, PTL
(***************************************************************************)
(* RerunSucceeds: a bootstrap that runs alone stops only when it is killed *)
(* or has made every upsert; no refusal of the store ends it, whatever     *)
(* earlier ones left behind.                                               *)
(***************************************************************************)
THEOREM RerunRepairs == Spec => RerunSucceeds
<1>1. ASSUME BootstrapInv, [Next]_vars, NEW b \in Bootstraps,
             pc[b] # "idle", pc'[b] = "idle", crashes' = crashes, alone[b]
      PROVE  applied'[b]
    <2>1. pc[b] \in Collections /\ TypeOK /\ \A o \in Bootstraps \ {b} : pc[o] = "idle"
        BY <1>1, JobTyped DEF BootstrapInv, KnowsMatch
    <2>2. ASSUME NEW id \in Ids \union {0}, Proceed(b, id) PROVE applied'[b]
        <3>1. pc'[b] = Following(b) /\ (applied'[b] <=> pc[b] = "sync_cursors")
            BY <1>1, <2>1, <2>2, Proceeded
        <3> QED
            BY <1>1, <2>1, <3>1 DEF Following, Collections
    <2>3. ASSUME NEW o \in Bootstraps, Start(o) PROVE FALSE
        <3>1. pc[o] = "idle" /\ pc' = [pc EXCEPT ![o] = "projects"]
            BY <2>3 DEF Start
        <3>2. o # b
            BY <1>1, <3>1
        <3> QED
            BY <1>1, <2>1, <3>1, <3>2 DEF TypeOK
    <2>4. ASSUME NEW o \in Bootstraps, LookUp(o) PROVE applied'[b]
        <3>1. o = b
            BY <2>1, <2>4 DEF LookUp
        <3>2. Proceed(b, 0) \/ ReadMatch(b)
            BY <2>4, <3>1 DEF LookUp
        <3>3. ~ ReadMatch(b)
            BY <1>1 DEF ReadMatch
        <3> QED
            BY <2>2, <3>2, <3>3
    <2>5. ASSUME NEW o \in Bootstraps, InsertRecord(o) PROVE applied'[b]
        <3>1. o = b
            BY <2>1, <2>5 DEF InsertRecord
        <3>2. \E id \in Ids : Proceed(b, id)
            BY <1>1, <2>5, <3>1, InsertWrites
        <3> QED
            BY <2>2, <3>2
    <2>6. ASSUME NEW o \in Bootstraps, SaveRecord(o) PROVE applied'[b]
        <3>1. o = b
            BY <2>1, <2>6 DEF SaveRecord
        <3>2. \E id \in Ids : Proceed(b, id)
            BY <1>1, <2>6, <3>1, SaveWrites
        <3> QED
            BY <2>2, <3>2
    <2>7. ASSUME NEW o \in Bootstraps, Crash(o) PROVE FALSE
        BY <1>1, <2>1, <2>7 DEF Crash, TypeOK
    <2>8. ASSUME AdvanceCursor PROVE FALSE
        BY <1>1, <2>8 DEF AdvanceCursor
    <2>9. ASSUME UNCHANGED vars PROVE FALSE
        BY <1>1, <2>9 DEF vars
    <2> QED
        BY <1>1, <2>3, <2>4, <2>5, <2>6, <2>7, <2>8, <2>9 DEF Next
<1> DEFINE Step == \A b \in Bootstraps :
                     pc[b] # "idle" /\ pc'[b] = "idle" /\ crashes' = crashes /\ alone[b] =>
                         applied'[b]
<1>2. BootstrapInv /\ [Next]_vars => Step
    BY <1>1
<1>3. RerunSucceeds <=> [][Step]_vars
    BY DEF RerunSucceeds
<1> HIDE DEF Step
<1> QED
    BY <1>2, <1>3, BootstrapInvariance, PTL DEF Spec

(***************************************************************************)
(* CursorsAdvance: no bootstrap moves the position a sync has reached back, *)
(* for it never saves over a cursor.                                       *)
(***************************************************************************)
THEOREM CursorsNeverGoBack == Spec => CursorsAdvance
<1>1. ASSUME BootstrapInv, [Next]_vars, NEW id \in Ids
      PROVE  store'["sync_cursors"][id].cursor >= store["sync_cursors"][id].cursor
    <2>1. StoreInv /\ StoreTyped /\ TypeOK /\ "sync_cursors" \in Collections
        BY <1>1 DEF BootstrapInv, TypeOK, StoreInv, StoreTyped, Collections
    <2>2. store["sync_cursors"][id] \in Documents
        BY <2>1 DEF StoreTyped
    <2>3. store["sync_cursors"][id].cursor \in Nat
        BY <2>2 DEF Documents
    <2>4. ASSUME store' = store PROVE store'["sync_cursors"][id].cursor >= store["sync_cursors"][id].cursor
        BY <2>3, <2>4
    <2>5. ASSUME NEW c \in Collections, NEW o \in Ids, NEW doc \in Documents, Write(c, o, doc),
                 c = "sync_cursors" => doc.cursor >= store[c][o].cursor
          PROVE  store'["sync_cursors"][id].cursor >= store["sync_cursors"][id].cursor
        <3>1. /\ store'[c][o] = doc
              /\ c # "sync_cursors" \/ o # id =>
                    store'["sync_cursors"][id] = store["sync_cursors"][id]
            BY <2>1, <2>5, Written
        <3> QED
            BY <2>3, <2>5, <3>1
    <2>6. ASSUME NEW b \in Bootstraps, InsertRecord(b)
          PROVE  store'["sync_cursors"][id].cursor >= store["sync_cursors"][id].cursor
        <3>1. CASE Refused(b)
            BY <2>4, <3>1 DEF Refused
        <3>2. CASE ~ Refused(b)
            <4>1. pc[b] \in Collections
                BY <2>1, <2>6, JobTyped DEF InsertRecord
            <4>2. PICK o \in Ids, doc \in Documents :
                      Write(pc[b], o, doc) /\ doc.cursor = 0 /\ store[pc[b]][o].version = 0
                BY <1>1, <2>6, <3>2, InsertWrites
            <4>3. store[pc[b]][o] = NoRecord
                BY <1>1, <4>1, <4>2 DEF BootstrapInv, StoredAsAsked
            <4>4. doc.cursor >= store[pc[b]][o].cursor
                BY <4>2, <4>3 DEF NoRecord
            <4> QED
                BY <2>5, <4>1, <4>2, <4>4
        <3> QED
            BY <3>1, <3>2
    <2>7. ASSUME NEW b \in Bootstraps, SaveRecord(b)
          PROVE  store'["sync_cursors"][id].cursor >= store["sync_cursors"][id].cursor
        <3>1. CASE Refused(b)
            BY <2>4, <3>1 DEF Refused
        <3>2. CASE ~ Refused(b)
            <4>1. pc[b] \in Collections
                BY <2>1, <2>7, JobTyped DEF SaveRecord
            <4>2. PICK o \in Ids, doc \in Documents : Write(pc[b], o, doc) /\ pc[b] # "sync_cursors"
                BY <1>1, <2>7, <3>2, SaveWrites
            <4> QED
                BY <2>5, <4>1, <4>2
        <3> QED
            BY <3>1, <3>2
    <2>8. ASSUME AdvanceCursor
          PROVE  store'["sync_cursors"][id].cursor >= store["sync_cursors"][id].cursor
        <3>1. PICK o \in Ids, doc \in Documents :
                  Write("sync_cursors", o, doc) /\ doc.cursor = store["sync_cursors"][o].cursor + 1
            BY <2>1, <2>8, AdvanceWrites
        <3>2. store["sync_cursors"][o] \in Documents
            BY <2>1 DEF StoreTyped
        <3>3. doc.cursor >= store["sync_cursors"][o].cursor
            BY <3>1, <3>2 DEF Documents
        <3> QED
            BY <2>1, <2>5, <3>1, <3>3
    <2>9. ASSUME NEW b \in Bootstraps, Start(b) \/ LookUp(b) \/ Crash(b) PROVE store' = store
        BY <2>9 DEF Start, LookUp, Crash, Refused
    <2>10. ASSUME UNCHANGED vars PROVE store' = store
        BY <2>10 DEF vars
    <2> QED
        BY <1>1, <2>4, <2>6, <2>7, <2>8, <2>9, <2>10 DEF Next
<1> DEFINE Step == \A id \in Ids :
                     store'["sync_cursors"][id].cursor >= store["sync_cursors"][id].cursor
<1>2. BootstrapInv /\ [Next]_vars => Step
    BY <1>1
<1>3. CursorsAdvance <=> [][Step]_vars
    BY DEF CursorsAdvance
<1> HIDE DEF Step
<1> QED
    BY <1>2, <1>3, BootstrapInvariance, PTL DEF Spec
==============================================================================
