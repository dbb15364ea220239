--------------------------- MODULE GitHubBootstrap ---------------------------
(***************************************************************************)
(* src/hoisa/app/services/github_connection_bootstrap.py: processes that   *)
(* write the records of a repository connection to the document store, one *)
(* upsert after the other: project, repository, source connection, tool    *)
(* connection, one policy per workflow action, sync cursor.  An upsert is  *)
(* two calls, a lookup and an insert or save, with nothing held between    *)
(* them and no transaction around the sequence.  An operator may run a     *)
(* bootstrap again at any time, whatever became of the last one.           *)
(***************************************************************************)
EXTENDS StoreOperations

CONSTANTS
    Ids,          \* record ids, per collection
    Bootstraps,   \* processes running the bootstrap
    ProjectNames, \* Hoisa projects asked for
    Repos,        \* repositories asked for
    ActionCount,  \* number of GITHUB_WORKFLOW_ACTIONS; policies go by position
    MaxStarts,    \* bound: bootstraps started
    MaxCrashes,   \* bound: bootstraps killed
    MaxCursor     \* bound: how far a sync gets

ASSUME BootstrapAssumption ==
    /\ Ids \subseteq Nat \ {0}
    /\ ActionCount \in Nat \ {0}
    /\ MaxStarts \in Nat /\ MaxCrashes \in Nat /\ MaxCursor \in Nat

VARIABLES
    store,     \* per collection, its bucket
    pc,        \* the collection a bootstrap is about to upsert into, or "idle"
    job,       \* what a bootstrap remembers
    applied,   \* whether a bootstrap's last run returned
    alone,     \* history: no other bootstrap has run during this one
    overlapped,\* history: two bootstraps have run at the same time
    starts, crashes

vars == <<store, pc, job, applied, alone, overlapped, starts, crashes>>

Collections == {"projects", "target_repos", "source_connections",
                "tool_connections", "tool_policies", "sync_cursors"}

\* The record types that declare a unique index, all of them over the fields the
\* bootstrap looks records up by
TargetRepoIndex == {"target_repos"}
ToolPolicyIndex == {"tool_policies"}
SyncCursorIndex == {"sync_cursors"}

Indexed == TargetRepoIndex \union ToolPolicyIndex \union SyncCursorIndex

\* identity: the fields the bootstrap's filter matches; owner: the project of a
\* repository, which a save may change; cursor: the position of a sync cursor.
NoRecord == [version |-> 0, key |-> NoKey, identity |-> <<>>, owner |-> 0, cursor |-> 0]

NoJob ==
    [name |-> "none", repo |-> "none", project |-> 0, target |-> 0, source |-> 0,
     action |-> 1, looked |-> FALSE, found |-> 0, version |-> 0]

Init ==
    /\ store = [c \in Collections |-> [id \in Ids |-> NoRecord]]
    /\ pc = [b \in Bootstraps |-> "idle"]
    /\ job = [b \in Bootstraps |-> NoJob]
    /\ applied = [b \in Bootstraps |-> FALSE]
    /\ alone = [b \in Bootstraps |-> FALSE]
    /\ overlapped = FALSE
    /\ starts = 0
    /\ crashes = 0

Running == { b \in Bootstraps : pc[b] # "idle" }

-------------------------------------------------------------------------------
\* The repository is validated and `apply` is called.
Start(b) ==
    /\ pc[b] = "idle"
    /\ starts < MaxStarts
    /\ \E name \in ProjectNames, repo \in Repos :
          job' = [job EXCEPT ![b] = [NoJob EXCEPT !.name = name, !.repo = repo]]
    /\ pc' = [pc EXCEPT ![b] = "projects"]
    /\ applied' = [applied EXCEPT ![b] = FALSE]
    /\ alone' = [other \in Bootstraps |-> Running = {} /\ (other = b \/ alone[other])]
    /\ overlapped' = (overlapped \/ Running # {})
    /\ starts' = starts + 1
    /\ UNCHANGED <<store, crashes>>

\* Variants that stand for plausible mistakes are kept beside the definition
\* they vary; README.md says which property each one breaks.
IdentitySwapsReferences(b) ==
    CASE pc[b] = "projects"           -> <<job[b].name>>
      [] pc[b] = "target_repos"       -> <<job[b].repo>>
      [] pc[b] = "source_connections" -> <<job[b].target, job[b].project>>
      [] pc[b] = "tool_connections"   -> <<job[b].project>>
      [] pc[b] = "tool_policies"      -> <<job[b].project, job[b].action>>
      [] pc[b] = "sync_cursors"       -> <<job[b].source>>

\* The filter of the next upsert.
Identity(b) ==
    CASE pc[b] = "projects"           -> <<job[b].name>>
      [] pc[b] = "target_repos"       -> <<job[b].repo>>
      [] pc[b] = "source_connections" -> <<job[b].project, job[b].target>>
      [] pc[b] = "tool_connections"   -> <<job[b].project>>
      [] pc[b] = "tool_policies"      -> <<job[b].project, job[b].action>>
      [] pc[b] = "sync_cursors"       -> <<job[b].source>>

MatchesIndexedOnly(b) ==
    { id \in Stored(store[pc[b]]) :
        pc[b] \in Indexed /\ store[pc[b]][id].identity = Identity(b) }

Matches(b) == { id \in Stored(store[pc[b]]) : store[pc[b]][id].identity = Identity(b) }

\* The policies are written one by one, in the order of GITHUB_WORKFLOW_ACTIONS.
MorePoliciesStopsEarly(b) == pc[b] = "tool_policies" /\ job[b].action + 1 < ActionCount

MorePoliciesRunsOver(b) == pc[b] = "tool_policies" /\ job[b].action <= ActionCount

MorePolicies(b) == pc[b] = "tool_policies" /\ job[b].action < ActionCount

Following(b) ==
    CASE pc[b] = "projects"           -> "target_repos"
      [] pc[b] = "target_repos"       -> "source_connections"
      [] pc[b] = "source_connections" -> "tool_connections"
      [] pc[b] = "tool_connections"   -> "tool_policies"
      [] pc[b] = "tool_policies"      -> IF MorePolicies(b) THEN "tool_policies"
                                         ELSE "sync_cursors"
      [] pc[b] = "sync_cursors"       -> "idle"

\* The call returned record `id`: on to the next upsert, or the bootstrap returns.
Proceed(b, id) ==
    /\ pc' = [pc EXCEPT ![b] = Following(b)]
    /\ job' = [job EXCEPT
                 ![b].project = IF pc[b] = "projects" THEN id ELSE @,
                 ![b].target  = IF pc[b] = "target_repos" THEN id ELSE @,
                 ![b].source  = IF pc[b] = "source_connections" THEN id ELSE @,
                 ![b].action  = IF MorePolicies(b) THEN @ + 1 ELSE @,
                 ![b].looked  = FALSE,
                 ![b].found   = 0,
                 ![b].version = 0]
    /\ applied' = [applied EXCEPT ![b] = (pc[b] = "sync_cursors")]

\* get: any record that matches, for the store promises no order.
ReadMatch(b) ==
    \E id \in IF Matches(b) = {} THEN {0} ELSE Matches(b) :
        /\ job' = [job EXCEPT ![b].looked = TRUE,
                              ![b].found = id,
                              ![b].version = IF id = 0 THEN 0
                                             ELSE store[pc[b]][id].version]
        /\ UNCHANGED <<pc, applied>>

LookUpForgetsCursor(b) ==
    /\ pc[b] # "idle"
    /\ ~ job[b].looked
    /\ ReadMatch(b)
    /\ UNCHANGED <<store, alone, overlapped, starts, crashes>>

\* A cursor that exists is left alone and ends the bootstrap.
LookUp(b) ==
    /\ pc[b] # "idle"
    /\ ~ job[b].looked
    /\ IF pc[b] = "sync_cursors" /\ Matches(b) # {}
       THEN Proceed(b, 0)
       ELSE ReadMatch(b)
    /\ UNCHANGED <<store, alone, overlapped, starts, crashes>>

CandidateForgetsVersion(b) ==
    [version  |-> 0,
     key      |-> IF pc[b] \in Indexed THEN Identity(b) ELSE NoKey,
     identity |-> Identity(b),
     owner    |-> IF pc[b] = "target_repos" THEN job[b].project ELSE 0,
     cursor   |-> 0]

\* The record to write, with the version that was read.
Candidate(b) ==
    [version  |-> job[b].version,
     key      |-> IF pc[b] \in Indexed THEN Identity(b) ELSE NoKey,
     identity |-> Identity(b),
     owner    |-> IF pc[b] = "target_repos" THEN job[b].project ELSE 0,
     cursor   |-> 0]

\* The call is refused: the error ends the bootstrap.
Refused(b) ==
    /\ pc' = [pc EXCEPT ![b] = "idle"]
    /\ job' = [job EXCEPT ![b] = NoJob]
    /\ UNCHANGED <<store, applied>>

\* Nothing was found: insert under a new id.
InsertRecord(b) ==
    /\ pc[b] # "idle" /\ job[b].looked /\ job[b].found = 0
    /\ LET bucket == store[pc[b]]
           id     == CHOOSE new \in Ids \ Stored(bucket) :
                        \A other \in Ids \ Stored(bucket) : new <= other
       IN  /\ Ids \ Stored(bucket) # {}
           /\ IF InsertOutcome(bucket, id, Candidate(b)) = "stored"
              THEN /\ store' = [store EXCEPT ![pc[b]] = Inserted(bucket, id, Candidate(b))]
                   /\ Proceed(b, id)
              ELSE Refused(b)
    /\ UNCHANGED <<alone, overlapped, starts, crashes>>

\* A record was found: save over it.
SaveRecord(b) ==
    /\ pc[b] # "idle" /\ job[b].looked /\ job[b].found # 0
    /\ LET bucket == store[pc[b]]
           id     == job[b].found
       IN  IF SaveOutcome(bucket, id, Candidate(b)) = "stored"
           THEN /\ store' = [store EXCEPT ![pc[b]] = Saved(bucket, id, Candidate(b))]
                /\ Proceed(b, id)
           ELSE Refused(b)
    /\ UNCHANGED <<alone, overlapped, starts, crashes>>

Crash(b) ==
    /\ pc[b] # "idle"
    /\ crashes < MaxCrashes
    /\ crashes' = crashes + 1
    /\ Refused(b)
    /\ UNCHANGED <<alone, overlapped, starts>>

\* A source sync moves its cursor.
AdvanceCursor ==
    /\ \E id \in Stored(store["sync_cursors"]) :
          /\ store["sync_cursors"][id].cursor < MaxCursor
          /\ store' = [store EXCEPT !["sync_cursors"][id].cursor = @ + 1,
                                    !["sync_cursors"][id].version = @ + 1]
    /\ UNCHANGED <<pc, job, applied, alone, overlapped, starts, crashes>>

Next ==
    \/ \E b \in Bootstraps :
          Start(b) \/ LookUp(b) \/ InsertRecord(b) \/ SaveRecord(b) \/ Crash(b)
    \/ AdvanceCursor

Spec == Init /\ [][Next]_vars

-------------------------------------------------------------------------------
Jobs ==
    [name : ProjectNames \union {"none"}, repo : Repos \union {"none"},
     project : Ids \union {0}, target : Ids \union {0}, source : Ids \union {0},
     action : 1..ActionCount, looked : BOOLEAN, found : Ids \union {0}, version : Nat]

Identities ==
    { <<x>> : x \in ProjectNames \union Repos \union Ids }
    \union (Ids \X (Ids \union 1..ActionCount))

Documents ==
    [version : Nat, key : Identities \union {NoKey}, identity : Identities \union {NoKey},
     owner : Ids \union {0}, cursor : Nat]

\* The values each variable ranges over.
TypeOK ==
    /\ store \in [Collections -> [Ids -> Documents]]
    /\ pc \in [Bootstraps -> Collections \union {"idle"}]
    /\ job \in [Bootstraps -> Jobs]
    /\ applied \in [Bootstraps -> BOOLEAN]
    /\ alone \in [Bootstraps -> BOOLEAN]
    /\ overlapped \in BOOLEAN
    /\ starts \in Nat /\ crashes \in Nat

Records(collection) == { store[collection][id] : id \in Stored(store[collection]) }

\* No record refers to one that is not there, wherever a bootstrap stopped.
ReferencesResolve ==
    LET projects == Stored(store["projects"])
        repos    == Stored(store["target_repos"])
    IN  /\ \A r \in Records("target_repos") : r.owner \in projects
        /\ \A r \in Records("source_connections") :
              r.identity[1] \in projects /\ r.identity[2] \in repos
        /\ \A r \in Records("tool_connections") \union Records("tool_policies") :
              r.identity[1] \in projects
        /\ \A r \in Records("sync_cursors") :
              r.identity[1] \in Stored(store["source_connections"])

Unique(collection) ==
    \A id, other \in Stored(store[collection]) :
        store[collection][id].identity = store[collection][other].identity => id = other

\* Bootstraps that were killed and run again, but never two at a time, duplicate
\* no record, though half the collections have no unique index; where there is
\* one, overlapping bootstraps duplicate nothing either.
RerunsDuplicateNothing ==
    \A collection \in Collections :
        collection \in Indexed \/ ~ overlapped => Unique(collection)

\* A bootstrap that returned has left the whole connection behind, whatever was
\* there before and whoever else was at work.
AppliedIsComplete ==
    \A b \in Bootstraps : applied[b] =>
        LET j == job[b]
        IN  /\ store["projects"][j.project].identity = <<j.name>>
            /\ store["target_repos"][j.target].identity = <<j.repo>>
            /\ store["source_connections"][j.source].identity = <<j.project, j.target>>
            /\ \E r \in Records("tool_connections") : r.identity = <<j.project>>
            /\ \A a \in 1..ActionCount :
                  \E r \in Records("tool_policies") : r.identity = <<j.project, a>>
            /\ \E r \in Records("sync_cursors") : r.identity = <<j.source>>

\* A bootstrap that runs alone is never refused: whatever crashes and overlapping
\* bootstraps have left behind, running it once more repairs.
RerunSucceeds ==
    [][\A b \in Bootstraps :
         pc[b] # "idle" /\ pc'[b] = "idle" /\ crashes' = crashes /\ alone[b] =>
             applied'[b]]_vars

\* No bootstrap moves a sync cursor back.
CursorsAdvance ==
    [][\A id \in Ids :
         store'["sync_cursors"][id].cursor >= store["sync_cursors"][id].cursor]_vars

-------------------------------------------------------------------------------
(* The inductive invariant of GitHubBootstrap_proofs. *)

\* What the store holds: nothing under a free id, and the unique indexes are
\* over the fields the bootstrap looks records up by.
StoredAsAsked ==
    \A c \in Collections : \A id \in Ids :
        IF store[c][id].version = 0 THEN store[c][id] = NoRecord
        ELSE /\ store[c][id].identity # NoKey
             /\ store[c][id].key = IF c \in Indexed THEN store[c][id].identity ELSE NoKey

IndexesHold == \A c \in Indexed : Unique(c)

Later(collection) ==
    CASE collection = "projects"           -> Collections \ {"projects"}
      [] collection = "target_repos"       -> Collections \ {"projects", "target_repos"}
      [] collection = "source_connections" -> {"tool_connections", "tool_policies", "sync_cursors"}
      [] collection = "tool_connections"   -> {"tool_policies", "sync_cursors"}
      [] collection = "tool_policies"      -> {"sync_cursors"}
      [] collection = "sync_cursors"       -> {}

\* The bootstrap has made its upserts into a collection.
Past(b, collection) == applied[b] \/ pc[b] \in Later(collection)

Holding(collection, id, identity) ==
    id \in Stored(store[collection]) /\ store[collection][id].identity = identity

HasRecord(collection, identity) == \E id \in Ids : Holding(collection, id, identity)

\* What a bootstrap has made so far is there, whoever else writes.
Progress(b) ==
    LET j == job[b] IN
    /\ pc[b] # "idle" => ~ applied[b] /\ j.name \in ProjectNames /\ j.repo \in Repos
    /\ Past(b, "projects") => Holding("projects", j.project, <<j.name>>)
    /\ Past(b, "target_repos") => Holding("target_repos", j.target, <<j.repo>>)
    /\ Past(b, "source_connections") =>
          Holding("source_connections", j.source, <<j.project, j.target>>)
    /\ Past(b, "tool_connections") => HasRecord("tool_connections", <<j.project>>)
    /\ pc[b] \notin {"idle", "tool_policies", "sync_cursors"} => j.action = 1
    /\ \A a \in 1..ActionCount :
          Past(b, "tool_policies") \/ (pc[b] = "tool_policies" /\ a < j.action) =>
              HasRecord("tool_policies", <<j.project, a>>)
    /\ applied[b] => HasRecord("sync_cursors", <<j.source>>)

\* What it found is still there; a bootstrap that runs alone found all there is.
KnowsMatch(b) ==
    LET j == job[b]
    IN  pc[b] # "idle" =>
          /\ j.found = 0 => j.version = 0
          /\ j.looked /\ j.found # 0 =>
                /\ pc[b] # "sync_cursors"
                /\ Holding(pc[b], j.found, Identity(b))
                /\ j.version > 0
          /\ alone[b] =>
                /\ \A other \in Bootstraps \ {b} : pc[other] = "idle"
                /\ j.looked /\ j.found = 0 => Matches(b) = {}
                /\ j.looked /\ j.found # 0 => j.version = store[pc[b]][j.found].version

NeverOverlapped ==
    ~ overlapped =>
        /\ \A c \in Collections : Unique(c)
        /\ \A b \in Bootstraps : pc[b] # "idle" => alone[b]

BootstrapInv ==
    /\ TypeOK
    /\ StoredAsAsked
    /\ IndexesHold
    /\ ReferencesResolve
    /\ NeverOverlapped
    /\ \A b \in Bootstraps : Progress(b) /\ KnowsMatch(b)
==============================================================================
