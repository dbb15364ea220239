------------------------- MODULE AgentBranches_proofs -------------------------
(***************************************************************************)
(* Proofs about AgentBranches: whatever the clones of the workers, their   *)
(* pushes and their dying processes do, no command but one that was given  *)
(* --no-git announces a plan before it is on GitHub, and no push takes a   *)
(* commit away.                                                            *)
(***************************************************************************)
EXTENDS AgentBranches, AgentWorkflow_proofs, WellFoundedInduction

-------------------------------------------------------------------------------
(* Histories of branches *)

\* A nonempty set of positions has a last one.
LEMMA LastExists ==
    ASSUME NEW n \in Nat, NEW K \in SUBSET (1 .. n), K # {}
    PROVE  \E k \in K : \A j \in K : j <= k
<1> DEFINE D == { n - k : k \in K }
           R == OpToRel(<, Nat)
<1>1. \A k \in K : k \in Nat /\ k <= n /\ n - k \in Nat
  OBVIOUS
<1>2. D \subseteq Nat
  BY <1>1
<1>3. D # {}
  <2>1. PICK k \in K : TRUE
    OBVIOUS
  <2>2. n - k \in D
    OBVIOUS
  <2> QED
    BY <2>2
<1>4. IsWellFoundedOn(R, Nat)
  BY NatLessThanWellFounded
<1>5. \A x, y \in Nat : x < y => <<x, y>> \in R
  BY DEF OpToRel
<1> HIDE DEF R
<1>6. \E x \in D : \A y \in D : ~ (<<y, x>> \in R)
  <2> HIDE DEF D
  <2> QED
    BY <1>2, <1>3, <1>4, WFMin, Zenon
<1>7. PICK k \in K : \A y \in D : ~ (<<y, n - k>> \in R)
  BY <1>6
<1>8. ASSUME NEW j \in K PROVE j <= k
  <2>1. n - j \in D
    OBVIOUS
  <2>2. ~ (n - j < n - k)
    BY <1>1, <1>5, <1>7, <2>1
  <2>3. j \in Nat /\ k \in Nat /\ j <= n /\ k <= n
    BY <1>1
  <2> HIDE DEF D
  <2> QED
    BY <2>2, <2>3
<1> QED
  BY <1>8

\* The mark of a missing branch is no history.
LEMMA AbsentIsNoHistory ==
    /\ Absent \notin Seq(Commits)
    /\ \A h \in Histories : h # Absent <=> h \in Seq(Commits)
<1>1. NoCommit \notin Commits
  BY WorkflowAssumption DEF NoCommit, Commits
<1>2. ASSUME Absent \in Seq(Commits) PROVE FALSE
  <2>1. Len(Absent) = 1 /\ Absent[1] = NoCommit
    BY DEF Absent
  <2>2. Absent[1] \in Commits
    BY <1>2, <2>1
  <2> QED
    BY <1>1, <2>1, <2>2
<1> QED
  BY <1>2 DEF Histories

\* What a longer history keeps of a shorter one
LEMMA PrefixKeeps ==
    ASSUME NEW a \in Seq(Commits), NEW b \in Seq(Commits), Seqs!IsPrefix(a, b)
    PROVE  /\ DOMAIN a \subseteq DOMAIN b
           /\ \A k \in DOMAIN a : b[k] = a[k]
           /\ \A i \in Issues : HasPlanFile(a, i) => HasPlanFile(b, i)
           /\ \A commit : Holds(a, commit) => Holds(b, commit)
<1>1. /\ DOMAIN a = 1 .. Len(a) /\ DOMAIN b = 1 .. Len(b)
      /\ Len(a) \in Nat /\ Len(b) \in Nat /\ Len(a) <= Len(b)
      /\ SubSeq(a, 1, Len(a)) = SubSeq(b, 1, Len(a))
  BY DEF Seqs!IsPrefix
<1>2. DOMAIN a \subseteq DOMAIN b
  BY <1>1
<1>3. ASSUME NEW k \in DOMAIN a PROVE b[k] = a[k]
  <2>1. k \in 1 .. Len(a)
    BY <1>1
  <2>2. SubSeq(a, 1, Len(a))[k] = a[k]
    BY <1>1, <2>1
  <2>3. SubSeq(b, 1, Len(a))[k] = b[k]
    BY <1>1, <2>1
  <2> QED
    BY <1>1, <2>2, <2>3
<1>4. \A i \in Issues : HasPlanFile(a, i) => HasPlanFile(b, i)
  BY <1>2, <1>3 DEF HasPlanFile, PlanCommits
<1>5. \A commit : Holds(a, commit) => Holds(b, commit)
  BY <1>2, <1>3 DEF Holds
<1> QED
  BY <1>2, <1>3, <1>4, <1>5

\* IsPrefix is an order on histories: reflexive
LEMMA PrefixRefl ==
    ASSUME NEW a \in Seq(Commits)
    PROVE  Seqs!IsPrefix(a, a)
<1>1. Len(a) \in Nat
  OBVIOUS
<1> QED
  BY <1>1 DEF Seqs!IsPrefix

\* and transitive.
LEMMA PrefixTrans ==
    ASSUME NEW a \in Seq(Commits), NEW b \in Seq(Commits), NEW c \in Seq(Commits),
           Seqs!IsPrefix(a, b), Seqs!IsPrefix(b, c)
    PROVE  Seqs!IsPrefix(a, c)
<1>1. /\ Len(a) \in Nat /\ Len(b) \in Nat /\ Len(c) \in Nat
      /\ Len(a) <= Len(b) /\ Len(b) <= Len(c)
      /\ DOMAIN a = 1 .. Len(a) /\ DOMAIN b = 1 .. Len(b) /\ DOMAIN c = 1 .. Len(c)
  BY DEF Seqs!IsPrefix
<1>2. \A k \in 1 .. Len(a) : c[k] = a[k]
  BY <1>1, PrefixKeeps
<1>3. SubSeq(a, 1, Len(a)) = SubSeq(c, 1, Len(a))
  <2> DEFINE s == SubSeq(a, 1, Len(a))
             t == SubSeq(c, 1, Len(a))
  <2>1. s \in Seq(Commits) /\ t \in Seq(Commits) /\ Len(s) = Len(a) /\ Len(t) = Len(a)
    BY <1>1
  <2>2. \A k \in 1 .. Len(a) : s[k] = a[k] /\ t[k] = c[k]
    BY <1>1
  <2> HIDE DEF s, t
  <2>3. s = t
    BY <1>1, <1>2, <2>1, <2>2
  <2> QED
    BY <2>3 DEF s, t
<1> QED
  BY <1>1, <1>3 DEF Seqs!IsPrefix

\* A commit on top of a history
LEMMA CommitKeeps ==
    ASSUME NEW h \in Seq(Commits), NEW commit \in Commits
    PROVE  /\ Append(h, commit) \in Seq(Commits)
           /\ \A i \in Issues : HasPlanFile(h, i) => HasPlanFile(Append(h, commit), i)
           /\ commit.file = "plan" => HasPlanFile(Append(h, commit), commit.issue)
<1>1. /\ Append(h, commit) \in Seq(Commits)
      /\ Len(h) \in Nat /\ DOMAIN h = 1 .. Len(h)
      /\ DOMAIN Append(h, commit) = 1 .. Len(h) + 1
      /\ \A k \in 1 .. Len(h) : Append(h, commit)[k] = h[k]
      /\ Append(h, commit)[Len(h) + 1] = commit
  OBVIOUS
<1>2. 1 .. Len(h) \subseteq 1 .. Len(h) + 1 /\ Len(h) + 1 \in 1 .. Len(h) + 1
  BY <1>1
<1> QED
  BY <1>1, <1>2 DEF HasPlanFile, PlanCommits

\* The plan a comment names is the last one of the branch.
LEMMA LastPlanHeld ==
    ASSUME NEW h \in Seq(Commits), NEW i \in Issues, HasPlanFile(h, i)
    PROVE  LastPlan(h, i) \in Commits /\ Holds(h, LastPlan(h, i))
<1> DEFINE K == PlanCommits(h, i)
<1>1. Len(h) \in Nat /\ DOMAIN h = 1 .. Len(h) /\ \A k \in DOMAIN h : h[k] \in Commits
  OBVIOUS
<1>2. K \in SUBSET (1 .. Len(h)) /\ K # {}
  BY <1>1 DEF PlanCommits, HasPlanFile
<1> HIDE DEF K
<1>3. \E k \in K : \A j \in K : j <= k
  BY <1>1, <1>2, LastExists
<1> DEFINE last == CHOOSE k \in K : \A j \in K : j <= k
<1>4. last \in K
  BY <1>3
<1> HIDE DEF last
<1>5. LastPlan(h, i) = h[last]
  BY DEF LastPlan, last, K
<1> QED
  BY <1>1, <1>2, <1>4, <1>5 DEF Holds
-------------------------------------------------------------------------------
(* The tracker side of a step *)

\* A push that is refused ends the command.
LEMMA RefusedPush ==
    ASSUME IndInv, NEW w \in Workers, Return(w), UNCHANGED <<tracker, task, faults>>
    PROVE  IndInv'
<1>1. /\ item' = item /\ assigned' = assigned /\ comments' = comments
      /\ answered' = answered /\ task' = task /\ faults' = faults
  BY DEF tracker
<1>2. TypeOK'
  BY <1>1, ReturnTyped DEF IndInv, TypeOK
<1>3. TaskNamesIssue(w)'
  BY <1>1 DEF IndInv, WorkerInv, TaskNamesIssue
<1>4. WorkerInv(w)'
  BY <1>3, ReturnedWorker DEF IndInv
<1>5. ApprovalsKept /\ OthersKept(w) /\ ItemsLegal
  BY <1>1 DEF IndInv, TypeOK, Return, ApprovalsKept, OthersKept, ItemsLegal
<1> QED
  BY <1>2, <1>4, <1>5, WorkerStep

\* A step of a clone is one of the helper, or leaves the tracker alone.
LEMMA TrackerKept == IndInv /\ BranchesNext => IndInv'
<1> SUFFICES ASSUME IndInv, BranchesNext PROVE IndInv'
  OBVIOUS
<1>1. CASE Next
  BY <1>1, StepKept
<1>2. CASE UNCHANGED vars
  BY <1>2, StutterKept
<1>3. CASE \E w \in Workers : Return(w) /\ UNCHANGED <<tracker, task, faults>>
  BY <1>3, RefusedPush
<1>4. CASE faults' = faults + 1 /\ UNCHANGED <<tracker, pc, job, nextVars, task>>
  <2>1. TypeOK'
    BY <1>4 DEF IndInv, TypeOK, tracker, nextVars
  <2> QED
    BY <1>4, <2>1 DEF IndInv, tracker, nextVars, ImplementationNeedsApproval,
       HumanStagesAreQueued, WorkerInv, AddressesIssue, TaskNamesIssue, WritesLegalTransition,
       ClaimsAgentStage, KnowsApproval
<1>5. \/ Next \/ UNCHANGED vars
      \/ \E w \in Workers : Return(w) /\ UNCHANGED <<tracker, task, faults>>
      \/ faults' = faults + 1 /\ UNCHANGED <<tracker, pc, job, nextVars, task>>
  <2>1. CASE \E i \in Issues : HumanComment(i) /\ UNCHANGED gitVars
    BY <2>1 DEF Next
  <2>2. ASSUME NEW w \in Workers, TrackerStep(w)
        PROVE  Next
    BY <2>2 DEF TrackerStep, Next, Start, Continue
  <2>3. ASSUME NEW w \in Workers,
               \/ NextInClone(w) \/ SelectInClone(w)
               \/ \E i \in Issues : ClaimInClone(w, i) \/ RevisePlanInClone(w, i)
               \/ LabelAndCheckOut(w) \/ PostPlanInClone(w) \/ PatchAfterPush(w)
               \/ PublishLink(w) \/ PullRequestInClone(w)
        PROVE  Next
    BY <2>3 DEF NextInClone, SelectInClone, ClaimInClone, RevisePlanInClone, LabelAndCheckOut,
       PostPlanInClone, PatchAfterPush, PublishLink, PullRequestInClone, Next, Start, Continue
  <2>4. ASSUME NEW w \in Workers,
               Edit(w) \/ CleanWorktree(w) \/ CommitPlan(w) \/ CommitWork(w) \/ PushWork(w)
        PROVE  UNCHANGED vars
    BY <2>4 DEF Edit, CleanWorktree, CommitPlan, CommitWork, PushWork
  <2>5. ASSUME NEW w \in Workers, PushPlan(w)
        PROVE  UNCHANGED vars \/ (Return(w) /\ UNCHANGED <<tracker, task, faults>>)
    BY <2>5 DEF PushPlan
  <2>6. ASSUME NEW w \in Workers, FailInClone(w)
        PROVE  Next \/ (faults' = faults + 1 /\ UNCHANGED <<tracker, pc, job, nextVars, task>>)
    BY <2>6 DEF FailInClone, Next
  <2> QED
    BY <2>1, <2>2, <2>3, <2>4, <2>5, <2>6 DEF BranchesNext
<1> QED
  BY <1>1, <1>2, <1>3, <1>4, <1>5
-------------------------------------------------------------------------------
(* What a step of the helper takes for granted about plans.  The plan is the   *)
(* one pushed before the step; that no step withdraws one comes later.         *)

StagesKnown ==
    \A i \in Issues \ localOnly : item'[i].stage \in PlanStages => PlanIsPushed(i)

CopyKnown(w) ==
    job'[w].issue \in Issues \ localOnly /\ job'[w].seen.stage \in PlanStages =>
        PlanIsPushed(job'[w].issue)

ViewKnown(w) ==
    \A i \in Issues \ localOnly : view'[w][i].stage \in PlanStages => PlanIsPushed(i)

WorkerKnows(w) == CopyKnown(w) /\ ViewKnown(w) /\ KnowsCommand(w)'

Publishes(w) == job[w].command = "post-plan" /\ pc[w] \in {"patch", "release", "publish"}

\* A command that publishes a plan goes on, of the same issue.
GoesOn(w) == Publishes(w)' => Publishes(w) /\ job'[w].issue = job[w].issue

\* A command that returns remembers nothing it would have to know.
LEMMA ReturnKnows ==
    ASSUME TypeOK, NEW w \in Workers, Return(w)
    PROVE  WorkerKnows(w) /\ GoesOn(w)
<1>1. pc'[w] = "idle" /\ job'[w] = NoJob /\ view'[w] = NoView
  BY DEF Return, TypeOK
<1>2. 0 \notin Issues /\ NoJob.issue = 0 /\ NoJob.signal = "none"
  BY WorkflowAssumption DEF NoJob
<1>3. \A i \in Issues : NoView[i].stage \notin PlanStages
  BY DEF NoView, NoItem, NewItem, PlanStages
<1> QED
  BY <1>1, <1>2, <1>3 DEF WorkerKnows, CopyKnown, ViewKnown, KnowsCommand, GoesOn, Publishes

\* A command that begins knows the plans its copy says are waiting.
LEMMA BeginKnows ==
    ASSUME TypeOK, WaitingPlanIsPushed, NEW w \in Workers, KnowsPlan(w),
           NEW command, NEW i \in Issues, NEW signal, NEW next,
           Begin(w, command, i, signal, next), UNCHANGED view,
           next \in {"read", "comments", "sync"} => command # "post-plan",
           signal = "plan-posted" \/ next = "publish" => command = "post-plan"
    PROVE  WorkerKnows(w) /\ (command # "post-plan" => GoesOn(w))
<1>1. /\ pc'[w] = next /\ job'[w].issue = i /\ job'[w].seen = item[i]
      /\ job'[w].signal = signal /\ job'[w].command = command
  BY DEF Begin, TypeOK, NoJob
<1>2. CopyKnown(w)
  BY <1>1 DEF CopyKnown, WaitingPlanIsPushed
<1>3. ViewKnown(w)
  BY DEF ViewKnown, KnowsPlan
<1> QED
  BY <1>1, <1>2, <1>3 DEF WorkerKnows, KnowsCommand, GoesOn, Publishes

\* So does a `next` that goes on after a sync.
LEMMA AfterSyncKnows ==
    ASSUME TypeOK, NEW w \in Workers, KnowsPlan(w), job[w].issue \in Issues, NEW stage,
           stage \in PlanStages /\ job[w].issue \notin localOnly => PlanIsPushed(job[w].issue),
           AfterSync(w, stage)
    PROVE  WorkerKnows(w) /\ GoesOn(w)
<1>1. CASE job[w].command = "next"
  <2>1. /\ pc'[w] = "sync" /\ job'[w] = [NoJob EXCEPT !.command = "next"]
        /\ view' = [view EXCEPT ![w] = [view[w] EXCEPT ![job[w].issue].stage = stage]]
    BY <1>1 DEF AfterSync, TypeOK
  <2>2. /\ 0 \notin Issues /\ job'[w].issue = 0
        /\ job'[w].signal = "none" /\ job'[w].command = "next"
    BY <2>1, WorkflowAssumption DEF NoJob
  <2>3. ViewKnown(w)
    <3>1. view[w] \in [Issues -> Items]
      BY DEF TypeOK
    <3>2. \A i \in Issues :
            view'[w][i] = IF i = job[w].issue THEN [view[w][i] EXCEPT !.stage = stage]
                          ELSE view[w][i]
      BY <2>1, <3>1 DEF TypeOK
    <3>3. \A i \in Issues : view[w][i] \in Items
      BY <3>1
    <3> QED
      BY <3>2, <3>3 DEF Items, KnowsPlan, ViewKnown
  <2> QED
    BY <2>1, <2>2, <2>3 DEF WorkerKnows, CopyKnown, KnowsCommand, GoesOn, Publishes
<1>2. CASE job[w].command # "next"
  BY <1>2, ReturnKnows DEF AfterSync
<1> QED
  BY <1>1, <1>2

\* The stage machine leads into a plan's review or approval by the plan or from
\* there.
LEMMA PlanStageFacts ==
    ASSUME NEW stage, NEW signal, NEW route, IsTransition(stage, signal, route),
           NextStage(stage, signal, route) \in PlanStages
    PROVE  signal = "plan-posted" \/ stage \in PlanStages
<1> DEFINE row == CHOOSE row \in TransitionTable(route) :
                      row.stage = stage /\ row.signal = signal
<1>1. row \in TransitionTable(route) /\ row.stage = stage /\ row.signal = signal
  BY DEF IsTransition
<1>2. \A r \in TransitionTable(route) :
          r.next \in PlanStages => r.signal = "plan-posted" \/ r.stage \in PlanStages
  BY DEF TransitionTable, Row, PlanStages
<1>3. row.next \in PlanStages
  BY DEF NextStage
<1> HIDE DEF row
<1> QED
  BY <1>1, <1>2, <1>3

\* A transition into a stage with a plan is about an issue whose plan is pushed.
LEMMA DecisionKnown ==
    ASSUME BranchesInv, NEW w \in Workers, GitDone(w), pc[w] \in {"patch", "release"},
           Decision(w).stage \in PlanStages, job[w].issue \notin localOnly
    PROVE  PlanIsPushed(job[w].issue)
<1>1. /\ WritesLegalTransition(w) /\ job[w].issue \in Issues
      /\ KnowsCommand(w) /\ KnowsPlan(w) /\ PlanComesFirst(w)
      /\ git[w] = "none"
  BY DEF BranchesInv, IndInv, WorkerInv, AddressesIssue, PlanComesFirst, GitDone
<1>2. \/ job[w].signal = "plan-posted" \/ job[w].seen.stage \in PlanStages
  BY <1>1, PlanStageFacts DEF WritesLegalTransition, Decision, TransitionWorkflow
<1>3. CASE job[w].seen.stage \in PlanStages
  BY <1>1, <1>3 DEF KnowsPlan
<1>4. CASE job[w].signal = "plan-posted"
  <2> DEFINE history == local[w][head[w]]
  <2>1. job[w].command = "post-plan"
    BY <1>1, <1>4 DEF KnowsCommand
  <2>2. /\ HasPlanFile(history, job[w].issue)
        /\ Exists(origin, head[w]) /\ Seqs!IsPrefix(history, origin[head[w]])
    BY <1>1, <2>1 DEF PlanComesFirst
  <2>3. /\ head[w] \in Branches /\ history \in Histories /\ origin[head[w]] \in Histories
        /\ Exists(local[w], head[w])
    BY DEF BranchesInv, BranchesTypeOK
  <2>4. history \in Seq(Commits) /\ origin[head[w]] \in Seq(Commits)
    BY <2>2, <2>3, AbsentIsNoHistory DEF Exists
  <2>5. HasPlanFile(origin[head[w]], job[w].issue)
    <3> HIDE DEF history
    <3> QED
      BY <1>1, <2>2, <2>4, PrefixKeeps
  <2> QED
    BY <2>2, <2>3, <2>5 DEF PlanIsPushed
<1> QED
  BY <1>2, <1>3, <1>4
\* Commands that publish no plan
StartsOther(w) ==
    \/ \E i \in Issues :
          ApprovalCommand(w, i) \/ RecordDecision(w, i) \/ ClaimCommand(w, i) \/ ResetCommand(w, i)
    \/ StageReview(w)
    \/ CreatePullRequest(w)
    \/ Complete(w)

StartsPlain(w) == StartsOther(w) \/ NextCommand(w)

StartsPlan(w) == PostPlan(w) \/ \E i \in Issues : RevisePlan(w, i)

\* A command that starts has read the tracker just now.
LEMMA StartKnows ==
    ASSUME BranchesInv, NEW w \in Workers
    PROVE  /\ StartsPlain(w) => StagesKnown /\ WorkerKnows(w) /\ GoesOn(w)
           /\ StartsPlan(w) => StagesKnown /\ WorkerKnows(w)
<1>1. /\ TypeOK /\ WaitingPlanIsPushed /\ KnowsPlan(w) /\ KnowsCommand(w)
      /\ \A i \in Issues : item[i] \in Items
  BY DEF BranchesInv, IndInv, TypeOK
<1>2. UNCHANGED item => StagesKnown
  BY <1>1 DEF StagesKnown, WaitingPlanIsPushed
<1>3. ASSUME NEW i \in Issues,
             \/ ApprovalCommand(w, i) \/ ClaimCommand(w, i) \/ ResetCommand(w, i)
      PROVE  StagesKnown /\ WorkerKnows(w) /\ GoesOn(w)
  <2>1. UNCHANGED <<item, view>>
    BY <1>3 DEF ApprovalCommand, ClaimCommand, ResetCommand, tracker, nextVars
  <2>2. CASE Begin(w, "approval", i, "none", "comments")
    BY <1>1, <1>2, <2>1, <2>2, BeginKnows
  <2>3. CASE Begin(w, "claim", i, "none", "claim")
    BY <1>1, <1>2, <2>1, <2>3, BeginKnows
  <2>4. CASE Begin(w, "reset-for-next", i, "none", "reset")
    BY <1>1, <1>2, <2>1, <2>4, BeginKnows
  <2> QED
    BY <1>3, <2>2, <2>3, <2>4 DEF ApprovalCommand, ClaimCommand, ResetCommand
<1>4. ASSUME NEW i \in Issues, RecordDecision(w, i)
      PROVE  StagesKnown /\ WorkerKnows(w) /\ GoesOn(w)
  <2>1. /\ UNCHANGED <<item, view>> /\ pc'[w] = "read"
        /\ job'[w] = [NoJob EXCEPT !.command = "approval", !.issue = i]
    BY <1>1, <1>4 DEF RecordDecision, TypeOK, nextVars
  <2>2. /\ job'[w].seen.stage = "Planning" /\ job'[w].command = "approval"
        /\ job'[w].signal = "none"
    BY <2>1 DEF NoJob, NoItem, NewItem
  <2> QED
    BY <1>1, <1>2, <2>1, <2>2 DEF WorkerKnows, CopyKnown, ViewKnown, KnowsCommand, KnowsPlan,
       PlanStages, GoesOn, Publishes
<1>5. ASSUME NEW i \in Issues, RevisePlan(w, i)
      PROVE  StagesKnown /\ WorkerKnows(w)
  <2>1. Begin(w, "post-plan", i, "none", "publish") /\ UNCHANGED <<item, view>>
    BY <1>5 DEF RevisePlan, tracker, nextVars
  <2> QED
    BY <1>1, <1>2, <2>1, BeginKnows
<1>6. ASSUME PostPlan(w)
      PROVE  StagesKnown /\ WorkerKnows(w)
  <2>1. /\ Begin(w, "post-plan", task[w].issue, "plan-posted", "patch")
        /\ UNCHANGED <<item, view>> /\ task[w].issue \in Issues
    BY <1>6 DEF PostPlan, tracker, nextVars, BranchesInv, IndInv, WorkerInv, TaskNamesIssue
  <2> QED
    BY <1>1, <1>2, <2>1, BeginKnows
<1>7. ASSUME StageReview(w) \/ Complete(w)
      PROVE  StagesKnown /\ WorkerKnows(w) /\ GoesOn(w)
  <2>1. UNCHANGED <<item, view>> /\ task[w].issue \in Issues
    BY <1>7 DEF StageReview, Complete, tracker, nextVars, BranchesInv, IndInv, WorkerInv,
       TaskNamesIssue
  <2>2. PICK command \in {"stage-review", "complete"},
             signal \in {"review-ready", "review-changes", "implementation-complete"} :
          Begin(w, command, task[w].issue, signal, "patch")
    BY <1>7 DEF StageReview, Complete
  <2> QED
    BY <1>1, <1>2, <2>1, <2>2, BeginKnows
<1>8. ASSUME CreatePullRequest(w)
      PROVE  StagesKnown /\ WorkerKnows(w) /\ GoesOn(w)
  <2>1. \A i \in Issues : item'[i].stage = item[i].stage
    BY <1>1, <1>8 DEF CreatePullRequest, TypeOK, Items
  <2>2. UNCHANGED <<pc, job, view>>
    BY <1>8 DEF CreatePullRequest, nextVars
  <2> QED
    BY <1>1, <2>1, <2>2 DEF StagesKnown, WaitingPlanIsPushed, WorkerKnows, CopyKnown, ViewKnown,
       KnowsCommand, KnowsPlan, GoesOn, Publishes
<1>9. ASSUME NextCommand(w)
      PROVE  StagesKnown /\ WorkerKnows(w) /\ GoesOn(w)
  <2>1. /\ UNCHANGED item /\ pc'[w] = "sync" /\ view'[w] = item
        /\ job'[w] = [NoJob EXCEPT !.command = "next"]
    BY <1>1, <1>9 DEF NextCommand, TypeOK, tracker
  <2>2. /\ 0 \notin Issues /\ job'[w].issue = 0
        /\ job'[w].signal = "none" /\ job'[w].command = "next"
    BY <2>1, WorkflowAssumption DEF NoJob
  <2> QED
    BY <1>1, <1>2, <2>1, <2>2 DEF WorkerKnows, CopyKnown, ViewKnown, KnowsCommand,
       WaitingPlanIsPushed, GoesOn, Publishes
<1> QED
  BY <1>3, <1>4, <1>5, <1>6, <1>7, <1>8, <1>9 DEF StartsPlain, StartsOther, StartsPlan
\* A command that goes on writes what it read or decided, and no more.
LEMMA ContinueKnows ==
    ASSUME BranchesInv, NEW w \in Workers, GitDone(w), Continue(w)
    PROVE  StagesKnown /\ WorkerKnows(w) /\ GoesOn(w)
<1>1. /\ TypeOK /\ WaitingPlanIsPushed /\ KnowsPlan(w) /\ KnowsCommand(w)
      /\ \A i \in Issues : item[i] \in Items
      /\ job[w] \in Jobs /\ WorkerInv(w)
      /\ pc[w] \notin {"idle", "sync"} => job[w].issue \in Issues
  BY DEF BranchesInv, IndInv, TypeOK, WorkerInv, AddressesIssue
<1>2. UNCHANGED item => StagesKnown
  BY <1>1 DEF StagesKnown, WaitingPlanIsPushed
<1>3. (\A i \in Issues : item'[i].stage = item[i].stage) => StagesKnown
  BY <1>1 DEF StagesKnown, WaitingPlanIsPushed
<1>4. UNCHANGED view => ViewKnown(w)
  BY <1>1 DEF ViewKnown, KnowsPlan
<1>5. ASSUME ReadItem(w) PROVE StagesKnown /\ WorkerKnows(w) /\ GoesOn(w)
  <2>1. /\ UNCHANGED <<item, view>> /\ pc[w] = "read" /\ pc'[w] = "comments"
        /\ job'[w] = [job[w] EXCEPT !.seen = item[job[w].issue]]
    BY <1>1, <1>5 DEF ReadItem, TypeOK, tracker, nextVars
  <2>2. /\ job'[w].seen = item[job[w].issue] /\ job'[w].issue = job[w].issue
        /\ job'[w].command = job[w].command /\ job'[w].signal = job[w].signal
    BY <1>1, <2>1 DEF Jobs
  <2> QED
    BY <1>1, <1>2, <1>4, <2>1, <2>2 DEF WorkerKnows, CopyKnown, KnowsCommand,
       WaitingPlanIsPushed, GoesOn, Publishes
<1>6. ASSUME ReadComments(w) PROVE StagesKnown /\ WorkerKnows(w) /\ GoesOn(w)
  <2>1. /\ UNCHANGED item /\ pc[w] = "comments" /\ job[w].issue \in Issues
    BY <1>1, <1>6 DEF ReadComments, tracker
  <2>2. CASE AfterSync(w, job[w].seen.stage)
    BY <1>1, <1>2, <2>1, <2>2, AfterSyncKnows DEF KnowsPlan
  <2>3. ASSUME NEW event \in HumanSignals \union {"none"}, NEW at,
               job' = [job EXCEPT ![w].signal = event, ![w].at = at],
               pc' = [pc EXCEPT ![w] = "patch"], UNCHANGED nextVars
        PROVE  StagesKnown /\ WorkerKnows(w) /\ GoesOn(w)
    <3>1. /\ pc'[w] = "patch" /\ UNCHANGED view
          /\ job'[w] = [job[w] EXCEPT !.signal = event, !.at = at]
      BY <1>1, <2>3 DEF TypeOK, nextVars
    <3>2. /\ job'[w].seen = job[w].seen /\ job'[w].issue = job[w].issue
          /\ job'[w].command = job[w].command /\ job'[w].signal = event
      BY <1>1, <3>1 DEF Jobs
    <3>3. event # "plan-posted" /\ job[w].command # "post-plan"
      BY <1>1, <2>1 DEF HumanSignals, KnowsCommand
    <3> QED
      BY <1>1, <1>2, <1>4, <2>1, <3>1, <3>2, <3>3 DEF WorkerKnows, CopyKnown, KnowsCommand,
         KnowsPlan, GoesOn, Publishes
  <2>4. ApprovalEvent(LatestReply(comments[job[w].issue])) \in HumanSignals \union {"none"}
    BY ApprovalEventFacts
  <2> QED
    BY <1>6, <2>2, <2>3, <2>4 DEF ReadComments
<1>7. ASSUME PatchTransition(w) PROVE StagesKnown /\ WorkerKnows(w) /\ GoesOn(w)
  <2>1. /\ UNCHANGED view /\ pc[w] = "patch" /\ pc'[w] = "release" /\ job[w].issue \in Issues
        /\ job'[w] = [job[w] EXCEPT !.drop = job[w].seen.labels]
    BY <1>1, <1>7 DEF PatchTransition, TypeOK, nextVars
  <2>2. /\ job'[w].seen = job[w].seen /\ job'[w].issue = job[w].issue
        /\ job'[w].command = job[w].command /\ job'[w].signal = job[w].signal
    BY <1>1, <2>1 DEF Jobs
  <2>3. \A i \in Issues : item'[i].stage =
            IF i = job[w].issue THEN Decision(w).stage ELSE item[i].stage
    BY <1>1, <1>7, <2>1 DEF PatchTransition, TypeOK, Items
  <2>4. StagesKnown
    BY <1>1, <2>1, <2>3, DecisionKnown DEF StagesKnown, WaitingPlanIsPushed
  <2> QED
    BY <1>1, <1>4, <2>1, <2>2, <2>4 DEF WorkerKnows, CopyKnown, KnowsCommand, KnowsPlan, GoesOn,
       Publishes
<1>8. ASSUME RemoveLabel(w) PROVE StagesKnown /\ WorkerKnows(w) /\ GoesOn(w)
  <2>1. PICK label \in job[w].drop :
          /\ item' = [item EXCEPT ![job[w].issue].labels = @ \ {label}]
          /\ job' = [job EXCEPT ![w].drop = @ \ {label}]
    BY <1>8 DEF RemoveLabel
  <2>2. /\ UNCHANGED <<pc, view>>
        /\ job'[w] = [job[w] EXCEPT !.drop = @ \ {label}]
    BY <1>1, <1>8, <2>1 DEF RemoveLabel, TypeOK, nextVars
  <2>3. /\ job'[w].seen = job[w].seen /\ job'[w].issue = job[w].issue
        /\ job'[w].command = job[w].command /\ job'[w].signal = job[w].signal
    BY <1>1, <2>2 DEF Jobs
  <2>4. \A i \in Issues : item'[i].stage = item[i].stage
    BY <1>1, <2>1 DEF TypeOK, Items
  <2> QED
    BY <1>1, <1>3, <1>4, <2>2, <2>3, <2>4 DEF WorkerKnows, CopyKnown, KnowsCommand, KnowsPlan,
       GoesOn, Publishes
<1>9. ASSUME AssignOwner(w) PROVE StagesKnown /\ WorkerKnows(w) /\ GoesOn(w)
  <2>1. UNCHANGED item /\ pc[w] = "release" /\ job[w].issue \in Issues
    BY <1>1, <1>9 DEF AssignOwner
  <2>2. CASE AfterSync(w, Decision(w).stage)
    <3>1. Decision(w).stage \in PlanStages /\ job[w].issue \notin localOnly =>
              PlanIsPushed(job[w].issue)
      BY <2>1, DecisionKnown
    <3> QED
      BY <1>1, <1>2, <2>1, <2>2, <3>1, AfterSyncKnows
  <2>3. CASE job[w].command = "post-plan" /\ pc' = [pc EXCEPT ![w] = "publish"]
             /\ UNCHANGED <<job, nextVars, task>>
    BY <1>1, <1>2, <1>4, <2>1, <2>3 DEF TypeOK, nextVars, WorkerKnows, CopyKnown, KnowsCommand,
       KnowsPlan, GoesOn, Publishes
  <2> QED
    BY <1>9, <2>2, <2>3 DEF AssignOwner
<1>10. ASSUME PublishPlan(w) \/ ResetDone(w)
       PROVE  StagesKnown /\ WorkerKnows(w) /\ GoesOn(w)
  BY <1>1, <1>2, <1>10, ReturnKnows DEF PublishPlan, ResetDone, tracker
<1>11. ASSUME AddOwnLabel(w) PROVE StagesKnown /\ WorkerKnows(w) /\ GoesOn(w)
  <2>1. \A i \in Issues : item'[i].stage = item[i].stage
    BY <1>1, <1>11 DEF AddOwnLabel, TypeOK, Items
  <2> QED
    BY <1>1, <1>3, <1>11, <2>1, ReturnKnows DEF AddOwnLabel
<1>12. ASSUME NextReadItem(w) PROVE StagesKnown /\ WorkerKnows(w) /\ GoesOn(w)
  <2>1. PICK i \in pending[w] :
          /\ job' = [job EXCEPT ![w].issue = i, ![w].seen = item[i]]
          /\ pc' = [pc EXCEPT ![w] = "comments"]
    BY <1>12 DEF NextReadItem
  <2>2. /\ UNCHANGED <<item, view>> /\ i \in Issues
        /\ pc[w] = "sync" /\ pc'[w] = "comments"
        /\ job'[w] = [job[w] EXCEPT !.issue = i, !.seen = item[i]]
    BY <1>1, <1>12, <2>1 DEF NextReadItem, TypeOK, tracker, nextVars
  <2>3. /\ job'[w].seen = item[i] /\ job'[w].issue = i
        /\ job'[w].command = job[w].command /\ job'[w].signal = job[w].signal
    BY <1>1, <2>2 DEF Jobs
  <2> QED
    BY <1>1, <1>2, <1>4, <2>2, <2>3 DEF WorkerKnows, CopyKnown, KnowsCommand,
       WaitingPlanIsPushed, GoesOn, Publishes
<1>13. ASSUME Select(w) PROVE StagesKnown /\ WorkerKnows(w) /\ GoesOn(w)
  <2>1. UNCHANGED item /\ pc[w] = "sync"
    BY <1>13 DEF Select, tracker
  <2>2. CASE Return(w)
    BY <1>1, <1>2, <2>1, <2>2, ReturnKnows
  <2>3. ASSUME NEW i \in Issues, BeginClaim(w, i)
        PROVE  StagesKnown /\ WorkerKnows(w) /\ GoesOn(w)
    <3>1. /\ UNCHANGED view /\ pc'[w] = "claim"
          /\ job'[w] = [job[w] EXCEPT !.issue = i, !.seen = view[w][i]]
      BY <1>1, <2>3 DEF BeginClaim, TypeOK, nextVars
    <3>2. /\ job'[w].seen = view[w][i] /\ job'[w].issue = i
          /\ job'[w].command = job[w].command /\ job'[w].signal = job[w].signal
      BY <1>1, <3>1 DEF Jobs
    <3> QED
      BY <1>1, <1>2, <1>4, <2>1, <3>1, <3>2 DEF WorkerKnows, CopyKnown, KnowsCommand, KnowsPlan,
         GoesOn, Publishes
  <2> QED
    BY <1>13, <2>2, <2>3, SelectCases DEF Resume
<1>14. ASSUME ClaimPatch(w) PROVE StagesKnown /\ WorkerKnows(w) /\ GoesOn(w)
  <2>1. /\ UNCHANGED view /\ pc[w] = "claim" /\ pc'[w] = "relabel" /\ job[w].issue \in Issues
        /\ job'[w] = [job[w] EXCEPT !.drop = job[w].seen.labels \ {w}]
    BY <1>1, <1>14 DEF ClaimPatch, TypeOK, nextVars
  <2>2. /\ job'[w].seen = job[w].seen /\ job'[w].issue = job[w].issue
        /\ job'[w].command = job[w].command /\ job'[w].signal = job[w].signal
    BY <1>1, <2>1 DEF Jobs
  <2>3. \A i \in Issues : item'[i].stage =
            IF i = job[w].issue THEN job[w].seen.stage ELSE item[i].stage
    BY <1>1, <1>14, <2>1 DEF ClaimPatch, TypeOK, Items
  <2>4. StagesKnown
    BY <1>1, <2>1, <2>3 DEF StagesKnown, WaitingPlanIsPushed, KnowsPlan
  <2> QED
    BY <1>1, <1>4, <2>1, <2>2, <2>4 DEF WorkerKnows, CopyKnown, KnowsCommand, KnowsPlan, GoesOn,
       Publishes
<1>15. ASSUME ResetPatch(w) PROVE StagesKnown /\ WorkerKnows(w) /\ GoesOn(w)
  <2>1. /\ UNCHANGED <<job, view>> /\ pc[w] = "reset" /\ pc'[w] = "unassign"
        /\ job[w].issue \in Issues
    BY <1>1, <1>15 DEF ResetPatch, TypeOK, nextVars
  <2>2. \A i \in Issues : item'[i].stage =
            IF i = job[w].issue THEN "Planning" ELSE item[i].stage
    BY <1>1, <1>15, <2>1 DEF ResetPatch, TypeOK, Items
  <2>3. StagesKnown
    BY <1>1, <2>2 DEF StagesKnown, WaitingPlanIsPushed, PlanStages
  <2> QED
    BY <1>1, <1>4, <2>1, <2>3 DEF WorkerKnows, CopyKnown, KnowsCommand, KnowsPlan, GoesOn,
       Publishes
<1>16. ASSUME ResetAssignee(w) PROVE StagesKnown /\ WorkerKnows(w) /\ GoesOn(w)
  <2>1. /\ UNCHANGED <<item, view>> /\ pc[w] = "unassign" /\ pc'[w] = "unlabel"
        /\ job'[w] = [job[w] EXCEPT !.drop = job[w].seen.labels]
    BY <1>1, <1>16 DEF ResetAssignee, TypeOK, nextVars
  <2>2. /\ job'[w].seen = job[w].seen /\ job'[w].issue = job[w].issue
        /\ job'[w].command = job[w].command /\ job'[w].signal = job[w].signal
    BY <1>1, <2>1 DEF Jobs
  <2> QED
    BY <1>1, <1>2, <1>4, <2>1, <2>2 DEF WorkerKnows, CopyKnown, KnowsCommand, KnowsPlan, GoesOn,
       Publishes
<1> QED
  BY <1>5, <1>6, <1>7, <1>8, <1>9, <1>10, <1>11, <1>12, <1>13, <1>14, <1>15, <1>16 DEF Continue
-------------------------------------------------------------------------------
(* Steps of one worker leave the others, and their clones, alone. *)

Alone(w) ==
    \A v \in Workers \ {w} : pc'[v] = pc[v] /\ job'[v] = job[v] /\ view'[v] = view[v]

\* A call changes the memory of one worker's helper only.
LEMMA HelperAlone ==
    ASSUME TypeOK, NEW w \in Workers, Start(w) \/ Continue(w) \/ Return(w)
    PROVE  Alone(w)
<1>1. Return(w) => Alone(w)
  BY DEF Return, TypeOK, Alone
<1>2. ASSUME NEW command, NEW i, NEW signal, NEW next, Begin(w, command, i, signal, next),
             UNCHANGED nextVars
      PROVE  Alone(w)
  BY <1>2 DEF Begin, TypeOK, Alone, nextVars
<1>3. ASSUME NEW stage, AfterSync(w, stage) PROVE Alone(w)
  BY <1>1, <1>3 DEF AfterSync, TypeOK, Alone
<1>4. CASE Start(w)
  <2>1. ASSUME NEW i \in Issues,
               \/ ApprovalCommand(w, i) \/ RevisePlan(w, i)
               \/ ClaimCommand(w, i) \/ ResetCommand(w, i)
        PROVE  Alone(w)
    BY <1>2, <2>1 DEF ApprovalCommand, RevisePlan, ClaimCommand, ResetCommand
  <2>2. ASSUME NEW i \in Issues, RecordDecision(w, i) PROVE Alone(w)
    BY <2>2 DEF RecordDecision, TypeOK, Alone, nextVars
  <2>3. ASSUME PostPlan(w) \/ StageReview(w) \/ Complete(w) PROVE Alone(w)
    BY <1>2, <2>3 DEF PostPlan, StageReview, Complete
  <2>4. ASSUME CreatePullRequest(w) \/ NextCommand(w) PROVE Alone(w)
    BY <2>4 DEF CreatePullRequest, NextCommand, TypeOK, Alone, nextVars
  <2> QED
    BY <1>4, <2>1, <2>2, <2>3, <2>4 DEF Start
<1>5. CASE Continue(w)
  <2>1. ASSUME ReadItem(w) \/ PatchTransition(w) \/ RemoveLabel(w) PROVE Alone(w)
    BY <2>1 DEF ReadItem, PatchTransition, RemoveLabel, TypeOK, Alone, nextVars
  <2>2. ASSUME NextReadItem(w) \/ ClaimPatch(w) \/ ResetPatch(w) \/ ResetAssignee(w)
        PROVE  Alone(w)
    BY <2>2 DEF NextReadItem, ClaimPatch, ResetPatch, ResetAssignee, TypeOK, Alone, nextVars
  <2>3. ASSUME ReadComments(w) PROVE Alone(w)
    <3>1. CASE AfterSync(w, job[w].seen.stage)
      BY <1>3, <3>1
    <3>2. ASSUME NEW event, NEW at,
                 job' = [job EXCEPT ![w].signal = event, ![w].at = at],
                 pc' = [pc EXCEPT ![w] = "patch"], UNCHANGED nextVars
          PROVE  Alone(w)
      BY <3>2 DEF TypeOK, Alone, nextVars
    <3> QED
      BY <2>3, <3>1, <3>2 DEF ReadComments
  <2>4. ASSUME AssignOwner(w) PROVE Alone(w)
    <3>1. CASE AfterSync(w, Decision(w).stage)
      BY <1>3, <3>1
    <3>2. CASE pc' = [pc EXCEPT ![w] = "publish"] /\ UNCHANGED <<job, nextVars, task>>
      BY <3>2 DEF TypeOK, Alone, nextVars
    <3> QED
      BY <2>4, <3>1, <3>2 DEF AssignOwner
  <2>5. ASSUME PublishPlan(w) \/ AddOwnLabel(w) \/ ResetDone(w) PROVE Alone(w)
    BY <1>1, <2>5 DEF PublishPlan, AddOwnLabel, ResetDone
  <2>6. ASSUME Select(w) PROVE Alone(w)
    <3>1. ASSUME NEW i \in Issues, BeginClaim(w, i) PROVE Alone(w)
      BY <3>1 DEF BeginClaim, TypeOK, Alone, nextVars
    <3> QED
      BY <1>1, <2>6, <3>1, SelectCases DEF Resume
  <2> QED
    BY <1>5, <2>1, <2>2, <2>3, <2>4, <2>5, <2>6 DEF Continue
<1> QED
  BY <1>1, <1>4, <1>5
-------------------------------------------------------------------------------
(* GitHub's branches only grow. *)

OriginGrows ==
    \A b \in Branches :
        Exists(origin, b) => Exists(origin', b) /\ Seqs!IsPrefix(origin[b], origin'[b])

\* Branches on GitHub grow when they stay as they are,
LEMMA UnchangedGrows ==
    ASSUME BranchesTypeOK, UNCHANGED origin
    PROVE  origin' \in [Branches -> Histories] /\ OriginGrows
<1>1. \A b \in Branches : Exists(origin, b) => origin[b] \in Seq(Commits)
  BY AbsentIsNoHistory DEF BranchesTypeOK, Exists
<1> QED
  BY <1>1, PrefixRefl DEF BranchesTypeOK, OriginGrows

\* when GitHub accepts a push,
LEMMA PushGrows ==
    ASSUME BranchesTypeOK, NEW w \in Workers, Accepts(w), Pushed(w)
    PROVE  /\ origin' \in [Branches -> Histories] /\ OriginGrows
           /\ remote' \in [Workers -> [Branches -> Histories]]
           /\ origin'[head[w]] = local[w][head[w]]
<1>1. /\ head[w] \in Branches /\ local[w][head[w]] \in Histories
      /\ Exists(local[w], head[w])
      /\ origin \in [Branches -> Histories]
      /\ remote \in [Workers -> [Branches -> Histories]]
  BY DEF BranchesTypeOK
<1>2. /\ origin' = [origin EXCEPT ![head[w]] = local[w][head[w]]]
      /\ remote' = [remote EXCEPT ![w] = [remote[w] EXCEPT ![head[w]] = local[w][head[w]]]]
  BY <1>1 DEF Pushed
<1>3. /\ origin' \in [Branches -> Histories]
      /\ remote' \in [Workers -> [Branches -> Histories]]
      /\ origin'[head[w]] = local[w][head[w]]
  BY <1>1, <1>2
<1>4. \A b \in Branches : Exists(origin, b) => origin[b] \in Seq(Commits)
  BY <1>1, AbsentIsNoHistory DEF Exists
<1>5. ASSUME NEW b \in Branches, Exists(origin, b)
      PROVE  Exists(origin', b) /\ Seqs!IsPrefix(origin[b], origin'[b])
  <2>1. CASE b = head[w]
    BY <1>1, <1>3, <1>5, <2>1 DEF Accepts, Exists
  <2>2. CASE b # head[w]
    <3>1. origin'[b] = origin[b]
      BY <1>1, <1>2, <2>2
    <3> QED
      BY <1>4, <1>5, <3>1, PrefixRefl DEF Exists
  <2> QED
    BY <2>1, <2>2
<1> QED
  BY <1>3, <1>5 DEF OriginGrows

\* and so in every step.
LEMMA OriginKept ==
    ASSUME BranchesTypeOK, BranchesNext
    PROVE  origin' \in [Branches -> Histories] /\ OriginGrows
<1>1. \/ UNCHANGED origin
      \/ \E w \in Workers : Accepts(w) /\ Pushed(w)
  <2>1. ASSUME NEW i \in Issues, HumanComment(i), UNCHANGED gitVars PROVE UNCHANGED origin
    BY <2>1 DEF gitVars
  <2>2. ASSUME NEW w \in Workers,
               TrackerStep(w) \/ PatchAfterPush(w) \/ PullRequestInClone(w)
        PROVE  UNCHANGED origin
    BY <2>2 DEF TrackerStep, PatchAfterPush, PullRequestInClone, gitVars
  <2>3. ASSUME NEW w \in Workers,
               \/ NextInClone(w) \/ SelectInClone(w) \/ LabelAndCheckOut(w)
               \/ \E i \in Issues : ClaimInClone(w, i) \/ RevisePlanInClone(w, i)
        PROVE  UNCHANGED origin
    BY <2>3 DEF NextInClone, SelectInClone, LabelAndCheckOut, ClaimInClone, RevisePlanInClone,
       Preflight
  <2>4. ASSUME NEW w \in Workers,
               \/ Edit(w) \/ CleanWorktree(w) \/ PostPlanInClone(w) \/ CommitPlan(w)
               \/ PublishLink(w) \/ CommitWork(w) \/ FailInClone(w)
        PROVE  UNCHANGED origin
    BY <2>4 DEF Edit, CleanWorktree, PostPlanInClone, CommitPlan, PublishLink, CommitWork,
       FailInClone
  <2>5. ASSUME NEW w \in Workers, PushPlan(w) \/ PushWork(w)
        PROVE  UNCHANGED origin \/ (Accepts(w) /\ Pushed(w))
    BY <2>5 DEF PushPlan, PushWork
  <2> QED
    BY <2>1, <2>2, <2>3, <2>4, <2>5 DEF BranchesNext
<1> QED
  BY <1>1, UnchangedGrows, PushGrows

\* So what is on GitHub stays there.
LEMMA GrowingKeeps ==
    ASSUME BranchesTypeOK, origin' \in [Branches -> Histories], OriginGrows
    PROVE  /\ \A i \in Issues : PlanIsPushed(i) => PlanIsPushed(i)'
           /\ \A b \in Branches, commit \in Commits :
                  Holds(origin[b], commit) => Holds(origin'[b], commit)
           /\ \A b \in Branches, h \in Seq(Commits) :
                  Exists(origin, b) /\ Seqs!IsPrefix(h, origin[b]) =>
                      Exists(origin', b) /\ Seqs!IsPrefix(h, origin'[b])
<1>1. ASSUME NEW b \in Branches, Exists(origin, b)
      PROVE  /\ origin[b] \in Seq(Commits) /\ origin'[b] \in Seq(Commits)
             /\ Exists(origin', b) /\ Seqs!IsPrefix(origin[b], origin'[b])
  BY <1>1, AbsentIsNoHistory DEF BranchesTypeOK, OriginGrows, Exists
<1>2. ASSUME NEW i \in Issues, PlanIsPushed(i) PROVE PlanIsPushed(i)'
  <2>1. PICK b \in Branches : Exists(origin, b) /\ HasPlanFile(origin[b], i)
    BY <1>2 DEF PlanIsPushed
  <2>2. Exists(origin', b) /\ HasPlanFile(origin'[b], i)
    BY <1>1, <2>1, PrefixKeeps
  <2>3. Branches' = Branches
    BY DEF Branches, BranchName
  <2> QED
    BY <2>2, <2>3 DEF PlanIsPushed
<1>3. ASSUME NEW b \in Branches, NEW commit \in Commits, Holds(origin[b], commit)
      PROVE  Holds(origin'[b], commit)
  <2>1. CASE Exists(origin, b)
    BY <1>1, <1>3, <2>1, PrefixKeeps
  <2>2. CASE origin[b] = Absent
    <3>1. NoCommit \notin Commits
      BY WorkflowAssumption DEF NoCommit, Commits
    <3>2. DOMAIN Absent = {1} /\ Absent[1] = NoCommit
      BY DEF Absent
    <3> QED
      BY <1>3, <2>2, <3>1, <3>2 DEF Holds
  <2> QED
    BY <2>1, <2>2 DEF Exists
<1>4. ASSUME NEW b \in Branches, NEW h \in Seq(Commits),
             Exists(origin, b), Seqs!IsPrefix(h, origin[b])
      PROVE  Exists(origin', b) /\ Seqs!IsPrefix(h, origin'[b])
  BY <1>1, <1>4, PrefixTrans
<1> QED
  BY <1>2, <1>3, <1>4
-------------------------------------------------------------------------------
(* One worker's step *)

GitAlone(w) ==
    \A v \in Workers \ {w} :
        /\ local'[v] = local[v] /\ head'[v] = head[v]
        /\ git'[v] = git[v] /\ dirty'[v] = dirty[v]

Sound(w) ==
    /\ Alone(w) /\ GitAlone(w)
    /\ BranchesTypeOK' /\ MainExists' /\ localOnly \subseteq localOnly'
    /\ StagesKnown /\ WorkerKnows(w)
    /\ PlanComesFirst(w)'

\* What a step must show for the types
LEMMA ClonesTyped ==
    ASSUME BranchesTypeOK, TypeOK', NEW w \in Workers, Alone(w), GitAlone(w),
           origin' \in [Branches -> Histories],
           remote' \in [Workers -> [Branches -> Histories]],
           local' \in [Workers -> [Branches -> Histories]],
           head' \in [Workers -> Branches],
           dirty' \in [Workers -> Issues \union {0}],
           git' \in [Workers -> {"none", "commit", "push", "push-work", "no-git"}],
           target' \in [Workers -> Branches],
           posted' \in [Issues -> [branch : Branches, commit : Commits \union {NoCommit}]],
           Exists(local'[w], head'[w]),
           git'[w] \in {"commit", "push"} => pc'[w] \in {"patch", "publish"},
           git'[w] = "no-git" => pc'[w] \in {"patch", "release", "publish"},
           localOnly' \subseteq Issues
    PROVE  BranchesTypeOK'
<1>1. ASSUME NEW v \in Workers
      PROVE  /\ Exists(local'[v], head'[v])
             /\ git'[v] \in {"commit", "push"} => pc'[v] \in {"patch", "publish"}
             /\ git'[v] = "no-git" => pc'[v] \in {"patch", "release", "publish"}
  <2>1. /\ Exists(local[v], head[v])
        /\ git[v] \in {"commit", "push"} => pc[v] \in {"patch", "publish"}
        /\ git[v] = "no-git" => pc[v] \in {"patch", "release", "publish"}
    BY DEF BranchesTypeOK
  <2>2. CASE v = w
    BY <2>2
  <2>3. CASE v # w
    BY <2>1, <2>3 DEF Alone, GitAlone, Exists
  <2> QED
    BY <2>2, <2>3
<1> QED
  BY <1>1 DEF BranchesTypeOK

\* The clones and GitHub's branches, typed.
LEMMA GitTyped ==
    ASSUME BranchesInv
    PROVE  /\ TypeOK /\ BranchesTypeOK
           /\ origin \in [Branches -> Histories]
           /\ remote \in [Workers -> [Branches -> Histories]]
           /\ local \in [Workers -> [Branches -> Histories]]
           /\ head \in [Workers -> Branches]
           /\ dirty \in [Workers -> Issues \union {0}]
           /\ git \in [Workers -> {"none", "commit", "push", "push-work", "no-git"}]
           /\ target \in [Workers -> Branches]
           /\ posted \in [Issues -> [branch : Branches, commit : Commits \union {NoCommit}]]
           /\ \A w \in Workers :
                 /\ Exists(local[w], head[w]) /\ Exists(local[w], Main)
                 /\ git[w] \in {"commit", "push"} => pc[w] \in {"patch", "publish"}
                 /\ git[w] = "no-git" => pc[w] \in {"patch", "release", "publish"}
           /\ Exists(origin, Main) /\ Main \in Branches /\ localOnly \subseteq Issues
<1>1. BranchesTypeOK /\ MainExists
  BY DEF BranchesInv
<1>2. Main \in Branches
  BY DEF Branches
<1> QED
  BY <1>1, <1>2 DEF BranchesTypeOK, MainExists

\* A command that publishes a plan goes on to the end.
LEMMA PublishGoesOn ==
    ASSUME TypeOK, NEW w \in Workers, job[w].command = "post-plan",
           pc[w] \in {"patch", "release"}, StartsPlain(w) \/ Continue(w)
    PROVE  /\ pc'[w] \in {"release", "publish"}
           /\ job'[w].command = "post-plan" /\ job'[w].issue = job[w].issue
<1>1. PatchTransition(w) \/ RemoveLabel(w) \/ AssignOwner(w)
  BY DEF Continue, StartsPlain, StartsOther, ApprovalCommand, RecordDecision, ClaimCommand,
     ResetCommand, StageReview, CreatePullRequest, Complete, NextCommand, CanStart, ReadItem,
     ReadComments, PublishPlan, NextReadItem, Select, ClaimPatch, AddOwnLabel, ResetPatch,
     ResetAssignee, ResetDone
<1>2. job[w] \in Jobs
  BY DEF TypeOK
<1>3. CASE PatchTransition(w)
  <2>1. pc'[w] = "release" /\ job'[w] = [job[w] EXCEPT !.drop = job[w].seen.labels]
    BY <1>3 DEF PatchTransition, TypeOK
  <2> QED
    BY <1>2, <2>1 DEF Jobs
<1>4. CASE RemoveLabel(w)
  <2>1. PICK label \in job[w].drop : job' = [job EXCEPT ![w].drop = @ \ {label}]
    BY <1>4 DEF RemoveLabel
  <2>2. pc[w] = "release" /\ pc'[w] = pc[w] /\ job'[w] = [job[w] EXCEPT !.drop = @ \ {label}]
    BY <1>4, <2>1 DEF RemoveLabel, TypeOK
  <2> QED
    BY <1>2, <2>2 DEF Jobs
<1>5. CASE AssignOwner(w)
  BY <1>5 DEF AssignOwner, TypeOK
<1> QED
  BY <1>1, <1>3, <1>4, <1>5

\* Commands, and calls of commands, that run no git
LEMMA TrackerSound ==
    ASSUME BranchesInv, TypeOK', NEW w \in Workers, GitDone(w), UNCHANGED gitVars,
           StartsPlain(w) \/ Continue(w), git[w] = "no-git" => pc[w] # "publish"
    PROVE  Sound(w)
<1>1. StagesKnown /\ WorkerKnows(w) /\ GoesOn(w)
  BY StartKnows, ContinueKnows
<1>2. Alone(w)
  BY HelperAlone DEF StartsPlain, StartsOther, Start, BranchesInv, IndInv
<1>3. /\ origin' = origin /\ remote' = remote /\ local' = local /\ head' = head
      /\ dirty' = dirty /\ git' = git /\ target' = target /\ posted' = posted
      /\ localOnly' = localOnly
  BY DEF gitVars
<1>4. GitAlone(w)
  BY <1>3 DEF GitAlone
<1>5. git'[w] = "no-git" =>
          /\ pc'[w] \in {"release", "publish"}
          /\ job'[w].command = "post-plan" /\ job'[w].issue \in localOnly
  <2>1. ASSUME git[w] = "no-git"
        PROVE  /\ job[w].command = "post-plan" /\ job[w].issue \in localOnly
               /\ pc[w] \in {"patch", "release"}
    BY <2>1, GitTyped DEF BranchesInv, PlanComesFirst
  <2> QED
    BY <1>3, <2>1, PublishGoesOn, GitTyped
<1>6. BranchesTypeOK' /\ MainExists'
  <2>1. BranchesTypeOK'
    BY <1>2, <1>3, <1>4, <1>5, GitTyped, ClonesTyped DEF GitDone
  <2>2. MainExists'
    BY <1>3 DEF BranchesInv, MainExists, Exists
  <2> QED
    BY <2>1, <2>2
<1>7. PlanComesFirst(w)'
  <2>1. PlanComesFirst(w)
    BY DEF BranchesInv
  <2>2. git'[w] = git[w] /\ git[w] \in {"none", "no-git"}
    BY <1>3 DEF GitDone
  <2>3. Publishes(w)' => Publishes(w) /\ job'[w].issue = job[w].issue
    BY <1>1 DEF GoesOn
  <2> QED
    BY <1>3, <1>5, <2>1, <2>2, <2>3 DEF PlanComesFirst, Publishes, Exists
<1> QED
  BY <1>1, <1>2, <1>3, <1>4, <1>6, <1>7 DEF Sound

\* _repo_preflight
LEMMA PreflightFacts ==
    ASSUME BranchesInv, NEW w \in Workers, Preflight(w)
    PROVE  /\ GitAlone(w) /\ MainExists'
           /\ head' \in [Workers -> Branches]
           /\ remote' \in [Workers -> [Branches -> Histories]]
           /\ local' \in [Workers -> [Branches -> Histories]]
           /\ \A v \in Workers : Exists(local'[v], head'[v])
<1>1. /\ origin \in [Branches -> Histories]
      /\ remote \in [Workers -> [Branches -> Histories]]
      /\ local \in [Workers -> [Branches -> Histories]]
      /\ head \in [Workers -> Branches]
      /\ Main \in Branches
      /\ \A v \in Workers : Exists(local[v], head[v]) /\ Exists(local[v], Main)
      /\ Exists(origin, Main)
  BY GitTyped
<1>2. /\ head' = [head EXCEPT ![w] = Main] /\ remote' = [remote EXCEPT ![w] = origin]
      /\ origin' = origin /\ git' = git /\ dirty' = dirty
      /\ local' = local \/ local' = [local EXCEPT ![w] = [local[w] EXCEPT ![Main] = origin[Main]]]
  BY <1>1 DEF Preflight
<1>3. /\ head' \in [Workers -> Branches]
      /\ remote' \in [Workers -> [Branches -> Histories]]
      /\ local' \in [Workers -> [Branches -> Histories]]
  <2>1. [local[w] EXCEPT ![Main] = origin[Main]] \in [Branches -> Histories]
    BY <1>1
  <2>2. local' \in [Workers -> [Branches -> Histories]]
    BY <1>1, <1>2, <2>1
  <2>3. head' \in [Workers -> Branches] /\ remote' \in [Workers -> [Branches -> Histories]]
    BY <1>1, <1>2
  <2> QED
    BY <2>2, <2>3
<1>4. GitAlone(w)
  <2>1. \A v \in Workers \ {w} : local'[v] = local[v]
    BY <1>1, <1>2
  <2> QED
    BY <1>1, <1>2, <2>1 DEF GitAlone
<1>5. Exists(local'[w], Main)
  BY <1>1, <1>2 DEF Exists
<1>6. \A v \in Workers : Exists(local'[v], head'[v]) /\ Exists(local'[v], Main)
  BY <1>1, <1>2, <1>4, <1>5 DEF GitAlone
<1>7. MainExists'
  BY <1>1, <1>2, <1>6 DEF MainExists, Exists
<1> QED
  BY <1>3, <1>4, <1>6, <1>7

\* `next` and `claim` begin.
LEMMA FetchSound ==
    ASSUME BranchesInv, TypeOK', NEW w \in Workers,
           NextInClone(w) \/ \E i \in Issues : ClaimInClone(w, i)
    PROVE  Sound(w)
<1>1. /\ git[w] = "none" /\ Preflight(w) /\ StartsPlain(w)
      /\ target' = target \/ \E i \in Issues : target' = [target EXCEPT ![w] = BranchName(w, i)]
  BY DEF NextInClone, ClaimInClone, StartsPlain, StartsOther
<1>2. StagesKnown /\ WorkerKnows(w) /\ GoesOn(w)
  BY <1>1, StartKnows
<1>3. Alone(w)
  BY <1>1, HelperAlone DEF StartsPlain, StartsOther, Start, BranchesInv, IndInv
<1>4. /\ origin' = origin /\ git' = git /\ dirty' = dirty /\ posted' = posted
      /\ localOnly' = localOnly
  BY <1>1 DEF Preflight
<1>5. target' \in [Workers -> Branches]
  BY <1>1 DEF BranchesInv, BranchesTypeOK, Branches
<1>6. BranchesTypeOK'
  BY <1>1, <1>3, <1>4, <1>5, PreflightFacts, GitTyped, ClonesTyped
<1>7. PlanComesFirst(w)'
  <2>1. pc'[w] \notin {"patch", "release", "publish"}
    BY DEF NextInClone, ClaimInClone, NextCommand, ClaimCommand, Begin, BranchesInv, IndInv,
       TypeOK
  <2> QED
    BY <1>1, <1>4, <2>1 DEF PlanComesFirst
<1> QED
  BY <1>1, <1>2, <1>3, <1>4, <1>6, <1>7, PreflightFacts DEF Sound
\* A command without git calls to make
LEMMA NoGitCalls ==
    ASSUME BranchesInv, NEW w \in Workers,
           pc[w] \notin {"idle", "patch", "release", "publish"}
    PROVE  git[w] = "none"
<1>1. PlanComesFirst(w)
  BY DEF BranchesInv
<1> QED
  BY <1>1, GitTyped DEF PlanComesFirst

\* `next` selects.
LEMMA SelectSound ==
    ASSUME BranchesInv, IndInv', NEW w \in Workers, SelectInClone(w)
    PROVE  Sound(w)
<1>1. /\ Select(w) /\ pc[w] = "sync"
      /\ origin' = origin /\ remote' = remote /\ local' = local /\ head' = head
      /\ dirty' = dirty /\ git' = git /\ posted' = posted
      /\ localOnly' = localOnly
  BY DEF SelectInClone, Select
<1>2. git[w] = "none"
  BY <1>1, NoGitCalls
<1>3. StagesKnown /\ WorkerKnows(w) /\ GoesOn(w)
  BY <1>1, <1>2, ContinueKnows DEF Continue, GitDone
<1>4. Alone(w)
  BY <1>1, HelperAlone, GitTyped DEF Continue
<1>5. GitAlone(w)
  BY <1>1 DEF GitAlone
<1>6. target' \in [Workers -> Branches]
  <2>1. CASE pc'[w] = "claim"
    <3>1. job'[w].issue \in Issues
      BY <2>1 DEF IndInv, WorkerInv, AddressesIssue
    <3>2. BranchName(w, job'[w].issue) \in Branches
      BY <3>1 DEF Branches
    <3>3. posted[job'[w].issue].branch \in Branches
      BY <3>1, GitTyped
    <3>4. WorkflowBranch(w, job'[w].issue, job'[w].seen.stage) \in Branches
      BY <3>2, <3>3 DEF WorkflowBranch
    <3>5. target' = [target EXCEPT ![w] =
                       WorkflowBranch(w, job'[w].issue, job'[w].seen.stage)]
      BY <2>1 DEF SelectInClone
    <3> QED
      BY <3>4, <3>5, GitTyped
  <2>2. CASE pc'[w] # "claim"
    BY <2>2, GitTyped DEF SelectInClone
  <2> QED
    BY <2>1, <2>2
<1>7. TypeOK'
  BY DEF IndInv
<1>8. BranchesTypeOK'
  BY <1>1, <1>2, <1>4, <1>5, <1>6, <1>7, GitTyped, ClonesTyped
<1>9. MainExists'
  BY <1>1, GitTyped DEF MainExists, Exists
<1>10. PlanComesFirst(w)'
  BY <1>1, <1>2, <1>3 DEF PlanComesFirst, GoesOn, Publishes
<1> QED
  BY <1>1, <1>3, <1>4, <1>5, <1>8, <1>9, <1>10 DEF Sound

\* A claim ends with the branch of the issue checked out.
LEMMA CheckOutSound ==
    ASSUME BranchesInv, TypeOK', NEW w \in Workers, LabelAndCheckOut(w)
    PROVE  Sound(w)
<1> DEFINE b == target[w]
           start == IF Exists(remote[w], b) THEN remote[w][b] ELSE local[w][head[w]]
<1>1. /\ AddOwnLabel(w) /\ pc[w] = "relabel" /\ job[w].issue \in Issues
      /\ origin' = origin /\ remote' = remote /\ git' = git /\ posted' = posted
      /\ localOnly' = localOnly
      /\ target' = target
      /\ head' = [head EXCEPT ![w] = b]
      /\ local' = IF Exists(local[w], b) THEN local ELSE [local EXCEPT ![w][b] = start]
      /\ dirty' = dirty \/ dirty' = [dirty EXCEPT ![w] = job[w].issue]
  BY DEF LabelAndCheckOut, AddOwnLabel, EnsureBranch, Scaffold, BranchesInv, IndInv, WorkerInv,
     AddressesIssue
<1>2. git[w] = "none"
  BY <1>1, NoGitCalls
<1>3. StagesKnown /\ WorkerKnows(w) /\ GoesOn(w)
  BY <1>1, <1>2, ContinueKnows DEF Continue, GitDone
<1>4. Alone(w)
  BY <1>1, HelperAlone, GitTyped DEF Continue
<1>5. b \in Branches /\ start \in Histories /\ start # Absent
  BY GitTyped DEF Exists
<1> HIDE DEF b, start
<1>6. /\ local' \in [Workers -> [Branches -> Histories]]
      /\ \A v \in Workers \ {w} : local'[v] = local[v]
      /\ Exists(local'[w], b) /\ Exists(local'[w], Main)
  <2>1. CASE Exists(local[w], b)
    BY <1>1, <2>1, GitTyped
  <2>2. CASE ~ Exists(local[w], b)
    <3>1. local' = [local EXCEPT ![w] = [local[w] EXCEPT ![b] = start]]
      BY <1>1, <2>2
    <3>2. [local[w] EXCEPT ![b] = start] \in [Branches -> Histories]
      BY <1>5, GitTyped
    <3>3. /\ local' \in [Workers -> [Branches -> Histories]]
          /\ \A v \in Workers \ {w} : local'[v] = local[v]
          /\ local'[w] = [local[w] EXCEPT ![b] = start]
      BY <3>1, <3>2, GitTyped
    <3>4. Exists(local'[w], b) /\ Exists(local'[w], Main)
      BY <1>5, <3>3, GitTyped DEF Exists
    <3> QED
      BY <3>3, <3>4
  <2> QED
    BY <2>1, <2>2
<1>7. /\ head' \in [Workers -> Branches] /\ head'[w] = b
      /\ dirty' \in [Workers -> Issues \union {0}]
      /\ \A v \in Workers \ {w} : head'[v] = head[v] /\ dirty'[v] = dirty[v]
  BY <1>1, <1>5, GitTyped
<1>8. GitAlone(w)
  BY <1>1, <1>6, <1>7 DEF GitAlone
<1>9. BranchesTypeOK'
  BY <1>1, <1>2, <1>4, <1>6, <1>7, <1>8, GitTyped, ClonesTyped
<1>10. MainExists'
  BY <1>1, <1>6, GitTyped DEF MainExists, Exists
<1>11. PlanComesFirst(w)'
  BY <1>1, <1>2, <1>3 DEF PlanComesFirst, GoesOn, Publishes
<1> QED
  BY <1>1, <1>3, <1>4, <1>8, <1>9, <1>10, <1>11 DEF Sound

\* A step of the clone alone leaves what the worker knows.
LEMMA TrackerStill ==
    ASSUME BranchesInv, NEW w \in Workers, UNCHANGED vars
    PROVE  TypeOK' /\ Alone(w) /\ StagesKnown /\ WorkerKnows(w)
<1>1. TypeOK' /\ Alone(w)
  BY GitTyped DEF vars, TypeOK, Alone
<1>2. WaitingPlanIsPushed /\ KnowsCommand(w) /\ KnowsPlan(w)
  BY DEF BranchesInv
<1>3. StagesKnown /\ WorkerKnows(w)
  BY <1>2 DEF vars, StagesKnown, WorkerKnows, CopyKnown, ViewKnown, KnowsCommand, KnowsPlan,
     WaitingPlanIsPushed
<1> QED
  BY <1>1, <1>3

\* The agent edits files, or drops them.
LEMMA WorktreeSound ==
    ASSUME BranchesInv, NEW w \in Workers, Edit(w) \/ CleanWorktree(w)
    PROVE  Sound(w)
<1>1. /\ UNCHANGED vars /\ pc[w] = "idle" /\ git[w] = "none"
      /\ origin' = origin /\ remote' = remote /\ local' = local /\ head' = head
      /\ git' = git /\ target' = target /\ posted' = posted
      /\ localOnly' = localOnly
      /\ dirty' = [dirty EXCEPT ![w] = task[w].issue] \/ dirty' = [dirty EXCEPT ![w] = 0]
  BY DEF Edit, CleanWorktree
<1>2. TypeOK' /\ Alone(w) /\ StagesKnown /\ WorkerKnows(w)
  BY <1>1, TrackerStill
<1>3. task[w].issue \in Issues \union {0}
  BY GitTyped DEF TypeOK
<1>4. dirty' \in [Workers -> Issues \union {0}] /\ \A v \in Workers \ {w} : dirty'[v] = dirty[v]
  BY <1>1, <1>3, GitTyped
<1>5. GitAlone(w)
  BY <1>1, <1>4 DEF GitAlone
<1>6. BranchesTypeOK'
  BY <1>1, <1>2, <1>4, <1>5, GitTyped, ClonesTyped
<1>7. MainExists'
  BY <1>1, GitTyped DEF MainExists, Exists
<1>8. PlanComesFirst(w)'
  BY <1>1 DEF PlanComesFirst, vars
<1> QED
  BY <1>1, <1>2, <1>5, <1>6, <1>7, <1>8 DEF Sound
-------------------------------------------------------------------------------
(* Publishing a plan: the git calls, the push, the link *)

\* `post-plan` and `revise-plan` begin with the plan still to be committed.
LEMMA PlanStartSound ==
    ASSUME BranchesInv, TypeOK', NEW w \in Workers,
           PostPlanInClone(w) \/ \E i \in Issues : RevisePlanInClone(w, i)
    PROVE  Sound(w)
<1>1. /\ StartsPlan(w)
      /\ origin' = origin /\ remote' = remote /\ local' = local /\ head' = head
      /\ dirty' = dirty /\ target' = target /\ posted' = posted
  BY DEF PostPlanInClone, RevisePlanInClone, StartsPlan
<1>2. PICK i \in Issues, signal \in {"plan-posted", "none"}, next \in {"patch", "publish"} :
        PlanFileThere(w, i) /\ GitOption(w, i) /\ Begin(w, "post-plan", i, signal, next)
  <2>1. CASE PostPlanInClone(w)
    <3>1. /\ PlanFileThere(w, task[w].issue) /\ GitOption(w, task[w].issue)
          /\ Begin(w, "post-plan", task[w].issue, "plan-posted", "patch")
          /\ task[w].issue \in Issues
      BY <2>1 DEF PostPlanInClone, PostPlan, BranchesInv, IndInv, WorkerInv, TaskNamesIssue
    <3> QED
      BY <3>1
  <2>2. ASSUME NEW i \in Issues, RevisePlanInClone(w, i)
        PROVE  /\ PlanFileThere(w, i) /\ GitOption(w, i)
               /\ Begin(w, "post-plan", i, "none", "publish")
    BY <2>2 DEF RevisePlanInClone, RevisePlan
  <2> QED
    BY <2>1, <2>2
<1>3. StagesKnown /\ WorkerKnows(w)
  BY <1>1, StartKnows
<1>4. Alone(w)
  BY <1>1, HelperAlone, GitTyped DEF StartsPlan, Start
<1>5. pc'[w] = next /\ job'[w].issue = i /\ job'[w].command = "post-plan"
  BY <1>2, GitTyped DEF Begin, TypeOK, NoJob
<1>6. /\ git' \in [Workers -> {"none", "commit", "push", "push-work", "no-git"}]
      /\ \A v \in Workers \ {w} : git'[v] = git[v]
      /\ \/ git'[w] = "commit" /\ localOnly' = localOnly
         \/ git'[w] = "no-git" /\ localOnly' = localOnly \union {i}
  <2>1. CASE git' = [git EXCEPT ![w] = "commit"] /\ localOnly' = localOnly
    BY <2>1, GitTyped
  <2>2. CASE git' = [git EXCEPT ![w] = "no-git"] /\ localOnly' = localOnly \union {i}
    BY <2>2, GitTyped
  <2> QED
    BY <1>2, <2>1, <2>2 DEF GitOption
<1>7. GitAlone(w)
  BY <1>1, <1>6 DEF GitAlone
<1>8. /\ localOnly \subseteq localOnly' /\ localOnly' \subseteq Issues
      /\ git'[w] = "no-git" => i \in localOnly'
  BY <1>6, GitTyped
<1>9. BranchesTypeOK'
  BY <1>1, <1>4, <1>5, <1>6, <1>7, <1>8, GitTyped, ClonesTyped
<1>10. MainExists'
  BY <1>1, GitTyped DEF MainExists, Exists
<1>11. PlanFileThere(w, i)'
  BY <1>1, <1>2 DEF PlanFileThere
<1>12. PlanComesFirst(w)'
  BY <1>5, <1>6, <1>8, <1>11 DEF PlanComesFirst
<1> QED
  BY <1>3, <1>4, <1>7, <1>8, <1>9, <1>10, <1>12 DEF Sound

\* A commit of a clone
LEMMA CommitFacts ==
    ASSUME BranchesInv, NEW w \in Workers, NEW i \in Issues, NEW file \in {"plan", "work"},
           Commit(w, i, file)
    PROVE  /\ local' \in [Workers -> [Branches -> Histories]]
           /\ \A v \in Workers \ {w} : local'[v] = local[v]
           /\ Exists(local'[w], head[w]) /\ Exists(local'[w], Main)
           /\ file = "plan" => HasPlanFile(local'[w][head[w]], i)
<1> DEFINE b == head[w]
           h == local[w][b]
           commit == [issue |-> i, file |-> file, by |-> w, nr |-> Len(h)]
<1>1. b \in Branches /\ h \in Seq(Commits) /\ local[w] \in [Branches -> Histories]
  BY GitTyped, AbsentIsNoHistory DEF Exists
<1>2. commit \in Commits /\ commit.file = file /\ commit.issue = i
  BY <1>1 DEF Commits
<1>3. local' = [local EXCEPT ![w] = [local[w] EXCEPT ![b] = Append(h, commit)]]
  BY GitTyped DEF Commit
<1> HIDE DEF b, h, commit
<1>4. Append(h, commit) \in Seq(Commits) /\ (file = "plan" => HasPlanFile(Append(h, commit), i))
  BY <1>1, <1>2, CommitKeeps
<1>5. Append(h, commit) \in Histories /\ Append(h, commit) # Absent
  BY <1>4, AbsentIsNoHistory DEF Histories
<1>6. [local[w] EXCEPT ![b] = Append(h, commit)] \in [Branches -> Histories]
  BY <1>1, <1>5
<1>7. /\ local' \in [Workers -> [Branches -> Histories]]
      /\ \A v \in Workers \ {w} : local'[v] = local[v]
      /\ local'[w] = [local[w] EXCEPT ![b] = Append(h, commit)]
  BY <1>3, <1>6, GitTyped
<1>8. local'[w][b] = Append(h, commit) /\ Exists(local'[w], b) /\ Exists(local'[w], Main)
  BY <1>1, <1>5, <1>7, GitTyped DEF Exists
<1> QED
  BY <1>4, <1>7, <1>8 DEF b

\* The commit of a plan puts it on the branch that the push is about to send.
LEMMA CommitPlanSound ==
    ASSUME BranchesInv, NEW w \in Workers, CommitPlan(w)
    PROVE  Sound(w)
<1> DEFINE i == job[w].issue
<1>1. /\ UNCHANGED vars /\ git[w] = "commit"
      /\ origin' = origin /\ remote' = remote /\ head' = head
      /\ target' = target /\ posted' = posted
      /\ localOnly' = localOnly
      /\ git' = [git EXCEPT ![w] = "push"]
  BY DEF CommitPlan
<1>2. TypeOK' /\ Alone(w) /\ StagesKnown /\ WorkerKnows(w)
  BY <1>1, TrackerStill
<1>3. /\ pc[w] \in {"patch", "publish"} /\ i \in Issues
      /\ pc'[w] = pc[w] /\ job'[w] = job[w]
  BY <1>1, GitTyped DEF vars, BranchesInv, IndInv, WorkerInv, AddressesIssue
<1>4. PlanFileThere(w, i)
  BY <1>1 DEF BranchesInv, PlanComesFirst
<1>5. /\ local' \in [Workers -> [Branches -> Histories]]
      /\ \A v \in Workers \ {w} : local'[v] = local[v]
      /\ Exists(local'[w], head[w]) /\ Exists(local'[w], Main)
      /\ HasPlanFile(local'[w][head[w]], i)
      /\ dirty' \in [Workers -> Issues \union {0}]
      /\ \A v \in Workers \ {w} : dirty'[v] = dirty[v]
  <2>1. CASE dirty[w] = i
    <3>1. Commit(w, i, "plan") /\ dirty' = [dirty EXCEPT ![w] = 0]
      BY <2>1 DEF CommitPlan
    <3>2. dirty' \in [Workers -> Issues \union {0}] /\ \A v \in Workers \ {w} : dirty'[v] = dirty[v]
      BY <3>1, GitTyped
    <3> HIDE DEF i
    <3> QED
      BY <1>3, <3>1, <3>2, CommitFacts
  <2>2. CASE dirty[w] # i
    <3>1. local' = local /\ dirty' = dirty
      BY <2>2 DEF CommitPlan
    <3>2. HasPlanFile(local[w][head[w]], i)
      BY <1>4, <2>2 DEF PlanFileThere
    <3> HIDE DEF i
    <3> QED
      BY <3>1, <3>2, GitTyped
  <2> QED
    BY <2>1, <2>2
<1>6. /\ git'[w] = "push" /\ git' \in [Workers -> {"none", "commit", "push", "push-work", "no-git"}]
      /\ \A v \in Workers \ {w} : git'[v] = git[v]
  BY <1>1, GitTyped
<1>7. GitAlone(w)
  BY <1>1, <1>5, <1>6 DEF GitAlone
<1>8. BranchesTypeOK'
  BY <1>1, <1>2, <1>3, <1>5, <1>6, <1>7, GitTyped, ClonesTyped
<1>9. MainExists'
  BY <1>1, <1>5, GitTyped DEF MainExists, Exists
<1>10. PlanComesFirst(w)'
  BY <1>1, <1>3, <1>5, <1>6 DEF PlanComesFirst
<1> QED
  BY <1>1, <1>2, <1>7, <1>8, <1>9, <1>10 DEF Sound

\* The push comes before anything the tracker shows.
LEMMA PushPlanSound ==
    ASSUME BranchesInv, TypeOK', NEW w \in Workers, PushPlan(w)
    PROVE  Sound(w)
<1>1. /\ git[w] = "push" /\ git' = [git EXCEPT ![w] = "none"]
      /\ local' = local /\ head' = head /\ dirty' = dirty /\ target' = target /\ posted' = posted
      /\ localOnly' = localOnly
  BY DEF PushPlan
<1>2. /\ git'[w] = "none" /\ git' \in [Workers -> {"none", "commit", "push", "push-work", "no-git"}]
      /\ \A v \in Workers \ {w} : git'[v] = git[v]
  BY <1>1, GitTyped
<1>3. GitAlone(w)
  BY <1>1, <1>2 DEF GitAlone
<1>4. CASE Accepts(w)
  <2>1. UNCHANGED vars /\ Pushed(w)
    BY <1>4 DEF PushPlan
  <2>2. TypeOK' /\ Alone(w) /\ StagesKnown /\ WorkerKnows(w)
    BY <2>1, TrackerStill
  <2>3. /\ origin' \in [Branches -> Histories] /\ OriginGrows
        /\ remote' \in [Workers -> [Branches -> Histories]]
        /\ origin'[head[w]] = local[w][head[w]]
    BY <1>4, <2>1, PushGrows, GitTyped
  <2>4. BranchesTypeOK'
    BY <1>1, <1>2, <1>3, <2>2, <2>3, GitTyped, ClonesTyped
  <2>5. MainExists'
    BY <1>1, <2>3, GitTyped DEF MainExists, OriginGrows, Exists
  <2>6. HasPlanFile(local[w][head[w]], job[w].issue)
    BY <1>1 DEF BranchesInv, PlanComesFirst
  <2>7. local[w][head[w]] \in Seq(Commits)
    BY GitTyped, AbsentIsNoHistory DEF Exists
  <2>8. Exists(origin', head[w]) /\ Seqs!IsPrefix(local[w][head[w]], origin'[head[w]])
    BY <2>3, <2>7, PrefixRefl, GitTyped DEF Exists
  <2>9. PlanComesFirst(w)'
    BY <1>1, <1>2, <2>1, <2>6, <2>8 DEF PlanComesFirst, vars
  <2> QED
    BY <1>1, <1>3, <2>2, <2>4, <2>5, <2>9 DEF Sound
<1>5. CASE ~ Accepts(w)
  <2>1. Return(w) /\ item' = item /\ origin' = origin /\ remote' = remote
    BY <1>5 DEF PushPlan, tracker
  <2>2. WorkerKnows(w) /\ GoesOn(w) /\ Alone(w)
    BY <2>1, ReturnKnows, HelperAlone, GitTyped
  <2>3. StagesKnown
    BY <2>1 DEF StagesKnown, BranchesInv, WaitingPlanIsPushed
  <2>4. BranchesTypeOK'
    BY <1>1, <1>2, <1>3, <2>1, <2>2, GitTyped, ClonesTyped
  <2>5. MainExists'
    BY <1>1, <2>1, GitTyped DEF MainExists, Exists
  <2>6. pc'[w] = "idle"
    BY <2>1, GitTyped DEF Return, TypeOK
  <2>7. PlanComesFirst(w)'
    BY <1>2, <2>6 DEF PlanComesFirst
  <2> QED
    BY <1>1, <1>3, <2>2, <2>3, <2>4, <2>5, <2>7 DEF Sound
<1> QED
  BY <1>4, <1>5
\* The comment links the plan that was pushed.
LEMMA LinkSound ==
    ASSUME BranchesInv, TypeOK', NEW w \in Workers, PublishLink(w)
    PROVE  Sound(w) /\ LinkedPlanIsPushed'
<1> DEFINE i == job[w].issue
           b == head[w]
           h == local[w][b]
           plan == IF git[w] = "no-git" THEN NoCommit ELSE LastPlan(h, i)
           link == [branch |-> b, commit |-> plan]
<1>1. /\ PublishPlan(w) /\ pc[w] = "publish" /\ GitDone(w) /\ i \in Issues
      /\ origin' = origin /\ remote' = remote /\ local' = local /\ head' = head
      /\ dirty' = dirty /\ target' = target /\ localOnly' = localOnly
      /\ posted' = [posted EXCEPT ![i] = link]
  BY DEF PublishLink, PublishPlan, BranchesInv, IndInv, WorkerInv, AddressesIssue
<1>2. /\ git'[w] = "none"
      /\ git' \in [Workers -> {"none", "commit", "push", "push-work", "no-git"}]
      /\ \A v \in Workers \ {w} : git'[v] = git[v]
  BY GitTyped DEF PublishLink
<1>3. StagesKnown /\ WorkerKnows(w) /\ GoesOn(w)
  BY <1>1, ContinueKnows DEF Continue
<1>4. Alone(w)
  BY <1>1, HelperAlone, GitTyped DEF Continue
<1>5. GitAlone(w)
  BY <1>1, <1>2 DEF GitAlone
<1>6. /\ b \in Branches /\ link.branch = b /\ link.commit = plan
      /\ plan # NoCommit => plan \in Commits /\ Holds(origin[b], plan)
  <2>1. b \in Branches
    BY GitTyped
  <2>2. CASE git[w] = "none"
    <3>1. HasPlanFile(h, i) /\ Exists(origin, b) /\ Seqs!IsPrefix(h, origin[b])
      <4>1. PlanComesFirst(w) /\ KnowsCommand(w)
        BY DEF BranchesInv
      <4>2. job[w].command = "post-plan"
        BY <1>1, <4>1 DEF KnowsCommand
      <4> QED
        BY <1>1, <2>2, <4>1, <4>2 DEF PlanComesFirst
    <3>2. h \in Seq(Commits) /\ origin[b] \in Seq(Commits)
      BY <3>1, GitTyped, AbsentIsNoHistory DEF Exists
    <3>3. plan = LastPlan(h, i)
      BY <2>2
    <3> HIDE DEF i, b, h, plan
    <3>4. plan \in Commits /\ Holds(h, plan)
      BY <1>1, <3>1, <3>2, <3>3, LastPlanHeld
    <3> QED
      BY <2>1, <3>1, <3>2, <3>4, PrefixKeeps DEF link
  <2>3. CASE git[w] = "no-git"
    BY <2>1, <2>3
  <2> QED
    BY <1>1, <2>2, <2>3 DEF GitDone
<1> HIDE DEF i, b, h, plan
<1>7. link \in [branch : Branches, commit : Commits \union {NoCommit}]
  BY <1>6
<1> HIDE DEF link
<1>8. /\ posted' \in [Issues -> [branch : Branches, commit : Commits \union {NoCommit}]]
      /\ \A j \in Issues : posted'[j] = IF j = i THEN link ELSE posted[j]
  BY <1>1, <1>7, GitTyped
<1>9. LinkedPlanIsPushed'
  BY <1>1, <1>6, <1>8 DEF LinkedPlanIsPushed, BranchesInv
<1>10. BranchesTypeOK'
  BY <1>1, <1>2, <1>4, <1>5, <1>8, GitTyped, ClonesTyped
<1>11. MainExists'
  BY <1>1, GitTyped DEF MainExists, Exists
<1>12. PlanComesFirst(w)'
  <2>1. pc'[w] = "idle"
    BY <1>1, GitTyped DEF PublishPlan, Return, TypeOK
  <2> QED
    BY <1>2, <2>1 DEF PlanComesFirst
<1> QED
  BY <1>1, <1>3, <1>4, <1>5, <1>9, <1>10, <1>11, <1>12 DEF Sound

\* `commit-push`
LEMMA WorkSound ==
    ASSUME BranchesInv, NEW w \in Workers, CommitWork(w) \/ PushWork(w)
    PROVE  Sound(w)
<1>1. /\ UNCHANGED vars /\ head' = head /\ target' = target /\ posted' = posted
      /\ localOnly' = localOnly
  BY DEF CommitWork, PushWork
<1>2. TypeOK' /\ Alone(w) /\ StagesKnown /\ WorkerKnows(w)
  BY <1>1, TrackerStill
<1>3. CASE CommitWork(w)
  <2>1. /\ pc[w] = "idle" /\ origin' = origin /\ remote' = remote
        /\ git' = [git EXCEPT ![w] = "push-work"] /\ task[w].issue \in Issues
    BY <1>3 DEF CommitWork, BranchesInv, IndInv, WorkerInv, TaskNamesIssue
  <2>2. /\ git'[w] = "push-work"
        /\ git' \in [Workers -> {"none", "commit", "push", "push-work", "no-git"}]
        /\ \A v \in Workers \ {w} : git'[v] = git[v]
    BY <2>1, GitTyped
  <2>3. /\ local' \in [Workers -> [Branches -> Histories]]
        /\ \A v \in Workers \ {w} : local'[v] = local[v]
        /\ Exists(local'[w], head[w]) /\ Exists(local'[w], Main)
        /\ dirty' \in [Workers -> Issues \union {0}]
        /\ \A v \in Workers \ {w} : dirty'[v] = dirty[v]
    <3>1. CASE Commit(w, task[w].issue, "work") /\ dirty' = [dirty EXCEPT ![w] = 0]
      <4>1. dirty' \in [Workers -> Issues \union {0}] /\ \A v \in Workers \ {w} : dirty'[v] = dirty[v]
        BY <3>1, GitTyped
      <4> QED
        BY <2>1, <3>1, <4>1, CommitFacts
    <3>2. CASE local' = local /\ dirty' = dirty
      BY <3>2, GitTyped
    <3> QED
      BY <1>3, <3>1, <3>2 DEF CommitWork
  <2>4. GitAlone(w)
    BY <1>1, <2>2, <2>3 DEF GitAlone
  <2>5. BranchesTypeOK'
    BY <1>1, <1>2, <2>1, <2>2, <2>3, <2>4, GitTyped, ClonesTyped
  <2>6. MainExists'
    BY <2>1, <2>3, GitTyped DEF MainExists, Exists
  <2>7. PlanComesFirst(w)'
    BY <1>1, <2>1, <2>2 DEF PlanComesFirst, vars
  <2> QED
    BY <1>1, <1>2, <2>4, <2>5, <2>6, <2>7 DEF Sound
<1>4. CASE PushWork(w)
  <2>1. /\ git[w] = "push-work" /\ git' = [git EXCEPT ![w] = "none"]
        /\ local' = local /\ dirty' = dirty
        /\ (Accepts(w) /\ Pushed(w)) \/ (origin' = origin /\ remote' = remote)
    BY <1>4 DEF PushWork
  <2>2. /\ git'[w] = "none" /\ git' \in [Workers -> {"none", "commit", "push", "push-work", "no-git"}]
        /\ \A v \in Workers \ {w} : git'[v] = git[v]
    BY <2>1, GitTyped
  <2>3. pc'[w] = "idle"
    BY <1>1, <2>1 DEF vars, BranchesInv, PlanComesFirst
  <2>4. /\ origin' \in [Branches -> Histories] /\ OriginGrows
        /\ remote' \in [Workers -> [Branches -> Histories]]
    BY <2>1, PushGrows, UnchangedGrows, GitTyped
  <2>5. GitAlone(w)
    BY <1>1, <2>1, <2>2 DEF GitAlone
  <2>6. BranchesTypeOK'
    BY <1>1, <1>2, <2>1, <2>2, <2>4, <2>5, GitTyped, ClonesTyped
  <2>7. MainExists'
    BY <2>1, <2>4, GitTyped DEF MainExists, OriginGrows, Exists
  <2>8. PlanComesFirst(w)'
    BY <2>2, <2>3 DEF PlanComesFirst
  <2> QED
    BY <1>1, <1>2, <2>5, <2>6, <2>7, <2>8 DEF Sound
<1> QED
  BY <1>3, <1>4
\* A process that dies leaves its clone as it is.
LEMMA FailSound ==
    ASSUME BranchesInv, TypeOK', NEW w \in Workers, FailInClone(w)
    PROVE  Sound(w)
<1>1. /\ origin' = origin /\ remote' = remote /\ local' = local /\ head' = head
      /\ dirty' = dirty /\ target' = target /\ posted' = posted /\ item' = item
      /\ localOnly' = localOnly
      /\ git' = [git EXCEPT ![w] = "none"]
  BY DEF FailInClone, Fail, tracker
<1>2. /\ git'[w] = "none" /\ git' \in [Workers -> {"none", "commit", "push", "push-work", "no-git"}]
      /\ \A v \in Workers \ {w} : git'[v] = git[v]
  BY <1>1, GitTyped
<1>3. WorkerKnows(w) /\ Alone(w) /\ pc'[w] = "idle"
  <2>1. CASE Return(w)
    <3>1. pc'[w] = "idle"
      BY <2>1, GitTyped DEF Return, TypeOK
    <3> QED
      BY <2>1, <3>1, ReturnKnows, HelperAlone, GitTyped
  <2>2. CASE git[w] = "push-work" /\ UNCHANGED <<pc, job, view>>
    <3>1. PlanComesFirst(w) /\ KnowsCommand(w) /\ KnowsPlan(w)
      BY DEF BranchesInv
    <3>2. pc'[w] = "idle"
      BY <2>2, <3>1 DEF PlanComesFirst
    <3> QED
      BY <2>2, <3>1, <3>2 DEF WorkerKnows, CopyKnown, ViewKnown, KnowsCommand, KnowsPlan, Alone
  <2> QED
    BY <2>1, <2>2 DEF FailInClone, Fail, nextVars
<1>4. StagesKnown
  BY <1>1 DEF StagesKnown, BranchesInv, WaitingPlanIsPushed
<1>5. GitAlone(w)
  BY <1>1, <1>2 DEF GitAlone
<1>6. BranchesTypeOK'
  BY <1>1, <1>2, <1>3, <1>5, GitTyped, ClonesTyped
<1>7. MainExists'
  BY <1>1, GitTyped DEF MainExists, Exists
<1>8. PlanComesFirst(w)'
  BY <1>2, <1>3 DEF PlanComesFirst
<1> QED
  BY <1>1, <1>3, <1>4, <1>5, <1>6, <1>7, <1>8 DEF Sound

-------------------------------------------------------------------------------
\* A step of one worker keeps what the others know.
LEMMA SoundKept ==
    ASSUME BranchesInv, IndInv', NEW w \in Workers, Sound(w),
           origin' \in [Branches -> Histories], OriginGrows,
           UNCHANGED posted \/ LinkedPlanIsPushed'
    PROVE  BranchesInv'
<1>1. \A i \in Issues : PlanIsPushed(i) => PlanIsPushed(i)'
  BY GrowingKeeps, GitTyped
<1>2. localOnly \subseteq localOnly'
  BY DEF Sound
<1>3. WaitingPlanIsPushed'
  BY <1>1, <1>2 DEF Sound, StagesKnown, WaitingPlanIsPushed
<1>4. LinkedPlanIsPushed'
  <2>1. CASE UNCHANGED posted
    <3>1. \A i \in Issues : posted[i].commit # NoCommit =>
              /\ posted[i].commit \in Commits /\ posted[i].branch \in Branches
              /\ Holds(origin[posted[i].branch], posted[i].commit)
      BY GitTyped DEF BranchesInv, LinkedPlanIsPushed
    <3> QED
      BY <2>1, <3>1, GrowingKeeps, GitTyped DEF LinkedPlanIsPushed
  <2> QED
    BY <2>1
<1>5. ASSUME NEW v \in Workers
      PROVE  KnowsCommand(v)' /\ KnowsPlan(v)' /\ PlanComesFirst(v)'
  <2>1. CASE v = w
    <3>1. KnowsPlan(w)'
      BY <1>1, <1>2 DEF Sound, WorkerKnows, CopyKnown, ViewKnown, KnowsPlan
    <3> QED
      BY <2>1, <3>1 DEF Sound, WorkerKnows
  <2>2. CASE v # w
    <3>1. /\ pc'[v] = pc[v] /\ job'[v] = job[v] /\ view'[v] = view[v]
          /\ local'[v] = local[v] /\ head'[v] = head[v]
          /\ git'[v] = git[v] /\ dirty'[v] = dirty[v]
      BY <2>2 DEF Sound, Alone, GitAlone
    <3>2. KnowsCommand(v) /\ KnowsPlan(v) /\ PlanComesFirst(v)
      BY DEF BranchesInv
    <3>3. KnowsCommand(v)'
      BY <3>1, <3>2 DEF KnowsCommand
    <3>4. KnowsPlan(v)'
      BY <1>1, <1>2, <3>1, <3>2 DEF KnowsPlan
    <3>5. head[v] \in Branches /\ local[v][head[v]] \in Seq(Commits)
      BY GitTyped, AbsentIsNoHistory DEF Exists
    <3>6. Exists(origin, head[v]) /\ Seqs!IsPrefix(local[v][head[v]], origin[head[v]]) =>
              Exists(origin', head[v]) /\ Seqs!IsPrefix(local[v][head[v]], origin'[head[v]])
      BY <3>5, GrowingKeeps, GitTyped
    <3>7. PlanComesFirst(v)'
      BY <1>2, <3>1, <3>2, <3>6 DEF PlanComesFirst, PlanFileThere
    <3> QED
      BY <3>3, <3>4, <3>7
  <2> QED
    BY <2>1, <2>2
<1> QED
  BY <1>3, <1>4, <1>5 DEF BranchesInv, Sound

\* Every step keeps the invariant.
LEMMA BranchesKept == BranchesInv /\ BranchesNext => BranchesInv'
<1> SUFFICES ASSUME BranchesInv, BranchesNext PROVE BranchesInv'
  OBVIOUS
<1>1. IndInv' /\ TypeOK'
  BY TrackerKept DEF BranchesInv, IndInv
<1>2. origin' \in [Branches -> Histories] /\ OriginGrows
  BY OriginKept, GitTyped
<1>3. ASSUME NEW i \in Issues, HumanComment(i), UNCHANGED gitVars PROVE BranchesInv'
  <2>1. /\ origin' = origin /\ remote' = remote /\ local' = local /\ head' = head
        /\ dirty' = dirty /\ git' = git /\ target' = target /\ posted' = posted
        /\ localOnly' = localOnly
        /\ item' = item /\ pc' = pc /\ job' = job /\ view' = view
    BY <1>3 DEF gitVars, HumanComment
  <2>2. BranchesTypeOK'
    BY <1>1, <2>1, GitTyped DEF BranchesTypeOK, Exists
  <2>3. MainExists' /\ LinkedPlanIsPushed'
    BY <2>1 DEF BranchesInv, MainExists, LinkedPlanIsPushed, Exists
  <2>4. WaitingPlanIsPushed'
    BY <2>1 DEF BranchesInv, WaitingPlanIsPushed, PlanIsPushed, Exists
  <2>5. ASSUME NEW v \in Workers
        PROVE  KnowsCommand(v)' /\ KnowsPlan(v)' /\ PlanComesFirst(v)'
    <3>1. KnowsCommand(v) /\ KnowsPlan(v) /\ PlanComesFirst(v)
      BY DEF BranchesInv
    <3> QED
      BY <2>1, <3>1 DEF KnowsCommand, KnowsPlan, PlanIsPushed, PlanComesFirst, PlanFileThere,
         Exists
  <2> QED
    BY <1>1, <2>2, <2>3, <2>4, <2>5 DEF BranchesInv
<1>4. ASSUME NEW w \in Workers,
             TrackerStep(w) \/ PatchAfterPush(w) \/ PullRequestInClone(w)
      PROVE  BranchesInv'
  <2>1. GitDone(w) /\ UNCHANGED gitVars /\ (StartsPlain(w) \/ Continue(w))
    BY <1>4 DEF TrackerStep, PatchAfterPush, PullRequestInClone, StartsPlain, StartsOther,
       Continue, GitDone
  <2>2. pc[w] # "publish"
    BY <1>4 DEF TrackerStep, PatchAfterPush, PullRequestInClone, CanStart, ApprovalCommand,
       RecordDecision, ResetCommand, StageReview, Complete, CreatePullRequest, ReadItem,
       ReadComments, RemoveLabel, AssignOwner, NextReadItem, ClaimPatch, ResetPatch,
       ResetAssignee, ResetDone, PatchTransition
  <2> QED
    BY <1>1, <1>2, <2>1, <2>2, TrackerSound, SoundKept DEF gitVars
<1>5. ASSUME NEW w \in Workers, NextInClone(w) \/ \E i \in Issues : ClaimInClone(w, i)
      PROVE  BranchesInv'
  BY <1>1, <1>2, <1>5, FetchSound, SoundKept DEF NextInClone, ClaimInClone, Preflight
<1>6. ASSUME NEW w \in Workers, SelectInClone(w) PROVE BranchesInv'
  BY <1>1, <1>2, <1>6, SelectSound, SoundKept DEF SelectInClone
<1>7. ASSUME NEW w \in Workers, LabelAndCheckOut(w) PROVE BranchesInv'
  BY <1>1, <1>2, <1>7, CheckOutSound, SoundKept DEF LabelAndCheckOut
<1>8. ASSUME NEW w \in Workers, Edit(w) \/ CleanWorktree(w) PROVE BranchesInv'
  BY <1>1, <1>2, <1>8, WorktreeSound, SoundKept DEF Edit, CleanWorktree
<1>9. ASSUME NEW w \in Workers,
             PostPlanInClone(w) \/ \E i \in Issues : RevisePlanInClone(w, i)
      PROVE  BranchesInv'
  BY <1>1, <1>2, <1>9, PlanStartSound, SoundKept DEF PostPlanInClone, RevisePlanInClone
<1>10. ASSUME NEW w \in Workers, CommitPlan(w) PROVE BranchesInv'
  BY <1>1, <1>2, <1>10, CommitPlanSound, SoundKept DEF CommitPlan
<1>11. ASSUME NEW w \in Workers, PushPlan(w) PROVE BranchesInv'
  BY <1>1, <1>2, <1>11, PushPlanSound, SoundKept DEF PushPlan
<1>12. ASSUME NEW w \in Workers, PublishLink(w) PROVE BranchesInv'
  BY <1>1, <1>2, <1>12, LinkSound, SoundKept
<1>13. ASSUME NEW w \in Workers, CommitWork(w) \/ PushWork(w) PROVE BranchesInv'
  BY <1>1, <1>2, <1>13, WorkSound, SoundKept DEF CommitWork, PushWork
<1>14. ASSUME NEW w \in Workers, FailInClone(w) PROVE BranchesInv'
  BY <1>1, <1>2, <1>14, FailSound, SoundKept DEF FailInClone
<1> QED
  BY <1>3, <1>4, <1>5, <1>6, <1>7, <1>8, <1>9, <1>10, <1>11, <1>12, <1>13, <1>14
     DEF BranchesNext

\* The invariant holds before the first command.
LEMMA BranchesInitial == BranchesInit => BranchesInv
<1> SUFFICES ASSUME BranchesInit PROVE BranchesInv
  OBVIOUS
<1>1. IndInv /\ TypeOK
  BY InitInvariant DEF BranchesInit, IndInv
<1>2. Main \in Branches /\ 0 \notin Issues
  BY WorkflowAssumption DEF Branches
<1>3. <<>> \in Seq(Commits) /\ <<>> # Absent
  <2>1. <<>> \in Seq(Commits)
    OBVIOUS
  <2> QED
    BY <2>1, AbsentIsNoHistory
<1>4. OnlyMain \in [Branches -> Histories] /\ OnlyMain[Main] # Absent
  BY <1>2, <1>3 DEF OnlyMain, Histories
<1>5. Unposted \in [branch : Branches, commit : Commits \union {NoCommit}]
  BY <1>2 DEF Unposted
<1>6. /\ origin = OnlyMain /\ remote = [w \in Workers |-> OnlyMain]
      /\ local = [w \in Workers |-> OnlyMain] /\ head = [w \in Workers |-> Main]
      /\ dirty = [w \in Workers |-> 0] /\ git = [w \in Workers |-> "none"]
      /\ target = [w \in Workers |-> Main] /\ posted = [i \in Issues |-> Unposted]
      /\ localOnly = {}
  BY DEF BranchesInit
<1> HIDE DEF Unposted, OnlyMain
<1>7. BranchesTypeOK /\ MainExists
  <2>1. /\ origin \in [Branches -> Histories]
        /\ remote \in [Workers -> [Branches -> Histories]]
        /\ local \in [Workers -> [Branches -> Histories]]
    BY <1>4, <1>6
  <2>2. /\ head \in [Workers -> Branches]
        /\ dirty \in [Workers -> Issues \union {0}]
        /\ git \in [Workers -> {"none", "commit", "push", "push-work", "no-git"}]
        /\ target \in [Workers -> Branches]
    BY <1>2, <1>6
  <2>3. posted \in [Issues -> [branch : Branches, commit : Commits \union {NoCommit}]]
    BY <1>5, <1>6
  <2>4. Exists(origin, Main) /\ \A w \in Workers : Exists(local[w], head[w]) /\ Exists(local[w], Main)
    BY <1>4, <1>6 DEF Exists
  <2>5. \A w \in Workers : git[w] = "none"
    BY <1>6
  <2> QED
    BY <1>1, <1>6, <2>1, <2>2, <2>3, <2>4, <2>5 DEF BranchesTypeOK, MainExists
<1>8. LinkedPlanIsPushed
  BY <1>6 DEF LinkedPlanIsPushed, Unposted
<1>9. WaitingPlanIsPushed
  BY DEF BranchesInit, Init, NewItem, WaitingPlanIsPushed, PlanStages
<1>10. ASSUME NEW w \in Workers PROVE KnowsCommand(w) /\ KnowsPlan(w) /\ PlanComesFirst(w)
  <2>1. /\ pc[w] = "idle" /\ job[w] = NoJob /\ view[w] = NoView /\ git[w] = "none"
    BY <1>6 DEF BranchesInit, Init
  <2>2. NoJob.issue = 0 /\ NoJob.signal = "none"
    BY DEF NoJob
  <2>3. \A i \in Issues : NoView[i].stage \notin PlanStages
    BY DEF NoView, NoItem, NewItem, PlanStages
  <2> QED
    BY <1>2, <2>1, <2>2, <2>3 DEF KnowsCommand, KnowsPlan, PlanComesFirst
<1> QED
  BY <1>1, <1>7, <1>8, <1>9, <1>10 DEF BranchesInv

\* It holds when nothing happens.
LEMMA BranchesStutter == BranchesInv /\ UNCHANGED allVars => BranchesInv'
<1> SUFFICES ASSUME BranchesInv, UNCHANGED allVars PROVE BranchesInv'
  OBVIOUS
<1>1. IndInv'
  BY StutterKept DEF BranchesInv, allVars
<1>2. /\ origin' = origin /\ remote' = remote /\ local' = local /\ head' = head
      /\ dirty' = dirty /\ git' = git /\ target' = target /\ posted' = posted
      /\ localOnly' = localOnly
      /\ item' = item /\ pc' = pc /\ job' = job /\ view' = view
  BY DEF allVars, vars, gitVars
<1>3. BranchesTypeOK'
  BY <1>1, <1>2, GitTyped DEF BranchesTypeOK, Exists, IndInv
<1>4. MainExists' /\ LinkedPlanIsPushed' /\ WaitingPlanIsPushed'
  BY <1>2 DEF BranchesInv, MainExists, LinkedPlanIsPushed, WaitingPlanIsPushed, PlanIsPushed,
     Exists
<1>5. ASSUME NEW v \in Workers
      PROVE  KnowsCommand(v)' /\ KnowsPlan(v)' /\ PlanComesFirst(v)'
  <2>1. KnowsCommand(v) /\ KnowsPlan(v) /\ PlanComesFirst(v)
    BY DEF BranchesInv
  <2> QED
    BY <1>2, <2>1 DEF KnowsCommand, KnowsPlan, PlanIsPushed, PlanComesFirst, PlanFileThere,
       Exists
<1> QED
  BY <1>1, <1>3, <1>4, <1>5 DEF BranchesInv

-------------------------------------------------------------------------------
\* BranchesInv is an invariant of the helper processes and their clones,
\* exclusive or overlapping.
THEOREM BranchesInvariance == BranchesSpec => []BranchesInv
<1>1. BranchesInv /\ [BranchesNext]_allVars => BranchesInv'
  BY BranchesKept, BranchesStutter
<1> QED
  BY <1>1, BranchesInitial, PTL DEF BranchesSpec

\* The variables keep their types: no clone stands on a branch it does not have,
\* and git calls are made only inside a command that publishes a plan.
THEOREM BranchesTypeCorrect == BranchesSpec => []BranchesTypeOK
<1>1. BranchesInv => BranchesTypeOK
  BY DEF BranchesInv
<1> QED
  BY <1>1, BranchesInvariance, PTL

\* A plan comment of a command that ran git links a branch that has the plan on
\* GitHub, however pushes of several clones meet, wherever a `post-plan` dies, and
\* whatever the commands given --no-git do before, after or meanwhile.
THEOREM LinksHold == BranchesSpec => []LinkedPlanIsPushed
<1>1. BranchesInv => LinkedPlanIsPushed
  BY DEF BranchesInv
<1> QED
  BY <1>1, BranchesInvariance, PTL

\* No command, and no copy a command writes back, leaves an issue waiting for a
\* plan that only a clone has, unless a plan of that issue was published with
\* --no-git.
THEOREM PlansArePushed == BranchesSpec => []WaitingPlanIsPushed
<1>1. BranchesInv => WaitingPlanIsPushed
  BY DEF BranchesInv
<1> QED
  BY <1>1, BranchesInvariance, PTL

\* No push of a worker takes away what another one pushed.
THEOREM PushesKept == BranchesSpec => PushedIsKept
<1>1. BranchesTypeOK /\ [BranchesNext]_allVars => OriginGrows
  BY OriginKept, UnchangedGrows DEF allVars, gitVars
<1>2. OriginGrows => \A b \in Branches :
          Exists(origin, b) => Exists(origin', b) /\ Seqs!IsPrefix(origin[b], origin'[b])
  BY DEF OriginGrows
<1>3. BranchesSpec => [][OriginGrows]_allVars
  BY <1>1, BranchesTypeCorrect, PTL DEF BranchesSpec
<1> QED
  BY <1>3, PTL DEF PushedIsKept, OriginGrows
-------------------------------------------------------------------------------
(* Without overlap: what a worker that takes up an implementation starts from *)

\* What the calls of a command have in common: only a selection leads to a claim.
LEMMA ContinueSteps ==
    ASSUME BranchesInv, NEW w \in Workers, Continue(w)
    PROVE  /\ pc[w] # "idle"
           /\ \/ pc'[w] = "idle"
              \/ /\ job'[w].command = job[w].command
                 /\ task'[w] = task[w] \/ task'[w].action = "none"
                 /\ pc'[w] \in {"claim", "relabel"} =>
                       \/ /\ pc[w] \in {"claim", "relabel"}
                          /\ job'[w].issue = job[w].issue /\ job'[w].seen = job[w].seen
                       \/ pc[w] = "sync" /\ \E i \in Issues : BeginClaim(w, i)
           /\ \A v \in Workers \ {w} : task'[v] = task[v]
<1>1. TypeOK /\ job[w] \in Jobs
  BY GitTyped DEF TypeOK
<1> DEFINE Goal ==
        /\ pc[w] # "idle"
        /\ \/ pc'[w] = "idle"
           \/ /\ job'[w].command = job[w].command
              /\ task'[w] = task[w] \/ task'[w].action = "none"
              /\ pc'[w] \in {"claim", "relabel"} =>
                    \/ /\ pc[w] \in {"claim", "relabel"}
                       /\ job'[w].issue = job[w].issue /\ job'[w].seen = job[w].seen
                    \/ pc[w] = "sync" /\ \E i \in Issues : BeginClaim(w, i)
        /\ \A v \in Workers \ {w} : task'[v] = task[v]
<1>2. Return(w) => pc'[w] = "idle"
  BY <1>1 DEF Return, TypeOK
<1>3. ASSUME NEW stage, AfterSync(w, stage)
      PROVE  pc'[w] = "idle" \/ (pc'[w] = "sync" /\ job'[w].command = job[w].command)
  BY <1>1, <1>2, <1>3 DEF AfterSync, TypeOK, NoJob
<1>4. ASSUME ReadItem(w) PROVE Goal
  <2>1. /\ pc[w] = "read" /\ pc'[w] = "comments" /\ task' = task
        /\ job'[w] = [job[w] EXCEPT !.seen = item[job[w].issue]]
    BY <1>1, <1>4 DEF ReadItem, TypeOK
  <2> QED
    BY <1>1, <2>1 DEF Jobs
<1>5. ASSUME ReadComments(w) PROVE Goal
  <2>1. pc[w] = "comments" /\ task' = task
    BY <1>5 DEF ReadComments
  <2>2. CASE AfterSync(w, job[w].seen.stage)
    BY <1>3, <2>1, <2>2
  <2>3. ASSUME NEW event, NEW at, job' = [job EXCEPT ![w].signal = event, ![w].at = at],
               pc' = [pc EXCEPT ![w] = "patch"]
        PROVE  Goal
    <3>1. job'[w] = [job[w] EXCEPT !.signal = event, !.at = at] /\ pc'[w] = "patch"
      BY <1>1, <2>3 DEF TypeOK
    <3> QED
      BY <1>1, <2>1, <3>1 DEF Jobs
  <2> QED
    BY <1>5, <2>2, <2>3 DEF ReadComments
<1>6. ASSUME PatchTransition(w) PROVE Goal
  <2>1. /\ pc[w] = "patch" /\ pc'[w] = "release" /\ task' = task
        /\ job'[w] = [job[w] EXCEPT !.drop = job[w].seen.labels]
    BY <1>1, <1>6 DEF PatchTransition, TypeOK
  <2> QED
    BY <1>1, <2>1 DEF Jobs
<1>7. ASSUME RemoveLabel(w) PROVE Goal
  <2>1. PICK label \in job[w].drop : job' = [job EXCEPT ![w].drop = @ \ {label}]
    BY <1>7 DEF RemoveLabel
  <2>2. /\ pc[w] \in {"release", "relabel", "unlabel"} /\ pc' = pc /\ task' = task
        /\ job'[w] = [job[w] EXCEPT !.drop = @ \ {label}]
    BY <1>1, <1>7, <2>1 DEF RemoveLabel, TypeOK
  <2> QED
    BY <1>1, <2>2 DEF Jobs
<1>8. ASSUME AssignOwner(w) PROVE Goal
  <2>1. pc[w] = "release" /\ (task' = task \/ task' = [task EXCEPT ![w] = NoTask])
    BY <1>8 DEF AssignOwner
  <2>2. /\ task'[w] = task[w] \/ task'[w].action = "none"
        /\ \A v \in Workers \ {w} : task'[v] = task[v]
    BY <1>1, <2>1 DEF TypeOK, NoTask
  <2>3. CASE AfterSync(w, Decision(w).stage)
    BY <1>3, <2>1, <2>2, <2>3
  <2>4. CASE pc' = [pc EXCEPT ![w] = "publish"] /\ job' = job
    BY <1>1, <2>1, <2>2, <2>4 DEF TypeOK
  <2> QED
    BY <1>8, <2>3, <2>4 DEF AssignOwner
<1>9. ASSUME PublishPlan(w) \/ AddOwnLabel(w) \/ ResetDone(w) PROVE Goal
  <2>1. pc[w] # "idle" /\ pc'[w] = "idle"
    BY <1>2, <1>9 DEF PublishPlan, AddOwnLabel, ResetDone
  <2>2. \A v \in Workers \ {w} : task'[v] = task[v]
    BY <1>1, <1>9 DEF PublishPlan, AddOwnLabel, ResetDone, TypeOK
  <2> QED
    BY <2>1, <2>2
<1>10. ASSUME NextReadItem(w) PROVE Goal
  <2>1. PICK i \in pending[w] : job' = [job EXCEPT ![w].issue = i, ![w].seen = item[i]]
    BY <1>10 DEF NextReadItem
  <2>2. /\ pc[w] = "sync" /\ pc'[w] = "comments" /\ task' = task
        /\ job'[w] = [job[w] EXCEPT !.issue = i, !.seen = item[i]]
    BY <1>1, <1>10, <2>1 DEF NextReadItem, TypeOK
  <2> QED
    BY <1>1, <2>2 DEF Jobs
<1>11. ASSUME Select(w) PROVE Goal
  <2>1. pc[w] = "sync"
    BY <1>11 DEF Select
  <2>2. CASE Return(w) /\ UNCHANGED task
    BY <1>2, <2>1, <2>2
  <2>3. ASSUME NEW i \in Issues, Resume(w, i) PROVE Goal
    BY <1>1, <1>2, <2>1, <2>3 DEF Resume, TypeOK
  <2>4. ASSUME NEW i \in Issues, BeginClaim(w, i) PROVE Goal
    <3>1. job'[w] = [job[w] EXCEPT !.issue = i, !.seen = view[w][i]] /\ task' = task
      BY <1>1, <2>4 DEF BeginClaim, TypeOK
    <3> QED
      BY <1>1, <2>1, <2>4, <3>1 DEF Jobs
  <2> HIDE DEF Goal
  <2> QED
    BY <1>11, <2>2, <2>3, <2>4, SelectCases
<1>12. ASSUME ClaimPatch(w) PROVE Goal
  <2>1. /\ pc[w] = "claim" /\ pc'[w] = "relabel" /\ task' = task
        /\ job'[w] = [job[w] EXCEPT !.drop = job[w].seen.labels \ {w}]
    BY <1>1, <1>12 DEF ClaimPatch, TypeOK
  <2> QED
    BY <1>1, <2>1 DEF Jobs
<1>13. ASSUME ResetPatch(w) \/ ResetAssignee(w) PROVE Goal
  <2>1. /\ pc[w] # "idle" /\ pc'[w] \in {"unassign", "unlabel"} /\ task' = task
        /\ job'[w] = job[w] \/ job'[w] = [job[w] EXCEPT !.drop = job[w].seen.labels]
    BY <1>1, <1>13 DEF ResetPatch, ResetAssignee, TypeOK
  <2> QED
    BY <1>1, <2>1 DEF Jobs
<1> HIDE DEF Goal
<1>14. Goal
  BY <1>4, <1>5, <1>6, <1>7, <1>8, <1>9, <1>10, <1>11, <1>12, <1>13 DEF Continue
<1> QED
  BY <1>14 DEF Goal

\* A command starts alone; only `next` starts as "next".
LEMMA StartSteps ==
    ASSUME BranchesInv, NEW w \in Workers, StartsPlain(w) \/ StartsPlan(w)
    PROVE  /\ Exclusive => Quiet
           /\ StartsOther(w) => pc'[w] = "idle" \/ job'[w].command # "next"
           /\ StartsPlan(w) => job'[w].command = "post-plan"
           /\ \A v \in Workers \ {w} : task'[v] = task[v]
<1>1. TypeOK
  BY GitTyped
<1>2. ASSUME NEW command, NEW i, NEW signal, NEW next, Begin(w, command, i, signal, next)
      PROVE  job'[w].command = command
  BY <1>1, <1>2 DEF Begin, TypeOK, NoJob
<1>3. Exclusive => Quiet
  BY DEF StartsPlain, StartsOther, StartsPlan, ApprovalCommand, RecordDecision, ClaimCommand,
     ResetCommand, StageReview, CreatePullRequest, Complete, NextCommand, PostPlan, RevisePlan, CanStart
<1>4. \A v \in Workers \ {w} : task'[v] = task[v]
  BY <1>1 DEF StartsPlain, StartsOther, StartsPlan, ApprovalCommand, RecordDecision, ClaimCommand,
     ResetCommand, StageReview, CreatePullRequest, Complete, NextCommand, PostPlan, RevisePlan,
     TypeOK
<1>5. StartsPlan(w) => job'[w].command = "post-plan"
  BY <1>2 DEF StartsPlan, PostPlan, RevisePlan
<1>6. ASSUME StartsOther(w)
      PROVE  pc'[w] = "idle" \/ job'[w].command # "next"
  <2>1. ASSUME NEW i \in Issues,
               ApprovalCommand(w, i) \/ ClaimCommand(w, i) \/ ResetCommand(w, i)
        PROVE  job'[w].command # "next"
    BY <1>2, <2>1 DEF ApprovalCommand, ClaimCommand, ResetCommand
  <2>2. ASSUME NEW i \in Issues, RecordDecision(w, i) PROVE job'[w].command # "next"
    BY <1>1, <2>2 DEF RecordDecision, TypeOK, NoJob
  <2>3. ASSUME StageReview(w) \/ Complete(w) PROVE job'[w].command # "next"
    BY <1>2, <2>3 DEF StageReview, Complete
  <2>4. ASSUME CreatePullRequest(w) PROVE pc'[w] = "idle"
    BY <2>4 DEF CreatePullRequest, CanStart
  <2> QED
    BY <1>6, <2>1, <2>2, <2>3, <2>4 DEF StartsOther
<1> QED
  BY <1>3, <1>4, <1>5, <1>6
\* Nobody else's part of the exclusive invariant is touched by a worker's step.
Apart(w) ==
    /\ Alone(w)
    /\ \A v \in Workers \ {w} :
          /\ task'[v] = task[v] /\ remote'[v] = remote[v]
          /\ target'[v] = target[v] /\ git'[v] = git[v]
    /\ posted' = posted \/ pc[w] # "idle"

\* It starts alone, goes on, or ends.
InTurn(w) == pc[w] # "idle" \/ Quiet \/ pc'[w] = "idle" \/ pc'[w] = pc[w]

\* What only the running command knows is kept when it is that command's turn.
LEMMA TurnKept ==
    ASSUME BranchesInv, ExclusiveBranchesInv, NEW w \in Workers, Apart(w), InTurn(w),
           TakesUpPlan(w)'
    PROVE  ExclusiveBranchesInv'
<1>1. OneCommand /\ \A v \in Workers : TakesUpPlan(v)
  BY DEF ExclusiveBranchesInv
<1>2. OneCommand'
  BY <1>1 DEF OneCommand, Apart, Alone, InTurn, Quiet
<1>3. ASSUME NEW v \in Workers \ {w} PROVE TakesUpPlan(v)'
  <2>1. /\ pc'[v] = pc[v] /\ job'[v] = job[v]
        /\ task'[v] = task[v] /\ remote'[v] = remote[v]
        /\ target'[v] = target[v] /\ git'[v] = git[v]
    BY DEF Apart, Alone
  <2>2. posted' = posted \/ pc[v] = "idle"
    BY <1>1 DEF Apart, OneCommand
  <2> QED
    BY <1>1, <2>1, <2>2 DEF TakesUpPlan
<1> QED
  BY <1>2, <1>3 DEF ExclusiveBranchesInv

\* A worker whose command keeps going, with nothing new fetched or linked
LEMMA GoesOnTakesUp ==
    ASSUME NEW w \in Workers, TakesUpPlan(w), UNCHANGED <<remote, target, posted>>,
           git'[w] \in {"commit", "push"} => job'[w].command = "post-plan",
           \/ pc'[w] = "idle"
           \/ /\ pc[w] # "idle"
              /\ job'[w].command = job[w].command
              /\ task'[w] = task[w] \/ task'[w].action = "none"
              /\ pc'[w] \in {"claim", "relabel"} =>
                    /\ pc[w] \in {"claim", "relabel"}
                    /\ job'[w].issue = job[w].issue /\ job'[w].seen = job[w].seen
    PROVE  TakesUpPlan(w)'
  BY DEF TakesUpPlan

\* Tracker calls take up a plan only through a `next` or `claim` that fetched it.
LEMMA ExclusiveTracker ==
    ASSUME Exclusive, BranchesInv, ExclusiveBranchesInv, NEW w \in Workers, GitDone(w),
           UNCHANGED <<remote, target, posted, git>>,
           StartsOther(w) \/ Continue(w),
           pc'[w] = "claim" => pc[w] # "sync" \/ StartsOther(w)
    PROVE  ExclusiveBranchesInv'
<1>1. TypeOK /\ TakesUpPlan(w) /\ Alone(w)
  BY GitTyped, HelperAlone DEF ExclusiveBranchesInv, StartsOther, Start
<1>2. CASE StartsOther(w)
  <2>1. /\ Quiet
        /\ pc'[w] = "idle" \/ job'[w].command # "next"
        /\ \A v \in Workers \ {w} : task'[v] = task[v]
    BY <1>2, StartSteps DEF StartsPlain
  <2>2. TakesUpPlan(w)'
    BY <2>1 DEF TakesUpPlan, GitDone
  <2>3. Apart(w) /\ InTurn(w)
    BY <1>1, <2>1 DEF Apart, InTurn
  <2> QED
    BY <2>2, <2>3, TurnKept
<1>3. CASE ~ StartsOther(w)
  <2>1. /\ pc[w] # "idle"
        /\ \/ pc'[w] = "idle"
           \/ /\ job'[w].command = job[w].command
              /\ task'[w] = task[w] \/ task'[w].action = "none"
              /\ pc'[w] \in {"claim", "relabel"} =>
                    \/ /\ pc[w] \in {"claim", "relabel"}
                       /\ job'[w].issue = job[w].issue /\ job'[w].seen = job[w].seen
                    \/ pc[w] = "sync" /\ \E i \in Issues : BeginClaim(w, i)
        /\ \A v \in Workers \ {w} : task'[v] = task[v]
    BY <1>3, ContinueSteps
  <2>2. \A i \in Issues : BeginClaim(w, i) => pc'[w] = "claim"
    BY <1>1 DEF BeginClaim, TypeOK
  <2>3. TakesUpPlan(w)'
    BY <1>1, <1>3, <2>1, <2>2, GoesOnTakesUp DEF GitDone
  <2>4. Apart(w) /\ InTurn(w)
    BY <1>1, <2>1 DEF Apart, InTurn
  <2> QED
    BY <2>3, <2>4, TurnKept
<1> QED
  BY <1>2, <1>3

\* `next` claims on the branch the plan comment links, which it has fetched.
LEMMA ExclusiveSelect ==
    ASSUME Exclusive, BranchesInv, ExclusiveBranchesInv, NEW w \in Workers, SelectInClone(w)
    PROVE  ExclusiveBranchesInv'
<1>1. /\ Select(w) /\ pc[w] = "sync"
      /\ remote' = remote /\ posted' = posted /\ git' = git
  BY DEF SelectInClone, Select
<1>2. TypeOK /\ TakesUpPlan(w) /\ Alone(w)
  BY <1>1, GitTyped, HelperAlone DEF ExclusiveBranchesInv, Continue
<1>3. git[w] = "none"
  BY <1>1, NoGitCalls
<1>4. /\ \/ pc'[w] = "idle"
         \/ /\ job'[w].command = job[w].command
            /\ task'[w] = task[w] \/ task'[w].action = "none"
            /\ pc'[w] \in {"claim", "relabel"} => \E i \in Issues : BeginClaim(w, i)
      /\ \A v \in Workers \ {w} : task'[v] = task[v]
  BY <1>1, ContinueSteps DEF Continue
<1>5. \A v \in Workers \ {w} : target'[v] = target[v]
  BY GitTyped DEF SelectInClone
<1>6. ASSUME NEW i \in Issues, BeginClaim(w, i), job'[w].seen.stage # "Planning"
      PROVE  target'[w] = posted'[job'[w].issue].branch
  <2>1. /\ job'[w] = [job[w] EXCEPT !.issue = i, !.seen = view[w][i]] /\ pc'[w] = "claim"
        /\ job[w] \in Jobs
    BY <1>2, <1>6 DEF BeginClaim, TypeOK
  <2>2. job'[w].issue = i /\ job'[w].seen = view[w][i]
    BY <2>1 DEF Jobs
  <2>3. target' = [target EXCEPT ![w] = posted[i].branch]
    BY <1>6, <2>1, <2>2 DEF SelectInClone, WorkflowBranch
  <2> QED
    BY <1>1, <2>2, <2>3, GitTyped
<1>7. TakesUpPlan(w)'
  BY <1>1, <1>2, <1>3, <1>4, <1>6 DEF TakesUpPlan
<1>8. Apart(w) /\ InTurn(w)
  BY <1>1, <1>2, <1>4, <1>5 DEF Apart, InTurn
<1> QED
  BY <1>7, <1>8, TurnKept

\* `next` and `claim` begin with a fetch.
LEMMA ExclusiveFetch ==
    ASSUME Exclusive, BranchesInv, ExclusiveBranchesInv, NEW w \in Workers,
           NextInClone(w) \/ \E i \in Issues : ClaimInClone(w, i)
    PROVE  ExclusiveBranchesInv'
<1>1. /\ git[w] = "none" /\ git' = git /\ posted' = posted
      /\ remote' = [remote EXCEPT ![w] = origin]
      /\ target' = target \/ \E i \in Issues : target' = [target EXCEPT ![w] = BranchName(w, i)]
  BY DEF NextInClone, ClaimInClone, Preflight
<1>2. /\ StartsPlain(w)
      /\ NextInClone(w) => NextCommand(w)
      /\ ~ NextInClone(w) => StartsOther(w)
  BY DEF NextInClone, ClaimInClone, StartsPlain, StartsOther
<1>3. TypeOK /\ Alone(w)
  BY <1>2, GitTyped, HelperAlone DEF ExclusiveBranchesInv, StartsPlain, StartsOther, Start
<1>4. Quiet /\ \A v \in Workers \ {w} : task'[v] = task[v]
  BY <1>2, StartSteps
<1>5. /\ remote'[w] = origin
      /\ \A v \in Workers \ {w} : remote'[v] = remote[v] /\ target'[v] = target[v]
  BY <1>1, GitTyped
<1>6. TakesUpPlan(w)'
  <2>1. CASE NextInClone(w)
    <3>1. pc'[w] = "sync" /\ task'[w].action = "none"
      BY <1>2, <1>3, <2>1 DEF NextCommand, TypeOK, NoTask
    <3>2. \A i \in Issues : posted'[i].commit # NoCommit =>
              Holds(remote'[w][posted'[i].branch], posted'[i].commit)
      BY <1>1, <1>5 DEF BranchesInv, LinkedPlanIsPushed
    <3> QED
      BY <1>1, <3>1, <3>2 DEF TakesUpPlan
  <2>2. CASE ~ NextInClone(w)
    <3>1. pc'[w] = "idle" \/ job'[w].command # "next"
      BY <1>2, <2>2, StartSteps
    <3> QED
      BY <1>1, <3>1 DEF TakesUpPlan
  <2> QED
    BY <2>1, <2>2
<1>7. Apart(w) /\ InTurn(w)
  BY <1>1, <1>3, <1>4, <1>5 DEF Apart, InTurn
<1> QED
  BY <1>6, <1>7, TurnKept
\* Steps after which the worker runs no `next`
LEMMA ExclusiveOther ==
    ASSUME BranchesInv, ExclusiveBranchesInv, NEW w \in Workers, Alone(w),
           \A v \in Workers \ {w} :
              /\ task'[v] = task[v] /\ remote'[v] = remote[v]
              /\ target'[v] = target[v] /\ git'[v] = git[v],
           posted' = posted \/ pc[w] # "idle",
           pc[w] # "idle" \/ Quiet \/ pc'[w] = "idle",
           git'[w] \in {"commit", "push"} => job'[w].command = "post-plan",
           pc'[w] = "idle" \/ job'[w].command # "next"
    PROVE  ExclusiveBranchesInv'
<1>1. Apart(w) /\ InTurn(w)
  BY DEF Apart, InTurn
<1>2. TakesUpPlan(w)'
  BY DEF TakesUpPlan
<1> QED
  BY <1>1, <1>2, TurnKept

\* Git calls, the link, and the steps that end a command or change a worktree
LEMMA ExclusiveGit ==
    ASSUME Exclusive, BranchesInv, ExclusiveBranchesInv, NEW w \in Workers,
           \/ LabelAndCheckOut(w) \/ Edit(w) \/ CleanWorktree(w) \/ PostPlanInClone(w)
           \/ \E i \in Issues : RevisePlanInClone(w, i)
           \/ CommitPlan(w) \/ PushPlan(w) \/ CommitWork(w) \/ PushWork(w) \/ FailInClone(w)
    PROVE  ExclusiveBranchesInv'
<1>1. /\ TypeOK /\ TakesUpPlan(w) /\ PlanComesFirst(w)
      /\ git[w] \in {"commit", "push"} => pc[w] \in {"patch", "publish"}
  BY GitTyped DEF ExclusiveBranchesInv, BranchesInv
<1>2. posted' = posted /\ target' = target
  BY DEF LabelAndCheckOut, Edit, CleanWorktree, PostPlanInClone, RevisePlanInClone, CommitPlan,
     PushPlan, CommitWork, PushWork, FailInClone
<1>3. Return(w) => pc'[w] = "idle" /\ Alone(w)
  BY <1>1, HelperAlone DEF Return, TypeOK
<1>4. CASE LabelAndCheckOut(w)
  <2>1. /\ Return(w) /\ git' = git /\ remote' = remote /\ pc[w] = "relabel"
        /\ \A v \in Workers \ {w} : task'[v] = task[v]
    BY <1>1, <1>4 DEF LabelAndCheckOut, AddOwnLabel, TypeOK
  <2>2. git[w] = "none"
    BY <2>1, NoGitCalls
  <2> QED
    BY <1>2, <1>3, <2>1, <2>2, ExclusiveOther
<1>5. CASE Edit(w) \/ CleanWorktree(w)
  <2>1. /\ git' = git /\ git[w] = "none" /\ remote' = remote /\ pc' = pc /\ pc[w] = "idle"
        /\ task' = task /\ job' = job /\ view' = view
    BY <1>5 DEF Edit, CleanWorktree, vars
  <2> QED
    BY <1>2, <2>1, ExclusiveOther DEF Alone
<1>6. CASE PostPlanInClone(w) \/ \E i \in Issues : RevisePlanInClone(w, i)
  <2>1. /\ StartsPlan(w) /\ remote' = remote
        /\ git' = [git EXCEPT ![w] = "commit"] \/ git' = [git EXCEPT ![w] = "no-git"]
    BY <1>6 DEF PostPlanInClone, RevisePlanInClone, StartsPlan, GitOption
  <2>2. /\ Quiet /\ job'[w].command = "post-plan"
        /\ \A v \in Workers \ {w} : task'[v] = task[v]
    BY <2>1, StartSteps
  <2>3. Alone(w)
    BY <1>1, <2>1, HelperAlone DEF StartsPlan, Start
  <2>4. \A v \in Workers \ {w} : git'[v] = git[v]
    BY <2>1, GitTyped
  <2> QED
    BY <1>2, <2>1, <2>2, <2>3, <2>4, ExclusiveOther
<1>7. CASE CommitPlan(w)
  <2>1. /\ git[w] = "commit" /\ git' = [git EXCEPT ![w] = "push"] /\ remote' = remote
        /\ pc' = pc /\ task' = task /\ job' = job /\ view' = view
    BY <1>7 DEF CommitPlan, vars
  <2>2. pc[w] # "idle" /\ job[w].command = "post-plan"
    BY <1>1, <2>1 DEF TakesUpPlan
  <2>3. \A v \in Workers \ {w} : git'[v] = git[v]
    BY <2>1, GitTyped
  <2> QED
    BY <1>2, <2>1, <2>2, <2>3, ExclusiveOther DEF Alone
<1>8. CASE PushPlan(w)
  <2>1. /\ git[w] = "push" /\ git' = [git EXCEPT ![w] = "none"] /\ task' = task
        /\ Return(w) \/ UNCHANGED <<pc, job, view>>
        /\ remote' = remote \/ remote' = [remote EXCEPT ![w][head[w]] = local[w][head[w]]]
    BY <1>8 DEF PushPlan, Pushed, vars
  <2>2. pc[w] # "idle" /\ job[w].command = "post-plan"
    BY <1>1, <2>1 DEF TakesUpPlan
  <2>3. /\ git'[w] = "none"
        /\ \A v \in Workers \ {w} : git'[v] = git[v] /\ remote'[v] = remote[v]
    BY <2>1, GitTyped
  <2>4. Alone(w) /\ (pc'[w] = "idle" \/ job'[w].command # "next")
    BY <1>3, <2>1, <2>2 DEF Alone
  <2> QED
    BY <1>2, <2>1, <2>2, <2>3, <2>4, ExclusiveOther
<1>9. CASE CommitWork(w) \/ PushWork(w)
  <2>1. /\ pc' = pc /\ task' = task /\ job' = job /\ view' = view
        /\ pc[w] = "idle"
        /\ git' = [git EXCEPT ![w] = "push-work"] \/ git' = [git EXCEPT ![w] = "none"]
        /\ remote' = remote \/ remote' = [remote EXCEPT ![w][head[w]] = local[w][head[w]]]
    BY <1>1, <1>9 DEF CommitWork, PushWork, Pushed, vars, PlanComesFirst
  <2>2. /\ git'[w] \in {"push-work", "none"}
        /\ \A v \in Workers \ {w} : git'[v] = git[v] /\ remote'[v] = remote[v]
    BY <2>1, GitTyped
  <2> QED
    BY <1>2, <2>1, <2>2, ExclusiveOther DEF Alone
<1>10. CASE FailInClone(w)
  <2>1. /\ git' = [git EXCEPT ![w] = "none"] /\ remote' = remote /\ task' = task
        /\ Return(w) \/ (UNCHANGED <<pc, job, view>> /\ git[w] = "push-work")
    BY <1>10 DEF FailInClone, Fail, nextVars
  <2>2. pc'[w] = "idle" /\ Alone(w)
    BY <1>1, <1>3, <2>1 DEF PlanComesFirst, Alone
  <2>3. git'[w] = "none" /\ \A v \in Workers \ {w} : git'[v] = git[v]
    BY <2>1, GitTyped
  <2> QED
    BY <1>2, <2>1, <2>2, <2>3, ExclusiveOther
<1> QED
  BY <1>4, <1>5, <1>6, <1>7, <1>8, <1>9, <1>10

\* The command that posts a link is no `next`.
LEMMA ExclusiveLink ==
    ASSUME Exclusive, BranchesInv, ExclusiveBranchesInv, NEW w \in Workers, PublishLink(w)
    PROVE  ExclusiveBranchesInv'
<1>1. /\ PublishPlan(w) /\ pc[w] = "publish" /\ TypeOK
      /\ remote' = remote /\ target' = target
      /\ git' = [git EXCEPT ![w] = "none"]
  BY GitTyped DEF PublishLink, PublishPlan
<1>2. git'[w] = "none" /\ \A v \in Workers \ {w} : git'[v] = git[v]
  BY <1>1, GitTyped
<1>3. pc'[w] = "idle" /\ Alone(w) /\ \A v \in Workers \ {w} : task'[v] = task[v]
  BY <1>1, HelperAlone DEF PublishPlan, Return, TypeOK
<1> QED
  BY <1>1, <1>2, <1>3, ExclusiveOther

\* Every step keeps it.
LEMMA ExclusiveKept ==
    ASSUME Exclusive, BranchesInv, ExclusiveBranchesInv, BranchesNext
    PROVE  ExclusiveBranchesInv'
<1>1. TypeOK
  BY GitTyped
<1>2. ASSUME NEW i \in Issues, HumanComment(i), UNCHANGED gitVars PROVE ExclusiveBranchesInv'
  <2>1. /\ remote' = remote /\ git' = git /\ target' = target /\ posted' = posted
        /\ pc' = pc /\ job' = job /\ task' = task
    BY <1>2 DEF gitVars, HumanComment
  <2> QED
    BY <2>1 DEF ExclusiveBranchesInv, OneCommand, TakesUpPlan
<1>3. ASSUME NEW w \in Workers,
             TrackerStep(w) \/ PatchAfterPush(w) \/ PullRequestInClone(w)
      PROVE  ExclusiveBranchesInv'
  <2>1. /\ GitDone(w) /\ UNCHANGED <<remote, target, posted, git>>
        /\ StartsOther(w) \/ Continue(w)
    BY <1>3 DEF TrackerStep, PatchAfterPush, PullRequestInClone, StartsOther, Continue, gitVars,
       GitDone
  <2>2. pc'[w] = "claim" => pc[w] # "sync" \/ StartsOther(w)
    <3>1. ASSUME NextReadItem(w) PROVE pc'[w] # "claim"
      BY <1>1, <3>1 DEF NextReadItem, TypeOK
    <3>2. \/ StartsOther(w) \/ NextReadItem(w) \/ pc[w] # "sync"
      BY <1>3 DEF TrackerStep, PatchAfterPush, PullRequestInClone, StartsOther, ReadItem,
         ReadComments, RemoveLabel, AssignOwner, ClaimPatch, ResetPatch, ResetAssignee,
         ResetDone, PatchTransition
    <3> QED
      BY <3>1, <3>2
  <2> QED
    BY <2>1, <2>2, ExclusiveTracker
<1>4. ASSUME NEW w \in Workers, NextInClone(w) \/ \E i \in Issues : ClaimInClone(w, i)
      PROVE  ExclusiveBranchesInv'
  BY <1>4, ExclusiveFetch
<1>5. ASSUME NEW w \in Workers, SelectInClone(w) PROVE ExclusiveBranchesInv'
  BY <1>5, ExclusiveSelect
<1>6. ASSUME NEW w \in Workers,
             \/ LabelAndCheckOut(w) \/ Edit(w) \/ CleanWorktree(w) \/ PostPlanInClone(w)
             \/ \E i \in Issues : RevisePlanInClone(w, i)
             \/ CommitPlan(w) \/ PushPlan(w) \/ CommitWork(w) \/ PushWork(w) \/ FailInClone(w)
      PROVE  ExclusiveBranchesInv'
  BY <1>6, ExclusiveGit
<1>7. ASSUME NEW w \in Workers, PublishLink(w) PROVE ExclusiveBranchesInv'
  BY <1>7, ExclusiveLink
<1> QED
  BY <1>2, <1>3, <1>4, <1>5, <1>6, <1>7 DEF BranchesNext

\* It holds before the first command
LEMMA ExclusiveInitial == BranchesInit => ExclusiveBranchesInv
<1> SUFFICES ASSUME BranchesInit PROVE ExclusiveBranchesInv
  OBVIOUS
<1>1. \A w \in Workers : pc[w] = "idle" /\ git[w] = "none"
  BY DEF BranchesInit, Init
<1> QED
  BY <1>1 DEF ExclusiveBranchesInv, OneCommand, TakesUpPlan

\* and when nothing happens.
LEMMA ExclusiveStutter == ExclusiveBranchesInv /\ UNCHANGED allVars => ExclusiveBranchesInv'
  BY DEF allVars, vars, gitVars, ExclusiveBranchesInv, OneCommand, TakesUpPlan

\* Without overlap, `next` has fetched every plan that was pushed and linked before
\* it checks one out.
THEOREM ExclusiveInvariance ==
    ASSUME Exclusive
    PROVE  BranchesSpec => []ExclusiveBranchesInv
<1>1. BranchesInv /\ ExclusiveBranchesInv /\ [BranchesNext]_allVars => ExclusiveBranchesInv'
  BY ExclusiveKept, ExclusiveStutter
<1> QED
  BY <1>1, ExclusiveInitial, BranchesInvariance, PTL DEF BranchesSpec

StartsFromPlan ==
    \A w \in Workers : \A i \in Issues :
        TakesUpImplementation(w, i) /\ ~ IsBehind(w, target[w]) =>
            Holds(local'[w][head'[w]], posted[i].commit)

\* The clone it checks out into has the plan.
LEMMA CheckOutFindsPlan ==
    ASSUME BranchesInv, ExclusiveBranchesInv, NEW w \in Workers, LabelAndCheckOut(w),
           job[w].command = "next", job[w].seen.stage = "Implementation",
           posted[job[w].issue].commit # NoCommit, ~ IsBehind(w, target[w])
    PROVE  Holds(local'[w][head'[w]], posted[job[w].issue].commit)
<1> DEFINE b == target[w]
           plan == posted[job[w].issue].commit
<1>1. /\ pc[w] = "relabel" /\ job[w].issue \in Issues
      /\ head' = [head EXCEPT ![w] = b]
      /\ local' = IF Exists(local[w], b) THEN local
                  ELSE [local EXCEPT ![w][b] =
                          IF Exists(remote[w], b) THEN remote[w][b] ELSE local[w][head[w]]]
  BY DEF LabelAndCheckOut, AddOwnLabel, EnsureBranch, BranchesInv, IndInv, WorkerInv,
     AddressesIssue
<1>2. /\ b = posted[job[w].issue].branch /\ Holds(remote[w][b], plan)
      /\ plan \in Commits
  BY <1>1, GitTyped DEF ExclusiveBranchesInv, TakesUpPlan
<1>3. Exists(remote[w], b)
  <2>1. NoCommit \notin Commits
    BY WorkflowAssumption DEF NoCommit, Commits
  <2>2. DOMAIN Absent = {1} /\ Absent[1] = NoCommit
    BY DEF Absent
  <2> QED
    BY <1>2, <2>1, <2>2 DEF Exists, Holds
<1>4. b \in Branches
  BY GitTyped
<1>5. Exists(local[w], b) => Seqs!IsPrefix(remote[w][b], local[w][b])
  BY DEF IsBehind
<1> HIDE DEF b, plan
<1>6. head'[w] = b
  BY <1>1, <1>4, GitTyped
<1>7. CASE Exists(local[w], b)
  <2>1. remote[w][b] \in Seq(Commits) /\ local[w][b] \in Seq(Commits)
    BY <1>3, <1>4, <1>7, GitTyped, AbsentIsNoHistory DEF Exists
  <2>2. Holds(local[w][b], plan)
    BY <1>2, <1>5, <1>7, <2>1, PrefixKeeps
  <2> QED
    BY <1>1, <1>6, <1>7, <2>2 DEF plan
<1>8. CASE ~ Exists(local[w], b)
  <2>1. local'[w][b] = remote[w][b]
    BY <1>1, <1>3, <1>4, <1>8, GitTyped
  <2> QED
    BY <1>2, <1>6, <2>1 DEF plan
<1> QED
  BY <1>7, <1>8

\* Without overlap, a worker that takes up an approved implementation starts from
\* the plan that was posted last, whoever pushed it and whatever was pushed since,
\* in a clone that has no such branch as in one whose branch is not behind.
THEOREM ImplementationFindsPlan ==
    ASSUME Exclusive
    PROVE  BranchesSpec => ImplementationStartsFromPlan
<1>1. BranchesInv /\ ExclusiveBranchesInv /\ [BranchesNext]_allVars => StartsFromPlan
  <2> SUFFICES ASSUME BranchesInv, ExclusiveBranchesInv, [BranchesNext]_allVars,
                      NEW w \in Workers,
                      pc[w] = "relabel", pc'[w] = "idle",
                      job[w].command = "next", job[w].seen.stage = "Implementation",
                      posted[job[w].issue].commit # NoCommit,
                      ~ IsBehind(w, target[w]), task'[w].action = "implement"
               PROVE  Holds(local'[w][head'[w]], posted[job[w].issue].commit)
    BY DEF StartsFromPlan, TakesUpImplementation
  <2>1. TypeOK /\ TakesUpPlan(w) /\ PlanComesFirst(w) /\ git[w] = "none"
    BY GitTyped, NoGitCalls DEF ExclusiveBranchesInv, BranchesInv
  <2>2. task[w].action = "none"
    BY <2>1 DEF TakesUpPlan
  <2>3. pc' # pc /\ task' # task
    BY <2>2
  <2>4. CASE LabelAndCheckOut(w)
    BY <2>4, CheckOutFindsPlan
  <2>5. ASSUME NEW v \in Workers, v # w, Alone(v) PROVE FALSE
    BY <2>5 DEF Alone
  <2>6. ASSUME \/ \E i \in Issues : HumanComment(i)
               \/ \E v \in Workers :
                     \/ Edit(v) \/ CleanWorktree(v) \/ CommitPlan(v) \/ PushPlan(v)
                     \/ CommitWork(v) \/ PushWork(v) \/ FailInClone(v)
        PROVE  FALSE
    BY <2>3, <2>6 DEF HumanComment, Edit, CleanWorktree, CommitPlan, PushPlan, CommitWork,
       PushWork, FailInClone, Fail, vars
  <2>7. ASSUME NEW v \in Workers,
               \/ TrackerStep(v) \/ NextInClone(v) \/ SelectInClone(v)
               \/ \E i \in Issues : ClaimInClone(v, i) \/ RevisePlanInClone(v, i)
               \/ LabelAndCheckOut(v) \/ PostPlanInClone(v) \/ PatchAfterPush(v)
               \/ PublishLink(v) \/ PullRequestInClone(v)
        PROVE  v = w
    <3>1. Start(v) \/ Continue(v)
      BY <2>7 DEF TrackerStep, NextInClone, SelectInClone, ClaimInClone, RevisePlanInClone,
         LabelAndCheckOut, PostPlanInClone, PatchAfterPush, PublishLink, PullRequestInClone,
         Start, Continue
    <3> QED
      BY <2>1, <2>5, <3>1, HelperAlone
  <2>8. CASE TrackerStep(w)
    <3>1. task' = task \/ task'[w].action = "none"
      BY <2>1, <2>8 DEF TrackerStep, ApprovalCommand, RecordDecision, ResetCommand, StageReview,
         Complete, ReadItem, ReadComments, RemoveLabel, AssignOwner, NextReadItem, ClaimPatch,
         ResetPatch, ResetAssignee, ResetDone, TypeOK, NoTask
    <3> QED
      BY <2>3, <3>1
  <2>9. ASSUME \/ NextInClone(w) \/ SelectInClone(w)
               \/ \E i \in Issues : ClaimInClone(w, i) \/ RevisePlanInClone(w, i)
               \/ PostPlanInClone(w) \/ PatchAfterPush(w) \/ PublishLink(w)
               \/ PullRequestInClone(w)
        PROVE  FALSE
    BY <2>9 DEF NextInClone, SelectInClone, ClaimInClone, RevisePlanInClone, PostPlanInClone,
       PatchAfterPush, PublishLink, PullRequestInClone, NextCommand, Select, ClaimCommand,
       RevisePlan, PostPlan, PatchTransition, PublishPlan, CreatePullRequest, CanStart
  <2>10. BranchesNext
    BY <2>3 DEF allVars, vars
  <2> QED
    BY <2>4, <2>6, <2>7, <2>8, <2>9, <2>10 DEF BranchesNext
<1>2. BranchesSpec => [][StartsFromPlan]_allVars
  BY <1>1, BranchesInvariance, ExclusiveInvariance, PTL DEF BranchesSpec
<1> QED
  BY <1>2, PTL DEF ImplementationStartsFromPlan, StartsFromPlan
=============================================================================
