---------------------------- MODULE NextGate_proofs ----------------------------
(***************************************************************************)
(* Proofs about NextGate, for any issues, texts and blockers: the verdict  *)
(* of the gate agrees with the one `issue-quality` reports, a refusal      *)
(* names what is to be done, and no issue is taken whose blocker has been  *)
(* open all along.  First the facts about the evaluation of a text they    *)
(* rest on.                                                                *)
(***************************************************************************)
EXTENDS NextGate, TLAPS

\* The findings of a report say which sections are missing.
LEMMA MissingIsFound ==
    ASSUME NEW type, NEW text
    PROVE  MissingSections(type, text) # {}
             <=> \E f \in Findings(type, text) : f.code = "missing-section"
<1> DEFINE sections == { MissingSection(s) : s \in MissingSections(type, text) }
<1>1. \A f \in Findings(type, text) : f.code = "missing-section" => f \in sections
  BY DEF Findings, Finding
<1>2. sections \subseteq Findings(type, text)
  BY DEF Findings
<1>3. \A s \in MissingSections(type, text) :
         MissingSection(s) \in sections /\ MissingSection(s).code = "missing-section"
  BY DEF MissingSection
<1> QED
  BY <1>1, <1>2, <1>3

\* Comments add warnings and take none away.
LEMMA NotesOnlyWarn ==
    ASSUME NEW text, NEW notes
    PROVE  TrustWarnings(text, {}) \subseteq TrustWarnings(text, notes)
<1> DEFINE own == [trusted |-> text.trusted, request |-> text.request,
                   override |-> text.override]
<1>1. TrustWarnings(text, {}) = UNION { WarningsAbout(source, RiskLevel(text)) : source \in {own} }
  BY Zenon DEF TrustWarnings
<1>2. TrustWarnings(text, notes) =
        UNION { WarningsAbout(source, RiskLevel(text)) : source \in notes \union {own} }
  BY Zenon DEF TrustWarnings
<1> HIDE DEF own
<1> QED
  BY <1>1, <1>2

\* A report and what its parts have to do with each other.
Consistent(report) ==
    /\ report.recommended =
          Recommended(report.type, report.missing, report.findings, report.warnings)
    /\ report.missing # {} <=> \E f \in report.findings : f.code = "missing-section"

\* The fields of a report.
LEMMA ReportFacts ==
    ASSUME NEW type, NEW text, NEW notes
    PROVE  LET report == Report(type, text, notes)
           IN  /\ report.type = type
               /\ report.missing = MissingSections(type, text)
               /\ report.findings = Findings(type, text)
               /\ report.warnings = TrustWarnings(text, notes)
               /\ Consistent(report)
<1> DEFINE report == Report(type, text, notes)
<1>1. /\ report.type = type
      /\ report.missing = MissingSections(type, text)
      /\ report.findings = Findings(type, text)
      /\ report.warnings = TrustWarnings(text, notes)
      /\ report.recommended = Recommended(type, MissingSections(type, text),
                                 Findings(type, text), TrustWarnings(text, notes))
  BY Zenon DEF Report
<1> HIDE DEF report
<1>2. Consistent(report)
  BY <1>1, MissingIsFound, Zenon DEF Consistent
<1> QED
  BY <1>1, <1>2 DEF report

\* What the gate and `issue-quality` see of one text: they differ in warnings.
LEMMA SameTextReports ==
    ASSUME NEW type, NEW text, NEW notes, NEW verdict, NEW report,
           verdict = Report(type, text, {}), report = Report(type, text, notes)
    PROVE  /\ Consistent(verdict) /\ Consistent(report)
           /\ verdict.type = type /\ report.type = type
           /\ report.missing = verdict.missing /\ report.findings = verdict.findings
           /\ verdict.warnings \subseteq report.warnings
<1>1. /\ verdict.type = type /\ verdict.missing = MissingSections(type, text)
      /\ verdict.findings = Findings(type, text)
      /\ verdict.warnings = TrustWarnings(text, {}) /\ Consistent(verdict)
  BY ReportFacts
<1>2. /\ report.type = type /\ report.missing = MissingSections(type, text)
      /\ report.findings = Findings(type, text)
      /\ report.warnings = TrustWarnings(text, notes) /\ Consistent(report)
  BY ReportFacts
<1> QED
  BY <1>1, <1>2, NotesOnlyWarn

\* The three ways the code asks whether work may be implemented come to the same
\* where no plan stands in for a section.
LEMMA ReadyIsRecommended ==
    ASSUME NEW report, Consistent(report)
    PROVE  /\ ReadyForImplementation(report)
                <=> report.recommended = "implement-after-approval"
           /\ \A waived : ~ waived \/ report.missing = {} =>
                (Passes(report, waived) <=> ReadyForImplementation(report))
<1>1. ReadyForImplementation(report) <=> report.recommended = "implement-after-approval"
  BY DEF Consistent, Recommended, ReadyForImplementation
<1>2. ASSUME report.missing # {} PROVE HasBlocking(report.findings)
  BY <1>2 DEF Consistent, HasBlocking, Blocking
<1>3. ASSUME report.missing = {}
      PROVE  { f \in report.findings : f.code # "missing-section" } = report.findings
  BY <1>3 DEF Consistent
<1>4. ASSUME NEW waived, ~ waived \/ report.missing = {}
      PROVE  Passes(report, waived) <=> ReadyForImplementation(report)
  <2>1. ImplementationFindings(report, waived) = report.findings
    BY <1>3, <1>4, Zenon DEF ImplementationFindings
  <2> QED
    BY <1>2, <2>1, Zenon DEF Passes, ReadyForImplementation
<1> QED
  BY <1>1, <1>4

\* What the gate lets pass is recommended, or lacks no more than sections.
LEMMA PassedIsRecommended ==
    ASSUME NEW report, Consistent(report), NEW waived, Passes(report, waived)
    PROVE  \/ report.recommended = "implement-after-approval"
           \/ report.missing # {} /\ waived /\ ~ HasBlocking(report.warnings)
  BY ReadyIsRecommended DEF Passes

\* The reason of a refusal, and what there is to do about it
LEMMA ReasonNamesCause ==
    ASSUME NEW report, Consistent(report), NEW waived, ~ Passes(report, waived),
           NEW reason, reason = RefusalReason(report, waived)
    PROVE  \/ reason = "clarify" /\ (report.missing # {} \/ report.type \notin SupportedTypes)
           \/ reason = "operator-confirmation-required" /\ report.warnings # {}
           \/ /\ reason = "resolve-blocking-quality-findings"
              /\ \E f \in report.findings :
                    f.code \in Blocking /\ (f.code = "missing-section" => ~ waived)
           \/ reason = "plan" /\ report.type = "spike"
<1>1. report.recommended # "implement-after-approval" \/ (waived /\ report.missing # {})
  BY ReadyIsRecommended
<1>2. CASE ~ waived \/ report.missing = {}
  <2>1. reason = report.recommended
    BY <1>2 DEF RefusalReason
  <2>2. CASE report.missing # {}
    BY <2>1, <2>2 DEF Consistent, Recommended
  <2>3. CASE report.missing = {} /\ HasBlocking(report.warnings)
    BY <2>1, <2>3 DEF Consistent, Recommended, HasBlocking
  <2>4. CASE /\ report.missing = {} /\ ~ HasBlocking(report.warnings)
             /\ HasBlocking(report.findings)
    BY <2>1, <2>4 DEF Consistent, Recommended, HasBlocking
  <2>5. CASE /\ report.missing = {} /\ ~ HasBlocking(report.warnings)
             /\ ~ HasBlocking(report.findings)
    BY <1>1, <2>1, <2>5 DEF Consistent, Recommended, SupportedTypes
  <2> QED
    BY <2>2, <2>3, <2>4, <2>5
<1>3. CASE waived /\ report.missing # {}
  <2>1. report.recommended = "clarify"
    BY <1>3 DEF Consistent, Recommended
  <2>2. CASE HasBlocking(report.warnings)
    BY <1>3, <2>2 DEF RefusalReason, HasBlocking
  <2>3. CASE /\ ~ HasBlocking(report.warnings)
             /\ HasBlocking(ImplementationFindings(report, waived))
    <3>1. reason = "resolve-blocking-quality-findings"
      BY <1>3, <2>3 DEF RefusalReason
    <3>2. PICK f \in report.findings : f.code # "missing-section" /\ f.code \in Blocking
      BY <1>3, <2>3 DEF HasBlocking, ImplementationFindings
    <3> QED
      BY <3>1, <3>2
  <2>4. CASE /\ ~ HasBlocking(report.warnings)
             /\ ~ HasBlocking(ImplementationFindings(report, waived))
    BY <1>3, <2>1, <2>4 DEF RefusalReason
  <2> QED
    BY <2>2, <2>3, <2>4
<1> QED
  BY <1>2, <1>3
-------------------------------------------------------------------------------
(* What a command knows of an item. *)

\* An item that was not read can be told from one that was.
LEMMA UnseenIsNoCopy == Unseen \notin Copies
<1>1. DOMAIN Unseen = {"type"}
  BY DEF Unseen
<1>2. \A c \in Copies : "stage" \in DOMAIN c
  BY DEF Copies
<1> QED
  BY <1>1, <1>2

\* What `next` copies of an item is typed.
LEMMA CopyTyped ==
    ASSUME NEW tracked \in Tracked, NEW type \in IssueTypes(tracked.text)
    PROVE  CopyOf(tracked, type) \in Copies
<1>1. type \in Types
  BY DEF IssueTypes, Types, SupportedTypes, Tracked
<1>2. "none" \in BlockerStates
  BY DEF BlockerStates
<1> QED
  BY <1>1, <1>2 DEF CopyOf, Copies, Tracked

\* A candidate stands for an item the command has read: one this worker has in
\* progress, or a queued one that nothing blocks.
LEMMA CandidateFacts ==
    ASSUME GateTypeOK, NEW first \in Candidates(SelectableCopy, "any", "auto", "me")
    PROVE  /\ first.number \in Issues /\ view[first.number] # Unseen
           /\ first.stage = view[first.number].stage
           /\ first.status = view[first.number].status
           /\ first.status = "Todo" => ~ IsActive(view[first.number].blocker)
<1>1. first \in SelectableCopy
  BY DEF Candidates, OwnedItems, EligibleStageItems
<1>2. PICK i \in { j \in Issues : view[j] # Unseen } :
         first = [number |-> i, phase |-> NoPhase, type |-> view[i].type, routing |-> {},
                  blocked |-> IsActive(view[i].blocker), status |-> view[i].status,
                  stage |-> view[i].stage, linked |-> FALSE,
                  identities |-> IF view[i].status = "InProgress" THEN {"me"} ELSE {}]
  BY <1>1, Zenon DEF SelectableCopy
<1>3. first.status = "Todo" => ~ first.blocked
  BY DEF Candidates, OwnedItems, EligibleStageItems
<1>4. /\ first.number = i /\ first.stage = view[i].stage /\ first.status = view[i].status
      /\ first.blocked = IsActive(view[i].blocker)
  BY <1>2, Zenon
<1>5. i \in Issues /\ view[i] # Unseen
  OBVIOUS
<1>6. first.status = "Todo" => ~ IsActive(view[i].blocker)
  BY <1>3, <1>4, Zenon
<1> QED
  BY <1>4, <1>5, <1>6, Zenon

-------------------------------------------------------------------------------
(* GateInv holds at first, and every step keeps it. *)

\* The invariant holds before the first `next`.
LEMMA GateInitInv == GateInit => GateInv
<1> SUFFICES ASSUME GateInit PROVE GateInv
  OBVIOUS
<1>1. /\ pc = "idle" /\ changes = 0 /\ faults = 0 /\ unread = {} /\ misread = {}
      /\ steady = Issues /\ picked = 0 /\ view = [i \in Issues |-> Unseen]
  BY DEF GateInit
<1>2. issue \in [Issues -> Tracked]
  <2>1. \A i \in Issues : Filed(i) \subseteq Tracked
    BY DEF Filed, Tracked, Texts, BlockerStates
  <2>2. issue \in [Issues -> UNION { Filed(i) : i \in Issues }] /\ \A i \in Issues : issue[i] \in Filed(i)
    BY DEF GateInit
  <2> QED
    BY <2>1, <2>2
<1>3. GateTypeOK
  BY <1>1, <1>2, GateAssumption DEF GateTypeOK
<1> QED
  BY <1>1, <1>3 DEF GateInv, Decided, BlockersRead, PickedIsFree

\* The end of a command forgets what it read.
LEMMA EndKept ==
    ASSUME GateInv, End, issue' \in [Issues -> Tracked],
           UNCHANGED <<changes, faults, steady, picked>>
    PROVE  GateInv'
<1>1. GateTypeOK'
  BY DEF GateInv, GateTypeOK, End
<1>2. BlockersRead'
  BY DEF End, BlockersRead
<1> QED
  BY <1>1, <1>2 DEF GateInv, Decided, PickedIsFree, End

\* Authors and blockers change issues, the agent finishes one: a command that
\* runs keeps its copy, and a plan that was posted stays posted.
LEMMA IssueChanges ==
    ASSUME GateInv, issue' \in [Issues -> Tracked],
           changes' \in 0..MaxChanges, UNCHANGED <<process, faults>>,
           steady' \subseteq steady,
           pc # "idle" => \A i \in Issues : issue'[i].planned = issue[i].planned,
           \A i \in steady' : issue'[i].blocker = issue[i].blocker
    PROVE  GateInv'
<1>1. /\ pc' = pc /\ view' = view /\ unread' = unread /\ misread' = misread
      /\ picked' = picked /\ refusal' = refusal /\ faults' = faults
  BY DEF process
<1>2. GateTypeOK'
  BY <1>1 DEF GateInv, GateTypeOK
<1>3. BlockersRead'
  BY <1>1 DEF GateInv, BlockersRead
<1>4. PickedIsFree'
  BY <1>1 DEF GateInv, PickedIsFree
<1>5. Decided'
  <2>1. CASE pc \in {"claim", "hand", "refuse"}
    <3>1. Verdict(picked)' = Verdict(picked)
      BY <1>1, Zenon DEF Verdict
    <3>2. picked \in Issues
      BY <2>1 DEF GateInv, GateTypeOK
    <3>3. issue'[picked].planned = issue[picked].planned
      BY <2>1, <3>2
    <3>4. Waived(picked)' = Waived(picked)
      BY <1>1, <3>1, <3>3, Zenon DEF Waived
    <3> QED
      BY <1>1, <3>1, <3>4, Zenon DEF GateInv, Decided
  <2>2. CASE pc \notin {"claim", "hand", "refuse"}
    BY <1>1, <2>2 DEF Decided
  <2> QED
    BY <2>1, <2>2
<1> QED
  BY <1>2, <1>3, <1>4, <1>5 DEF GateInv

\* Reading a blocker keeps it: what was read then is not asserted of later moments.
LEMMA ReadBlockerInv ==
    ASSUME GateInv, NEW i \in Issues, ReadBlocker(i)
    PROVE  GateInv'
<1>1. /\ pc = "blockers" /\ i \in unread /\ unread' = unread \ {i}
      /\ issue' = issue /\ changes' = changes /\ pc' = pc /\ steady' = steady
      /\ picked' = picked /\ refusal' = refusal
  BY DEF ReadBlocker, tracker
<1>2. \/ /\ view' = [view EXCEPT ![i].blocker = issue[i].blocker]
         /\ misread' = misread /\ faults' = faults
      \/ /\ faults' = faults + 1 /\ faults < MaxFaults /\ misread' = misread \union {i}
         /\ view' = view
  BY DEF ReadBlocker
<1>3. Decided' /\ PickedIsFree'
  BY <1>1 DEF Decided, PickedIsFree
<1>4. CASE /\ view' = [view EXCEPT ![i].blocker = issue[i].blocker]
           /\ misread' = misread /\ faults' = faults
  <2> DEFINE copy == [view[i] EXCEPT !.blocker = issue[i].blocker]
  <2>1. view' = [view EXCEPT ![i] = copy]
    BY <1>4
  <2>2. issue[i].blocker \in BlockerStates
    BY DEF GateInv, GateTypeOK, Tracked
  <2>3. view[i] = Unseen => copy = Unseen
    BY DEF Unseen
  <2>4. view[i] \in Copies => copy \in Copies /\ copy.blocker = issue[i].blocker
    BY <2>2 DEF Copies
  <2> HIDE DEF copy
  <2>5. GateTypeOK'
    BY <1>1, <1>4, <2>1, <2>3, <2>4 DEF GateInv, GateTypeOK
  <2>6. BlockersRead'
    <3> SUFFICES ASSUME NEW j \in Issues, view'[j] # Unseen, view'[j].status = "Todo",
                        j \in steady, j \notin unread', j \notin misread
                 PROVE  view'[j].blocker = issue[j].blocker
      BY <1>1, <1>4 DEF BlockersRead
    <3>1. CASE j = i
      BY <2>1, <2>3, <2>4, <3>1 DEF GateInv, GateTypeOK
    <3>2. CASE j # i
      BY <1>1, <2>1, <3>2 DEF GateInv, GateTypeOK, BlockersRead
    <3> QED
      BY <3>1, <3>2
  <2> QED
    BY <1>3, <2>5, <2>6 DEF GateInv
<1>5. CASE /\ faults' = faults + 1 /\ faults < MaxFaults /\ misread' = misread \union {i}
           /\ view' = view
  <2>1. GateTypeOK'
    BY <1>1, <1>5, GateAssumption DEF GateInv, GateTypeOK
  <2>2. BlockersRead'
    BY <1>1, <1>5 DEF GateInv, BlockersRead
  <2> QED
    BY <1>3, <2>1, <2>2 DEF GateInv
<1> QED
  BY <1>2, <1>4, <1>5

\* The item that sorts first among the candidates
LEMMA SelectItemInv == GateInv /\ SelectItem => GateInv'
<1> SUFFICES ASSUME GateInv, SelectItem PROVE GateInv'
  OBVIOUS
<1>1. /\ pc = "blockers" /\ unread = {} /\ issue' = issue /\ changes' = changes
      /\ faults' = faults /\ steady' = steady /\ refusal' = refusal
  BY DEF SelectItem, AllRead, tracker
<1>2. CASE End /\ UNCHANGED picked
  BY <1>1, <1>2, EndKept DEF GateInv, GateTypeOK
<1>3. ASSUME NEW first \in Candidates(SelectableCopy, "any", "auto", "me"),
             picked' = first.number,
             pc' = IF StageAction(first.stage) = "implement" THEN "gate"
                   ELSE IF first.status = "Todo" THEN "claim" ELSE "hand",
             UNCHANGED <<view, unread, misread>>
      PROVE  GateInv'
  <2>1. /\ picked' \in Issues /\ view[picked'] # Unseen
        /\ first.stage = view[picked'].stage /\ first.status = view[picked'].status
        /\ first.status = "Todo" => ~ IsActive(view[picked'].blocker)
    BY <1>3, CandidateFacts, Zenon DEF GateInv
  <2>2. GateTypeOK'
    BY <1>1, <1>3, <2>1 DEF GateInv, GateTypeOK
  <2>3. BlockersRead'
    BY <1>1, <1>3 DEF GateInv, BlockersRead
  <2>4. PickedIsFree'
    BY <1>3, <2>1 DEF PickedIsFree
  <2>5. Decided'
    BY <1>3, <2>1 DEF Decided
  <2> QED
    BY <2>2, <2>3, <2>4, <2>5 DEF GateInv
<1>4. \/ End /\ UNCHANGED picked
      \/ \E first \in Candidates(SelectableCopy, "any", "auto", "me") :
            /\ picked' = first.number
            /\ pc' = IF StageAction(first.stage) = "implement" THEN "gate"
                     ELSE IF first.status = "Todo" THEN "claim" ELSE "hand"
            /\ UNCHANGED <<view, unread, misread>>
  BY Zenon DEF SelectItem
<1> QED
  BY <1>2, <1>3, <1>4

\* The gate keeps it: its verdict is about the copy it judged.
LEMMA GateItemInv == GateInv /\ GateItem => GateInv'
<1> SUFFICES ASSUME GateInv, GateItem PROVE GateInv'
  OBVIOUS
<1>1. /\ pc = "gate" /\ issue' = issue /\ changes' = changes /\ faults' = faults
      /\ steady' = steady /\ picked' = picked /\ view' = view /\ unread' = unread
      /\ misread' = misread
  BY DEF GateItem, tracker
<1>2. Verdict(picked)' = Verdict(picked) /\ Waived(picked)' = Waived(picked)
  BY <1>1, Zenon DEF Verdict, Waived
<1>3. \/ /\ Passes(Verdict(picked), Waived(picked)) /\ refusal' = refusal
         /\ pc' = IF view[picked].status = "Todo" THEN "claim" ELSE "hand"
      \/ /\ ~ Passes(Verdict(picked), Waived(picked)) /\ pc' = "refuse"
         /\ refusal' = RefusalReason(Verdict(picked), Waived(picked))
  BY Zenon DEF GateItem
<1>4. GateTypeOK'
  BY <1>1, <1>3 DEF GateInv, GateTypeOK
<1>5. BlockersRead'
  BY <1>1 DEF GateInv, BlockersRead
<1>6. PickedIsFree'
  BY <1>1, <1>3 DEF GateInv, PickedIsFree
<1>7. Decided'
  <2>1. CASE pc' = "refuse"
    <3>1. /\ ~ Passes(Verdict(picked), Waived(picked))
          /\ refusal' = RefusalReason(Verdict(picked), Waived(picked))
      BY <1>3, <2>1
    <3> QED
      BY <1>1, <1>2, <2>1, <3>1 DEF Decided
  <2>2. CASE pc' \in {"claim", "hand"}
    <3>1. Passes(Verdict(picked), Waived(picked))
      BY <1>3, <2>2
    <3> QED
      BY <1>1, <1>2, <2>2, <3>1 DEF Decided
  <2> QED
    BY <1>3, <2>1, <2>2
<1> QED
  BY <1>4, <1>5, <1>6, <1>7 DEF GateInv

\* A claim keeps it.
LEMMA ClaimItemInv == GateInv /\ ClaimItem => GateInv'
<1> SUFFICES ASSUME GateInv, ClaimItem PROVE GateInv'
  OBVIOUS
<1>1. /\ pc = "claim" /\ End /\ UNCHANGED <<changes, faults, steady, picked>>
  BY DEF ClaimItem
<1>2. picked \in Issues /\ view[picked] \in Copies /\ issue[picked] \in Tracked
  BY <1>1 DEF GateInv, GateTypeOK
<1>3. issue' \in [Issues -> Tracked]
  <2> DEFINE taken == [issue[picked] EXCEPT !.status = "InProgress", !.stage = view[picked].stage]
  <2>1. taken \in Tracked
    BY <1>2 DEF Tracked, Copies
  <2>2. issue' = [issue EXCEPT ![picked] = taken] \/ issue' = issue
    BY DEF ClaimItem
  <2> HIDE DEF taken
  <2> QED
    BY <2>1, <2>2 DEF GateInv, GateTypeOK
<1> QED
  BY <1>1, <1>3, EndKept

\* A new `next` forgets what the last one read.
LEMMA NextStartInv ==
    ASSUME GateInv, NEW scope \in Scopes, NextStart(scope)
    PROVE  GateInv'
<1>1. /\ pc' = "blockers" /\ issue' = issue /\ changes' = changes /\ faults' = faults
      /\ unread' = Queued(issue, scope) /\ misread' = {} /\ steady' = Issues /\ picked' = 0
  BY DEF NextStart, tracker
<1>2. PICK types \in [Issues -> UNION { IssueTypes(issue[i].text) : i \in Issues }] :
         /\ \A i \in Issues : types[i] \in IssueTypes(issue[i].text)
         /\ view' = [i \in Issues |->
              IF i \in scope THEN CopyOf(issue[i], types[i]) ELSE Unseen]
  BY Zenon DEF NextStart
<1>3. \A i \in Issues : issue[i] \in Tracked
  BY DEF GateInv, GateTypeOK
<1>4. \A i \in Issues : CopyOf(issue[i], types[i]) \in Copies
  BY <1>2, <1>3, CopyTyped
<1>5. Queued(issue, scope) \subseteq Issues
  BY DEF Queued, Scopes
<1>6. GateTypeOK'
  BY <1>1, <1>2, <1>4, <1>5 DEF GateInv, GateTypeOK
<1>7. BlockersRead'
  <2> SUFFICES ASSUME NEW i \in Issues, view'[i] # Unseen, view'[i].status = "Todo",
                      i \notin unread'
               PROVE  FALSE
    BY DEF BlockersRead
  <2>1. i \in scope /\ view'[i] = CopyOf(issue[i], types[i])
    BY <1>2
  <2>2. view'[i].status = issue[i].status
    BY <2>1 DEF CopyOf
  <2> QED
    BY <1>1, <2>1, <2>2 DEF Queued
<1> QED
  BY <1>1, <1>6, <1>7 DEF GateInv, Decided, PickedIsFree

\* Every step keeps it.
LEMMA GateStepInv == GateInv /\ [GateNext]_gateVars => GateInv'
<1> SUFFICES ASSUME GateInv, [GateNext]_gateVars PROVE GateInv'
  OBVIOUS
<1>0. issue \in [Issues -> Tracked] /\ changes \in 0..MaxChanges
  BY DEF GateInv, GateTypeOK
<1>1. ASSUME NEW i \in Issues, EditText(i) PROVE GateInv'
  <2>1. PICK t \in TextsOf[i] : issue' = [issue EXCEPT ![i].text = t]
    BY <1>1, Zenon DEF EditText
  <2>2. t \in Texts
    BY DEF Texts
  <2> DEFINE edited == [issue[i] EXCEPT !.text = t]
  <2>3. edited \in Tracked /\ edited.planned = issue[i].planned /\ edited.blocker = issue[i].blocker
    BY <1>0, <2>2 DEF Tracked
  <2>4. issue' = [issue EXCEPT ![i] = edited]
    BY <2>1
  <2>5. changes' \in 0..MaxChanges /\ UNCHANGED <<process, faults, steady>>
    BY <1>0, <1>1, GateAssumption DEF EditText
  <2> HIDE DEF edited
  <2>6. /\ issue' \in [Issues -> Tracked]
        /\ \A j \in Issues : issue'[j].planned = issue[j].planned
                             /\ issue'[j].blocker = issue[j].blocker
    BY <1>0, <2>3, <2>4
  <2> QED
    BY <2>5, <2>6, IssueChanges DEF GateInv, GateTypeOK
<1>2. ASSUME NEW i \in Issues, ChangeBlocker(i) PROVE GateInv'
  <2> DEFINE changed == [issue[i] EXCEPT !.blocker = IF @ = "open" THEN "closed" ELSE "open"]
  <2>1. changed \in Tracked /\ changed.planned = issue[i].planned
    BY <1>0 DEF Tracked, BlockerStates
  <2>2. issue' = [issue EXCEPT ![i] = changed]
    BY <1>2 DEF ChangeBlocker
  <2>3. changes' \in 0..MaxChanges /\ UNCHANGED <<process, faults>> /\ steady' = steady \ {i}
    BY <1>0, <1>2, GateAssumption DEF ChangeBlocker
  <2> HIDE DEF changed
  <2>4. /\ issue' \in [Issues -> Tracked]
        /\ \A j \in Issues : issue'[j].planned = issue[j].planned
        /\ \A j \in steady' : issue'[j].blocker = issue[j].blocker
    BY <1>0, <2>1, <2>2, <2>3
  <2> QED
    BY <2>3, <2>4, IssueChanges
<1>3. ASSUME NEW i \in Issues, FinishTask(i) PROVE GateInv'
  <2> DEFINE done == [issue[i] EXCEPT !.status = "Todo", !.planned = TRUE,
                        !.stage = IF @ = "Planning" THEN "Implementation" ELSE "Implemented"]
  <2>1. done \in Tracked /\ done.blocker = issue[i].blocker
    BY <1>0 DEF Tracked
  <2>2. issue' = [issue EXCEPT ![i] = done] /\ pc = "idle"
    BY <1>3 DEF FinishTask
  <2>3. UNCHANGED <<changes, faults, process, steady>>
    BY <1>3 DEF FinishTask
  <2> HIDE DEF done
  <2>4. /\ issue' \in [Issues -> Tracked]
        /\ \A j \in steady' : issue'[j].blocker = issue[j].blocker
    BY <1>0, <2>1, <2>2, <2>3 DEF GateInv, GateTypeOK
  <2> QED
    BY <1>0, <2>2, <2>3, <2>4, IssueChanges
<1>4. ASSUME ReturnItem PROVE GateInv'
  BY <1>0, <1>4, EndKept DEF ReturnItem, tracker
<1>5. CASE UNCHANGED gateVars
  <2>1. \A i \in steady : issue'[i].blocker = issue[i].blocker
    BY <1>5 DEF gateVars
  <2>2. UNCHANGED <<issue, changes, faults, process, steady>>
    BY <1>5 DEF gateVars, process
  <2> QED
    BY <1>0, <2>1, <2>2, IssueChanges
<1> QED
  BY <1>1, <1>2, <1>3, <1>4, <1>5, ReadBlockerInv, SelectItemInv, GateItemInv, ClaimItemInv,
     NextStartInv, Zenon DEF GateNext, Command

(***************************************************************************)
(* The inductive invariant of `next` and its gate.                         *)
(***************************************************************************)
THEOREM GateInvariance == GateSpec => []GateInv
  BY GateInitInv, GateStepInv, PTL DEF GateSpec

(***************************************************************************)
(* Whatever is edited meanwhile, an item waits for the gate, the claim or  *)
(* the answer of the command only if the command has read it.              *)
(***************************************************************************)
THEOREM GateTyped == GateSpec => []GateTypeOK
<1>1. GateInv => GateTypeOK
  BY DEF GateInv
<1> QED
  BY <1>1, GateInvariance, PTL

(***************************************************************************)
(* For every text and all comments: what the gate of `next` hands out,     *)
(* `issue-quality` recommends to implement, or it lacks only sections its  *)
(* posted plan stands in for; and the gate refuses nothing that            *)
(* `issue-quality` calls ready.                                            *)
(***************************************************************************)
THEOREM VerdictsMatch == GateSpec => []VerdictsAgree
<1>1. GateInv => VerdictsAgree
  <2> SUFFICES ASSUME GateInv PROVE VerdictsAgree
    OBVIOUS
  <2> DEFINE verdict == Verdict(picked)
             waived == Waived(picked)
  <2>1. Consistent(verdict) /\ (waived <=> verdict.missing # {} /\ issue[picked].planned)
    BY ReportFacts, Zenon DEF Verdict, Waived
  <2>2. ASSUME pc \in {"claim", "hand"}, StageAction(view[picked].stage) = "implement"
        PROVE  \/ verdict.recommended = "implement-after-approval"
               \/ /\ verdict.missing # {} /\ issue[picked].planned
                  /\ ~ HasBlocking(verdict.warnings)
    <3>1. Passes(verdict, waived)
      BY <2>2 DEF GateInv, Decided
    <3> HIDE DEF verdict, waived
    <3> QED
      BY <2>1, <3>1, PassedIsRecommended
  <2>3. ASSUME pc = "refuse", NEW notes
        PROVE  LET report == Report(view[picked].type, view[picked].text, notes)
               IN  /\ report.recommended # "implement-after-approval"
                   /\ ~ ReadyForImplementation(report)
    <3> DEFINE report == Report(view[picked].type, view[picked].text, notes)
    <3>1. ~ Passes(verdict, waived)
      BY <2>3 DEF GateInv, Decided
    <3>2. verdict = Report(view[picked].type, view[picked].text, {})
      BY DEF Verdict
    <3>3. /\ Consistent(report) /\ report.type = verdict.type
          /\ report.missing = verdict.missing /\ report.findings = verdict.findings
          /\ verdict.warnings \subseteq report.warnings
      BY <3>2, SameTextReports
    <3> HIDE DEF report, verdict, waived
    <3>4. ASSUME ReadyForImplementation(report) PROVE FALSE
      <4>1. report.missing = {} /\ ~ HasBlocking(verdict.warnings)
        BY <3>3, <3>4 DEF ReadyForImplementation, HasBlocking
      <4>2. ReadyForImplementation(verdict)
        BY <3>3, <3>4, <4>1 DEF ReadyForImplementation
      <4> QED
        BY <2>1, <3>1, <3>3, <4>1, <4>2, ReadyIsRecommended
    <3> QED
      BY <3>3, <3>4, ReadyIsRecommended DEF report
  <2> QED
    BY <2>2, <2>3, Zenon DEF VerdictsAgree
<1> QED
  BY <1>1, GateInvariance, PTL

(***************************************************************************)
(* A refusal names its cause, and what it asks for is there to be done.    *)
(***************************************************************************)
THEOREM RefusalNamesCause == GateSpec => []RefusalIsActionable
<1>1. GateInv => RefusalIsActionable
  <2> SUFFICES ASSUME GateInv, pc = "refuse" PROVE RefusalIsActionable
    BY DEF RefusalIsActionable
  <2> DEFINE verdict == Verdict(picked)
             waived == Waived(picked)
  <2>1. Consistent(verdict) /\ verdict.type = view[picked].type
    <3>1. verdict = Report(view[picked].type, view[picked].text, {})
      BY DEF Verdict
    <3> HIDE DEF verdict
    <3> QED
      BY <3>1, SameTextReports
  <2>2. waived <=> verdict.missing # {} /\ issue[picked].planned
    BY Zenon DEF Waived
  <2>3. ~ Passes(verdict, waived) /\ refusal = RefusalReason(verdict, waived)
    BY DEF GateInv, Decided
  <2> HIDE DEF verdict, waived
  <2>4. \/ refusal = "clarify" /\ (verdict.missing # {} \/ verdict.type \notin SupportedTypes)
        \/ refusal = "operator-confirmation-required" /\ verdict.warnings # {}
        \/ /\ refusal = "resolve-blocking-quality-findings"
           /\ \E f \in verdict.findings :
                 f.code \in Blocking /\ (f.code = "missing-section" => ~ waived)
        \/ refusal = "plan" /\ verdict.type = "spike"
    BY <2>1, <2>3, ReasonNamesCause, Zenon
  <2>5. \A f \in verdict.findings :
           f.code = "missing-section" /\ ~ waived => ~ issue[picked].planned
    BY <2>1, <2>2, Zenon DEF Consistent
  <2> QED
    BY <2>1, <2>4, <2>5 DEF RefusalIsActionable, verdict
<1> QED
  BY <1>1, GateInvariance, PTL

(***************************************************************************)
(* `next` takes no issue whose blocker has been open ever since it began   *)
(* and whose dependencies it could read, however blockers come and go.     *)
(***************************************************************************)
THEOREM BlockedStaysQueued == GateSpec => BlockedIsNotTaken
<1> DEFINE Taken ==
      \A i \in Issues :
        Claimed(i) => ~ (i \in steady /\ issue[i].blocker = "open" /\ i \notin misread)
<1>1. GateInv /\ [GateNext]_gateVars => [Taken]_gateVars
  <2> SUFFICES ASSUME GateInv, GateNext, NEW i \in Issues, Claimed(i),
                      i \in steady, issue[i].blocker = "open", i \notin misread
               PROVE  FALSE
    BY Zenon DEF Taken
  <2>0. issue \in [Issues -> Tracked]
    BY DEF GateInv, GateTypeOK
  <2>1. issue[i].status = "Todo" /\ issue'[i].status = "InProgress"
    BY DEF Claimed
  <2>2. ASSUME NEW j \in Issues, EditText(j) \/ ChangeBlocker(j) \/ FinishTask(j)
        PROVE  issue'[i].status \in {issue[i].status, "Todo"}
    <3>1. CASE EditText(j)
      BY <2>0, <3>1 DEF EditText, Tracked
    <3>2. CASE ChangeBlocker(j)
      BY <2>0, <3>2 DEF ChangeBlocker, Tracked
    <3>3. CASE FinishTask(j)
      BY <2>0, <3>3 DEF FinishTask, Tracked
    <3> QED
      BY <2>2, <3>1, <3>2, <3>3
  <2>3. ASSUME issue' = issue PROVE FALSE
    BY <2>1, <2>3
  <2>4. ASSUME ClaimItem PROVE FALSE
    <3>1. pc = "claim" /\ picked = i
      BY <2>0, <2>1, <2>4 DEF ClaimItem
    <3>2. /\ view[i] # Unseen /\ view[i].status = "Todo" /\ unread = {}
          /\ ~ IsActive(view[i].blocker)
      BY <3>1 DEF GateInv, GateTypeOK, PickedIsFree
    <3>3. view[i].blocker = "open"
      BY <3>2 DEF GateInv, BlockersRead
    <3> QED
      BY <3>2, <3>3 DEF IsActive
  <2>5. ASSUME NEW scope \in Scopes, NextStart(scope) PROVE issue' = issue
    BY <2>5 DEF NextStart, tracker
  <2>6. ASSUME NEW j \in Issues, ReadBlocker(j) PROVE issue' = issue
    BY <2>6 DEF ReadBlocker, tracker
  <2>7. ASSUME SelectItem \/ GateItem \/ ReturnItem PROVE issue' = issue
    BY <2>7 DEF SelectItem, GateItem, ReturnItem, tracker
  <2> QED
    BY <2>1, <2>2, <2>3, <2>4, <2>5, <2>6, <2>7 DEF GateNext, Command
<1>2. GateSpec => [][Taken]_gateVars
  BY <1>1, GateInvariance, PTL DEF GateSpec
<1> QED
  BY <1>2 DEF BlockedIsNotTaken
===============================================================================
