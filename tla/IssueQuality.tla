----------------------------- MODULE IssueQuality -----------------------------
(***************************************************************************)
(* The pure issue quality, risk and trust evaluation of                    *)
(* src/hoisa/app/services/issue_quality.py, and the use                    *)
(* scripts/github/agent_workflow.py makes of it as the gate of             *)
(* implementation work.                                                    *)
(*                                                                         *)
(* What the evaluator matches with regular expressions is a fact about the *)
(* text: a text is a record                                                *)
(*   types    kinds named by its type:* labels                             *)
(*   headings its canonical Markdown headings (of level two or deeper)     *)
(*   risk     levels named by its risk:* labels                            *)
(*   touches  surfaces its title and body mention                          *)
(*   trusted  whether its author is an owner, member or collaborator       *)
(*   request  whether it asks for a consequential action, and whether in a *)
(*            quote, a fence or an HTML comment                            *)
(*   override whether it asks to set instructions aside                    *)
(* and a comment is a record of the last three.                            *)
(***************************************************************************)

SupportedTypes == {"task", "spike"}

TaskHeadings ==
    {"goal", "context and likely files", "acceptance criteria", "out of scope",
     "required checks"}

SpikeHeadings == {"question", "context", "deliverable", "out of scope"}

HighSurfaces ==
    {"production", "secrets", "network-or-write-tools", "github-writes",
     "privileged-settings", "workflow-helper", "github-actions"}

MediumSurfaces == {"source-code", "scripts", "tests", "workflow-docs"}

Requests == {"none", "plain", "embedded"}

Notes == [trusted : BOOLEAN, request : Requests, override : BOOLEAN]

\* classify_issue_type: labels first, then headings.  Of several type labels it
\* takes the first in the iteration order of a set of strings, which changes
\* from one run of Python to the next.
IssueTypes(text) ==
    IF text.types # {} THEN text.types
    ELSE IF "deliverable" \in text.headings THEN {"spike"}
    ELSE IF "acceptance criteria" \in text.headings THEN {"task"}
    ELSE {"unknown"}

\* _missing_issue_quality_sections
MissingSections(type, text) ==
    (IF type = "spike" THEN SpikeHeadings ELSE TaskHeadings) \ text.headings

\* _issue_quality_risk
RiskLevel(text) ==
    IF "high" \in text.risk \/ text.touches \intersect HighSurfaces # {}
    THEN "high"
    ELSE IF /\ "medium" \in text.risk \/ text.touches \intersect MediumSurfaces # {}
            /\ "low" \notin text.risk
    THEN "medium"
    ELSE "low"

-------------------------------------------------------------------------------
(* Findings are named by their codes; a code fixes the severity. *)

MissingSection(section) == [code |-> "missing-section", section |-> section]

Finding(code) == [code |-> code, section |-> "none"]

Blocking ==
    {"missing-section", "unknown-issue-type", "operator-confirmation-required",
     "authority-override-request", "quoted-or-embedded-action-request"}

\* has_blocking_findings
HasBlocking(findings) == \E f \in findings : f.code \in Blocking

Findings(type, text) ==
    { MissingSection(s) : s \in MissingSections(type, text) }
    \union { Finding("unknown-issue-type") : x \in {type} \intersect {"unknown"} }
    \union { Finding("spike-not-implementation-ready") : x \in {type} \intersect {"spike"} }
    \union { Finding("high-risk-work") : x \in {RiskLevel(text)} \intersect {"high"} }
    \union { Finding("medium-risk-work") : x \in {RiskLevel(text)} \intersect {"medium"} }

\* _requires_author_confirmation
RequiresConfirmation(source, risk) ==
    ~ source.trusted /\ (risk = "high" \/ source.request # "none")

\* The warnings about the issue text or one comment
WarningsAbout(source, risk) ==
    { f \in { Finding("operator-confirmation-required"),
              Finding("authority-override-request"),
              Finding("quoted-or-embedded-action-request") } :
        CASE f.code = "operator-confirmation-required" -> RequiresConfirmation(source, risk)
          [] f.code = "authority-override-request" -> source.override
          [] OTHER -> source.request = "embedded" }

\* _issue_quality_trust_warnings
TrustWarnings(text, notes) ==
    UNION { WarningsAbout(source, RiskLevel(text)) :
              source \in notes \union
                { [trusted |-> text.trusted, request |-> text.request,
                   override |-> text.override] } }

RecommendedSkipsTrust(type, missing, findings, warnings) ==
    IF type = "task" /\ missing = {} THEN "implement-after-approval"
    ELSE IF missing # {} THEN "clarify"
    ELSE IF HasBlocking(warnings) THEN "operator-confirmation-required"
    ELSE IF HasBlocking(findings) THEN "resolve-blocking-quality-findings"
    ELSE IF type = "spike" THEN "plan"
    ELSE "clarify"

\* _issue_quality_recommended_action
Recommended(type, missing, findings, warnings) ==
    IF missing # {} THEN "clarify"
    ELSE IF HasBlocking(warnings) THEN "operator-confirmation-required"
    ELSE IF HasBlocking(findings) THEN "resolve-blocking-quality-findings"
    ELSE IF type = "task" THEN "implement-after-approval"
    ELSE IF type = "spike" THEN "plan"
    ELSE "clarify"

\* evaluate_issue_quality, once the type is settled
Report(type, text, notes) ==
    LET missing  == MissingSections(type, text)
        findings == Findings(type, text)
        warnings == TrustWarnings(text, notes)
    IN  [type |-> type,
         missing |-> missing,
         findings |-> findings,
         warnings |-> warnings,
         recommended |-> Recommended(type, missing, findings, warnings)]

ReadyForPlanning(report) == report.type \in SupportedTypes /\ report.missing = {}

\* What `issue-quality` and the claim payload report
ReadyForImplementation(report) ==
    /\ report.type = "task"
    /\ report.missing = {}
    /\ ~ HasBlocking(report.findings)
    /\ ~ HasBlocking(report.warnings)

-------------------------------------------------------------------------------
(* The gate `next` puts before implementation work *)

\* _implementation_findings: a posted plan may stand in for missing sections.
ImplementationFindings(report, waived) ==
    IF waived THEN { f \in report.findings : f.code # "missing-section" }
    ELSE report.findings

\* _ready_for_implementation
Passes(report, waived) ==
    /\ report.type = "task"
    /\ ~ HasBlocking(ImplementationFindings(report, waived))
    /\ ~ HasBlocking(report.warnings)

ReasonIgnoresWaiver(report, waived) ==
    IF report.missing # {} /\ waived /\ report.type = "spike"
    THEN "resolve-blocking-quality-findings"
    ELSE report.recommended

\* _implementation_quality_reason
RefusalReason(report, waived) ==
    IF ~ waived \/ report.missing = {} THEN report.recommended
    ELSE IF HasBlocking(report.warnings) THEN "operator-confirmation-required"
    ELSE IF HasBlocking(ImplementationFindings(report, waived))
    THEN "resolve-blocking-quality-findings"
    ELSE report.recommended
==============================================================================
