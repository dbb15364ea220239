------------------------------ MODULE MCNextGate ------------------------------
(* NextGate for TLC. *)
EXTENDS NextGate, TLC

Text(types, headings, touches, trusted, request, override) ==
    [types |-> types, headings |-> headings, risk |-> {}, touches |-> touches,
     trusted |-> trusted, request |-> request, override |-> override]

\* What trust depends on: author, risk, request, override
Profiles ==
    { <<TRUE, {}, "plain", FALSE>>, <<FALSE, {}, "none", FALSE>>,
      <<FALSE, {"secrets"}, "none", FALSE>>, <<FALSE, {}, "plain", FALSE>>,
      <<TRUE, {"tests"}, "embedded", FALSE>>, <<TRUE, {}, "none", TRUE>> }

Shapes ==
    { <<types, headings>> :
        types \in { {}, {"task"}, {"spike"}, {"task", "epic"} },
        headings \in { TaskHeadings, TaskHeadings \ {"goal"}, SpikeHeadings } }

\* Types from labels, from headings, ambiguous and unsupported; complete texts
\* and texts that lack a section; tasks and spikes with every profile.
ManyTexts ==
    { Text(s[1], s[2], p[2], p[1], p[3], p[4]) :
        s \in { t \in Shapes : t[1] = {"task"} }, p \in Profiles }
    \union { Text(s[1], s[2], {"tests"}, TRUE, "none", FALSE) : s \in Shapes }

\* A task that nothing is wrong with
FewTexts == { Text({"task"}, TaskHeadings, {}, TRUE, "none", FALSE) }

GateTexts == (1 :> ManyTexts) @@ (2 :> FewTexts)
==============================================================================
