--------------------------- MODULE BaselineReview ---------------------------
(***************************************************************************)
(* RiskReview with PolicyAwareBaselineGateway as its model: it reads the   *)
(* facts, searches the policies once and recommends by thresholds of its   *)
(* own, which repeat those of the guardrails.                              *)
(***************************************************************************)
EXTENDS RiskReview

\* The workflow is built with its defaults and with the packaged policies, which have a
\* passage for the context of every case.
ASSUME BaselineAssumption ==
    /\ MaxSteps = 4 /\ EvidenceLimit = 3
    /\ \A c \in Context : PolicyFor[c] # <<>>

\* Mutant: its threshold of the velocity is off by one.
BaselineSignalsAfterSix(facts) ==
    {s \in {"DOCUMENT_MISMATCH", "HIGH_VELOCITY"} :
        \/ s = "DOCUMENT_MISMATCH" /\ facts.document_mismatch
        \/ s = "HIGH_VELOCITY" /\ facts.transfers_last_hour > 6}

\* _baseline_recommendation, on the facts of the tool message.
BaselineSignals(facts) ==
    {s \in {"DOCUMENT_MISMATCH", "HIGH_VELOCITY", "NEW_DEVICE_HIGH_VALUE"} :
        \/ s = "DOCUMENT_MISMATCH" /\ facts.document_mismatch
        \/ s = "HIGH_VELOCITY" /\ facts.transfers_last_hour >= 6
        \/ s = "NEW_DEVICE_HIGH_VALUE" /\ facts.new_device /\ facts.sek /\ facts.amount_minor >= 2500000}

BaselineQueue(facts) ==
    IF facts.screening_alert THEN "COMPLIANCE_MANUAL_REVIEW"
    ELSE IF BaselineSignals(facts) # {} THEN "PRIORITY_MANUAL_REVIEW"
    ELSE "STANDARD_OPERATIONS"

BaselineReasons(facts) ==
    IF facts.screening_alert THEN {"SCREENING_ALERT"}
    ELSE IF BaselineSignals(facts) # {} THEN BaselineSignals(facts)
    ELSE {"NO_CONFIGURED_ESCALATION_SIGNAL"}

\* The recommendation cites the first three passages of its one search; its summaries are
\* fixed sentences.
BaselineAdvice ==
    [queue |-> BaselineQueue(case), reason_codes |-> BaselineReasons(case),
     evidence_ids |-> First(evidence, 3), confident |-> TRUE, identifying |-> FALSE]

BaselineReadsFacts == "get_case_facts" \notin answered /\ ReadFacts

BaselineSearches ==
    /\ "get_case_facts" \in answered
    /\ "search_policy" \notin answered
    /\ \E found \in Retrievals : SearchPolicy(found)

BaselineConcludes ==
    /\ "search_policy" \in answered
    /\ Finalize(BaselineAdvice)

BaselineStep == BaselineReadsFacts \/ BaselineSearches \/ BaselineConcludes

=============================================================================
