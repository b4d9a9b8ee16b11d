---------------------------- MODULE MCRiskReview ----------------------------
(***************************************************************************)
(* Instances of RiskReview for TLC: cases on both sides of each threshold, *)
(* a policy per context, and recommendations that cite retrieved passages, *)
(* passages that exist but were not retrieved, and an invented one.        *)
(***************************************************************************)
EXTENDS RiskReview, TLC

Facts(alert, mismatch, velocity, device, sek, amount) ==
    [screening_alert |-> alert, document_mismatch |-> mismatch, transfers_last_hour |-> velocity,
     new_device |-> device, sek |-> sek, amount_minor |-> amount]

\* Every combination of signals, on the boundary of each threshold.
BoundaryCases ==
    {Facts(alert, mismatch, velocity, device, sek, amount) :
        alert \in BOOLEAN, mismatch \in BOOLEAN, velocity \in {5, 6},
        device \in BOOLEAN, sek \in BOOLEAN, amount \in {2499999, 2500000}}

\* One case of each context.
ContextCases ==
    {Facts(TRUE, TRUE, 0, FALSE, TRUE, 1), Facts(FALSE, TRUE, 6, FALSE, TRUE, 1),
     Facts(FALSE, FALSE, 6, TRUE, TRUE, 2500000), Facts(FALSE, FALSE, 5, TRUE, TRUE, 2500000),
     Facts(FALSE, FALSE, 5, TRUE, FALSE, 2500000)}

MCPassage == {"alerts", "documents", "velocity", "boundary", "queue", "reliability"}

\* No policy of these instances is about documents.
MCPolicyFor ==
    "screening" :> <<"alerts">> @@ "mismatch" :> <<>> @@ "velocity" :> <<"velocity">>
        @@ "new_device" :> <<"queue">> @@ "standard" :> <<"boundary">>
MCFallback == <<"reliability">>
MCRetrievals == {<<"alerts", "queue">>, <<"velocity", "boundary">>, <<"boundary", "queue">>, <<"reliability">>}

Recommend(q, reasons, ids, sure) ==
    [queue |-> q, reason_codes |-> reasons, evidence_ids |-> ids, confident |-> sure,
     identifying |-> FALSE]

\* The reasons mix an allowed code with codes that only the workflow may give.
ModelReasons == {"MODEL_UNCERTAINTY", "DETERMINISTIC_ESCALATION", "WORKFLOW_FAIL_CLOSED", "LOW_MODEL_CONFIDENCE"}
MCAdvice ==
    {Recommend(q, ModelReasons, ids, sure) :
        q \in Queue, sure \in BOOLEAN,
        ids \in {<<"queue">>, <<"boundary", "velocity">>, <<"alerts", "invented">>,
                 <<"queue", "boundary", "velocity", "alerts">>}}

=============================================================================
