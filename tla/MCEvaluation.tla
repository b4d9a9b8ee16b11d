---------------------------- MODULE MCEvaluation ----------------------------
(***************************************************************************)
(* Instances of Evaluation for TLC: the shipped suite, every case on a     *)
(* boundary with every expectation, alone and after a case of each         *)
(* context; and the three cases of the smoke test.                         *)
(***************************************************************************)
EXTENDS Evaluation, MCRiskReview

Expect(c, q) == [input |-> c, expected |-> q]
Standard(c) == Expect(c, "STANDARD_OPERATIONS")
Priority(c) == Expect(c, "PRIORITY_MANUAL_REVIEW")
Compliance(c) == Expect(c, "COMPLIANCE_MANUAL_REVIEW")

\* evals/risk_review_cases.json
ShippedSuite ==
    << Standard(Facts(FALSE, FALSE, 1, FALSE, TRUE, 12500)),
       Standard(Facts(FALSE, FALSE, 2, FALSE, TRUE, 450000)),
       Standard(Facts(FALSE, FALSE, 3, TRUE, TRUE, 2499999)),
       Standard(Facts(FALSE, FALSE, 0, TRUE, FALSE, 90000)),
       Standard(Facts(FALSE, FALSE, 5, FALSE, TRUE, 5000)),
       Priority(Facts(FALSE, FALSE, 6, FALSE, TRUE, 10000)),
       Priority(Facts(FALSE, FALSE, 12, FALSE, FALSE, 9900)),
       Priority(Facts(FALSE, FALSE, 100, FALSE, TRUE, 200000)),
       Priority(Facts(FALSE, FALSE, 7, TRUE, TRUE, 1)),
       Priority(Facts(FALSE, FALSE, 8, FALSE, FALSE, 300000)),
       Priority(Facts(FALSE, TRUE, 1, FALSE, TRUE, 8000)),
       Priority(Facts(FALSE, FALSE, 1, TRUE, TRUE, 2500000)),
       Priority(Facts(FALSE, TRUE, 2, FALSE, TRUE, 70000)),
       Priority(Facts(FALSE, FALSE, 0, TRUE, TRUE, 9000000)),
       Priority(Facts(FALSE, TRUE, 20, FALSE, FALSE, 100)),
       Compliance(Facts(TRUE, FALSE, 1, FALSE, TRUE, 5000)),
       Compliance(Facts(TRUE, FALSE, 0, FALSE, FALSE, 50)),
       Compliance(Facts(TRUE, TRUE, 9, TRUE, TRUE, 900000)),
       Compliance(Facts(TRUE, FALSE, 2, FALSE, FALSE, 100000)),
       Compliance(Facts(TRUE, FALSE, 1, FALSE, TRUE, 32000)) >>

\* scripts/live_risk_review_smoke.py
SmokeSuite ==
    << Standard(Facts(FALSE, FALSE, 1, FALSE, TRUE, 12500)),
       Priority(Facts(FALSE, FALSE, 7, FALSE, TRUE, 25000)),
       Compliance(Facts(TRUE, FALSE, 1, FALSE, TRUE, 150000)) >>

MCCases ==
    BoundaryCases \cup ContextCases
        \cup {ShippedSuite[i].input : i \in DOMAIN ShippedSuite}
        \cup {SmokeSuite[i].input : i \in DOMAIN SmokeSuite}

MCSuites ==
    [evaluate |-> {ShippedSuite}
        \cup {<<Expect(c, q)>> : c \in BoundaryCases, q \in Queue}
        \cup {<<Expect(c, MinimumQueue(c).queue), Expect(d, q)>> :
                  c \in ContextCases, d \in BoundaryCases, q \in Queue},
     smoke |-> {SmokeSuite}]

\* The packaged policies have a passage for every context.
PackagedPolicyFor == [MCPolicyFor EXCEPT !["mismatch"] = <<"documents">>]

\* The words of a model may read like an identifier whatever it recommends.
AnyAdvice == MCAdvice \cup {[a EXCEPT !.identifying = TRUE] : a \in MCAdvice}

FullRankings == MCRetrievals \cup {<<"documents", "queue", "alerts">>, <<"velocity", "alerts", "queue">>}

=============================================================================
