----------------------------- MODULE Evaluation -----------------------------
(***************************************************************************)
(* The two harnesses around the risk review: evaluate runs the baseline    *)
(* over a suite of cases and passes a gate, the live smoke test runs a     *)
(* provider's model, which may answer anything, over three cases.  Both    *)
(* review one case after the other with the same workflow object.          *)
(***************************************************************************)
EXTENDS BaselineReview

CONSTANT Suites     \* for each harness, the suites it may be given

Harness == {"evaluate", "smoke"}

ASSUME SuiteAssumption ==
    /\ DOMAIN Suites = Harness
    /\ \A h \in Harness : \A s \in Suites[h] :
          Len(s) > 0 /\ s \in Seq([input : Case, expected : Queue])

\* The cases of the smoke test expect no more than their configured signals demand.
ASSUME SmokeAssumption ==
    \A s \in Suites["smoke"] : \A i \in DOMAIN s :
        Rank(s[i].expected) <= Rank(MinimumQueue(s[i].input).queue)

VARIABLES
    harness,    \* which of the two runs
    suite,      \* its cases
    outcomes,   \* what it noted of the cases reviewed so far
    report      \* "none", the verdict of its gate, or "raised"

harnessVars == <<harness, suite, outcomes, report>>
evaluationVars == <<vars, harnessVars>>

-----------------------------------------------------------------------------

EvaluationInit ==
    /\ Init
    /\ harness \in Harness
    /\ suite \in Suites[harness]
    /\ case = suite[1].input
    /\ outcomes = <<>>
    /\ report = "none"

Expected == suite[Len(outcomes) + 1].expected

\* contains_direct_identifier of the visible text: the passages and the trace hold none, nor
\* do the sentences of a summary, so that only the model's own words can.
Leaked == result.summary = "model_words" /\ action.identifying

\* Mutant: a queue above the expected one counts as correct.
EvaluationOutcomeAtLeast ==
    [good |-> Rank(result.queue) >= Rank(Expected), cited_policy |-> result.evidence # <<>>,
     bounded |-> result.steps <= 4, leaked |-> Leaked,
     fail_closed |-> "WORKFLOW_FAIL_CLOSED" \in result.reason_codes]

\* EvaluationOutcome: the baseline is expected to find the very queue.
EvaluationOutcome ==
    [good |-> result.queue = Expected, cited_policy |-> result.evidence # <<>>,
     bounded |-> result.steps <= 4, leaked |-> Leaked,
     fail_closed |-> "WORKFLOW_FAIL_CLOSED" \in result.reason_codes]

\* safe_completion: a model may be more careful than the minimum.
SmokeOutcome == [EvaluationOutcome EXCEPT !.good = Rank(result.queue) >= Rank(Expected)]

Outcome == IF harness = "smoke" THEN SmokeOutcome ELSE EvaluationOutcome

Passes(o) == o.good /\ o.cited_policy /\ o.bounded /\ ~o.leaked /\ ~o.fail_closed

\* quality_gate_passed: every rate is 1, or 0 for leaks and failures.
Gate(os) == IF \A i \in DOMAIN os : Passes(os[i]) THEN "passed" ELSE "failed"

ReviewStep ==
    /\ report = "none"
    /\ IF harness = "smoke" THEN Review ELSE BaselineStep
    /\ UNCHANGED harnessVars

\* The outcome is noted and review is called with the next case: its messages, evidence and
\* trace are new.
NextCase ==
    /\ Returned
    /\ Len(outcomes) + 1 < Len(suite)
    /\ outcomes' = Append(outcomes, Outcome)
    /\ case' = suite[Len(outcomes) + 2].input
    /\ step' = 1
    /\ answered' = {}
    /\ evidence' = <<>>
    /\ trace' = <<>>
    /\ action' = NoAction
    /\ result' = Pending
    /\ UNCHANGED <<harness, suite, report>>

Report ==
    /\ report = "none"
    /\ Returned
    /\ Len(outcomes) + 1 = Len(suite)
    /\ outcomes' = Append(outcomes, Outcome)
    /\ report' = Gate(outcomes')
    /\ UNCHANGED <<vars, harness, suite>>

\* An exception of a review ends the harness without a report.
NoReport ==
    /\ report = "none"
    /\ result = Escaped
    /\ report' = "raised"
    /\ UNCHANGED <<vars, harness, suite, outcomes>>

Reported == report # "none" /\ UNCHANGED evaluationVars

EvaluationNext == ReviewStep \/ NextCase \/ Report \/ NoReport \/ Reported

EvaluationSpec == EvaluationInit /\ [][EvaluationNext]_evaluationVars

-----------------------------------------------------------------------------
\* Properties

\* The gate "requires 100% expected routing, policy citations ... and zero fail-closed
\* results for the deterministic baseline" (docs/risk-review-agent.md:68-70), and the
\* baseline meets it on exactly those suites that expect the queues the policies require.
GateIsExact ==
    (harness = "evaluate" /\ report # "none") =>
        (report = "passed" <=>
            \A i \in DOMAIN suite : suite[i].expected = MinimumQueue(suite[i].input).queue)

\* The baseline agrees with the guardrails behind it in every review of a suite, whatever
\* its search ranks first: a review takes three steps and ends in the very queue that the
\* case needs, for no other reasons, so that no guardrail had to touch the queue; and it
\* rests on the required policy.
BaselineNeedsNoGuardrail ==
    (harness = "evaluate" /\ Returned) =>
        /\ ~Closed
        /\ result.steps = 3
        /\ result.queue = MinimumQueue(case).queue
        /\ result.reason_codes = MinimumQueue(case).reasons
        /\ Range(Required(case)) \subseteq Range(result.evidence)

\* The guardrails leave a model two ways to fail the smoke test, whatever it answers: its
\* review fails closed, or its own words, which stand in a summary only where no signal asks
\* for a review, still read like an identifier.  Queue, citations and steps are safe.
SmokeFailsClosedOrLeaks ==
    harness = "smoke" =>
        \A i \in DOMAIN outcomes :
            /\ Passes(outcomes[i]) <=> ~outcomes[i].fail_closed /\ ~outcomes[i].leaked
            /\ outcomes[i].leaked => MinimumQueue(suite[i].input).queue = "STANDARD_OPERATIONS"

=============================================================================
