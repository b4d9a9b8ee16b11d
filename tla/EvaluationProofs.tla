-------------------------- MODULE EvaluationProofs --------------------------
(***************************************************************************)
(* Proofs about Evaluation, for suites of any length: the baseline passes  *)
(* the gate exactly when the suite expects what the policies require, and  *)
(* a model fails the smoke test only by failing closed or by its own words *)
(* on a case that no signal speaks for.                                    *)
(***************************************************************************)
EXTENDS Evaluation, RiskReviewProofs

\* What a harness notes of a case.
Noted == [good : BOOLEAN, cited_policy : BOOLEAN, bounded : BOOLEAN, leaked : BOOLEAN,
          fail_closed : BOOLEAN]

\* How far a harness is: the outcomes are those of the cases before the one under review.
SuiteOK ==
    /\ harness \in Harness /\ suite \in Suites[harness]
    /\ outcomes \in Seq(Noted)
    /\ case \in Case
    /\ report = "none" => Len(outcomes) < Len(suite) /\ case = suite[Len(outcomes) + 1].input
    /\ report = "raised" => result = Escaped
    /\ report \notin {"none", "raised"} => report = Gate(outcomes) /\ Len(outcomes) = Len(suite)

\* How far the baseline is in its review, and what it ends with.
Concluded ==
    /\ result.status = "returned" /\ result.steps = 3
    /\ result.queue = MinimumQueue(case).queue /\ result.reason_codes = MinimumQueue(case).reasons
    /\ Range(Required(case)) \subseteq Range(result.evidence) /\ result.evidence # <<>>
    /\ trace[Len(trace)].detail = "human_review_required"
    /\ ~action.identifying

Phase ==
    \/ result = Pending /\ step = 1 /\ answered = {} /\ evidence = <<>> /\ trace = <<>>
    \/ /\ result = Pending /\ step = 2 /\ answered = {"get_case_facts"}
       /\ evidence = <<>> /\ trace \in Seq(Events)
    \/ /\ result = Pending /\ step = 3 /\ answered = {"get_case_facts", "search_policy"}
       /\ evidence \in Lists(Passage) /\ evidence # <<>> /\ trace \in Seq(Events)
    \/ Concluded

\* The baseline passes a case exactly if the expected queue is the minimum.
ExpectedInv ==
    \A i \in 1 .. Len(outcomes) :
        Passes(outcomes[i]) <=> suite[i].expected = MinimumQueue(suite[i].input).queue

EvaluateInv == harness = "evaluate" => Phase /\ ExpectedInv

\* The smoke test reviews with RiskReview itself.
SmokeInv == harness = "smoke" => ExplainInv /\ GroundInv /\ TraceInv /\ SmokeFailsClosedOrLeaks

EvaluationInv == SuiteOK /\ EvaluateInv /\ SmokeInv

-----------------------------------------------------------------------------
\* The baseline

\* The thresholds of the baseline are those of the guardrails.
LEMMA BaselineAgrees ==
  ASSUME case \in Case
  PROVE  /\ BaselineAdvice.queue = MinimumQueue(case).queue
         /\ BaselineAdvice.reason_codes = MinimumQueue(case).reasons
         /\ BaselineAdvice.confident /\ BaselineAdvice.evidence_ids = First(evidence, 3)
         /\ ~BaselineAdvice.identifying
<1>1. BaselineSignals(case) = Signals(case)
  BY DEF BaselineSignals, Signals
<1>2. case.screening_alert \in BOOLEAN
  BY CaseAssumption
<1>3. BaselineQueue(case) = MinimumQueue(case).queue
  BY <1>1, <1>2 DEF BaselineQueue, MinimumQueue
<1>4. BaselineReasons(case) = MinimumQueue(case).reasons
  BY <1>1, <1>2 DEF BaselineReasons, MinimumQueue
<1> QED
  BY <1>3, <1>4 DEF BaselineAdvice

\* The required policy of a case is there, and is one passage.
LEMMA RequiredIsOne ==
  ASSUME NEW c \in Case
  PROVE  /\ Required(c) \in Seq(Passage) /\ Required(c) # <<>>
         /\ Range(Required(c)) = {Required(c)[1]} /\ Required(c)[1] \in Passage
<1> DEFINE r == Required(c)
<1>1. r \in Seq(Passage) /\ Len(r) <= 1
  BY ThresholdsAgree, LimitAssumption DEF Required, Ranking
<1>2. r # <<>>
  BY ThresholdsAgree, BaselineAssumption DEF Required
<1> HIDE DEF r
<1>3. Len(r) = 1 /\ DOMAIN r = 1 .. 1 /\ r[1] \in Passage
  BY <1>1, <1>2
<1> QED
  BY <1>1, <1>2, <1>3 DEF r, Range

\* Heads of sequences.
LEMMA FirstIsAll ==
  ASSUME NEW P, NEW s \in Seq(P), NEW n \in Nat, Len(s) <= n
  PROVE  First(s, n) = s
<1>1. (IF Len(s) < n THEN Len(s) ELSE n) = Len(s)
  OBVIOUS
<1>2. SubSeq(s, 1, Len(s)) = s
  OBVIOUS
<1> QED
  BY <1>1, <1>2 DEF First

LEMMA FirstIsKept ==
  ASSUME NEW P, NEW s \in Seq(P), s # <<>>
  PROVE  s[1] \in Range(First(s, 3))
<1> DEFINE k == IF Len(s) < 3 THEN Len(s) ELSE 3
           t == SubSeq(s, 1, k)
<1>1. k \in Nat \ {0} /\ k <= Len(s)
  OBVIOUS
<1> HIDE DEF k
<1>2. DOMAIN t = 1 .. k /\ t[1] = s[1]
  BY <1>1
<1>3. 1 \in 1 .. k
  BY <1>1
<1>4. First(s, 3) = t
  BY DEF First, k
<1> QED
  BY <1>2, <1>3, <1>4 DEF Range

LEMMA FrontOfJoined ==
  ASSUME NEW P, NEW s \in Seq(P), NEW t \in Seq(P), s # <<>>
  PROVE  s \o t \in Seq(P) /\ s \o t # <<>> /\ (s \o t)[1] = s[1]
<1>1. s \o t \in Seq(P) /\ Len(s \o t) = Len(s) + Len(t) /\ Len(s) \in Nat \ {0} /\ Len(t) \in Nat
  OBVIOUS
<1>2. (s \o t)[1] = s[1]
  BY <1>1
<1> QED
  BY <1>1, <1>2

\* No guardrail touches what the baseline recommends but for the required policy, which the
\* result keeps.
LEMMA BaselineConcludesWell ==
  ASSUME case \in Case, evidence \in Lists(Passage), evidence # <<>>, trace \in Seq(Events),
         step = 3, Finalize(BaselineAdvice)
  PROVE  Concluded' /\ UNCHANGED <<case, answered>>
<1> DEFINE a == BaselineAdvice
           ids == a.evidence_ids
           r == Required(case)
           f == <<Event("model_action", "final")>>
           d == <<Event("completed", "human_review_required")>>
           sel == Selected(case, a)
<1>1. /\ a.queue = MinimumQueue(case).queue /\ a.reason_codes = MinimumQueue(case).reasons
      /\ a.confident /\ ~a.identifying /\ ids = First(evidence, 3)
  BY BaselineAgrees
<1>2. ids \in Lists(Passage) /\ Len(ids) <= 3 /\ ids # <<>>
  BY <1>1, FirstOfList
<1>3. /\ r \in Seq(Passage) /\ r # <<>> /\ Range(r) = {r[1]} /\ r[1] \in Passage
  BY RequiredIsOne
<1>4. /\ result'.status = "returned" /\ result'.steps = 3
      /\ result'.queue = RoutedTo(case, a) /\ result'.reason_codes = Reasons(case, a)
      /\ result'.evidence = First(sel, EvidenceLimit)
      /\ trace' = trace \o f \o Adjustments(case, a) \o d
      /\ action' = a
      /\ UNCHANGED <<case, answered>>
  BY DEF Finalize
<1>5. ~Raised(case, a) /\ ~Escalated(case, a) /\ ~Unsure(case, a)
  <2>1. MinimumQueue(case).queue \in Queue
    BY ThresholdsAgree
  <2> QED
    BY <1>1, <2>1 DEF Raised, Escalated, Unsure, Rank, Queue
<1>6. result'.queue = MinimumQueue(case).queue
  BY <1>1, <1>4, <1>5 DEF RoutedTo
<1>7. result'.reason_codes = MinimumQueue(case).reasons
  BY <1>1, <1>4, <1>5 DEF Reasons
<1>8. trace'[Len(trace')].detail = "human_review_required"
  <2> DEFINE q == trace \o f
             m == Adjustments(case, a)
             qm == q \o m
  <2>1. f \in Seq(Events) /\ d \in Seq(Events) /\ d # <<>> /\ d[Len(d)].detail = "human_review_required"
    BY OneDetail DEF Word
  <2>2. m \in Seq(Events)
    BY AdjustmentsTell
  <2> HIDE DEF f, d, m
  <2>3. q \in Seq(Events)
    BY <2>1
  <2> HIDE DEF q
  <2>4. qm \in Seq(Events)
    BY <2>2, <2>3
  <2> HIDE DEF qm
  <2>5. (qm \o d)[Len(qm \o d)].detail = "human_review_required"
    BY <2>1, <2>4, DetailsJoined
  <2> QED
    BY <1>4, <2>5 DEF qm, q, m
<1>9. Range(r) \subseteq Range(result'.evidence) /\ result'.evidence # <<>>
  <2>1. sel \in Lists(Passage) /\ sel # <<>>
    <3>1. Range(r) \subseteq Passage
      BY <1>3
    <3> QED
      BY <1>2, <3>1, SelectedOnce
  <2>2. result'.evidence # <<>>
    BY <1>4, <2>1, FirstOfList, BaselineAssumption
  <2>3. CASE Range(r) \subseteq Range(ids)
    <3>1. sel = ids
      BY <2>3 DEF Selected
    <3>2. First(ids, 3) = ids
      <4>1. ids \in Seq(Passage)
        BY <1>2 DEF Lists
      <4> HIDE DEF ids
      <4> QED
        BY <1>2, <4>1, FirstIsAll
    <3> QED
      BY <1>4, <2>2, <2>3, <3>1, <3>2, BaselineAssumption
  <2>4. CASE ~(Range(r) \subseteq Range(ids))
    <3>1. sel = r \o ids
      BY <2>4 DEF Selected
    <3> HIDE DEF sel, ids, r
    <3>2. ids \in Seq(Passage)
      BY <1>2 DEF Lists
    <3>3. r \o ids \in Seq(Passage) /\ r \o ids # <<>> /\ (r \o ids)[1] = r[1]
      BY <1>3, <3>2, FrontOfJoined
    <3>4. r[1] \in Range(First(sel, 3))
      BY <3>1, <3>3, FirstIsKept
    <3> QED
      BY <1>3, <1>4, <2>2, <3>4, BaselineAssumption DEF sel
  <2> QED
    BY <2>3, <2>4
<1>10. ~action'.identifying
  BY <1>1, <1>4
<1> HIDE DEF a, r, sel, f, d
<1> QED
  BY <1>4, <1>10, <1>6, <1>7, <1>8, <1>9 DEF Concluded, r

\* A step of the baseline takes it to the next phase of its review.
LEMMA BaselinePhases ==
  ASSUME case \in Case, Phase, BaselineStep
  PROVE  Phase' /\ case' = case
<1>0. result = Pending
  BY DEF BaselineStep, BaselineReadsFacts, BaselineSearches, BaselineConcludes,
         ReadFacts, SearchPolicy, Finalize, Asks
<1>p. ~Concluded
  BY <1>0 DEF Concluded, Pending
<1>t. step \in Nat /\ trace \in Seq(Events)
  <2>1. step \in {1, 2, 3} /\ (trace = <<>> \/ trace \in Seq(Events))
    BY <1>p DEF Phase
  <2>2. step \in Nat
    BY <2>1
  <2> QED
    BY <2>1, <2>2, NoDetail
<1>s. ASSUME NEW tool \in {"get_case_facts", "search_policy"}, ToolAnswered(tool)
      PROVE  trace' \in Seq(Events)
  <2> DEFINE x == Event("model_action", "tool_request")
             y == Event("tool_result", tool)
             e == <<x, y>>
  <2>1. x \in Events /\ y \in Events
    BY <1>t DEF Event, Events, Word, Quiet
  <2>2. trace' = trace \o e
    BY <1>s DEF ToolAnswered
  <2> HIDE DEF x, y
  <2>3. e \in Seq(Events)
    BY <2>1
  <2> HIDE DEF e
  <2> QED
    BY <1>t, <2>2, <2>3
<1>1. CASE BaselineReadsFacts
  <2>1. step = 1 /\ answered = {} /\ evidence = <<>>
    BY <1>1, <1>p DEF BaselineReadsFacts, Phase
  <2>2. /\ step' = 2 /\ answered' = {"get_case_facts"} /\ evidence' = <<>>
        /\ result' = Pending /\ case' = case /\ trace' \in Seq(Events)
    BY <1>0, <1>1, <1>s, <2>1 DEF BaselineReadsFacts, ReadFacts, ToolAnswered
  <2> QED
    BY <2>2 DEF Phase
<1>2. CASE BaselineSearches
  <2>1. step = 2 /\ answered = {"get_case_facts"} /\ evidence = <<>>
    BY <1>2, <1>p DEF BaselineSearches, Phase
  <2>2. PICK found \in Retrievals : SearchPolicy(found)
    BY <1>2 DEF BaselineSearches
  <2>3. found \in Seq(Passage) /\ found # <<>>
    BY <2>2, LimitAssumption DEF SearchPolicy, Ranking
  <2>4. evidence \in Lists(Passage)
    <3>1. <<>> \in Seq(Passage) /\ DOMAIN <<>> = {}
      OBVIOUS
    <3> QED
      BY <2>1, <3>1 DEF Lists, IsInjective
  <2>5. Extended(evidence, found) \in Lists(Passage) /\ Range(found) \subseteq Range(Extended(evidence, found))
    BY <2>3, <2>4, ExtendedIsUpdate
  <2>6. Extended(evidence, found) # <<>>
    <3>1. DOMAIN found = 1 .. Len(found) /\ Len(found) \in Nat /\ Len(found) # 0
      BY <2>3
    <3>2. found[1] \in Range(found)
      BY <3>1 DEF Range
    <3>3. Range(<<>>) = {}
      BY DEF Range
    <3> QED
      BY <2>5, <3>2, <3>3
  <2>7. /\ step' = 3 /\ answered' = {"get_case_facts", "search_policy"}
        /\ evidence' = Extended(evidence, found)
        /\ result' = Pending /\ case' = case /\ trace' \in Seq(Events)
    BY <1>0, <1>s, <2>1, <2>2 DEF SearchPolicy, ToolAnswered
  <2> QED
    BY <2>5, <2>6, <2>7 DEF Phase
<1>3. CASE BaselineConcludes
  <2>1. step = 3 /\ evidence \in Lists(Passage) /\ evidence # <<>>
    BY <1>3, <1>p DEF BaselineConcludes, Phase
  <2> QED
    BY <1>3, <1>t, <2>1, BaselineConcludesWell DEF BaselineConcludes, Phase
<1> QED
  BY <1>1, <1>2, <1>3 DEF BaselineStep

-----------------------------------------------------------------------------
\* The harnesses

\* The cases of a suite are cases, and of the smoke test ones that demand what it expects.
LEMMA SuiteCases ==
  ASSUME harness \in Harness, suite \in Suites[harness]
  PROVE  /\ Len(suite) \in Nat \ {0} /\ DOMAIN suite = 1 .. Len(suite)
         /\ \A i \in 1 .. Len(suite) : suite[i].input \in Case /\ suite[i].expected \in Queue
         /\ harness = "smoke" =>
               \A i \in 1 .. Len(suite) :
                  Rank(suite[i].expected) <= Rank(MinimumQueue(suite[i].input).queue)
<1> DEFINE R == [input : Case, expected : Queue]
<1>1. suite \in Seq(R) /\ Len(suite) > 0
  BY SuiteAssumption
<1>2. \A e \in R : e.input \in Case /\ e.expected \in Queue
  OBVIOUS
<1> HIDE DEF R
<1>3. Len(suite) \in Nat \ {0} /\ DOMAIN suite = 1 .. Len(suite)
      /\ \A i \in 1 .. Len(suite) : suite[i] \in R
  BY ONLY <1>1
<1> QED
  BY <1>2, <1>3, SmokeAssumption

\* What evaluate notes of a case.
LEMMA BaselineNoted ==
  ASSUME SuiteOK, harness = "evaluate", report = "none", Concluded
  PROVE  /\ Outcome \in Noted
         /\ Passes(Outcome) <=> Expected = MinimumQueue(suite[Len(outcomes) + 1].input).queue
<1>1. case = suite[Len(outcomes) + 1].input /\ case \in Case
  BY DEF SuiteOK
<1>2. result.steps <= 4
  BY DEF Concluded
<1>3. "WORKFLOW_FAIL_CLOSED" \notin result.reason_codes
  BY <1>1, ThresholdsAgree DEF Concluded
<1>4. Outcome = EvaluationOutcome
  BY DEF Outcome
<1>5. Outcome \in Noted
  BY <1>2, <1>4 DEF EvaluationOutcome, Noted, Leaked
<1>6. Passes(Outcome) <=> result.queue = Expected
  BY <1>2, <1>3, <1>4 DEF EvaluationOutcome, Concluded, Passes, Leaked
<1> QED
  BY <1>1, <1>5, <1>6 DEF Concluded

\* What the smoke test notes of a case.
LEMMA ModelNoted ==
  ASSUME SuiteOK, SmokeInv, harness = "smoke", report = "none", Returned
  PROVE  /\ Outcome \in Noted
         /\ Passes(Outcome) <=> ~Outcome.fail_closed /\ ~Outcome.leaked
         /\ Outcome.leaked => MinimumQueue(suite[Len(outcomes) + 1].input).queue = "STANDARD_OPERATIONS"
<1>1. case = suite[Len(outcomes) + 1].input /\ case \in Case /\ Len(outcomes) + 1 \in 1 .. Len(suite)
  BY SuiteCases DEF SuiteOK
<1>2. /\ MinimumHolds /\ AdviceExplained /\ SummaryAgrees /\ EvidenceGrounded /\ TypeOK
      /\ result.queue \in Queue /\ result.steps \in 1 .. 4
  BY BaselineAssumption DEF SmokeInv, ExplainInv, RoutingInv, GroundInv, TraceInv, TypeOK
<1>3. Expected \in Queue /\ Rank(Expected) <= Rank(MinimumQueue(case).queue)
  BY <1>1, SuiteCases DEF SuiteOK, Expected
<1>4. Rank(result.queue) >= Rank(MinimumQueue(case).queue)
  <2>1. /\ case.screening_alert \in BOOLEAN /\ case.document_mismatch \in BOOLEAN
        /\ case.transfers_last_hour \in Nat /\ case.new_device \in BOOLEAN
        /\ case.sek \in BOOLEAN /\ case.amount_minor \in Nat
    BY <1>1, CaseAssumption
  <2>2. Signals(case) # {} <=>
           \/ case.document_mismatch
           \/ case.transfers_last_hour > 5
           \/ case.new_device /\ case.sek /\ case.amount_minor > 2499999
    BY <2>1 DEF Signals
  <2>3. /\ MinimumQueue(case).queue \in Queue
        /\ MinimumQueue(case).queue = "COMPLIANCE_MANUAL_REVIEW" <=> case.screening_alert
    BY <1>1, ThresholdsAgree
  <2>4. Signals(case) = {} /\ ~case.screening_alert => MinimumQueue(case).queue = "STANDARD_OPERATIONS"
    BY <2>1 DEF MinimumQueue
  <2>5. case.screening_alert => result.queue = "COMPLIANCE_MANUAL_REVIEW"
    BY <1>2 DEF MinimumHolds
  <2>6. Signals(case) # {} => result.queue # "STANDARD_OPERATIONS"
    BY <1>2, <2>2 DEF MinimumHolds
  <2> QED
    BY <1>2, <2>3, <2>4, <2>5, <2>6 DEF Rank, Queue
<1>5. Rank(result.queue) >= Rank(Expected)
  BY <1>1, <1>2, <1>3, <1>4, ThresholdsAgree DEF Rank, Queue
<1>6. ASSUME "WORKFLOW_FAIL_CLOSED" \notin result.reason_codes PROVE result.evidence # <<>>
  <2>1. Finalized
    BY <1>2, <1>6 DEF AdviceExplained, Finalized
  <2>2. Required(case) # <<>>
    BY <1>1, RequiredIsOne
  <2> QED
    BY <1>2, <2>1, <2>2 DEF EvidenceGrounded
<1>7. Outcome = [EvaluationOutcome EXCEPT !.good = TRUE]
  BY <1>5 DEF Outcome, SmokeOutcome
<1>8. result.steps <= 4
  BY <1>2
<1>9. /\ Outcome.good = TRUE /\ Outcome.bounded = (result.steps <= 4)
      /\ Outcome.cited_policy = (result.evidence # <<>>)
      /\ Outcome.fail_closed = ("WORKFLOW_FAIL_CLOSED" \in result.reason_codes)
      /\ Outcome.leaked = Leaked
  BY <1>7 DEF EvaluationOutcome
<1>10. Outcome \in Noted
  <2>1. EvaluationOutcome \in Noted
    BY <1>8 DEF EvaluationOutcome, Noted, Leaked
  <2> QED
    BY <1>7, <2>1 DEF Noted
<1>11. Passes(Outcome) <=> ~Outcome.fail_closed /\ ~Outcome.leaked
  BY <1>6, <1>8, <1>9 DEF Passes
<1>12. ASSUME Leaked PROVE MinimumQueue(case).queue = "STANDARD_OPERATIONS"
  <2>1. result.summary = "model_words"
    BY <1>12 DEF Leaked
  <2>2. Finalized
    BY <1>2, <2>1 DEF SummaryAgrees, Finalized
  <2>3. MinimumQueue(case).queue # "STANDARD_OPERATIONS" => result.summary \in Context
    BY <1>2, <2>2 DEF SummaryAgrees
  <2> QED
    BY <2>1, <2>3 DEF Context
<1> QED
  BY <1>1, <1>10, <1>11, <1>12, <1>9

\* An outcome more, of the case under review.
LEMMA OneMoreNoted ==
  ASSUME EvaluationInv, report = "none", Returned, outcomes' = Append(outcomes, Outcome),
         UNCHANGED <<harness, suite>>
  PROVE  /\ outcomes' \in Seq(Noted)
         /\ Len(outcomes') = Len(outcomes) + 1 /\ Len(outcomes) \in Nat
         /\ harness = "evaluate" => ExpectedInv'
         /\ harness = "smoke" => SmokeFailsClosedOrLeaks'
<1>1. SuiteOK /\ EvaluateInv /\ SmokeInv /\ harness \in {"evaluate", "smoke"} /\ outcomes \in Seq(Noted)
  BY DEF EvaluationInv, SuiteOK, Harness
<1>2. harness = "evaluate" => Concluded
  BY <1>1 DEF EvaluateInv, Phase, Returned, Pending
<1>3. harness = "evaluate" =>
         Outcome \in Noted /\ (Passes(Outcome) <=> Expected = MinimumQueue(suite[Len(outcomes) + 1].input).queue)
  BY <1>1, <1>2, BaselineNoted
<1>4. harness = "smoke" =>
         /\ Outcome \in Noted /\ (Passes(Outcome) <=> ~Outcome.fail_closed /\ ~Outcome.leaked)
         /\ Outcome.leaked => MinimumQueue(suite[Len(outcomes) + 1].input).queue = "STANDARD_OPERATIONS"
  BY <1>1, ModelNoted
<1> DEFINE o == Outcome
<1> HIDE DEF o
<1>5. o \in Noted /\ outcomes' = Append(outcomes, o)
  BY <1>1, <1>3, <1>4 DEF o
<1>6. /\ outcomes' \in Seq(Noted) /\ Len(outcomes) \in Nat /\ Len(outcomes') = Len(outcomes) + 1
      /\ DOMAIN outcomes' = 1 .. Len(outcomes) + 1 /\ DOMAIN outcomes = 1 .. Len(outcomes)
      /\ \A i \in 1 .. Len(outcomes) + 1 :
            i \in 1 .. Len(outcomes) \/ i = Len(outcomes) + 1
      /\ \A i \in 1 .. Len(outcomes) : outcomes'[i] = outcomes[i]
      /\ outcomes'[Len(outcomes) + 1] = o
  BY <1>1, <1>5
<1>7. harness = "evaluate" => ExpectedInv'
  BY <1>1, <1>3, <1>6 DEF EvaluateInv, ExpectedInv, Expected, o, Passes
<1>8. harness = "smoke" => SmokeFailsClosedOrLeaks'
  BY <1>1, <1>4, <1>6 DEF SmokeInv, SmokeFailsClosedOrLeaks, o, Passes
<1> QED
  BY <1>6, <1>7, <1>8

\* A new review, the first or the next one.
LEMMA FreshReview == Init => ExplainInv /\ GroundInv /\ TraceInv /\ Phase
<1>1. Init => Phase
  BY DEF Init, Phase
<1> QED
  BY <1>1, InitExplain, InitGrounded, InitTells

LEMMA StayedReview ==
  ASSUME UNCHANGED vars
  PROVE  /\ Phase => Phase'
         /\ ExplainInv /\ GroundInv /\ TraceInv => ExplainInv' /\ GroundInv' /\ TraceInv'
         /\ UNCHANGED <<case, step, answered, evidence, trace, action, result>>
<1>1. UNCHANGED <<case, step, answered, evidence, trace, action, result>>
  BY DEF vars
<1>2. Phase => Phase'
  BY <1>1 DEF Phase, Concluded
<1> QED
  BY <1>1, <1>2, NextExplain, NextGrounded, NextTells

LEMMA NextReviewStep ==
  ASSUME EvaluationInv, ReviewStep
  PROVE  EvaluationInv'
<1>1. /\ SuiteOK /\ EvaluateInv /\ SmokeInv /\ harness \in {"evaluate", "smoke"}
      /\ report = "none" /\ UNCHANGED <<harness, suite, outcomes, report>>
  BY DEF EvaluationInv, SuiteOK, Harness, ReviewStep, harnessVars
<1>2. CASE harness = "evaluate"
  <2>1. Phase' /\ case' = case
    BY <1>1, <1>2, BaselinePhases DEF ReviewStep, EvaluateInv, SuiteOK
  <2>2. SuiteOK'
    BY <1>1, <2>1 DEF SuiteOK
  <2>3. ExpectedInv'
    BY <1>1, <1>2 DEF EvaluateInv, ExpectedInv, Passes
  <2> QED
    BY <1>1, <1>2, <2>1, <2>2, <2>3 DEF EvaluationInv, EvaluateInv, SmokeInv
<1>3. CASE harness = "smoke"
  <2>1. Review
    BY <1>3 DEF ReviewStep
  <2>2. ExplainInv' /\ GroundInv' /\ TraceInv'
    BY <1>1, <1>3, <2>1, NextExplain, NextGrounded, NextTells DEF SmokeInv, Next
  <2>3. case' = case
    BY <2>1 DEF Review, ReadFacts, SearchPolicy, ToolAnswered, RefuseTool, GatewayRaises,
                RefuseAdvice, Finalize, Exhausted, EndsClosed
  <2>4. SuiteOK'
    BY <1>1, <2>3 DEF SuiteOK
  <2>5. SmokeFailsClosedOrLeaks'
    BY <1>1, <1>3 DEF SmokeInv, SmokeFailsClosedOrLeaks, Passes
  <2> QED
    BY <1>1, <1>3, <2>2, <2>4, <2>5 DEF EvaluationInv, EvaluateInv, SmokeInv
<1> QED
  BY <1>1, <1>2, <1>3

LEMMA NextNextCase ==
  ASSUME EvaluationInv, NextCase
  PROVE  EvaluationInv'
<1>1. /\ SuiteOK /\ EvaluateInv /\ SmokeInv /\ harness \in {"evaluate", "smoke"}
      /\ Returned /\ Len(outcomes) + 1 < Len(suite) /\ UNCHANGED <<harness, suite, report>>
      /\ outcomes' = Append(outcomes, Outcome) /\ case' = suite[Len(outcomes) + 2].input
  BY DEF EvaluationInv, SuiteOK, Harness, NextCase
<1>2. Len(outcomes) \in Nat /\ Len(suite) \in Nat
  BY <1>1, SuiteCases DEF SuiteOK
<1>3. report = "none"
  <2>1. Len(outcomes) # Len(suite)
    BY ONLY <1>1, <1>2
  <2>2. result # Escaped
    BY <1>1 DEF Returned, Escaped
  <2> QED
    BY <1>1, <2>1, <2>2 DEF SuiteOK
<1>4. /\ outcomes' \in Seq(Noted)
      /\ Len(outcomes') = Len(outcomes) + 1
      /\ harness = "evaluate" => ExpectedInv'
      /\ harness = "smoke" => SmokeFailsClosedOrLeaks'
  BY <1>1, <1>3, OneMoreNoted
<1>5. Len(outcomes) + 2 \in 1 .. Len(suite) /\ Len(outcomes') + 1 = Len(outcomes) + 2
      /\ Len(outcomes') < Len(suite)
  BY ONLY <1>1, <1>2, <1>4
<1>6. case' \in Case /\ case' = suite'[Len(outcomes') + 1].input
  BY <1>1, <1>5, SuiteCases DEF SuiteOK
<1>7. SuiteOK'
  BY <1>1, <1>3, <1>4, <1>5, <1>6 DEF SuiteOK
<1>8. Init'
  BY <1>6 DEF NextCase, Init
<1>9. ExplainInv' /\ GroundInv' /\ TraceInv' /\ Phase'
  <2>1. Init' => (ExplainInv /\ GroundInv /\ TraceInv /\ Phase)'
    BY FreshReview, PTL
  <2> QED
    BY <1>8, <2>1
<1> QED
  BY <1>1, <1>4, <1>7, <1>9 DEF EvaluationInv, EvaluateInv, SmokeInv

LEMMA NextReport ==
  ASSUME EvaluationInv, Report
  PROVE  EvaluationInv'
<1>1. /\ SuiteOK /\ EvaluateInv /\ SmokeInv /\ harness \in {"evaluate", "smoke"}
      /\ report = "none" /\ Returned /\ Len(outcomes) + 1 = Len(suite)
      /\ outcomes' = Append(outcomes, Outcome) /\ report' = Gate(outcomes')
      /\ UNCHANGED <<harness, suite>> /\ UNCHANGED vars
  BY DEF EvaluationInv, SuiteOK, Harness, Report
<1>2. /\ Phase => Phase'
      /\ ExplainInv /\ GroundInv /\ TraceInv => ExplainInv' /\ GroundInv' /\ TraceInv'
      /\ UNCHANGED <<case, result>>
  BY <1>1, StayedReview
<1>3. /\ outcomes' \in Seq(Noted)
      /\ Len(outcomes') = Len(outcomes) + 1
      /\ harness = "evaluate" => ExpectedInv'
      /\ harness = "smoke" => SmokeFailsClosedOrLeaks'
  BY <1>1, OneMoreNoted
<1>4. report' \in {"passed", "failed"}
  BY <1>1 DEF Gate
<1>5. SuiteOK'
  BY <1>1, <1>2, <1>3, <1>4 DEF SuiteOK, Gate, Passes
<1> QED
  BY <1>1, <1>2, <1>3, <1>5 DEF EvaluationInv, EvaluateInv, SmokeInv

LEMMA NextEvaluation ==
  ASSUME EvaluationInv, [EvaluationNext]_evaluationVars
  PROVE  EvaluationInv'
<1>1. ASSUME UNCHANGED <<vars, harness, suite, outcomes>>,
             report' = report \/ (report' = "raised" /\ result = Escaped)
      PROVE  EvaluationInv'
  <2>1. /\ Phase => Phase'
        /\ ExplainInv /\ GroundInv /\ TraceInv => ExplainInv' /\ GroundInv' /\ TraceInv'
        /\ UNCHANGED <<case, result>>
    BY <1>1, StayedReview
  <2>2. SuiteOK'
    BY <1>1, <2>1 DEF EvaluationInv, SuiteOK, Gate, Passes
  <2>3. ExpectedInv => ExpectedInv'
    BY <1>1 DEF ExpectedInv, Passes
  <2>4. SmokeFailsClosedOrLeaks => SmokeFailsClosedOrLeaks'
    BY <1>1 DEF SmokeFailsClosedOrLeaks, Passes
  <2> QED
    BY <1>1, <2>1, <2>2, <2>3, <2>4 DEF EvaluationInv, EvaluateInv, SmokeInv
<1>2. CASE NoReport
  BY <1>1, <1>2 DEF NoReport
<1>3. CASE Reported \/ UNCHANGED evaluationVars
  BY <1>1, <1>3 DEF Reported, evaluationVars, harnessVars
<1> QED
  BY <1>2, <1>3, NextReviewStep, NextNextCase, NextReport DEF EvaluationNext

LEMMA InitEvaluation == EvaluationInit => EvaluationInv
<1> SUFFICES ASSUME EvaluationInit PROVE EvaluationInv
  OBVIOUS
<1>1. ExplainInv /\ GroundInv /\ TraceInv /\ Phase
  BY FreshReview DEF EvaluationInit
<1>2. /\ harness \in Harness /\ suite \in Suites[harness] /\ case = suite[1].input
      /\ outcomes = <<>> /\ report = "none" /\ case \in Case
  BY DEF EvaluationInit, Init
<1>3. /\ Len(outcomes) = 0 /\ Len(outcomes) + 1 = 1 /\ DOMAIN outcomes = {}
      /\ outcomes \in Seq(Noted)
  BY <1>2
<1>4. Len(suite) > 0
  BY <1>2, SuiteCases
<1>5. SuiteOK
  BY <1>2, <1>3, <1>4 DEF SuiteOK
<1> QED
  BY <1>1, <1>3, <1>5 DEF EvaluationInv, EvaluateInv, ExpectedInv, SmokeInv, SmokeFailsClosedOrLeaks

LEMMA EvaluationInvAlways == EvaluationSpec => []EvaluationInv
  BY InitEvaluation, NextEvaluation, PTL DEF EvaluationSpec

-----------------------------------------------------------------------------

\* The quality gate passes the baseline on exactly those suites, of any length, whose cases
\* expect the queues that the policies require, whatever the searches rank first.
THEOREM GateAlwaysExact == EvaluationSpec => []GateIsExact
<1>1. EvaluationInv => GateIsExact
  <2> SUFFICES ASSUME EvaluationInv, harness = "evaluate", report # "none"
               PROVE  report = "passed" <=>
                        \A i \in DOMAIN suite : suite[i].expected = MinimumQueue(suite[i].input).queue
    BY DEF GateIsExact
  <2>1. SuiteOK /\ Phase /\ ExpectedInv
    BY DEF EvaluationInv, EvaluateInv
  <2>2. result # Escaped
    BY <2>1 DEF Phase, Concluded, Pending, Escaped
  <2>3. report = Gate(outcomes) /\ Len(outcomes) = Len(suite)
    BY <2>1, <2>2 DEF SuiteOK
  <2>4. DOMAIN outcomes = 1 .. Len(outcomes) /\ DOMAIN suite = 1 .. Len(suite)
    BY <2>1, SuiteCases DEF SuiteOK
  <2> QED
    BY <2>1, <2>3, <2>4 DEF Gate, ExpectedInv
<1> QED
  BY <1>1, EvaluationInvAlways, PTL

\* No guardrail ever touches the queue that the baseline recommends: its thresholds are
\* those of the guardrails for every case, at every place of a suite.
THEOREM BaselineNeverNeedsGuardrail == EvaluationSpec => []BaselineNeedsNoGuardrail
<1>1. EvaluationInv => BaselineNeedsNoGuardrail
  <2> SUFFICES ASSUME EvaluationInv, harness = "evaluate", Returned
               PROVE  /\ ~Closed /\ result.steps = 3
                      /\ result.queue = MinimumQueue(case).queue
                      /\ result.reason_codes = MinimumQueue(case).reasons
                      /\ Range(Required(case)) \subseteq Range(result.evidence)
    BY DEF BaselineNeedsNoGuardrail
  <2>1. Concluded
    BY DEF EvaluationInv, EvaluateInv, Phase, Returned, Pending
  <2> QED
    BY <2>1 DEF Concluded, Closed
<1> QED
  BY <1>1, EvaluationInvAlways, PTL

\* Whatever a provider's model answers, a case of the smoke test fails exactly when its review
\* failed closed or the model's own words were left looking like an identifier, and the latter
\* only where no signal asks for a review; if the cases expect no more than their signals demand.
THEOREM SmokeAlwaysFailsClosedOrLeaks == EvaluationSpec => []SmokeFailsClosedOrLeaks
<1>1. EvaluationInv => SmokeFailsClosedOrLeaks
  BY DEF EvaluationInv, SmokeInv, SmokeFailsClosedOrLeaks
<1> QED
  BY <1>1, EvaluationInvAlways, PTL

=============================================================================
