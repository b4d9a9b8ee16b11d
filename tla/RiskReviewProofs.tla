-------------------------- MODULE RiskReviewProofs --------------------------
(***************************************************************************)
(* Proofs about RiskReview for every set of cases and policies, whatever   *)
(* the model recommends and whatever the retriever finds.                  *)
(***************************************************************************)
EXTENDS RiskReview, FoldLemmas

\* A case is reviewed with its own facts, and passages come from searches only.
SourceOK == case \in Case /\ (Range(evidence) # {} => "search_policy" \in answered)

\* Evidence is a list of passages, each once.
Lists(P) == {s \in Seq(P) : IsInjective(s)}

RoutingInv == SourceOK /\ MinimumHolds /\ StandardIsSure

\* What the trace says before a review has ended, and that it is a sequence of events.
Quiet == {"tool_request", "get_case_facts", "search_policy"}

Word ==
    {"model_action", "tool_result", "guardrail_adjustment", "completed"}
        \cup Quiet \cup Caught
        \cup {"final", "required_policy", "minimum_queue", "low_confidence",
              "STEP_BUDGET_EXHAUSTED", "fail_closed_human_review", "human_review_required"}
Events == [step : Nat, event : Word, detail : Word]

TraceOK ==
    /\ step \in 1 .. MaxSteps + 1
    /\ trace \in Seq(Events)
    /\ result = Pending => \A i \in 1 .. Len(trace) : trace[i].detail \in Quiet

ExplainInv == RoutingInv /\ TraceOK /\ AdviceExplained /\ SummaryAgrees

-----------------------------------------------------------------------------
\* Lemmas about the guardrails

\* The three lists of thresholds of the code agree: the case requires the standard policy
\* exactly when its minimum is the standard queue.
LEMMA ThresholdsAgree ==
  ASSUME NEW c \in Case
  PROVE  /\ MinimumQueue(c).queue \in Queue
         /\ MinimumQueue(c).queue = "STANDARD_OPERATIONS" <=> PolicyContext(c) = "standard"
         /\ MinimumQueue(c).queue = "COMPLIANCE_MANUAL_REVIEW" <=> c.screening_alert
         /\ PolicyContext(c) \in Context
         /\ MinimumQueue(c).reasons \cap {"WORKFLOW_FAIL_CLOSED", "DETERMINISTIC_ESCALATION",
                                          "LOW_MODEL_CONFIDENCE"} = {}
<1>1. /\ c.screening_alert \in BOOLEAN /\ c.document_mismatch \in BOOLEAN
      /\ c.transfers_last_hour \in Nat /\ c.new_device \in BOOLEAN
      /\ c.sek \in BOOLEAN /\ c.amount_minor \in Nat
  BY CaseAssumption
<1>2. Signals(c) = {} <=> /\ ~c.document_mismatch
                          /\ ~(c.transfers_last_hour >= 6)
                          /\ ~(c.new_device /\ c.sek /\ c.amount_minor >= 2500000)
  BY <1>1 DEF Signals
<1>3. Signals(c) \subseteq {"DOCUMENT_MISMATCH", "HIGH_VELOCITY", "NEW_DEVICE_HIGH_VALUE"}
  BY DEF Signals
<1>4. CASE c.screening_alert
  BY <1>1, <1>4 DEF MinimumQueue, PolicyContext, Queue, Context
<1>5. CASE ~c.screening_alert /\ Signals(c) # {}
  BY <1>1, <1>2, <1>3, <1>5 DEF MinimumQueue, PolicyContext, Queue, Context
<1>6. CASE ~c.screening_alert /\ Signals(c) = {}
  BY <1>1, <1>2, <1>6 DEF MinimumQueue, PolicyContext, Queue, Context
<1> QED
  BY <1>4, <1>5, <1>6

\* A recommendation is routed no lower than the minimum, and stays in the standard queue
\* only if the model is sure that it belongs there.
LEMMA RoutedSafely ==
  ASSUME NEW c \in Case, NEW a \in Advice
  PROVE  /\ RoutedTo(c, a) \in Queue
         /\ c.screening_alert => RoutedTo(c, a) = "COMPLIANCE_MANUAL_REVIEW"
         /\ PolicyContext(c) # "standard" => RoutedTo(c, a) # "STANDARD_OPERATIONS"
         /\ RoutedTo(c, a) = "STANDARD_OPERATIONS" => a.queue = "STANDARD_OPERATIONS" /\ a.confident
         /\ RoutedTo(c, a) # a.queue <=> Raised(c, a) \/ Unsure(c, a)
         /\ Unsure(c, a) => RoutedTo(c, a) = "PRIORITY_MANUAL_REVIEW" /\ PolicyContext(c) = "standard"
         /\ Raised(c, a) => PolicyContext(c) # "standard"
<1>1. a.queue \in Queue /\ a.confident \in BOOLEAN
  BY AdviceAssumption
<1>2. /\ MinimumQueue(c).queue \in Queue
      /\ MinimumQueue(c).queue = "STANDARD_OPERATIONS" <=> PolicyContext(c) = "standard"
      /\ MinimumQueue(c).queue = "COMPLIANCE_MANUAL_REVIEW" <=> c.screening_alert
  BY ThresholdsAgree
<1> QED
  BY <1>1, <1>2 DEF RoutedTo, Raised, Unsure, Rank, Queue

\* What the configured signals of a case demand, in the words of the document.
LEMMA SignalsDemand ==
  ASSUME NEW c \in Case, c.document_mismatch \/ c.transfers_last_hour > 5
                           \/ (c.new_device /\ c.sek /\ c.amount_minor > 2499999)
  PROVE  PolicyContext(c) # "standard"
  BY CaseAssumption DEF PolicyContext

-----------------------------------------------------------------------------
\* The guardrails hold whatever the model answers

\* What each step of review leaves alone: the case always, and all once it has ended.
LEMMA EndedStays ==
  ASSUME [Next]_vars
  PROVE  /\ case' = case
         /\ result # Pending => UNCHANGED vars
  BY DEF Next, Review, ReadFacts, SearchPolicy, RefuseTool, GatewayRaises, RefuseAdvice, Finalize,
         Exhausted, Ended, EndsClosed, ToolAnswered, Asks, vars

\* How a review ends: with a recommendation, fail-closed, or with an exception.
LEMMA HowReviewEnds ==
  ASSUME [Next]_vars, result = Pending, result' # Pending
  PROVE  \/ \E a \in Advice : Finalize(a)
         \/ /\ \E reason : result' = FailClosed(case, evidence, reason)
                             \/ result' = [FailClosed(case, evidence, reason) EXCEPT !.steps = MaxSteps]
            /\ ~\E a \in Advice : Finalize(a)
         \/ result' = Escaped
  BY DEF Next, Review, ReadFacts, SearchPolicy, RefuseTool, GatewayRaises, RefuseAdvice,
         Exhausted, Ended, EndsClosed, ToolAnswered, vars

\* No step routes a case below its minimum or leaves an unsure one in the standard queue.
LEMMA NextRouting ==
  ASSUME RoutingInv, [Next]_vars
  PROVE  RoutingInv'
<1> USE DEF RoutingInv
<1>1. SourceOK'
  <2>1. CASE ReadFacts
    BY <2>1 DEF ReadFacts, ToolAnswered, SourceOK
  <2>2. CASE \E found \in Retrievals : SearchPolicy(found)
    BY <2>2 DEF SearchPolicy, ToolAnswered, SourceOK
  <2>3. CASE UNCHANGED <<case, evidence, answered>>
    BY <2>3 DEF SourceOK
  <2> QED
    BY <2>1, <2>2, <2>3 DEF Next, Review, RefuseTool, GatewayRaises, RefuseAdvice, Finalize,
         Exhausted, Ended, EndsClosed, vars
<1>2. CASE result # Pending
  <2>1. UNCHANGED vars
    BY <1>2, EndedStays
  <2> QED
    BY <1>1, <2>1 DEF MinimumHolds, StandardIsSure, Returned, vars
<1>3. CASE result' = Pending
  BY <1>1, <1>3 DEF MinimumHolds, StandardIsSure, Returned, Pending
<1>4. CASE result' = Escaped
  BY <1>1, <1>4 DEF MinimumHolds, StandardIsSure, Returned, Escaped
<1>5. ASSUME result = Pending, NEW a \in Advice, Finalize(a) PROVE MinimumHolds' /\ StandardIsSure'
  <2>1. /\ case' = case /\ action' = a /\ answered' = answered /\ evidence' = evidence
        /\ result'.queue = RoutedTo(case, a) /\ case \in Case
        /\ Range(a.evidence_ids) \subseteq Range(evidence)
    BY <1>5 DEF Finalize, SourceOK
  <2>2. MinimumHolds'
    BY <2>1, RoutedSafely, SignalsDemand DEF MinimumHolds
  <2>3. Range(a.evidence_ids) # {}
    <3>1. a.evidence_ids \in Seq(Range(a.evidence_ids)) /\ Len(a.evidence_ids) >= 1
      <4>1. a.evidence_ids \in Seq(Range(a.evidence_ids)) /\ Len(a.evidence_ids) \in 1 .. 5
        BY AdviceAssumption, Zenon
      <4> QED
        BY <4>1
    <3>2. a.evidence_ids[1] \in Range(a.evidence_ids)
      BY <3>1 DEF Range
    <3> QED
      BY <3>2
  <2>4. StandardIsSure'
    BY <2>1, <2>3, RoutedSafely DEF StandardIsSure, SourceOK
  <2> QED
    BY <2>2, <2>4
<1>6. ASSUME NEW reason, \/ result' = FailClosed(case, evidence, reason)
                         \/ result' = [FailClosed(case, evidence, reason) EXCEPT !.steps = MaxSteps]
      PROVE  MinimumHolds' /\ StandardIsSure'
  <2>1. /\ result'.queue = IF case.screening_alert THEN "COMPLIANCE_MANUAL_REVIEW"
                           ELSE "PRIORITY_MANUAL_REVIEW"
        /\ case' = case
    BY <1>6, EndedStays DEF FailClosed
  <2> QED
    BY <2>1 DEF MinimumHolds, StandardIsSure
<1> QED
  BY <1>1, <1>2, <1>3, <1>4, <1>5, <1>6, HowReviewEnds

LEMMA InitRouting == Init => RoutingInv
  BY DEF Init, RoutingInv, SourceOK, MinimumHolds, StandardIsSure, Returned, Pending, Range

\* Whatever the model answers and however the review ends, the configured signals of a case
\* keep it out of the queues below their minimum.
THEOREM MinimumAlwaysHolds == Spec => []MinimumHolds
<1>1. RoutingInv => MinimumHolds
  BY DEF RoutingInv
<1> QED
  BY <1>1, InitRouting, NextRouting, PTL DEF Spec

\* Only a sure model that has searched the policies leaves a case in the standard queue.
THEOREM StandardAlwaysSure == Spec => []StandardIsSure
<1>1. RoutingInv => StandardIsSure
  BY DEF RoutingInv
<1> QED
  BY <1>1, InitRouting, NextRouting, PTL DEF Spec

-----------------------------------------------------------------------------
\* What a review says of its recommendation

\* The details of a trace, and what joining two traces makes of them.
Details(s) == {s[i].detail : i \in 1 .. Len(s)}

LEMMA DetailsJoined ==
  ASSUME NEW s \in Seq(Events), NEW t \in Seq(Events)
  PROVE  /\ s \o t \in Seq(Events)
         /\ Details(s \o t) = Details(s) \cup Details(t)
         /\ t # <<>> => Len(s \o t) > 0 /\ (s \o t)[Len(s \o t)] = t[Len(t)]
<1>1. /\ s \o t \in Seq(Events) /\ Len(s) \in Nat /\ Len(t) \in Nat
      /\ Len(s \o t) = Len(s) + Len(t)
      /\ \A i \in 1 .. Len(s) : (s \o t)[i] = s[i]
      /\ \A i \in 1 .. Len(t) : (s \o t)[Len(s) + i] = t[i]
  OBVIOUS
<1>2. \A i \in 1 .. Len(s \o t) :
         i \in 1 .. Len(s) \/ (i - Len(s) \in 1 .. Len(t) /\ (s \o t)[i] = t[i - Len(s)])
  BY <1>1
<1>3. Details(s \o t) \subseteq Details(s) \cup Details(t)
  BY <1>1, <1>2 DEF Details
<1>4. ASSUME NEW i \in 1 .. Len(s) PROVE s[i].detail \in Details(s \o t)
  BY <1>1 DEF Details
<1>5. ASSUME NEW i \in 1 .. Len(t) PROVE t[i].detail \in Details(s \o t)
  <2>1. Len(s) + i \in 1 .. Len(s \o t) /\ (s \o t)[Len(s) + i] = t[i]
    BY <1>1
  <2> QED
    BY <2>1 DEF Details
<1>6. Details(s) \cup Details(t) \subseteq Details(s \o t)
  BY <1>4, <1>5 DEF Details
<1>7. t # <<>> => Len(t) \in 1 .. Len(t)
  BY <1>1
<1> QED
  BY <1>1, <1>3, <1>6, <1>7

LEMMA OneDetail ==
  ASSUME NEW e \in Word, NEW d \in Word, step \in Nat
  PROVE  /\ <<Event(e, d)>> \in Seq(Events) /\ <<Event(e, d)>> # <<>>
         /\ Details(<<Event(e, d)>>) = {d}
         /\ <<Event(e, d)>>[Len(<<Event(e, d)>>)].detail = d
<1>1. Event(e, d) \in Events /\ Event(e, d).detail = d
  BY DEF Event, Events
<1> HIDE DEF Event
<1>2. /\ <<Event(e, d)>> \in Seq(Events) /\ Len(<<Event(e, d)>>) = 1
      /\ <<Event(e, d)>>[1] = Event(e, d)
  BY <1>1
<1> QED
  BY <1>1, <1>2 DEF Details

LEMMA NoDetail == <<>> \in Seq(Events) /\ Details(<<>>) = {}
<1>1. <<>> \in Seq(Events) /\ Len(<<>>) = 0
  OBVIOUS
<1> QED
  BY <1>1 DEF Details

\* The first elements of a sequence are elements of it.
LEMMA FirstKept ==
  ASSUME NEW S, NEW s \in Seq(S), NEW n \in Nat
  PROVE  Range(First(s, n)) \subseteq Range(s)
<1> DEFINE k == IF Len(s) < n THEN Len(s) ELSE n
<1>1. k \in Nat /\ k <= Len(s)
  OBVIOUS
<1>2. SubSeq(s, 1, k) \in Seq(S) /\ Len(SubSeq(s, 1, k)) = k
      /\ \A i \in 1 .. k : SubSeq(s, 1, k)[i] = s[i]
  BY <1>1
<1> QED
  BY <1>1, <1>2 DEF First, Range

\* The guardrails record what they adjust, and name it among the reasons of the result: the
\* model cannot, for its own reasons are filtered.
LEMMA AdjustmentsTell ==
  ASSUME NEW c \in Case, NEW a, step \in Nat
  PROVE  /\ Adjustments(c, a) \in Seq(Events)
         /\ Details(Adjustments(c, a)) =
               (IF Selected(c, a) # a.evidence_ids THEN {"required_policy"} ELSE {})
                  \cup (IF Raised(c, a) THEN {"minimum_queue"} ELSE {})
                  \cup (IF Unsure(c, a) THEN {"low_confidence"} ELSE {})
         /\ "DETERMINISTIC_ESCALATION" \in Reasons(c, a) <=> Raised(c, a)
         /\ "LOW_MODEL_CONFIDENCE" \in Reasons(c, a) <=> Unsure(c, a)
         /\ "WORKFLOW_FAIL_CLOSED" \notin Reasons(c, a)
<1> DEFINE x == IF Selected(c, a) # a.evidence_ids THEN <<Adjustment("required_policy")>> ELSE <<>>
           y == IF Raised(c, a) THEN <<Adjustment("minimum_queue")>> ELSE <<>>
           z == IF Unsure(c, a) THEN <<Adjustment("low_confidence")>> ELSE <<>>
           xy == x \o y
<1>0. ASSUME NEW d \in {"required_policy", "minimum_queue", "low_confidence"}
      PROVE  <<Adjustment(d)>> \in Seq(Events) /\ Details(<<Adjustment(d)>>) = {d}
  BY OneDetail DEF Adjustment, Word
<1>1. /\ x \in Seq(Events)
      /\ Details(x) = IF Selected(c, a) # a.evidence_ids THEN {"required_policy"} ELSE {}
  BY <1>0, NoDetail
<1>2. y \in Seq(Events) /\ Details(y) = IF Raised(c, a) THEN {"minimum_queue"} ELSE {}
  BY <1>0, NoDetail
<1>3. z \in Seq(Events) /\ Details(z) = IF Unsure(c, a) THEN {"low_confidence"} ELSE {}
  BY <1>0, NoDetail
<1>4. Adjustments(c, a) = xy \o z
  BY DEF Adjustments
<1> HIDE DEF x, y, z
<1>5. xy \in Seq(Events) /\ Details(xy) = Details(x) \cup Details(y)
  BY <1>1, <1>2, DetailsJoined
<1> HIDE DEF xy
<1>6. xy \o z \in Seq(Events) /\ Details(xy \o z) = Details(x) \cup Details(y) \cup Details(z)
  BY <1>3, <1>5, DetailsJoined
<1>7. /\ "DETERMINISTIC_ESCALATION" \in Reasons(c, a) <=> Raised(c, a)
      /\ "LOW_MODEL_CONFIDENCE" \in Reasons(c, a) <=> Unsure(c, a)
      /\ "WORKFLOW_FAIL_CLOSED" \notin Reasons(c, a)
  BY ThresholdsAgree DEF Reasons, AllowedReason
<1> QED
  BY <1>1, <1>2, <1>3, <1>4, <1>6, <1>7

\* A review that finishes with a recommendation explains it.
LEMMA FinalizeExplains ==
  ASSUME RoutingInv, TraceOK, NEW a \in Advice, Finalize(a)
  PROVE  TraceOK' /\ AdviceExplained' /\ SummaryAgrees'
<1> DEFINE f == <<Event("model_action", "final")>>
           d == <<Event("completed", "human_review_required")>>
           queue == RoutedTo(case, a)
           reasons == Reasons(case, a)
<1>1. /\ case \in Case /\ step \in Nat /\ trace \in Seq(Events)
      /\ result = Pending
      /\ UNCHANGED <<case, step>> /\ action' = a
      /\ result' = [status |-> "returned", steps |-> step, queue |-> queue,
                    reason_codes |-> reasons, summary |-> Summary(case, queue, reasons),
                    evidence |-> First(Selected(case, a), EvidenceLimit)]
      /\ trace' = trace \o f \o Adjustments(case, a) \o d
  BY LimitAssumption DEF Finalize, Asks, RoutingInv, SourceOK, TraceOK
<1>2. Details(trace) \subseteq Quiet
  BY <1>1 DEF TraceOK, Details
<1>3. /\ f \in Seq(Events) /\ Details(f) = {"final"}
      /\ d \in Seq(Events) /\ Details(d) = {"human_review_required"}
      /\ d # <<>> /\ d[Len(d)].detail = "human_review_required"
  BY <1>1, OneDetail DEF Word
<1>4. /\ Adjustments(case, a) \in Seq(Events)
      /\ Details(Adjustments(case, a)) =
            (IF Selected(case, a) # a.evidence_ids THEN {"required_policy"} ELSE {})
               \cup (IF Raised(case, a) THEN {"minimum_queue"} ELSE {})
               \cup (IF Unsure(case, a) THEN {"low_confidence"} ELSE {})
      /\ "DETERMINISTIC_ESCALATION" \in reasons <=> Raised(case, a)
      /\ "LOW_MODEL_CONFIDENCE" \in reasons <=> Unsure(case, a)
      /\ "WORKFLOW_FAIL_CLOSED" \notin reasons
  BY <1>1, AdjustmentsTell
<1> HIDE DEF f, d
<1>5. /\ trace' \in Seq(Events) /\ Len(trace') > 0
      /\ Details(trace') = Details(trace) \cup {"final"} \cup Details(Adjustments(case, a))
                             \cup {"human_review_required"}
      /\ trace'[Len(trace')].detail = "human_review_required"
  <2> DEFINE tf == trace \o f
             tfa == tf \o Adjustments(case, a)
  <2>1. tf \in Seq(Events) /\ Details(tf) = Details(trace) \cup {"final"}
    BY <1>1, <1>3, DetailsJoined
  <2> HIDE DEF tf
  <2>2. /\ tfa \in Seq(Events)
        /\ Details(tfa) = Details(trace) \cup {"final"} \cup Details(Adjustments(case, a))
    BY <1>4, <2>1, DetailsJoined
  <2>3. trace' = tfa \o d
    BY <1>1 DEF tf
  <2> HIDE DEF tfa
  <2> QED
    BY <1>3, <2>2, <2>3, DetailsJoined
<1>6. /\ Recorded({"minimum_queue", "low_confidence"})' # {} <=> Raised(case, a) \/ Unsure(case, a)
      /\ "low_confidence" \in Recorded({"low_confidence"})' <=> Unsure(case, a)
      /\ Recorded({"required_policy"})' # {} <=> Selected(case, a) # a.evidence_ids
  <2>1. \A D : Recorded(D)' = Details(trace') \cap D
    BY DEF Recorded, Details
  <2>2. /\ "minimum_queue" \in Details(trace') <=> Raised(case, a)
        /\ "low_confidence" \in Details(trace') <=> Unsure(case, a)
        /\ "required_policy" \in Details(trace') <=> Selected(case, a) # a.evidence_ids
    BY <1>2, <1>4, <1>5 DEF Quiet
  <2> QED
    BY <2>1, <2>2
<1>7. Returned' /\ ~Closed' /\ Finalized'
  BY <1>1, <1>5 DEF Returned, Closed, Finalized
<1>8. TraceOK'
  BY <1>1, <1>5 DEF TraceOK, Pending
<1>9. /\ queue # a.queue <=> Raised(case, a) \/ Unsure(case, a)
      /\ Unsure(case, a) => PolicyContext(case) = "standard" /\ queue = "PRIORITY_MANUAL_REVIEW"
      /\ Raised(case, a) => PolicyContext(case) # "standard"
      /\ PolicyContext(case) # "standard" => queue # "STANDARD_OPERATIONS"
      /\ queue \in Queue
      /\ MinimumQueue(case).queue = "STANDARD_OPERATIONS" <=> PolicyContext(case) = "standard"
      /\ PolicyContext(case) \in Context
  BY <1>1, RoutedSafely, ThresholdsAgree
<1>10. Range(First(a.evidence_ids, EvidenceLimit)) \subseteq Range(a.evidence_ids)
  BY FirstKept, AdviceAssumption, LimitAssumption
<1> HIDE DEF queue, reasons
<1>11. AdviceExplained'
  BY <1>1, <1>4, <1>6, <1>7, <1>9, <1>10 DEF AdviceExplained
<1>12. Summary(case, queue, reasons) =
         IF PolicyContext(case) # "standard" THEN PolicyContext(case)
         ELSE IF Unsure(case, a) THEN "low_confidence"
         ELSE IF queue = "COMPLIANCE_MANUAL_REVIEW" THEN "model_compliance"
         ELSE IF queue = "PRIORITY_MANUAL_REVIEW" THEN "model_priority"
         ELSE "model_words"
  BY <1>4 DEF Summary, PolicyContext
<1>13. SummaryAgrees'
  BY <1>1, <1>6, <1>7, <1>9, <1>12 DEF SummaryAgrees, Context, Queue
<1> QED
  BY <1>8, <1>11, <1>13

\* A review that fails closed says so in its reasons and at the end of its trace.
LEMMA ClosedExplains ==
  ASSUME result'.status = "returned", "WORKFLOW_FAIL_CLOSED" \in result'.reason_codes,
         result'.summary = "fail_closed",
         step' \in 1 .. MaxSteps + 1,
         NEW s \in Seq(Events), NEW t \in Seq(Events), t # <<>>, trace' = s \o t,
         t[Len(t)].detail = "fail_closed_human_review"
  PROVE  TraceOK' /\ AdviceExplained' /\ SummaryAgrees'
<1>1. trace' \in Seq(Events) /\ trace'[Len(trace')].detail = "fail_closed_human_review"
  BY DetailsJoined
<1>2. Returned' /\ Closed' /\ ~Finalized'
  BY <1>1 DEF Returned, Closed, Finalized
<1>3. result' # Pending
  BY DEF Pending
<1> QED
  BY <1>1, <1>2, <1>3 DEF TraceOK, AdviceExplained, SummaryAgrees

\* So does every step that ends the loop without a recommendation.
LEMMA EndsClosedExplains ==
  ASSUME TraceOK, NEW asked \in {<<>>, <<Event("model_action", "tool_request")>>,
                                 <<Event("model_action", "final")>>},
         NEW reason \in Caught, result = Pending, step <= MaxSteps, EndsClosed(asked, reason)
  PROVE  TraceOK' /\ AdviceExplained' /\ SummaryAgrees'
<1> DEFINE s == trace \o asked
           t == <<Adjustment(reason), Event("completed", "fail_closed_human_review")>>
<1>1. step \in Nat /\ trace \in Seq(Events) /\ step' \in 1 .. MaxSteps + 1
  BY LimitAssumption DEF TraceOK, EndsClosed
<1>2. asked \in Seq(Events)
  <2>1. <<Event("model_action", "tool_request")>> \in Seq(Events)
    BY <1>1, OneDetail DEF Word, Quiet
  <2>2. <<Event("model_action", "final")>> \in Seq(Events)
    BY <1>1, OneDetail DEF Word
  <2> QED
    BY <2>1, <2>2, NoDetail
<1>3. s \in Seq(Events)
  BY <1>1, <1>2, DetailsJoined
<1>4. /\ t \in Seq(Events) /\ t # <<>>
      /\ t[Len(t)].detail = "fail_closed_human_review"
  <2>1. Adjustment(reason) \in Events /\ Event("completed", "fail_closed_human_review") \in Events
    BY <1>1 DEF Adjustment, Event, Events, Word
  <2>2. Event("completed", "fail_closed_human_review").detail = "fail_closed_human_review"
    BY DEF Event
  <2> HIDE DEF Event, Adjustment
  <2> QED
    BY <2>1, <2>2
<1>5. trace' = s \o t
  BY DEF EndsClosed
<1>6. /\ result'.status = "returned"
      /\ "WORKFLOW_FAIL_CLOSED" \in result'.reason_codes
      /\ result'.summary = "fail_closed"
  BY DEF EndsClosed, FailClosed
<1> HIDE DEF s, t
<1> QED
  BY <1>1, <1>3, <1>4, <1>5, <1>6, ClosedExplains

\* The end of the budget is a closed result of the last step.
LEMMA ExhaustedExplains ==
  ASSUME TraceOK, Exhausted
  PROVE  TraceOK' /\ AdviceExplained' /\ SummaryAgrees'
<1> DEFINE x == [Adjustment("STEP_BUDGET_EXHAUSTED") EXCEPT !.step = MaxSteps]
           y == [Event("completed", "fail_closed_human_review") EXCEPT !.step = MaxSteps]
           t == <<x, y>>
<1>1. trace \in Seq(Events) /\ step' \in 1 .. MaxSteps + 1 /\ trace' = trace \o t
  BY DEF TraceOK, Exhausted
<1>2. x \in Events /\ y \in Events /\ y.detail = "fail_closed_human_review"
  BY LimitAssumption DEF Adjustment, Event, Events, Word
<1>3. /\ result'.status = "returned"
      /\ "WORKFLOW_FAIL_CLOSED" \in result'.reason_codes
      /\ result'.summary = "fail_closed"
  BY DEF Exhausted, FailClosed
<1> HIDE DEF x, y
<1>4. t \in Seq(Events) /\ t # <<>> /\ t[Len(t)].detail = "fail_closed_human_review"
  BY <1>2
<1> HIDE DEF t
<1> QED
  BY <1>1, <1>3, <1>4, ClosedExplains

\* A tool that answers adds only its own events to the trace.
LEMMA ToolStays ==
  ASSUME TraceOK, Asks, NEW tool \in {"get_case_facts", "search_policy"}, ToolAnswered(tool)
  PROVE  TraceOK' /\ AdviceExplained' /\ SummaryAgrees'
<1> DEFINE x == Event("model_action", "tool_request")
           y == Event("tool_result", tool)
           t == <<x, y>>
<1>1. /\ result = Pending /\ result' = Pending /\ trace' = trace \o t
      /\ step \in Nat /\ trace \in Seq(Events) /\ step' \in 1 .. MaxSteps + 1
  BY LimitAssumption DEF TraceOK, Asks, ToolAnswered
<1>2. x \in Events /\ y \in Events /\ x.detail = "tool_request" /\ y.detail = tool
  BY <1>1 DEF Event, Events, Word, Quiet
<1> HIDE DEF x, y
<1>3. t \in Seq(Events) /\ Details(t) = {x.detail, y.detail}
  BY <1>2 DEF Details
<1> HIDE DEF t
<1>4. trace' \in Seq(Events) /\ Details(trace') = Details(trace) \cup Details(t)
  BY <1>1, <1>3, DetailsJoined
<1>5. Details(trace') \subseteq Quiet
  BY <1>1, <1>2, <1>3, <1>4 DEF TraceOK, Details, Quiet
<1>6. TraceOK'
  BY <1>1, <1>4, <1>5 DEF TraceOK, Details
<1>7. ~Returned' /\ ~Finalized'
  BY <1>1 DEF Returned, Finalized, Pending
<1> QED
  BY <1>6, <1>7 DEF AdviceExplained, SummaryAgrees

\* However a review goes on, what it says agrees with what it did.
LEMMA NextExplain ==
  ASSUME ExplainInv, [Next]_vars
  PROVE  ExplainInv'
<1> USE DEF ExplainInv
<1>1. RoutingInv'
  BY NextRouting
<1>2. CASE UNCHANGED vars
  <2>1. UNCHANGED <<case, step, trace, action, result>>
    BY <1>2 DEF vars
  <2>2. TraceOK'
    BY <2>1 DEF TraceOK
  <2>3. Returned' = Returned /\ Closed' = Closed /\ Finalized' = Finalized
        /\ \A D : Recorded(D)' = Recorded(D)
    BY <2>1 DEF Returned, Closed, Finalized, Recorded
  <2>4. AdviceExplained'
    BY <2>1, <2>3 DEF AdviceExplained
  <2>5. SummaryAgrees'
    BY <2>1, <2>3 DEF SummaryAgrees
  <2> QED
    BY <1>1, <2>2, <2>4, <2>5
<1>3. CASE ReadFacts \/ \E found \in Retrievals : SearchPolicy(found)
  BY <1>1, <1>3, ToolStays DEF ReadFacts, SearchPolicy
<1>4. CASE RefuseTool
  BY <1>1, <1>4, EndsClosedExplains DEF RefuseTool, Asks, Caught
<1>5. ASSUME NEW fault \in DOMAIN ProviderFault, GatewayRaises(fault) PROVE ExplainInv'
  <2>1. CASE RaisedBy(fault) \in Caught
    BY <1>1, <1>5, <2>1, EndsClosedExplains DEF GatewayRaises, Asks
  <2>2. CASE RaisedBy(fault) \notin Caught
    <3>1. result' = Escaped /\ UNCHANGED <<case, step, trace>>
      BY <1>5, <2>2 DEF GatewayRaises
    <3>2. ~Returned' /\ ~Finalized' /\ result' # Pending
      BY <3>1 DEF Returned, Finalized, Pending, Escaped
    <3> QED
      BY <1>1, <3>1, <3>2 DEF TraceOK, AdviceExplained, SummaryAgrees
  <2> QED
    BY <2>1, <2>2
<1>6. ASSUME NEW a \in Advice, RefuseAdvice(a) PROVE ExplainInv'
  BY <1>1, <1>6, EndsClosedExplains DEF RefuseAdvice, Asks, Caught
<1>7. ASSUME NEW a \in Advice, Finalize(a) PROVE ExplainInv'
  BY <1>1, <1>7, FinalizeExplains
<1>8. CASE Exhausted
  BY <1>1, <1>8, ExhaustedExplains
<1> QED
  BY <1>2, <1>3, <1>4, <1>5, <1>6, <1>7, <1>8 DEF Next, Review, Ended

LEMMA InitExplain == Init => ExplainInv
<1> SUFFICES ASSUME Init PROVE ExplainInv
  OBVIOUS
<1>1. RoutingInv
  BY InitRouting
<1>2. ~Returned /\ ~Finalized
  BY DEF Init, Returned, Finalized, Pending
<1>3. TraceOK
  BY NoDetail, LimitAssumption DEF Init, TraceOK
<1> QED
  BY <1>1, <1>2, <1>3 DEF ExplainInv, AdviceExplained, SummaryAgrees

\* A queue other than the recommended one is explained by a reason and by the trace, and a
\* model cannot forge the reasons of the guardrails.
THEOREM AlwaysExplained == Spec => []AdviceExplained
<1>1. ExplainInv => AdviceExplained
  BY DEF ExplainInv
<1> QED
  BY <1>1, InitExplain, NextExplain, PTL DEF Spec

\* What a result says agrees with why the case was routed, for every case: the thresholds
\* that the code repeats three times are the same ones.
THEOREM SummaryAlwaysAgrees == Spec => []SummaryAgrees
<1>1. ExplainInv => SummaryAgrees
  BY DEF ExplainInv
<1> QED
  BY <1>1, InitExplain, NextExplain, PTL DEF Spec

-----------------------------------------------------------------------------
\* The evidence of a result

\* A new passage at the end of a list.
LEMMA AppendNew ==
  ASSUME NEW P, NEW s \in Lists(P), NEW p \in P
  PROVE  /\ p \notin Range(s) => Append(s, p) \in Lists(P)
         /\ Range(Append(s, p)) = Range(s) \cup {p}
<1>1. /\ s \in Seq(P) /\ Len(s) \in Nat /\ Append(s, p) \in Seq(P) /\ Len(Append(s, p)) = Len(s) + 1
      /\ DOMAIN s = 1 .. Len(s) /\ DOMAIN Append(s, p) = 1 .. (Len(s) + 1)
      /\ Append(s, p)[Len(s) + 1] = p
      /\ \A i \in 1 .. Len(s) : Append(s, p)[i] = s[i]
  BY DEF Lists
<1>2. \A i \in 1 .. (Len(s) + 1) : i = Len(s) + 1 \/ i \in 1 .. Len(s)
  BY <1>1
<1>3. Range(Append(s, p)) = Range(s) \cup {p}
  <2>1. Len(s) + 1 \in 1 .. (Len(s) + 1) /\ \A i \in 1 .. Len(s) : i \in 1 .. (Len(s) + 1)
    BY <1>1
  <2> QED
    BY <1>1, <1>2, <2>1 DEF Range
<1>4. ASSUME p \notin Range(s) PROVE IsInjective(Append(s, p))
  <2>1. \A a, b \in 1 .. Len(s) : s[a] = s[b] => a = b
    BY <1>1 DEF Lists, IsInjective
  <2>2. \A a \in 1 .. Len(s) : s[a] # p
    BY <1>1, <1>4 DEF Range
  <2>3. ASSUME NEW a \in 1 .. (Len(s) + 1), NEW b \in 1 .. (Len(s) + 1),
               Append(s, p)[a] = Append(s, p)[b]
        PROVE  a = b
    BY <1>1, <1>2, <2>1, <2>2, <2>3
  <2> QED
    BY <1>1, <2>3 DEF IsInjective
<1> QED
  BY <1>1, <1>3, <1>4 DEF Lists

\* Updating a list of passages with what a search found adds these, and repeats none.
LEMMA ExtendedIsUpdate ==
  ASSUME NEW P, NEW s \in Lists(P), NEW t \in Seq(P)
  PROVE  Extended(s, t) \in Lists(P) /\ Range(Extended(s, t)) = Range(s) \cup Range(t)
<1> DEFINE V == Lists(P)
           S == DOMAIN t
           Updated(l, p) == IF p \in Range(l) THEN l ELSE Append(l, p)
           h == [q \in V \X P |-> Updated(q[1], q[2])]
           Eqn(g) == g = [T \in SUBSET S |-> IF T = {} THEN s ELSE Updated(g[T \ {Max(T)}], t[Max(T)])]
           it == CHOOSE g : Eqn(g)
<1>1. S = 1 .. Len(t) /\ Len(t) \in Nat /\ IsFiniteSet(S) /\ \A i \in S : t[i] \in P
  BY FS_Interval
<1>2. Extended(s, t) = it[S]
  BY Zenon DEF Extended, FoldLeft, MapThenFoldSet
<1>n. ASSUME NEW l \in V, NEW p \in P
      PROVE  Updated(l, p) \in V /\ Range(Updated(l, p)) = Range(l) \cup {p}
  BY AppendNew
<1>3. PICK g \in [SUBSET S -> V] : FoldsDown(g, t, s, h)
  <2>1. h \in [V \X P -> V]
    BY <1>n
  <2> HIDE DEF h, V
  <2>2. s \in V
    BY DEF V
  <2>3. \E g \in [SUBSET DOMAIN t -> V] : FoldsDown(g, t, s, h)
    BY ONLY <2>1, <2>2, t \in Seq(P), SequenceRecursion, Zenon
  <2> QED
    BY <2>3
<1>4. ASSUME NEW T \in SUBSET S, T # {} PROVE Max(T) \in S
  BY <1>1, <1>4, FS_Subset, MaxOfFinite
<1> HIDE DEF V
<1>5. ASSUME NEW T \in SUBSET S
      PROVE  g[T] = IF T = {} THEN s ELSE Updated(g[T \ {Max(T)}], t[Max(T)])
  <2>1. g[T] = IF T = {} THEN s ELSE h[<<g[T \ {Max(T)}], t[Max(T)]>>]
    BY <1>3 DEF FoldsDown
  <2>2. CASE T = {}
    BY <2>1, <2>2
  <2>3. CASE T # {}
    <3>1. g[T \ {Max(T)}] \in V /\ t[Max(T)] \in P
      BY <1>1, <1>3, <1>4, <2>3
    <3>2. h[<<g[T \ {Max(T)}], t[Max(T)]>>] = Updated(g[T \ {Max(T)}], t[Max(T)])
      BY <3>1
    <3> QED
      BY <2>1, <2>3, <3>2
  <2> QED
    BY <2>2, <2>3
<1> HIDE DEF h, Updated
<1>6. Eqn(g)
  BY <1>5
<1>7. Eqn(it)
  <2> HIDE DEF Eqn
  <2> QED
    BY <1>6
<1>8. it[{}] = s /\ \A k \in 1 .. Len(t) : it[1 .. k] = Updated(it[1 .. (k - 1)], t[k])
  <2>1. \A T \in SUBSET S : it[T] = IF T = {} THEN s ELSE Updated(it[T \ {Max(T)}], t[Max(T)])
    BY <1>7
  <2> HIDE DEF it
  <2>2. ASSUME NEW k \in 1 .. Len(t) PROVE it[1 .. k] = Updated(it[1 .. (k - 1)], t[k])
    BY <2>1, FirstIndices
  <2> QED
    BY <2>1, <2>2
<1> HIDE DEF it
<1> DEFINE Holds(k) == it[1 .. k] \in V /\ Range(it[1 .. k]) = Range(s) \cup {t[i] : i \in 1 .. k}
           G == {k \in Nat : k <= Len(t) => Holds(k)}
<1>9. 0 \in G
  <2>1. 1 .. 0 = {} /\ s \in V
    BY DEF V
  <2> QED
    BY <1>8, <2>1
<1>10. ASSUME NEW k \in Nat, k \in G PROVE k + 1 \in G
  <2>1. SUFFICES ASSUME k + 1 <= Len(t) PROVE Holds(k + 1)
    BY <1>10
  <2>2. /\ k + 1 \in 1 .. Len(t) /\ (k + 1) - 1 = k /\ k <= Len(t)
        /\ \A i : i \in 1 .. (k + 1) <=> i \in 1 .. k \/ i = k + 1
    BY <1>1, <2>1
  <2>3. Holds(k) /\ it[1 .. (k + 1)] = Updated(it[1 .. k], t[k + 1]) /\ t[k + 1] \in P
    BY <1>1, <1>8, <1>10, <2>2
  <2>4. /\ it[1 .. (k + 1)] \in V
        /\ Range(it[1 .. (k + 1)]) = Range(it[1 .. k]) \cup {t[k + 1]}
    BY <1>n, <2>3
  <2>5. {t[i] : i \in 1 .. (k + 1)} = {t[i] : i \in 1 .. k} \cup {t[k + 1]}
    BY <2>2
  <2> QED
    BY <2>3, <2>4, <2>5
<1>11. Holds(Len(t))
  <2>1. Len(t) \in G
    <3> HIDE DEF G
    <3> QED
      BY <1>1, <1>9, <1>10, Induction
  <2> QED
    BY <1>1, <2>1
<1>12. {t[i] : i \in 1 .. Len(t)} = Range(t)
  BY <1>1 DEF Range
<1> QED
  BY <1>1, <1>2, <1>11, <1>12 DEF V

\* The first elements of a list.
LEMMA FirstOfList ==
  ASSUME NEW P, NEW s \in Lists(P), NEW n \in Nat \ {0}
  PROVE  /\ First(s, n) \in Lists(P) /\ Len(First(s, n)) <= n
         /\ Range(First(s, n)) \subseteq Range(s) /\ Range(s) \subseteq P
         /\ s # <<>> => First(s, n) # <<>>
<1> DEFINE k == IF Len(s) < n THEN Len(s) ELSE n
           t == SubSeq(s, 1, k)
<1>1. /\ s \in Seq(P) /\ DOMAIN s = 1 .. Len(s) /\ k \in Nat /\ k <= Len(s) /\ k <= n
      /\ s # <<>> => k > 0
  BY DEF Lists
<1>2. t \in Seq(P) /\ Len(t) = k /\ DOMAIN t = 1 .. k /\ \A i \in 1 .. k : t[i] = s[i] /\ i \in 1 .. Len(s)
  BY <1>1
<1>3. IsInjective(t) /\ Range(t) \subseteq Range(s) /\ Range(s) \subseteq P
  <2> HIDE DEF k, t
  <2> QED
    BY <1>1, <1>2 DEF Lists, IsInjective, Range
<1>4. First(s, n) = t
  BY DEF First
<1> HIDE DEF k, t
<1> QED
  BY <1>1, <1>2, <1>3, <1>4 DEF Lists

\* The required policy and the passages cited, each once.
LEMMA SelectedOnce ==
  ASSUME NEW c \in Case, NEW a, NEW P,
         a.evidence_ids \in Lists(P), a.evidence_ids # <<>>, Range(Required(c)) \subseteq P
  PROVE  /\ Selected(c, a) \in Lists(P) /\ Selected(c, a) # <<>>
         /\ Range(Selected(c, a)) \subseteq Range(Required(c)) \cup Range(a.evidence_ids)
<1> DEFINE r == Required(c)
           s == a.evidence_ids
<1>1. r \in Seq(Passage) /\ Len(r) <= 1
  BY ThresholdsAgree, LimitAssumption DEF Required, Ranking
<1>2. s \in Seq(P) /\ Len(s) \in Nat \ {0} /\ DOMAIN s = 1 .. Len(s) /\ IsInjective(s)
  BY DEF Lists
<1>3. CASE Range(r) \subseteq Range(s)
  BY <1>3 DEF Selected
<1>4. CASE ~(Range(r) \subseteq Range(s))
  <2> HIDE DEF r, s
  <2>1. Len(r) = 1 /\ DOMAIN r = 1 .. 1 /\ Range(r) = {r[1]} /\ r[1] \notin Range(s) /\ r[1] \in P
    <3>1. Len(r) \in Nat /\ DOMAIN r = 1 .. Len(r)
      BY <1>1
    <3>2. Len(r) # 0
      BY <1>4, <3>1 DEF Range
    <3>3. Len(r) = 1
      BY <1>1, <3>1, <3>2
    <3>4. Range(r) = {r[1]}
      BY <3>1, <3>3 DEF Range
    <3> QED
      BY <1>4, <3>1, <3>3, <3>4 DEF r
  <2> DEFINE t == r \o s
  <2>2. /\ t \in Seq(P) /\ Len(t) = Len(s) + 1 /\ DOMAIN t = 1 .. (Len(s) + 1) /\ t[1] = r[1]
        /\ \A i \in 2 .. (Len(s) + 1) : i - 1 \in 1 .. Len(s) /\ t[i] = s[i - 1]
    <3> DEFINE e == r[1]
    <3>1. r = <<e>> /\ e \in P
      BY <1>1, <2>1
    <3> HIDE DEF e
    <3>2. <<e>> \in Seq(P) /\ Len(<<e>>) = 1 /\ <<e>>[1] = e
      BY <3>1
    <3>3. t = <<e>> \o s
      BY <3>1
    <3> HIDE DEF t
    <3>4. t \in Seq(P) /\ Len(t) = Len(s) + 1 /\ t[1] = e
      BY <1>2, <3>2, <3>3
    <3>5. \A i \in 2 .. (Len(s) + 1) : i - 1 \in 1 .. Len(s) /\ t[i] = s[i - 1]
      BY <1>2, <3>2, <3>3
    <3> QED
      BY <3>4, <3>5 DEF e
  <2> HIDE DEF t
  <2>3. \A i \in 1 .. (Len(s) + 1) : i = 1 \/ i \in 2 .. (Len(s) + 1)
    BY <1>2
  <2>4. \A i \in 2 .. (Len(s) + 1) : t[i] \in Range(s)
    BY <1>2, <2>2 DEF Range
  <2>5. Range(t) \subseteq Range(r) \cup Range(s)
    BY <2>1, <2>2, <2>3, <2>4 DEF Range
  <2>6. \A i, j \in 1 .. Len(s) : s[i] = s[j] => i = j
    BY <1>2 DEF IsInjective
  <2>7. ASSUME NEW i \in 1 .. (Len(s) + 1), NEW j \in 1 .. (Len(s) + 1), t[i] = t[j] PROVE i = j
    <3>1. CASE i = 1 \/ j = 1
      BY <2>1, <2>2, <2>3, <2>4, <2>7, <3>1
    <3>2. CASE i # 1 /\ j # 1
      <4>1. i \in 2 .. (Len(s) + 1) /\ j \in 2 .. (Len(s) + 1)
        BY <2>3, <3>2
      <4>2. s[i - 1] = s[j - 1] /\ i - 1 \in 1 .. Len(s) /\ j - 1 \in 1 .. Len(s)
        BY <2>2, <2>7, <4>1
      <4>3. i - 1 = j - 1
        BY <2>6, <4>2
      <4> QED
        BY <1>2, <4>1, <4>3
    <3> QED
      BY <3>1, <3>2
  <2>8. t \in Lists(P) /\ t # <<>>
    BY <1>2, <2>2, <2>7 DEF Lists, IsInjective
  <2>9. Selected(c, a) = t
    BY <1>4 DEF Selected, r, s, t
  <2> QED
    BY <2>5, <2>8, <2>9 DEF r, s
<1> QED
  BY <1>3, <1>4

\* What a result cites was retrieved, is required or is the fallback.
GroundInv == evidence \in Lists(Passage) /\ EvidenceGrounded

LEMMA NextGrounded ==
  ASSUME ExplainInv, GroundInv, [Next]_vars
  PROVE  GroundInv'
<1> USE DEF GroundInv
<1>1. evidence' \in Lists(Passage)
  <2>1. ASSUME NEW found \in Retrievals, SearchPolicy(found) PROVE evidence' \in Lists(Passage)
    <3>1. found \in Seq(Passage)
      BY LimitAssumption DEF Ranking
    <3> QED
      BY <2>1, <3>1, ExtendedIsUpdate DEF SearchPolicy
  <2> QED
    BY <2>1 DEF Next, Review, ReadFacts, RefuseTool, GatewayRaises, RefuseAdvice, Finalize,
         Exhausted, Ended, EndsClosed, vars
<1>2. CASE UNCHANGED vars
  <2>1. UNCHANGED <<case, evidence, trace, result>>
    BY <1>2 DEF vars
  <2>2. Returned' = Returned /\ Closed' = Closed /\ Finalized' = Finalized
    BY <2>1 DEF Returned, Closed, Finalized
  <2> QED
    BY <1>1, <2>1, <2>2 DEF EvidenceGrounded
<1>3. CASE result' = Pending \/ result' = Escaped
  <2>1. ~Returned'
    BY <1>3 DEF Returned, Pending, Escaped
  <2> QED
    BY <1>1, <2>1 DEF EvidenceGrounded
<1>4. ExplainInv'
  BY NextExplain
<1>5. ASSUME NEW a \in Advice, Finalize(a) PROVE EvidenceGrounded'
  <2> DEFINE P == Range(evidence) \cup Range(Required(case))
  <2>1. /\ case \in Case /\ case' = case /\ evidence' = evidence
        /\ Range(a.evidence_ids) \subseteq Range(evidence)
        /\ result'.evidence = First(Selected(case, a), EvidenceLimit)
        /\ result'.reason_codes = Reasons(case, a) /\ Returned'
    BY <1>5 DEF Finalize, ExplainInv, RoutingInv, SourceOK, Returned
  <2>2. ~Closed'
    <3>1. "WORKFLOW_FAIL_CLOSED" \notin Reasons(case, a)
      BY <2>1, ThresholdsAgree DEF Reasons, AllowedReason
    <3> QED
      BY <1>4, <2>1, <3>1 DEF ExplainInv, AdviceExplained
  <2>3. a.evidence_ids \in Lists(P) /\ a.evidence_ids # <<>>
    <3>1. /\ a.evidence_ids \in Seq(Range(a.evidence_ids))
          /\ Len(a.evidence_ids) \in 1 .. 5 /\ IsInjective(a.evidence_ids)
      BY AdviceAssumption, Zenon
    <3> DEFINE R == Range(a.evidence_ids)
    <3>2. R \subseteq P
      BY <2>1
    <3> HIDE DEF R, P
    <3>3. Len(a.evidence_ids) # 0
      <4>1. Len(a.evidence_ids) \in 1 .. 5
        BY <3>1, Zenon
      <4> QED
        BY ONLY <4>1
    <3>4. a.evidence_ids \in Seq(R)
      BY <3>1, Zenon DEF R
    <3>5. a.evidence_ids \in Seq(P)
      BY <3>2, <3>4
    <3>6. a.evidence_ids # <<>>
      BY <3>3
    <3> QED
      BY <3>1, <3>5, <3>6 DEF Lists
  <2>4. Range(Required(case)) \subseteq P
    OBVIOUS
  <2> HIDE DEF P
  <2>5. Selected(case, a) \in Lists(P) /\ Selected(case, a) # <<>>
    BY <2>1, <2>3, <2>4, SelectedOnce
  <2>6. EvidenceLimit \in Nat \ {0}
    BY LimitAssumption
  <2>7. /\ result'.evidence \in Lists(P) /\ Len(result'.evidence) <= EvidenceLimit
        /\ Range(result'.evidence) \subseteq P /\ result'.evidence # <<>>
    BY <2>1, <2>5, <2>6, FirstOfList
  <2>8. P = Range(evidence') \cup Range(Required(case'))
    BY <2>1 DEF P
  <2>9. IsInjective(result'.evidence)
    BY <2>7 DEF Lists
  <2> QED
    BY <2>2, <2>7, <2>8, <2>9 DEF EvidenceGrounded
<1>6. ASSUME NEW reason, \/ result' = FailClosed(case, evidence, reason)
                         \/ result' = [FailClosed(case, evidence, reason) EXCEPT !.steps = MaxSteps],
             evidence' = evidence
      PROVE  EvidenceGrounded'
  <2> DEFINE f == IF evidence = <<>> THEN Fallback ELSE evidence
  <2>1. result'.evidence = First(f, 1) /\ "WORKFLOW_FAIL_CLOSED" \in result'.reason_codes
    BY <1>6 DEF FailClosed
  <2>2. f \in Lists(Passage)
    BY LimitAssumption DEF Ranking, Lists
  <2>3. /\ result'.evidence \in Lists(Passage) /\ Len(result'.evidence) <= 1
        /\ Range(result'.evidence) \subseteq Range(f)
    <3> HIDE DEF f
    <3> QED
      BY <2>1, <2>2, FirstOfList
  <2>4. Returned' => Closed'
    BY <1>4, <2>1 DEF ExplainInv, AdviceExplained
  <2>5. Len(result'.evidence) <= EvidenceLimit
    <3>1. Len(result'.evidence) \in Nat
      BY <2>3 DEF Lists
    <3> QED
      BY <2>3, <3>1, LimitAssumption
  <2>6. IsInjective(result'.evidence)
    BY <2>3 DEF Lists
  <2> QED
    BY <1>6, <2>3, <2>4, <2>5, <2>6 DEF EvidenceGrounded, Finalized
<1>7. CASE result # Pending
  BY <1>2, <1>7, EndedStays
<1>8. ASSUME result = Pending, result' # Pending, result' # Escaped,
             ~\E a \in Advice : Finalize(a)
      PROVE  evidence' = evidence
  BY <1>8 DEF Next, Review, ReadFacts, SearchPolicy, RefuseTool, GatewayRaises, RefuseAdvice,
         Exhausted, Ended, EndsClosed, ToolAnswered, vars
<1> QED
  BY <1>1, <1>3, <1>5, <1>6, <1>7, <1>8, HowReviewEnds, <1>2

LEMMA InitGrounded == Init => GroundInv
<1> SUFFICES ASSUME Init PROVE GroundInv
  OBVIOUS
<1>1. <<>> \in Seq(Passage) /\ DOMAIN <<>> = {}
  OBVIOUS
<1>2. evidence \in Lists(Passage)
  BY <1>1 DEF Init, Lists, IsInjective
<1>3. ~Returned
  BY DEF Init, Returned, Pending
<1> QED
  BY <1>2, <1>3 DEF GroundInv, EvidenceGrounded

\* Whatever a model cites and whatever its searches find, a result rests on passages that
\* were retrieved for it or are required by its case, each once, and never on more of them
\* than the limit; only a review that failed before any search falls back.
THEOREM AlwaysGrounded == Spec => []EvidenceGrounded
<1>1. ExplainInv /\ GroundInv /\ [Next]_vars => (ExplainInv /\ GroundInv)'
  BY NextExplain, NextGrounded
<1>2. GroundInv => EvidenceGrounded
  BY DEF GroundInv
<1> QED
  BY <1>1, <1>2, InitExplain, InitGrounded, PTL DEF Spec

-----------------------------------------------------------------------------
\* The account that a trace gives of the steps

ModelActions(s, n) == {i \in 1 .. Len(s) : s[i].step = n /\ s[i].event = "model_action"}
CompletedAt(s) == {i \in 1 .. Len(s) : s[i].event = "completed"}

\* The events that end a review in step k: a model action unless the gateway failed, what
\* the guardrails adjusted, and that the review is completed.
ModelActionIn(k) == [step : {k}, event : {"model_action"}, detail : Word]
AdjustmentIn(k) == [step : {k}, event : {"guardrail_adjustment"}, detail : Word]
CompletedIn(k) == [step : {k}, event : {"completed"}, detail : Word]

\* Before its end a trace has one model action for every step done, and nothing else.
StepsTold ==
    result = Pending =>
        /\ \A n \in 1 .. step - 1 : \E i : ModelActions(trace, n) = {i}
        /\ \A i \in 1 .. Len(trace) : trace[i].step \in 1 .. step - 1
        /\ CompletedAt(trace) = {}

TraceInv == TypeOK /\ StepsTold /\ TraceTellsSteps

\* Positions moved by k.
Shifted(k, S) == {k + i : i \in S}

\* What two sequences of events tell when they are joined.
LEMMA ToldJoined ==
  ASSUME NEW s \in Seq(Events), NEW t \in Seq(Events)
  PROVE  /\ s \o t \in Seq(Events) /\ Len(s \o t) = Len(s) + Len(t)
         /\ \A n : ModelActions(s \o t, n) = ModelActions(s, n) \cup Shifted(Len(s), ModelActions(t, n))
         /\ CompletedAt(s \o t) = CompletedAt(s) \cup Shifted(Len(s), CompletedAt(t))
         /\ \A i \in 1 .. Len(s \o t) :
               \/ \E j \in 1 .. Len(s) : (s \o t)[i] = s[j]
               \/ \E j \in 1 .. Len(t) : (s \o t)[i] = t[j]
<1> DEFINE j == s \o t
<1>1. /\ Len(s) \in Nat /\ Len(t) \in Nat /\ Len(j) = Len(s) + Len(t) /\ j \in Seq(Events)
      /\ \A i \in 1 .. Len(s) : j[i] = s[i] /\ i \in 1 .. Len(j)
      /\ \A i \in 1 .. Len(t) : j[Len(s) + i] = t[i] /\ Len(s) + i \in 1 .. Len(j)
  OBVIOUS
<1>2. \A i \in 1 .. Len(j) :
         i \in 1 .. Len(s) \/ (i - Len(s) \in 1 .. Len(t) /\ i = Len(s) + (i - Len(s)))
  BY <1>1
<1> HIDE DEF j
<1>3. ASSUME NEW n
      PROVE  ModelActions(j, n) = ModelActions(s, n) \cup Shifted(Len(s), ModelActions(t, n))
  <2>1. ASSUME NEW i \in ModelActions(j, n)
        PROVE  i \in ModelActions(s, n) \/ (i - Len(s) \in ModelActions(t, n) /\ i = Len(s) + (i - Len(s)))
    BY <1>1, <1>2, <2>1 DEF ModelActions
  <2>2. ASSUME NEW i \in ModelActions(s, n) PROVE i \in ModelActions(j, n)
    BY <1>1, <2>2 DEF ModelActions
  <2>3. ASSUME NEW i \in ModelActions(t, n) PROVE Len(s) + i \in ModelActions(j, n)
    BY <1>1, <2>3 DEF ModelActions
  <2> QED
    BY ONLY <2>1, <2>2, <2>3 DEF Shifted
<1>4. CompletedAt(j) = CompletedAt(s) \cup Shifted(Len(s), CompletedAt(t))
  <2>1. ASSUME NEW i \in CompletedAt(j)
        PROVE  i \in CompletedAt(s) \/ (i - Len(s) \in CompletedAt(t) /\ i = Len(s) + (i - Len(s)))
    BY <1>1, <1>2, <2>1 DEF CompletedAt
  <2>2. ASSUME NEW i \in CompletedAt(s) PROVE i \in CompletedAt(j)
    BY <1>1, <2>2 DEF CompletedAt
  <2>3. ASSUME NEW i \in CompletedAt(t) PROVE Len(s) + i \in CompletedAt(j)
    BY <1>1, <2>3 DEF CompletedAt
  <2> QED
    BY ONLY <2>1, <2>2, <2>3 DEF Shifted
<1>5. \A i \in 1 .. Len(j) :
         (\E k \in 1 .. Len(s) : j[i] = s[k]) \/ \E k \in 1 .. Len(t) : j[i] = t[k]
  BY <1>1, <1>2
<1> QED
  BY <1>1, <1>3, <1>4, <1>5 DEF j

LEMMA ShiftedSets ==
  ASSUME NEW k \in Nat
  PROVE  Shifted(k, {}) = {} /\ Shifted(k, {1}) = {k + 1}
  BY DEF Shifted

\* t is the trace s and events of a last step k, with one model action unless p is empty.
LastStep(t, s, k, p) ==
    /\ \A n : n # k => ModelActions(t, n) = ModelActions(s, n)
    /\ p # <<>> => ModelActions(t, k) = ModelActions(s, k) \cup {Len(s) + 1}
    /\ p = <<>> => ModelActions(t, k) = ModelActions(s, k)
    /\ CompletedAt(t) = {Len(t)}
    /\ \A i \in 1 .. Len(t) : t[i].step = k \/ \E j \in 1 .. Len(s) : t[i] = s[j]

\* A trace followed by the events of its last step.
LEMMA TraceEnded ==
  ASSUME NEW s \in Seq(Events), NEW k \in Nat,
         NEW p \in Seq(ModelActionIn(k)), p = <<>> \/ Len(p) = 1,
         NEW m \in Seq(AdjustmentIn(k)), NEW d \in CompletedIn(k),
         CompletedAt(s) = {}
  PROVE  LastStep(s \o p \o m \o <<d>>, s, k, p)
<1> DEFINE sp == s \o p
           spm == sp \o m
           dd == <<d>>
           t == spm \o dd
           Told(q, e) == \A i \in 1 .. Len(q) : q[i].step = k /\ q[i].event = e
<1>1. /\ p \in Seq(Events) /\ m \in Seq(Events) /\ dd \in Seq(Events)
      /\ Told(p, "model_action") /\ Told(m, "guardrail_adjustment") /\ Told(dd, "completed")
  <2>1. /\ ModelActionIn(k) \subseteq Events /\ AdjustmentIn(k) \subseteq Events
        /\ CompletedIn(k) \subseteq Events
    BY DEF ModelActionIn, AdjustmentIn, CompletedIn, Events, Word
  <2>2. \A e \in ModelActionIn(k) : e.step = k /\ e.event = "model_action"
    BY DEF ModelActionIn
  <2>3. \A e \in AdjustmentIn(k) : e.step = k /\ e.event = "guardrail_adjustment"
    BY DEF AdjustmentIn
  <2>4. d.step = k /\ d.event = "completed"
    BY DEF CompletedIn
  <2> QED
    BY <2>1, <2>2, <2>3, <2>4
<1>2. Len(dd) = 1
  OBVIOUS
<1> HIDE DEF dd, Told
<1>3. /\ ModelActions(p, k) = 1 .. Len(p) /\ \A n : n # k => ModelActions(p, n) = {}
      /\ \A n : ModelActions(m, n) = {} /\ ModelActions(dd, n) = {}
  <2>1. ModelActions(p, k) = 1 .. Len(p) /\ \A n : n # k => ModelActions(p, n) = {}
    BY <1>1 DEF ModelActions, Told
  <2>2. \A n : ModelActions(m, n) = {}
    BY <1>1 DEF ModelActions, Told
  <2>3. \A n : ModelActions(dd, n) = {}
    BY <1>1 DEF ModelActions, Told
  <2> QED
    BY <2>1, <2>2, <2>3
<1>4. CompletedAt(p) = {} /\ CompletedAt(m) = {} /\ CompletedAt(dd) = {1}
  BY <1>1, <1>2 DEF CompletedAt, Told
<1>5. /\ sp \in Seq(Events) /\ Len(sp) \in Nat /\ CompletedAt(sp) = {}
      /\ \A n : ModelActions(sp, n) = ModelActions(s, n) \cup Shifted(Len(s), ModelActions(p, n))
      /\ \A i \in 1 .. Len(sp) : sp[i].step = k \/ \E j \in 1 .. Len(s) : sp[i] = s[j]
  <2>1. /\ sp \in Seq(Events) /\ CompletedAt(sp) = CompletedAt(s) \cup Shifted(Len(s), CompletedAt(p))
        /\ \A n : ModelActions(sp, n) = ModelActions(s, n) \cup Shifted(Len(s), ModelActions(p, n))
        /\ \A i \in 1 .. Len(sp) :
              (\E j \in 1 .. Len(s) : sp[i] = s[j]) \/ \E j \in 1 .. Len(p) : sp[i] = p[j]
    BY ONLY <1>1, s \in Seq(Events), ToldJoined
  <2>2. Len(s) \in Nat
    OBVIOUS
  <2> HIDE DEF sp
  <2>3. CompletedAt(sp) = {}
    BY ONLY <1>4, <2>1, <2>2, CompletedAt(s) = {}, ShiftedSets
  <2>4. Len(sp) \in Nat
    BY ONLY <2>1
  <2>5. \A i \in 1 .. Len(sp) : sp[i].step = k \/ \E j \in 1 .. Len(s) : sp[i] = s[j]
    BY ONLY <1>1, <2>1 DEF Told
  <2> QED
    BY ONLY <2>1, <2>3, <2>4, <2>5
<1> HIDE DEF sp
<1>6. /\ spm \in Seq(Events) /\ Len(spm) \in Nat /\ CompletedAt(spm) = {}
      /\ \A n : ModelActions(spm, n) = ModelActions(sp, n)
      /\ \A i \in 1 .. Len(spm) : spm[i].step = k \/ \E j \in 1 .. Len(sp) : spm[i] = sp[j]
  <2>1. /\ spm \in Seq(Events) /\ CompletedAt(spm) = CompletedAt(sp) \cup Shifted(Len(sp), CompletedAt(m))
        /\ \A n : ModelActions(spm, n) = ModelActions(sp, n) \cup Shifted(Len(sp), ModelActions(m, n))
        /\ \A i \in 1 .. Len(spm) :
              (\E j \in 1 .. Len(sp) : spm[i] = sp[j]) \/ \E j \in 1 .. Len(m) : spm[i] = m[j]
    BY ONLY <1>1, <1>5, ToldJoined
  <2> HIDE DEF spm
  <2>3. CompletedAt(spm) = {}
    BY ONLY <1>4, <1>5, <2>1, ShiftedSets
  <2>4. Len(spm) \in Nat
    BY ONLY <2>1
  <2>5. \A i \in 1 .. Len(spm) : spm[i].step = k \/ \E j \in 1 .. Len(sp) : spm[i] = sp[j]
    BY ONLY <1>1, <2>1 DEF Told
  <2>6. \A n : ModelActions(spm, n) = ModelActions(sp, n)
    BY ONLY <1>3, <1>5, <2>1, ShiftedSets
  <2> QED
    BY ONLY <2>1, <2>3, <2>4, <2>5, <2>6
<1> HIDE DEF spm
<1>7. /\ CompletedAt(t) = {Len(t)}
      /\ \A n : ModelActions(t, n) = ModelActions(spm, n)
      /\ \A i \in 1 .. Len(t) : t[i].step = k \/ \E j \in 1 .. Len(spm) : t[i] = spm[j]
  <2>1. /\ CompletedAt(t) = CompletedAt(spm) \cup Shifted(Len(spm), CompletedAt(dd))
        /\ Len(t) = Len(spm) + Len(dd)
        /\ \A n : ModelActions(t, n) = ModelActions(spm, n) \cup Shifted(Len(spm), ModelActions(dd, n))
        /\ \A i \in 1 .. Len(t) :
              (\E j \in 1 .. Len(spm) : t[i] = spm[j]) \/ \E j \in 1 .. Len(dd) : t[i] = dd[j]
    BY ONLY <1>1, <1>6, ToldJoined
  <2> HIDE DEF t
  <2>2. CompletedAt(t) = {Len(t)}
    BY ONLY <1>2, <1>4, <1>6, <2>1, ShiftedSets
  <2>3. \A n : ModelActions(t, n) = ModelActions(spm, n)
    BY ONLY <1>3, <1>6, <2>1, ShiftedSets
  <2>4. ASSUME NEW i \in 1 .. Len(t)
        PROVE  t[i].step = k \/ \E j \in 1 .. Len(spm) : t[i] = spm[j]
    <3>1. \A j \in 1 .. Len(dd) : dd[j].step = k
      BY <1>1 DEF Told
    <3>2. (\E j \in 1 .. Len(spm) : t[i] = spm[j]) \/ \E j \in 1 .. Len(dd) : t[i] = dd[j]
      BY <2>1
    <3> QED
      BY ONLY <3>1, <3>2
  <2> QED
    BY ONLY <2>2, <2>3, <2>4
<1> HIDE DEF t
<1>8. \A n : ModelActions(t, n) = ModelActions(s, n) \cup Shifted(Len(s), ModelActions(p, n))
  BY ONLY <1>5, <1>6, <1>7
<1>9. Len(s) \in Nat
  OBVIOUS
<1>10. \A n : n # k => ModelActions(t, n) = ModelActions(s, n)
  BY ONLY <1>3, <1>8, <1>9, ShiftedSets
<1>11. ASSUME p = <<>> PROVE ModelActions(t, k) = ModelActions(s, k)
  <2>1. ModelActions(p, k) = {}
    BY <1>3, <1>11
  <2> QED
    BY ONLY <2>1, <1>8, <1>9, ShiftedSets
<1>12. ASSUME p # <<>> PROVE ModelActions(t, k) = ModelActions(s, k) \cup {Len(s) + 1}
  <2>1. ModelActions(p, k) = {1}
    <3>1. Len(p) = 1 /\ ModelActions(p, k) = 1 .. Len(p)
      BY <1>3, <1>12, Zenon
    <3>2. 1 .. 1 = {1}
      OBVIOUS
    <3> QED
      BY ONLY <3>1, <3>2, Zenon
  <2> QED
    BY ONLY <2>1, <1>8, <1>9, ShiftedSets
<1>13. ASSUME NEW i \in 1 .. Len(t) PROVE t[i].step = k \/ \E j \in 1 .. Len(s) : t[i] = s[j]
  <2>1. CASE t[i].step = k
    BY <2>1
  <2>2. CASE t[i].step # k
    <3>1. PICK j \in 1 .. Len(spm) : t[i] = spm[j]
      BY <1>7, <2>2, Zenon
    <3>2. PICK l \in 1 .. Len(sp) : spm[j] = sp[l]
      BY <1>6, <2>2, <3>1, Zenon
    <3> QED
      BY <1>5, <2>2, <3>1, <3>2, Zenon
  <2> QED
    BY <2>1, <2>2
<1>14. LastStep(t, s, k, p)
  BY <1>7, <1>10, <1>11, <1>12, <1>13 DEF LastStep
<1> QED
  BY <1>14 DEF t, spm, sp, dd

\* What TraceTellsSteps says of a trace and a result.
Tells(t, r) ==
    /\ \A n \in 1 .. r.steps :
          Cardinality(ModelActions(t, n)) =
              IF n = r.steps /\ "ModelGatewayError" \in r.reason_codes THEN 0 ELSE 1
    /\ \A i \in 1 .. Len(t) : t[i].step <= r.steps
    /\ CompletedAt(t) = {Len(t)}

\* A review that ends in the step it is in tells the truth about its steps.
LEMMA EndTells ==
  ASSUME TraceOK, StepsTold, result = Pending, step <= MaxSteps,
         NEW p \in Seq(ModelActionIn(step)), p = <<>> \/ Len(p) = 1,
         NEW m \in Seq(AdjustmentIn(step)), NEW d \in CompletedIn(step),
         trace' = trace \o p \o m \o <<d>>,
         result'.steps = step, "ModelGatewayError" \in result'.reason_codes <=> p = <<>>
  PROVE  Tells(trace', result') /\ \A i \in 1 .. Len(trace') : trace'[i].step \in 1 .. MaxSteps
<1>1. step \in Nat \ {0} /\ step \in 1 .. MaxSteps /\ MaxSteps \in Nat
  BY LimitAssumption DEF TraceOK
<1>s. /\ trace \in Seq(Events) /\ CompletedAt(trace) = {}
      /\ \A n \in 1 .. step - 1 : \E i : ModelActions(trace, n) = {i}
      /\ \A i \in 1 .. Len(trace) : trace[i].step \in 1 .. step - 1
  BY Zenon DEF TraceOK, StepsTold
<1>2. LastStep(trace', trace, step, p)
  <2> DEFINE s == trace
             k == step
  <2>1. /\ s \in Seq(Events) /\ k \in Nat /\ CompletedAt(s) = {}
        /\ p \in Seq(ModelActionIn(k)) /\ (p = <<>> \/ Len(p) = 1)
        /\ m \in Seq(AdjustmentIn(k)) /\ d \in CompletedIn(k)
    BY <1>1, <1>s, Zenon
  <2> HIDE DEF s, k
  <2>2. LastStep(s \o p \o m \o <<d>>, s, k, p)
    BY ONLY <2>1, TraceEnded, Zenon
  <2> QED
    BY <2>2, Zenon DEF s, k
<1>3. ModelActions(trace, step) = {}
  <2>1. ASSUME NEW i \in 1 .. Len(trace) PROVE trace[i].step # step
    <3>1. trace[i].step \in 1 .. step - 1
      BY <1>s, Zenon
    <3> QED
      BY ONLY <1>1, <3>1
  <2> QED
    BY <2>1, Zenon DEF ModelActions
<1>4. ASSUME NEW i \in 1 .. Len(trace')
      PROVE  trace'[i].step <= step /\ trace'[i].step \in 1 .. MaxSteps
  <2>1. CASE trace'[i].step = step
    BY ONLY <1>1, <2>1
  <2>2. CASE \E j \in 1 .. Len(trace) : trace'[i] = trace[j]
    <3>1. trace'[i].step \in 1 .. step - 1
      BY <1>s, <2>2, Zenon
    <3> QED
      BY ONLY <1>1, <3>1
  <2> QED
    BY <1>2, <2>1, <2>2, Zenon DEF LastStep
<1>5. ASSUME NEW n \in 1 .. step
      PROVE  Cardinality(ModelActions(trace', n)) =
                IF n = step /\ "ModelGatewayError" \in result'.reason_codes THEN 0 ELSE 1
  <2>1. CASE n # step
    <3>1. n \in 1 .. step - 1
      BY ONLY <1>1, <2>1, n \in 1 .. step
    <3>2. PICK i : ModelActions(trace, n) = {i}
      BY <1>s, <3>1, Zenon
    <3>3. ModelActions(trace', n) = {i}
      BY <1>2, <2>1, <3>2, Zenon DEF LastStep
    <3>4. Cardinality(ModelActions(trace', n)) = 1
      BY <3>3, FS_Singleton, Zenon
    <3> QED
      BY <2>1, <3>4
  <2>2. CASE n = step /\ p = <<>>
    <3>1. ModelActions(trace', n) = {}
      BY <1>2, <1>3, <2>2, Zenon DEF LastStep
    <3> QED
      BY <2>2, <3>1, FS_EmptySet
  <2>3. CASE n = step /\ p # <<>>
    <3>1. ModelActions(trace', n) = {Len(trace) + 1}
      <4>1. ModelActions(trace', step) = ModelActions(trace, step) \cup {Len(trace) + 1}
        BY <1>2, <2>3, Zenon DEF LastStep
      <4> QED
        BY <1>3, <2>3, <4>1
    <3> QED
      BY <2>3, <3>1, FS_Singleton
  <2> QED
    BY <2>1, <2>2, <2>3
<1> QED
  BY <1>2, <1>4, <1>5 DEF Tells, LastStep

\* A result whose trace tells its steps, and the types of the rest.
LEMMA EndTyped ==
  ASSUME TypeOK, case' = case, answered' = answered, step' = step, evidence' = evidence,
         action' \in Advice \cup {NoAction},
         result'.queue \in Queue, result'.steps \in 1 .. MaxSteps, result'.reason_codes # {},
         result'.status = "returned", Tells(trace', result'),
         \A i \in 1 .. Len(trace') : trace'[i].step \in 1 .. MaxSteps
  PROVE  TraceInv'
<1>1. TypeOK'
  BY DEF TypeOK
<1>2. StepsTold'
  BY DEF StepsTold, Pending
<1>3. TraceTellsSteps'
  BY DEF TraceTellsSteps, Tells, ModelActions, CompletedAt
<1> QED
  BY <1>1, <1>2, <1>3 DEF TraceInv

LEMMA EventsOfStep ==
  ASSUME NEW w \in Word, step \in Nat
  PROVE  /\ <<Event("model_action", w)>> \in Seq(ModelActionIn(step))
         /\ Len(<<Event("model_action", w)>>) = 1
         /\ <<Adjustment(w)>> \in Seq(AdjustmentIn(step))
         /\ Event("completed", w) \in CompletedIn(step)
<1>1. /\ Event("model_action", w) \in ModelActionIn(step)
      /\ Adjustment(w) \in AdjustmentIn(step)
      /\ Event("completed", w) \in CompletedIn(step)
  BY DEF Adjustment, Event, ModelActionIn, AdjustmentIn, CompletedIn
<1> HIDE DEF Event, Adjustment
<1> QED
  BY <1>1

\* The steps that end a review closed.
LEMMA EndsClosedTells ==
  ASSUME TypeOK, TraceOK, StepsTold, result = Pending, step <= MaxSteps,
         action' \in Advice \cup {NoAction},
         NEW p, NEW reason \in Caught, EndsClosed(p, reason),
         \/ p = <<>> /\ reason = "ModelGatewayError"
         \/ /\ p \in {<<Event("model_action", "tool_request")>>, <<Event("model_action", "final")>>}
            /\ reason # "ModelGatewayError"
  PROVE  TraceInv'
<1> DEFINE x == Adjustment(reason)
           d == Event("completed", "fail_closed_human_review")
           m == <<x>>
<1>1. step \in 1 .. MaxSteps /\ step \in Nat /\ trace \in Seq(Events)
  BY LimitAssumption DEF TraceOK
<1>2. /\ p \in Seq(ModelActionIn(step)) /\ (p = <<>> \/ Len(p) = 1)
      /\ p = <<>> <=> reason = "ModelGatewayError"
  <2>1. CASE p = <<>> /\ reason = "ModelGatewayError"
    BY <2>1
  <2>2. CASE p = <<Event("model_action", "tool_request")>> /\ reason # "ModelGatewayError"
    <3>1. p \in Seq(ModelActionIn(step)) /\ Len(p) = 1
      BY <1>1, <2>2, EventsOfStep DEF Word, Quiet
    <3> QED
      BY <2>2, <3>1
  <2>3. CASE p = <<Event("model_action", "final")>> /\ reason # "ModelGatewayError"
    <3>1. p \in Seq(ModelActionIn(step)) /\ Len(p) = 1
      BY <1>1, <2>3, EventsOfStep DEF Word
    <3> QED
      BY <2>3, <3>1
  <2> QED
    BY <2>1, <2>2, <2>3
<1>3. m \in Seq(AdjustmentIn(step)) /\ d \in CompletedIn(step)
  BY <1>1, EventsOfStep DEF Word, Caught
<1>4. trace' = trace \o p \o <<x, d>> /\ result' = FailClosed(case, evidence, reason)
      /\ UNCHANGED <<case, step, answered, evidence>>
  BY DEF EndsClosed
<1> HIDE DEF x, d
<1>5. trace' = trace \o p \o m \o <<d>>
  <2> DEFINE q == trace \o p
  <2>1. q \in Seq(Events)
    <3>1. ModelActionIn(step) \subseteq Events
      BY <1>1 DEF ModelActionIn, Events, Word
    <3>2. p \in Seq(Events)
      BY <1>2, <3>1
    <3> QED
      BY <1>1, <3>2
  <2> HIDE DEF q
  <2>2. q \o <<x, d>> = (q \o <<x>>) \o <<d>>
    <3> DEFINE A == Events \cup {x, d}
               qx == Append(q, x)
    <3>1. q \in Seq(A) /\ x \in A /\ d \in A
      BY <2>1
    <3> HIDE DEF A
    <3>2. q \o <<x, d>> = Append(Append(q, x), d)
      BY ONLY <3>1
    <3>3. q \o <<x>> = Append(q, x) /\ Append(q, x) \in Seq(A)
      BY ONLY <3>1
    <3>4. qx \o <<d>> = Append(qx, d)
      <4>1. qx \in Seq(A)
        BY <3>3
      <4> HIDE DEF qx
      <4> QED
        BY ONLY <3>1, <4>1
    <3> QED
      BY ONLY <3>2, <3>3, <3>4
  <2> QED
    BY <1>4, <2>2 DEF q, m
<1> HIDE DEF m
<1>6. /\ result'.status = "returned" /\ result'.steps = step /\ result'.queue \in Queue
      /\ result'.reason_codes # {} /\ ("ModelGatewayError" \in result'.reason_codes <=> p = <<>>)
  BY <1>2, <1>4 DEF FailClosed, Queue
<1>7. Tells(trace', result') /\ \A i \in 1 .. Len(trace') : trace'[i].step \in 1 .. MaxSteps
  BY <1>2, <1>3, <1>5, <1>6, EndTells
<1> QED
  BY <1>1, <1>4, <1>6, <1>7, EndTyped

LEMMA FinalizeTells ==
  ASSUME TypeOK, TraceOK, StepsTold, NEW a \in Advice, Finalize(a)
  PROVE  TraceInv'
<1> DEFINE f == <<Event("model_action", "final")>>
           d == Event("completed", "human_review_required")
           m == Adjustments(case, a)
<1>1. /\ step \in 1 .. MaxSteps /\ step \in Nat /\ trace \in Seq(Events) /\ case \in Case
      /\ result = Pending /\ step <= MaxSteps
      /\ trace' = trace \o f \o m \o <<d>>
      /\ action' = a /\ UNCHANGED <<case, step, answered, evidence>>
      /\ result'.status = "returned" /\ result'.steps = step
      /\ result'.queue = RoutedTo(case, a) /\ result'.reason_codes = Reasons(case, a)
  BY LimitAssumption DEF TraceOK, TypeOK, Finalize, Asks
<1>2. f \in Seq(ModelActionIn(step)) /\ Len(f) = 1 /\ d \in CompletedIn(step)
  BY <1>1, EventsOfStep DEF Word
<1>3. m \in Seq(AdjustmentIn(step))
  <2> DEFINE A == AdjustmentIn(step)
             u == IF Selected(case, a) # a.evidence_ids THEN <<Adjustment("required_policy")>> ELSE <<>>
             v == IF Raised(case, a) THEN <<Adjustment("minimum_queue")>> ELSE <<>>
             w == IF Unsure(case, a) THEN <<Adjustment("low_confidence")>> ELSE <<>>
  <2>1. \A x \in {"required_policy", "minimum_queue", "low_confidence"} : <<Adjustment(x)>> \in Seq(A)
    BY <1>1, EventsOfStep DEF Word
  <2>2. u \in Seq(A) /\ v \in Seq(A) /\ w \in Seq(A)
    <3>1. <<>> \in Seq(A)
      OBVIOUS
    <3> QED
      BY ONLY <2>1, <3>1, Zenon
  <2>3. m = u \o v \o w
    BY DEF Adjustments
  <2> HIDE DEF u, v, w, m, A
  <2>4. u \o v \o w \in Seq(A)
    BY ONLY <2>2
  <2> QED
    BY <2>3, <2>4 DEF A
<1>4. result'.reason_codes # {} /\ "ModelGatewayError" \notin result'.reason_codes /\ f # <<>>
  <2>1. MinimumQueue(case).reasons # {} /\ "ModelGatewayError" \notin MinimumQueue(case).reasons
    BY DEF MinimumQueue, Signals
  <2> QED
    BY <1>1, <2>1 DEF Reasons, AllowedReason
<1>5. result'.queue \in Queue
  BY <1>1, RoutedSafely
<1> HIDE DEF f, d, m
<1>6. Tells(trace', result') /\ \A i \in 1 .. Len(trace') : trace'[i].step \in 1 .. MaxSteps
  BY <1>1, <1>2, <1>3, <1>4, EndTells
<1> QED
  BY <1>1, <1>4, <1>5, <1>6, EndTyped

\* When the budget is used up every step has had its model action.
LEMMA ExhaustedTells ==
  ASSUME TypeOK, TraceOK, StepsTold, Exhausted
  PROVE  TraceInv'
<1> DEFINE x == [Adjustment("STEP_BUDGET_EXHAUSTED") EXCEPT !.step = MaxSteps]
           d == [Event("completed", "fail_closed_human_review") EXCEPT !.step = MaxSteps]
           m == <<x>>
           p == <<>>
           k == MaxSteps
           s == trace
           t == trace'
<1>1. /\ k \in Nat \ {0} /\ step = k + 1 /\ result = Pending
      /\ result'.status = "returned" /\ result'.steps = k /\ result'.queue \in Queue
      /\ result'.reason_codes = {"WORKFLOW_FAIL_CLOSED", "STEP_BUDGET_EXHAUSTED"}
      /\ action' = action /\ UNCHANGED <<case, step, answered, evidence>>
  BY LimitAssumption DEF TraceOK, Exhausted, FailClosed, Queue
<1>2. /\ s \in Seq(Events) /\ CompletedAt(s) = {}
      /\ \A n \in 1 .. step - 1 : \E i : ModelActions(s, n) = {i}
      /\ \A i \in 1 .. Len(s) : s[i].step \in 1 .. step - 1
  BY <1>1, Zenon DEF TraceOK, StepsTold
<1>3. /\ x \in AdjustmentIn(k) /\ d \in CompletedIn(k)
  BY LimitAssumption DEF Adjustment, Event, AdjustmentIn, CompletedIn, Word
<1>4. t = s \o <<x, d>>
  BY DEF Exhausted
<1>k. step - 1 = k
  BY ONLY <1>1
<1> HIDE DEF x, d
<1>5. p \in Seq(ModelActionIn(k)) /\ m \in Seq(AdjustmentIn(k)) /\ s \o p = s
  BY <1>2, <1>3
<1>6. t = s \o m \o <<d>>
  <2> DEFINE A == Events \cup {x, d}
             sx == Append(s, x)
  <2>1. s \in Seq(A) /\ x \in A /\ d \in A
    BY <1>2
  <2> HIDE DEF A, s
  <2>2. s \o <<x, d>> = Append(Append(s, x), d)
    BY ONLY <2>1
  <2>3. s \o <<x>> = Append(s, x) /\ Append(s, x) \in Seq(A)
    BY ONLY <2>1
  <2>4. sx \o <<d>> = Append(sx, d)
    <3>1. sx \in Seq(A)
      BY <2>3
    <3> HIDE DEF sx
    <3> QED
      BY ONLY <2>1, <3>1
  <2> QED
    BY <1>4, <2>2, <2>3, <2>4
<1> HIDE DEF m, k, s, p
<1>7. LastStep(t, s, k, p)
  <2>1. LastStep(s \o p \o m \o <<d>>, s, k, p)
    <3>1. k \in Nat /\ (p = <<>> \/ Len(p) = 1)
      BY <1>1 DEF p
    <3> QED
      BY <1>2, <1>3, <1>5, <3>1, TraceEnded, Zenon
  <2> QED
    BY <1>5, <1>6, <2>1, Zenon
<1>8. ASSUME NEW n \in 1 .. k PROVE Cardinality(ModelActions(t, n)) = 1
  <2>1. PICK i : ModelActions(s, n) = {i}
    BY <1>2, <1>k, Zenon
  <2>2. ModelActions(t, n) = ModelActions(s, n)
    BY <1>7, Zenon DEF LastStep, p
  <2>3. Cardinality(ModelActions(t, n)) = Cardinality({i})
    BY <2>1, <2>2, Zenon
  <2> QED
    BY <2>3, FS_Singleton
<1>9. ASSUME NEW i \in 1 .. Len(t) PROVE t[i].step <= k /\ t[i].step \in 1 .. k
  <2>1. CASE t[i].step = k
    BY ONLY <1>1, <2>1
  <2>2. CASE \E j \in 1 .. Len(s) : t[i] = s[j]
    <3>1. t[i].step \in 1 .. k
      BY <1>2, <1>k, <2>2, Zenon
    <3> QED
      BY ONLY <1>1, <3>1
  <2> QED
    BY <1>7, <2>1, <2>2, Zenon DEF LastStep
<1>10. Tells(trace', result')
  <2>1. CompletedAt(t) = {Len(t)}
    BY <1>7, Zenon DEF LastStep
  <2> QED
    BY <1>1, <1>8, <1>9, <2>1 DEF Tells
<1>11. /\ \A i \in 1 .. Len(trace') : trace'[i].step \in 1 .. MaxSteps
       /\ result'.steps \in 1 .. MaxSteps /\ result'.reason_codes # {}
  BY <1>1, <1>9 DEF k
<1>12. action' \in Advice \cup {NoAction}
  BY <1>1 DEF TypeOK
<1> QED
  BY <1>1, <1>10, <1>11, <1>12, EndTyped

\* A tool that answers adds one model action, for the step it was asked in.
LEMMA ToolTells ==
  ASSUME TypeOK, TraceOK, StepsTold, Asks, NEW tool \in {"get_case_facts", "search_policy"},
         ToolAnswered(tool), evidence' \in Lists(Passage)
  PROVE  TraceInv'
<1> DEFINE x == Event("model_action", "tool_request")
           y == Event("tool_result", tool)
           e == <<x, y>>
           s == trace
           t == s \o e
<1>1. /\ result = Pending /\ result' = Pending /\ step <= MaxSteps /\ step' = step + 1
      /\ UNCHANGED <<case, action>> /\ answered' = answered \cup {tool}
      /\ step \in Nat \ {0} /\ MaxSteps \in Nat
  BY LimitAssumption DEF TraceOK, Asks, ToolAnswered
<1>2. /\ s \in Seq(Events) /\ CompletedAt(s) = {} /\ trace' = t
      /\ \A n \in 1 .. step - 1 : \E i : ModelActions(s, n) = {i}
      /\ \A i \in 1 .. Len(s) : s[i].step \in 1 .. step - 1
  BY <1>1, Zenon DEF TraceOK, StepsTold, ToolAnswered
<1>3. /\ x \in Events /\ y \in Events /\ x.step = step /\ y.step = step
      /\ x.event = "model_action" /\ y.event = "tool_result"
  BY <1>1 DEF Event, Events, Word, Quiet
<1> HIDE DEF x, y
<1>4. e \in Seq(Events) /\ Len(e) = 2 /\ e[1] = x /\ e[2] = y
  BY <1>3
<1> HIDE DEF e
<1>5. /\ \A i \in 1 .. Len(e) : e[i].step = step
      /\ ModelActions(e, step) = {1} /\ CompletedAt(e) = {}
      /\ \A n : n # step => ModelActions(e, n) = {}
  <2>1. \A i : i \in 1 .. Len(e) <=> i = 1 \/ i = 2
    BY ONLY <1>4
  <2>2. \A i \in 1 .. Len(e) : /\ e[i].step = step /\ e[i].event # "completed"
                               /\ e[i].event = "model_action" <=> i = 1
    BY <1>3, <1>4, <2>1
  <2> QED
    BY ONLY <2>1, <2>2 DEF ModelActions, CompletedAt
<1>6. /\ \A n : ModelActions(t, n) = ModelActions(s, n) \cup Shifted(Len(s), ModelActions(e, n))
      /\ CompletedAt(t) = CompletedAt(s) \cup Shifted(Len(s), CompletedAt(e))
      /\ \A i \in 1 .. Len(t) :
            \/ \E j \in 1 .. Len(s) : t[i] = s[j]
            \/ \E j \in 1 .. Len(e) : t[i] = e[j]
  BY ONLY <1>2, <1>4, ToldJoined
<1>7. Len(s) \in Nat
  BY <1>2
<1> HIDE DEF t, s
<1>8. CompletedAt(t) = {}
  BY ONLY <1>2, <1>5, <1>6, <1>7, ShiftedSets
<1>9. ASSUME NEW i \in 1 .. Len(t) PROVE t[i].step \in 1 .. step /\ t[i].step \in 1 .. MaxSteps
  <2>1. CASE \E j \in 1 .. Len(e) : t[i] = e[j]
    <3>1. t[i].step = step
      BY <1>5, <2>1, Zenon
    <3> QED
      BY ONLY <1>1, <3>1
  <2>2. CASE \E j \in 1 .. Len(s) : t[i] = s[j]
    <3>1. t[i].step \in 1 .. step - 1
      BY <1>2, <2>2, Zenon
    <3> QED
      BY ONLY <1>1, <3>1
  <2> QED
    BY <1>6, <2>1, <2>2, Zenon
<1>10. ASSUME NEW n \in 1 .. step PROVE \E i : ModelActions(t, n) = {i}
  <2>1. CASE n # step
    <3>1. n \in 1 .. step - 1
      BY ONLY <1>1, <2>1, n \in 1 .. step
    <3>2. PICK i : ModelActions(s, n) = {i}
      BY <1>2, <3>1, Zenon
    <3>3. ModelActions(t, n) = ModelActions(s, n)
      <4>1. ModelActions(e, n) = {} /\ Shifted(Len(s), {}) = {}
        BY ONLY <1>5, <1>7, <2>1, ShiftedSets
      <4>2. ModelActions(t, n) = ModelActions(s, n) \cup Shifted(Len(s), ModelActions(e, n))
        BY <1>6, Zenon
      <4> QED
        BY ONLY <4>1, <4>2
    <3> QED
      BY <3>2, <3>3, Zenon
  <2>2. CASE n = step
    <3>1. ModelActions(s, step) = {}
      <4>1. ASSUME NEW i \in 1 .. Len(s) PROVE s[i].step # step
        <5>1. s[i].step \in 1 .. step - 1
          BY <1>2, Zenon
        <5> QED
          BY ONLY <1>1, <5>1
      <4> QED
        BY <4>1, Zenon DEF ModelActions
    <3>2. ModelActions(t, step) = {Len(s) + 1}
      BY ONLY <1>5, <1>6, <1>7, <3>1, ShiftedSets
    <3> QED
      BY <2>2, <3>2, Zenon
  <2> QED
    BY <2>1, <2>2
<1>11. step' - 1 = step /\ step' \in 1 .. MaxSteps + 1
  BY ONLY <1>1
<1>12. StepsTold'
  BY <1>2, <1>8, <1>9, <1>10, <1>11, Zenon DEF StepsTold
<1>13. ~Returned'
  BY <1>1 DEF Returned, Pending
<1>14. TypeOK'
  <2>1. Range(evidence') \subseteq Passage /\ IsInjective(evidence')
    BY DEF Lists, Range
  <2>2. /\ case' \in Case /\ action' \in Advice \cup {NoAction}
        /\ answered' \subseteq {"get_case_facts", "search_policy"}
    BY <1>1 DEF TypeOK
  <2> QED
    BY <1>2, <1>9, <1>11, <1>13, <2>1, <2>2, Zenon DEF TypeOK
<1> QED
  BY <1>12, <1>13, <1>14 DEF TraceInv, TraceTellsSteps

\* Whatever a review does next, its trace tells what was done.
LEMMA NextTells ==
  ASSUME ExplainInv, GroundInv, TraceInv, [Next]_vars
  PROVE  TraceInv'
<1>0. TraceOK /\ TypeOK /\ StepsTold /\ evidence' \in Lists(Passage)
  BY NextGrounded DEF ExplainInv, TraceInv, GroundInv
<1>1. CASE UNCHANGED vars
  <2>1. UNCHANGED <<case, step, answered, evidence, trace, action, result>>
    BY <1>1 DEF vars
  <2>2. Returned' = Returned
    BY <2>1 DEF Returned
  <2>3. TypeOK'
    BY <1>0, <2>1, <2>2 DEF TypeOK
  <2>4. StepsTold'
    BY <1>0, <2>1 DEF StepsTold
  <2>5. TraceTellsSteps'
    BY <2>1, <2>2 DEF TraceInv, TraceTellsSteps
  <2> QED
    BY <2>3, <2>4, <2>5 DEF TraceInv
<1>2. CASE ReadFacts
  BY <1>0, <1>2, ToolTells DEF ReadFacts
<1>3. ASSUME NEW found \in Retrievals, SearchPolicy(found) PROVE TraceInv'
  BY <1>0, <1>3, ToolTells DEF SearchPolicy
<1>4. CASE RefuseTool
  <2>1. result = Pending /\ step <= MaxSteps /\ action' \in Advice \cup {NoAction}
    BY <1>0, <1>4 DEF RefuseTool, Asks, TypeOK
  <2> QED
    BY <1>0, <1>4, <2>1, EndsClosedTells DEF RefuseTool, Caught
<1>5. ASSUME NEW fault \in DOMAIN ProviderFault, GatewayRaises(fault) PROVE TraceInv'
  <2>1. result = Pending /\ step <= MaxSteps /\ action' \in Advice \cup {NoAction}
    BY <1>0, <1>5 DEF GatewayRaises, Asks, TypeOK
  <2>2. CASE RaisedBy(fault) \in Caught
    <3>1. EndsClosed(<<>>, RaisedBy(fault))
      BY <1>5, <2>2 DEF GatewayRaises
    <3>2. RaisedBy(fault) = "ModelGatewayError"
      BY <2>2 DEF RaisedBy, ProviderFault, Wrapped, Caught
    <3> QED
      BY <1>0, <2>1, <2>2, <3>1, <3>2, EndsClosedTells
  <2>3. CASE RaisedBy(fault) \notin Caught
    <3>1. result' = Escaped /\ UNCHANGED <<case, step, answered, evidence, trace, action>>
      BY <1>5, <2>3 DEF GatewayRaises
    <3>2. ~Returned' /\ result' # Pending
      BY <3>1 DEF Returned, Escaped, Pending
    <3>3. TypeOK'
      BY <1>0, <3>1, <3>2 DEF TypeOK
    <3> QED
      BY <3>2, <3>3 DEF TraceInv, StepsTold, TraceTellsSteps
  <2> QED
    BY <2>2, <2>3
<1>6. ASSUME NEW a \in Advice, RefuseAdvice(a) PROVE TraceInv'
  <2>1. result = Pending /\ step <= MaxSteps /\ action' \in Advice \cup {NoAction}
    BY <1>6 DEF RefuseAdvice, Asks
  <2> QED
    BY <1>0, <1>6, <2>1, EndsClosedTells DEF RefuseAdvice, Caught
<1>7. ASSUME NEW a \in Advice, Finalize(a) PROVE TraceInv'
  BY <1>0, <1>7, FinalizeTells
<1>8. CASE Exhausted
  BY <1>0, <1>8, ExhaustedTells
<1> QED
  BY <1>1, <1>2, <1>3, <1>4, <1>5, <1>6, <1>7, <1>8 DEF Next, Review, Ended

LEMMA InitTells == Init => TraceInv
<1> SUFFICES ASSUME Init PROVE TraceInv
  OBVIOUS
<1>1. /\ case \in Case /\ step = 1 /\ answered = {} /\ evidence = <<>> /\ trace = <<>>
      /\ action = NoAction /\ result = Pending /\ ~Returned
  BY DEF Init, Returned, Pending
<1>2. step \in 1 .. MaxSteps + 1 /\ 1 .. step - 1 = {}
  BY <1>1, LimitAssumption
<1>3. Len(trace) = 0 /\ DOMAIN evidence = {}
  BY <1>1
<1>4. TypeOK
  BY <1>1, <1>2, <1>3 DEF TypeOK, Range, IsInjective
<1>5. StepsTold
  BY <1>2, <1>3 DEF StepsTold, CompletedAt
<1> QED
  BY <1>1, <1>4, <1>5 DEF TraceInv, TraceTellsSteps

LEMMA TraceInvAlways == Spec => []TraceInv
<1>1. ExplainInv /\ GroundInv /\ TraceInv /\ [Next]_vars => (ExplainInv /\ GroundInv /\ TraceInv)'
  BY NextExplain, NextGrounded, NextTells
<1> QED
  BY <1>1, InitExplain, InitGrounded, InitTells, PTL DEF Spec

\* The evidence of a review holds each passage once and its trace stays within the budget;
\* a result names a queue, a step of the budget and a reason.
THEOREM ReviewTyped == Spec => []TypeOK
<1>1. TraceInv => TypeOK
  BY DEF TraceInv
<1> QED
  BY <1>1, TraceInvAlways, PTL

\* However many steps a model takes and in whatever way its review ends, the trace has one
\* model action for each step of the result, and none where the gateway failed.
THEOREM TraceAlwaysTells == Spec => []TraceTellsSteps
<1>1. TraceInv => TraceTellsSteps
  BY DEF TraceInv
<1> QED
  BY <1>1, TraceInvAlways, PTL

=============================================================================
