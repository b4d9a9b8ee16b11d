----------------------------- MODULE RiskReview -----------------------------
(***************************************************************************)
(* RiskReviewWorkflow.review: a model reached through a gateway reads the  *)
(* facts of a case, searches the policies and recommends a review queue;   *)
(* guardrails ground, raise and explain the recommendation, and anything   *)
(* unexpected fails closed.  What the model answers and what the retriever *)
(* ranks are external: any answer the gateway lets through may come at any *)
(* step, whatever tools were offered.                                      *)
(***************************************************************************)
EXTENDS Integers, Sequences, FiniteSets, SequencesExt

CONSTANTS
    Case,           \* the review cases
    Passage,        \* policy passages
    Retrievals,     \* what search_policy may find: sequences of passages, best first
    PolicyFor,      \* the search for the context of a case, limited to one passage
    Fallback,       \* the search for the fail-closed policy, limited to one passage
    Advice,         \* what the model may recommend; identifying says that its summary still
                    \* reads like an identifier after redact_text, which cuts at 500
                    \* characters what it has replaced identifiers in
    MaxSteps,       \* max_steps
    EvidenceLimit   \* evidence_limit

Queue == {"STANDARD_OPERATIONS", "PRIORITY_MANUAL_REVIEW", "COMPLIANCE_MANUAL_REVIEW"}

Context == {"screening", "mismatch", "velocity", "new_device", "standard"}

\* Answers of PolicyRetriever.search with the given limit.
Ranking(limit) == {s \in Seq(Passage) : Len(s) <= limit /\ IsInjective(s)}

ASSUME CaseAssumption ==
    Case \subseteq [screening_alert : BOOLEAN, document_mismatch : BOOLEAN,
                    transfers_last_hour : Nat, new_device : BOOLEAN,
                    sek : BOOLEAN, amount_minor : Nat]

\* A passage that the model cites may be none of the policies; first citations only,
\* as dict.fromkeys leaves them.
ASSUME AdviceAssumption ==
    \A a \in Advice :
        /\ a.queue \in Queue /\ a.confident \in BOOLEAN /\ a.identifying \in BOOLEAN
        /\ a.evidence_ids \in Seq(Range(a.evidence_ids))
        /\ Len(a.evidence_ids) \in 1 .. 5 /\ IsInjective(a.evidence_ids)

ASSUME LimitAssumption ==
    /\ MaxSteps \in 2 .. 8 /\ EvidenceLimit \in 1 .. 5
    /\ Retrievals \subseteq Ranking(EvidenceLimit)
    /\ PolicyFor \in [Context -> Ranking(1)] /\ Fallback \in Ranking(1)

VARIABLES
    case,       \* the case under review
    step,       \* the loop variable of review
    answered,   \* the tools whose results are in the conversation
    evidence,   \* passages retrieved, in the order of the dictionary
    trace,      \* the events recorded
    action,     \* the last recommendation of the model
    result      \* what the review returned or raised

vars == <<case, step, answered, evidence, trace, action, result>>

-----------------------------------------------------------------------------
\* Vocabulary

NoAction == [queue |-> "none"]
Pending == [status |-> "pending"]
Escaped == [status |-> "raised"]
Returned == result.status = "returned"

Rank(q) == CASE q = "STANDARD_OPERATIONS" -> 0
             [] q = "PRIORITY_MANUAL_REVIEW" -> 1
             [] q = "COMPLIANCE_MANUAL_REVIEW" -> 2

\* _ALLOWED_REASON_CODES
AllowedReason == {"SCREENING_ALERT", "DOCUMENT_MISMATCH", "HIGH_VELOCITY",
                  "NEW_DEVICE_HIGH_VALUE", "NO_CONFIGURED_ESCALATION_SIGNAL", "MODEL_UNCERTAINTY"}

\* The configured signals of a case, beside a screening alert.
Signals(c) ==
    {s \in {"DOCUMENT_MISMATCH", "HIGH_VELOCITY", "NEW_DEVICE_HIGH_VALUE"} :
        \/ s = "DOCUMENT_MISMATCH" /\ c.document_mismatch
        \/ s = "HIGH_VELOCITY" /\ c.transfers_last_hour >= 6
        \/ s = "NEW_DEVICE_HIGH_VALUE" /\ c.new_device /\ c.sek /\ c.amount_minor >= 2500000}

\* _minimum_queue
MinimumQueue(c) ==
    CASE c.screening_alert -> [queue |-> "COMPLIANCE_MANUAL_REVIEW", reasons |-> {"SCREENING_ALERT"}]
      [] ~c.screening_alert /\ Signals(c) # {} ->
            [queue |-> "PRIORITY_MANUAL_REVIEW", reasons |-> Signals(c)]
      [] OTHER -> [queue |-> "STANDARD_OPERATIONS", reasons |-> {"NO_CONFIGURED_ESCALATION_SIGNAL"}]

\* _policy_context, with thresholds of its own: the first signal of a case decides which
\* policy it requires.
PolicyContext(c) ==
    IF c.screening_alert THEN "screening"
    ELSE IF c.document_mismatch THEN "mismatch"
    ELSE IF c.transfers_last_hour >= 6 THEN "velocity"
    ELSE IF c.new_device /\ c.sek /\ c.amount_minor >= 2500000 THEN "new_device"
    ELSE "standard"

Required(c) == PolicyFor[PolicyContext(c)]

\* What is wrong with a provider's answer, and the exception that this raises in
\* OpenAICompatibleGateway.next_action.
ProviderFault ==
    [timeout |-> "HTTPError", bad_status |-> "HTTPError", not_json |-> "ValueError",
     no_choices |-> "KeyError", empty_choices |-> "IndexError", body_no_object |-> "TypeError",
     message_no_object |-> "AttributeError", several_calls |-> "ModelGatewayError",
     function_no_object |-> "AttributeError", arguments_no_object |-> "ModelGatewayError",
     no_content |-> "ModelGatewayError", invalid_final |-> "ValidationError"]

\* The exceptions that next_action turns into a ModelGatewayError, and those review catches.
Wrapped == {"HTTPError", "KeyError", "IndexError", "TypeError", "ValueError", "ValidationError"}
Caught == {"ModelGatewayError", "ToolPolicyError", "RecommendationPolicyError"}
RaisedBy(fault) ==
    IF ProviderFault[fault] \in Wrapped THEN "ModelGatewayError" ELSE ProviderFault[fault]

Event(e, d) == [step |-> step, event |-> e, detail |-> d]
Adjustment(d) == Event("guardrail_adjustment", d)
Recorded(details) == {trace[i].detail : i \in {j \in 1 .. Len(trace) : trace[j].detail \in details}}

\* The first n elements of s, s[:n].
First(s, n) == SubSeq(s, 1, IF Len(s) < n THEN Len(s) ELSE n)

\* dict.update: what is new in t is appended to s, in its order.
Extended(s, t) ==
    FoldLeft(LAMBDA found, p : IF p \in Range(found) THEN found ELSE Append(found, p), s, t)

-----------------------------------------------------------------------------
\* The guardrails

\* Mutant: the required policy is added whether or not it is cited.
SelectedAlways(c, a) == Required(c) \o a.evidence_ids

\* The passages cited, and the required policy in front of them if it is not cited.
Selected(c, a) ==
    IF Range(Required(c)) \subseteq Range(a.evidence_ids)
    THEN a.evidence_ids ELSE Required(c) \o a.evidence_ids

\* Mutant: the comparison with the confidence is the wrong way round.
UnsureWhenConfident(c, a) == a.confident /\ a.queue = "STANDARD_OPERATIONS"

\* The reasons of the model that are allowed, with the reasons of the guardrails.
Raised(c, a) == Rank(a.queue) < Rank(MinimumQueue(c).queue)
Escalated(c, a) == Rank(a.queue) > Rank(MinimumQueue(c).queue)
Unsure(c, a) == ~a.confident /\ a.queue = "STANDARD_OPERATIONS" /\ ~Raised(c, a)

\* Mutant: the reasons of the model are taken as they are.
ReasonsUnfiltered(c, a) ==
    a.reason_codes \cup MinimumQueue(c).reasons
        \cup (IF Raised(c, a) THEN {"DETERMINISTIC_ESCALATION"} ELSE {})

Reasons(c, a) ==
    (a.reason_codes \cap AllowedReason)
        \cup (IF Raised(c, a) THEN {"DETERMINISTIC_ESCALATION"} ELSE {})
        \cup (IF Escalated(c, a) THEN {"MODEL_ESCALATION"} ELSE {})
        \cup (IF Unsure(c, a) THEN {"LOW_MODEL_CONFIDENCE"} ELSE {})
        \cup MinimumQueue(c).reasons

\* Mutant: the confidence is looked at before the minimum.
RoutedByConfidence(c, a) ==
    IF ~a.confident /\ a.queue = "STANDARD_OPERATIONS" THEN "PRIORITY_MANUAL_REVIEW"
    ELSE IF Raised(c, a) THEN MinimumQueue(c).queue
    ELSE a.queue

RoutedTo(c, a) ==
    IF Raised(c, a) THEN MinimumQueue(c).queue
    ELSE IF Unsure(c, a) THEN "PRIORITY_MANUAL_REVIEW"
    ELSE a.queue

\* Mutant: the threshold of the velocity is off by one.
SummaryAfterSix(c, queue, reasons) ==
    IF c.screening_alert THEN "screening"
    ELSE IF c.document_mismatch THEN "mismatch"
    ELSE IF c.transfers_last_hour > 6 THEN "velocity"
    ELSE IF c.new_device /\ c.sek /\ c.amount_minor >= 2500000 THEN "new_device"
    ELSE IF "LOW_MODEL_CONFIDENCE" \in reasons THEN "low_confidence"
    ELSE IF queue = "COMPLIANCE_MANUAL_REVIEW" THEN "model_compliance"
    ELSE IF queue = "PRIORITY_MANUAL_REVIEW" THEN "model_priority"
    ELSE "model_words"

\* Mutant: the model's words stand for as long as no guardrail has changed its queue.
SummaryUnlessChanged(c, queue, reasons) ==
    IF "LOW_MODEL_CONFIDENCE" \in reasons THEN "low_confidence"
    ELSE IF "DETERMINISTIC_ESCALATION" \in reasons THEN PolicyContext(c)
    ELSE "model_words"

\* _safe_summary, which repeats the thresholds once more: the sentence of a result, or the
\* redacted words of the model.
Summary(c, queue, reasons) ==
    IF c.screening_alert THEN "screening"
    ELSE IF c.document_mismatch THEN "mismatch"
    ELSE IF c.transfers_last_hour >= 6 THEN "velocity"
    ELSE IF c.new_device /\ c.sek /\ c.amount_minor >= 2500000 THEN "new_device"
    ELSE IF "LOW_MODEL_CONFIDENCE" \in reasons THEN "low_confidence"
    ELSE IF queue = "COMPLIANCE_MANUAL_REVIEW" THEN "model_compliance"
    ELSE IF queue = "PRIORITY_MANUAL_REVIEW" THEN "model_priority"
    ELSE "model_words"

\* The trace events of the guardrails, in order.
Adjustments(c, a) ==
    (IF Selected(c, a) # a.evidence_ids THEN <<Adjustment("required_policy")>> ELSE <<>>)
        \o (IF Raised(c, a) THEN <<Adjustment("minimum_queue")>> ELSE <<>>)
        \o (IF Unsure(c, a) THEN <<Adjustment("low_confidence")>> ELSE <<>>)

\* _fail_closed
FailClosed(c, found, reason) ==
    [status |-> "returned", steps |-> step, summary |-> "fail_closed",
     queue |-> IF c.screening_alert THEN "COMPLIANCE_MANUAL_REVIEW" ELSE "PRIORITY_MANUAL_REVIEW",
     reason_codes |-> {"WORKFLOW_FAIL_CLOSED", reason},
     evidence |-> First(IF found = <<>> THEN Fallback ELSE found, 1)]

\* The review ends with a fail-closed result; asked are the events of this step.
EndsClosed(asked, reason) ==
    /\ result' = FailClosed(case, evidence, reason)
    /\ trace' = trace \o asked \o
          <<Adjustment(reason), Event("completed", "fail_closed_human_review")>>
    /\ UNCHANGED <<case, step, answered, evidence>>

-----------------------------------------------------------------------------
\* review

Init ==
    /\ case \in Case
    /\ step = 1
    /\ answered = {}
    /\ evidence = <<>>
    /\ trace = <<>>
    /\ action = NoAction
    /\ result = Pending

\* Mutant: the loop runs to max_steps + 1.
AsksOnceMore == result = Pending /\ step <= MaxSteps + 1

\* The loop has a step left: next_action is called.
Asks == result = Pending /\ step <= MaxSteps

\* Mutant: the request for a tool is not recorded.
ToolAnsweredSilently(tool) ==
    /\ step' = step + 1
    /\ answered' = answered \cup {tool}
    /\ trace' = Append(trace, Event("tool_result", tool))
    /\ UNCHANGED <<case, action, result>>

ToolAnswered(tool) ==
    /\ step' = step + 1
    /\ answered' = answered \cup {tool}
    /\ trace' = trace \o <<Event("model_action", "tool_request"), Event("tool_result", tool)>>
    /\ UNCHANGED <<case, action, result>>

\* get_case_facts without arguments.
ReadFacts ==
    /\ Asks
    /\ ToolAnswered("get_case_facts")
    /\ UNCHANGED evidence

\* search_policy with a query that passes validation and that, together with the context
\* of the case, finds something.
SearchPolicy(found) ==
    /\ Asks
    /\ found # <<>>
    /\ ToolAnswered("search_policy")
    /\ evidence' = Extended(evidence, found)

\* Unknown tool, arguments that fail validation, or a search that finds nothing.
RefuseTool ==
    /\ Asks
    /\ EndsClosed(<<Event("model_action", "tool_request")>>, "ToolPolicyError")
    /\ UNCHANGED action

\* next_action raises, which ends the review in one way or the other.
GatewayRaises(fault) ==
    /\ Asks
    /\ IF RaisedBy(fault) \in Caught
       THEN EndsClosed(<<>>, RaisedBy(fault))
       ELSE result' = Escaped /\ UNCHANGED <<case, step, answered, evidence, trace>>
    /\ UNCHANGED action

\* The recommendation cites a passage that was not retrieved.
RefuseAdvice(a) ==
    /\ Asks
    /\ ~(Range(a.evidence_ids) \subseteq Range(evidence))
    /\ action' = a
    /\ EndsClosed(<<Event("model_action", "final")>>, "RecommendationPolicyError")

\* _finalize
Finalize(a) ==
    /\ Asks
    /\ Range(a.evidence_ids) \subseteq Range(evidence)
    /\ action' = a
    /\ result' = [status |-> "returned", steps |-> step, queue |-> RoutedTo(case, a),
                  reason_codes |-> Reasons(case, a),
                  summary |-> Summary(case, RoutedTo(case, a), Reasons(case, a)),
                  evidence |-> First(Selected(case, a), EvidenceLimit)]
    /\ trace' = trace \o <<Event("model_action", "final")>> \o Adjustments(case, a)
                  \o <<Event("completed", "human_review_required")>>
    /\ UNCHANGED <<case, step, answered, evidence>>

\* Mutant: a review that used up its steps starts again.
ExhaustedStartsAgain ==
    /\ result = Pending
    /\ step > MaxSteps
    /\ step' = 1
    /\ trace' = <<>>
    /\ UNCHANGED <<case, answered, evidence, action, result>>

\* The loop is over: step is back at max_steps in the result and in the trace.
Exhausted ==
    /\ result = Pending
    /\ step > MaxSteps
    /\ result' = [FailClosed(case, evidence, "STEP_BUDGET_EXHAUSTED") EXCEPT !.steps = MaxSteps]
    /\ trace' = trace \o
          <<[Adjustment("STEP_BUDGET_EXHAUSTED") EXCEPT !.step = MaxSteps],
            [Event("completed", "fail_closed_human_review") EXCEPT !.step = MaxSteps]>>
    /\ UNCHANGED <<case, step, answered, evidence, action>>

Ended == result # Pending /\ UNCHANGED vars

Review ==
    \/ ReadFacts
    \/ \E found \in Retrievals : SearchPolicy(found)
    \/ RefuseTool
    \/ \E fault \in DOMAIN ProviderFault : GatewayRaises(fault)
    \/ \E a \in Advice : RefuseAdvice(a) \/ Finalize(a)
    \/ Exhausted

Next == Review \/ Ended

Spec == Init /\ [][Next]_vars

\* The gateway's HTTP client has a timeout, and the workflow itself does not block.
FairSpec == Spec /\ WF_vars(Review)

-----------------------------------------------------------------------------
\* Properties

Closed == Returned /\ trace[Len(trace)].detail = "fail_closed_human_review"
Finalized == Returned /\ ~Closed

TypeOK ==
    /\ case \in Case
    /\ step \in 1 .. MaxSteps + 1
    /\ answered \subseteq {"get_case_facts", "search_policy"}
    /\ Range(evidence) \subseteq Passage /\ IsInjective(evidence)
    /\ \A i \in 1 .. Len(trace) : trace[i].step \in 1 .. MaxSteps
    /\ action \in Advice \cup {NoAction}
    /\ Returned =>
          /\ result.queue \in Queue
          /\ result.steps \in 1 .. MaxSteps
          /\ result.reason_codes # {}

\* Whatever the model recommends and however the review ends, "screening alerts cannot be
\* routed below compliance manual review", nor a mismatch, six transfers in an hour or SEK
\* 25,000 from a new device below priority review (docs/risk-review-agent.md:52-54).
MinimumHolds ==
    Returned =>
        /\ case.screening_alert => result.queue = "COMPLIANCE_MANUAL_REVIEW"
        /\ (case.document_mismatch \/ case.transfers_last_hour > 5
               \/ (case.new_device /\ case.sek /\ case.amount_minor > 2499999))
             => result.queue # "STANDARD_OPERATIONS"

\* Only a model that is sure leaves a case in the standard queue, and only with passages
\* that it retrieved: "Confidence below 0.65 cannot remain in the standard queue"
\* (docs/risk-review-agent.md:55).
StandardIsSure ==
    (Returned /\ result.queue = "STANDARD_OPERATIONS") =>
        /\ action.queue = "STANDARD_OPERATIONS" /\ action.confident
        /\ "search_policy" \in answered
        /\ Range(action.evidence_ids) \subseteq Range(evidence)

\* The passages of a result were retrieved for this review or are the policy that its case
\* requires, each once and within the limit; only a result that failed closed before any
\* search rests on the fallback policy.
EvidenceGrounded ==
    Returned =>
        /\ IsInjective(result.evidence) /\ Len(result.evidence) <= EvidenceLimit
        /\ Range(result.evidence) \subseteq
              Range(evidence) \cup (IF Closed THEN {} ELSE Range(Required(case)))
                              \cup (IF Closed /\ evidence = <<>> THEN Range(Fallback) ELSE {})
        /\ Required(case) # <<>> /\ Finalized => result.evidence # <<>>

\* A queue other than the one recommended is explained by a reason code and by a trace
\* event of the guardrail, and the model cannot forge these codes in its own reasons; nor
\* does a passage it did not cite appear without its event.
AdviceExplained ==
    /\ Returned => (Closed <=> "WORKFLOW_FAIL_CLOSED" \in result.reason_codes)
    /\ Finalized =>
        /\ result.queue # action.queue
              <=> result.reason_codes \cap {"DETERMINISTIC_ESCALATION", "LOW_MODEL_CONFIDENCE"} # {}
        /\ result.queue # action.queue <=> Recorded({"minimum_queue", "low_confidence"}) # {}
        /\ Range(result.evidence) \subseteq Range(action.evidence_ids)
              \/ Recorded({"required_policy"}) # {}

\* What a result says agrees with why it was routed: a configured signal speaks for itself
\* and matches the policy that was required for it; the model is said to have recommended
\* a review only if it did; its own words stand only where nothing asks for a review, and
\* no result that failed closed repeats them.
SummaryAgrees ==
    /\ Returned => (Closed <=> result.summary = "fail_closed")
    /\ Finalized =>
        /\ PolicyContext(case) # "standard" => result.summary = PolicyContext(case)
        /\ MinimumQueue(case).queue # "STANDARD_OPERATIONS" => result.summary \in Context
        /\ result.summary \in {"model_compliance", "model_priority"} =>
              result.queue = action.queue /\ result.queue # "STANDARD_OPERATIONS"
        /\ result.summary = "low_confidence" <=> "low_confidence" \in Recorded({"low_confidence"})
        /\ result.summary = "model_words" <=> result.queue = "STANDARD_OPERATIONS"

\* The trace accounts for the steps of a result: one model action for each, except for the
\* last one when the gateway failed in it, and nothing later than the last step.
TraceTellsSteps ==
    Returned =>
        LET Actions(n) == {i \in 1 .. Len(trace) : trace[i].step = n /\ trace[i].event = "model_action"}
        IN  /\ \A n \in 1 .. result.steps :
                  Cardinality(Actions(n)) = IF n = result.steps /\ "ModelGatewayError" \in result.reason_codes
                                            THEN 0 ELSE 1
            /\ \A i \in 1 .. Len(trace) : trace[i].step <= result.steps
            /\ {i \in 1 .. Len(trace) : trace[i].event = "completed"} = {Len(trace)}

\* "the guardrail adds the required policy if needed" (docs/risk-review-agent.md:51): the
\* result of a recommendation rests on the policy that its case requires.
RequiredPolicyKept == Finalized => Range(Required(case)) \subseteq Range(result.evidence)

\* "Provider errors, malformed model output ... return a fail-closed manual-review result"
\* (docs/risk-review-agent.md:61): a review does not raise.
ProviderErrorsFailClosed == result # Escaped

\* Every review ends within its budget, whatever the model asks for.
ReviewEnds == <>(result # Pending)

=============================================================================
