\* The suites of the evaluation with the baseline, and the smoke test with an arbitrary model.
SPECIFICATION EvaluationSpec
CONSTANTS
    Case <- MCCases
    Passage <- MCPassage
    Retrievals <- FullRankings
    PolicyFor <- PackagedPolicyFor
    Fallback <- MCFallback
    Advice <- AnyAdvice
    MaxSteps = 4
    EvidenceLimit = 3
    Suites <- MCSuites
INVARIANTS GateIsExact BaselineNeedsNoGuardrail SmokeFailsClosedOrLeaks
