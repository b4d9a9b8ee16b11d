\* A provider message that is no object escapes the review.
SPECIFICATION Spec
CONSTANTS
    Case <- ContextCases
    Passage <- MCPassage
    Retrievals <- MCRetrievals
    PolicyFor <- MCPolicyFor
    Fallback <- MCFallback
    Advice <- MCAdvice
    MaxSteps = 4
    EvidenceLimit = 3
INVARIANTS ProviderErrorsFailClosed
