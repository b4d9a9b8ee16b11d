\* Citations from two searches push the required policy past the limit.
SPECIFICATION Spec
CONSTANTS
    Case <- ContextCases
    Passage <- MCPassage
    Retrievals <- MCRetrievals
    PolicyFor <- MCPolicyFor
    Fallback <- MCFallback
    Advice <- MCAdvice
    MaxSteps = 4
    EvidenceLimit = 3
INVARIANTS RequiredPolicyKept
