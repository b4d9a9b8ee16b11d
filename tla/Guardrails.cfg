\* Cases on every boundary, arbitrary models, three steps.
SPECIFICATION FairSpec
CONSTANTS
    Case <- BoundaryCases
    Passage <- MCPassage
    Retrievals <- MCRetrievals
    PolicyFor <- MCPolicyFor
    Fallback <- MCFallback
    Advice <- MCAdvice
    MaxSteps = 3
    EvidenceLimit = 2
INVARIANTS TypeOK MinimumHolds StandardIsSure EvidenceGrounded AdviceExplained SummaryAgrees TraceTellsSteps
PROPERTIES ReviewEnds
