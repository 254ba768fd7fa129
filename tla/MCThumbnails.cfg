SPECIFICATION Spec
CONSTANTS
    s1 = s1
    b1 = b1
    m1 = m1
    p1 = p1  p2 = p2
    Stroke <- MCStroke
    BatchId <- MCBatchId
    MutationId <- MCMutationId
    Paper <- MCPaper
    NoPng = NoPng
    MaxRevision = 2
    MaxConcurrentRenders = 1
    Keep = 1
    MaxDbErrors = 1
    MaxRestarts = 1
    MaxInFlight = 1
INVARIANTS
    JobsAreSound
    ArtifactShowsItsRevision
    HeadJobRendersThePage
PROPERTIES
    JobsFinish
CHECK_DEADLOCK FALSE
