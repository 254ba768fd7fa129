SPECIFICATION Spec
CONSTANTS
    s1 = s1  s2 = s2
    b1 = b1  b2 = b2
    m1 = m1
    p1 = p1  p2 = p2
    e1 = e1  e2 = e2
    Stroke <- MCStroke
    BatchId <- MCBatchId
    MutationId <- MCMutationId
    Paper <- MCOnePaper
    Editor <- MCEditor
    StrokesOf <- MCStrokesOf
    ErasedBy <- MCErasedBy
    Nobody = Nobody
    NoPng = NoPng
    MaxRevision = 4
    Capacity = 2
    MaxDrops = 0
    MaxReadErrors = 0
    StallsPastTtl = TRUE
    Resends = TRUE
PROPERTIES
    NonHoldersAreRejected
CHECK_DEADLOCK FALSE
