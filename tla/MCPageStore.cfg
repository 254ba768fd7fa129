SPECIFICATION StoreSpec
CONSTANTS
    s1 = s1  s2 = s2  s3 = s3
    b1 = b1  b2 = b2  b3 = b3
    m1 = m1  m2 = m2
    p1 = p1  p2 = p2
    Stroke <- MCStroke
    BatchId <- MCBatchId
    MutationId <- MCMutationId
    Paper <- MCPaper
    NoPng = NoPng
    MaxRevision = 5
SYMMETRY Symmetry
INVARIANTS
    TablesAreSound
    DeleteWins
PROPERTIES
    RevisionsAreImmutable
    EveryPictureGetsAJob
    ImplementsInkPage
CHECK_DEADLOCK FALSE
