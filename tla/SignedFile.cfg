SPECIFICATION Spec
CONSTANTS
    leaf = leaf
    ca = ca
    other = other
    Certs = {leaf, ca, other}
    X509 <- MCX509
    MaxBase64 = 2
    PickyKinds = {"pe", "msi", "script", "msix"}
    Align = 2
    MaxComment = 2
    Files <- MCFiles
    Requests <- MCRequests
    SplitMaterial <- Bag
    Values = {"a", "x"}
    MaxOps = 4
    MaxTime = 2
INVARIANTS
    TypeOK
    SignedVerifies
    TamperIsDetected
    StatusIsTrue
PROPERTIES
    ContentIsKept
CHECK_DEADLOCK FALSE
