SPECIFICATION Spec
CONSTANTS
    leaf = leaf
    ca = ca
    other = other
    Certs = {leaf, ca, other}
    X509 <- MCX509
    MaxBase64 = 2
    PickyKinds = {"pe", "msi", "script", "msix"}
    Align = 2
    MaxComment = 2
    Files <- MCUtf16Files
    Requests <- MCRequests
    SplitMaterial <- Bag
    Values = {"a", "x"}
    MaxOps = 4
    MaxTime = 2
INVARIANTS
    SignedScriptVerifies
CHECK_DEADLOCK FALSE
