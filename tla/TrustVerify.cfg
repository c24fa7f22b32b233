SPECIFICATION Spec
CONSTANTS
    t1 = t1
    root = root
    kept = kept
    ca = ca
    namesake = namesake
    leaf = leaf
    tsa = tsa
    self = self
    ms = ms
    public = public
    private = private
    Tools = {t1}
    Modules = {}
    MaxAge = 1
    MaxLag = 0
    Skews = {0}
    MaxDay = 2
    Rosters <- MCRosters
    Certs <- MCCerts
    X509 <- MCX509
    Program <- MCProgram
    Pinned <- MCPinned
    Jobs <- MCJobs
    Window = 1
    MaxChain = 3
    None = None
INVARIANTS
    TypeOK
    TrustedIsSound
    JudgedInTime
    NoFalseRejection
PROPERTIES
    EveryVerificationEnds
