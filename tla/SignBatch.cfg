SPECIFICATION Spec
CONSTANTS
    a = a
    alias = alias
    b = b
    fileA = fileA
    fileB = fileB
    Path = {a, alias, b}
    File = {fileA, fileB}
    Identity <- MCIdentity
    MaxTargets = 3
    Requests <- MCRequests
    Options <- MCOptions
    Disks <- MCDisks
\* The run ends with the command.
CHECK_DEADLOCK FALSE
INVARIANTS
    TypeOK
    NothingLost
    TargetsAreSound
PROPERTIES
    ValidIsKept
    ImplementsBatch
