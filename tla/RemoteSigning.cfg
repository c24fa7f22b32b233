SPECIFICATION Spec
CONSTANTS
    environment = environment
    workload = workload
    managed = managed
    Job = {j1}
    Credential = {environment, workload, managed}
    Chains <- MCChains
    MaxPolls = 3
    MaxVersion = 4
\* The run ends with its jobs.
CHECK_DEADLOCK FALSE
INVARIANTS
    TypeOK
    CmsIsConsistent
    GivesUpOnlyWhenForced
PROPERTIES
    EveryJobEnds
