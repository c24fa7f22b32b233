SPECIFICATION Spec
CONSTANTS
    Targets = 2
    MaxVersion = 2
    Scripts <- MCScripts
\* The run ends with the process.
CHECK_DEADLOCK FALSE
INVARIANTS
    TypeOK
    SlotIsSound
    PageHashesHeld
PROPERTIES
    FailureIsRemembered
    Terminates
