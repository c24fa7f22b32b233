SPECIFICATION Spec
CONSTANTS
    Targets = 2
    MaxVersion = 2
    Scripts <- MCScripts
CHECK_DEADLOCK FALSE
INVARIANT NphReachesSip
