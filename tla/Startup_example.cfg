CONSTANTS
    Configs <- MCExample
    Documented <- MCExample
CHECK_DEADLOCK FALSE
SPECIFICATION Spec
INVARIANT DocumentedStarts
