SPECIFICATION Spec
CONSTANTS
    Time = {0, 1, 2, 3, 4}
    MaxLength = 6
INVARIANTS
    InBounds
    Correct
PROPERTIES
    Terminates
CHECK_DEADLOCK FALSE
