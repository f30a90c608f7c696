SPECIFICATION Spec
INVARIANTS
    WiringComplete
    ReadyToServe
CHECK_DEADLOCK FALSE
