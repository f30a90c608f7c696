CONSTANTS
    Listener = {l1, l2}
    Early <- MCEarly
    None = None
SPECIFICATION Spec
INVARIANT
    RegisteredHeard
PROPERTY
    CrashOnlyInRace
