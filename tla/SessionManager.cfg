SPECIFICATION SessionSpec
CONSTANTS
    SessionIds = {s1, s2}
    Times = {0, 1, 2, 3, 4}
    IdleTimeout = 1
    MaxRuntime = 3
    None = None
INVARIANTS
    LifecycleConsistent
PROPERTIES
    LifecycleForward
    HardTimeoutIsFinal
