SPECIFICATION Spec
CONSTANTS
    SessionIds = {s1}
    Times = {0, 1, 2}
    IdleTimeout = 1
    MaxRuntime = 2
    None = None
    Sid = s1
    Events = {1, 2}
    Runs <- AllRuns
    StopOnFailure = TRUE
    Cancellable = TRUE
    Hooks <- AdapterHooks
INVARIANTS
    AppTypeOK
    SessionEnded
    HandedOnce
    LifecycleInOrder
    ResultAgrees
    ExitCodeHonest
PROPERTIES
    RunEnds
    StopsWhenAsked
CHECK_DEADLOCK FALSE
