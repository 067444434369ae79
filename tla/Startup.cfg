SPECIFICATION MCSpec
CONSTANTS
    Modules <- MCModules
    Manifest <- MCManifest
    Profiles = {"prod", "test", "default"}
    Hooked = {2, 3}
    None = None
    Requests <- MCRequests
    MaxBoots = 2
INVARIANTS
    NoForgottenPlugin
    ActiveAreUp
    NothingLeftOpen
    PcScopeHolds
    CacheStaleInRootOnly
PROPERTIES
    BootEnds
CHECK_DEADLOCK FALSE
