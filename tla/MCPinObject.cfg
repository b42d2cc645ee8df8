CONSTANTS
    Procs <- MCProcs
    Setups <- MCSetups
    Paths <- MCPaths
    LogNeed = 2
    Faults = TRUE
SPECIFICATION FairSpec
INVARIANTS
    PinnedMapsComplete
    LoadedMapsReady
    MapsShared
    OnlyReuseLeaks
    PinnedFlagsTrue
    FailedPinUndone
PROPERTIES
    LoadIsAtomic
    CallsEnd
