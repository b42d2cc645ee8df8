CONSTANTS
    Calls <- MCCalls
    Keys <- MCCpus
    Cpus <- MCCpus
    Size = 4
    SampleSizes <- MCSizes
    LostSize = 2
    MaxEmit = 4
    MaxErrors = 1
SPECIFICATION FairSpec
INVARIANTS
    NothingLeft
    BuffersComplete
    RingIntact
    GapsReported
PROPERTIES
    ImplementsLog
    TailBehindReader
    
