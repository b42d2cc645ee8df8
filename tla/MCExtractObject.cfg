SPECIFICATION XSpec
CONSTANTS
    Elfs <- MCElfs
    Faults = TRUE
    Garbage <- MCGarbage
    FixProgname <- MCFixProgname
INVARIANTS
    ProgramsTile
    RelocsRecorded
    RelocsSorted
    KconfigLayout
    NoLeak
    OpenKeepsStdFds
    OutputFaithful
