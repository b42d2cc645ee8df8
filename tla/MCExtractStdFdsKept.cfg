SPECIFICATION XSpec
CONSTANTS
    Elfs <- MCElfs
    Faults = FALSE
    Garbage <- MCGarbage
    FixProgname <- MCFixProgname
INVARIANT
    StdFdsKept
