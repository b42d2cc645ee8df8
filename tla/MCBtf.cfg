SPECIFICATION Spec
CONSTANTS
    Inputs <- MCInputs
    Faults = TRUE
INVARIANTS
    RawDataCurrent
    DedupedStringsDistinct
    MapAcyclic
    DedupSound
    FailedDedupHarmless
    DedupMinimal
    DefinedInOrder
    DefinedOnce
