SPECIFICATION Spec
CONSTANTS
    Inputs <- ArrayInputs
    Faults = FALSE
INVARIANT Compilable
