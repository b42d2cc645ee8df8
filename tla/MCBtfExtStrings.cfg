SPECIFICATION Spec
CONSTANTS
    Inputs <- ExtInputs
    Faults = FALSE
INVARIANT ExtStringsUpdated
