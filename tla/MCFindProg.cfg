SPECIFICATION Spec
CONSTANTS
    Tables <- MCTables
    SecIdxs <- MCSecIdxs
    InsnIdxs <- MCInsnIdxs
INVARIANTS
    LookupCorrect
    RoundsBounded
