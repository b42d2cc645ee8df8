CONSTANTS
    InsnFiles <- MCInsnFiles
    Commands <- MCCommands
SPECIFICATION Spec
INVARIANTS
    ClearExact
    OnlySectionPatched
    UndoesExtraction
