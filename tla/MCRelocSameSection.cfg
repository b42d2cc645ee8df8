SPECIFICATION Spec
CONSTANTS
    Objects <- SameSection
INVARIANT
    CallsResolved
