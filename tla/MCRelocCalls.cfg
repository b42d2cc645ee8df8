SPECIFICATION Spec
CONSTANTS
    Objects <- MCObjects
INVARIANTS
    NoReentry
    SubprogsUntouched
    CopiesTile
    CallsResolved
    InfoFollowsCode
