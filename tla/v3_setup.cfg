CONSTANTS
    None = None
    CliChoices <- MCChoices
SPECIFICATION Spec
CHECK_DEADLOCK FALSE
INVARIANTS
    NoPanic
    ProtectedAsAsked
PROPERTIES
    OnlyShortDigestsRefusedLate
