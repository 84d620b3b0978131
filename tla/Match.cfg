CONSTANTS
    EnumName = "E"
    Programs <- MCPrograms
SPECIFICATION Spec
CHECK_DEADLOCK FALSE
INVARIANTS
    NeverFallsThrough
    BindingsAsTyped
    VerdictsExact
