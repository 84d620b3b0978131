CONSTANTS
    A = A
    B = B
    C = C
    Alias = {A, B, C}
    DeclOrder <- MCOrder
    Tag = {T}
    NoTag = NoTag
    Decls <- MCDecls
    MaxFrames = 5
SPECIFICATION Spec
CHECK_DEADLOCK FALSE
INVARIANTS
    TypeOK
    RecursionBounded
    CyclesReported
    ReferencesResolved
PROPERTY Terminates
