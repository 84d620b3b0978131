CONSTANTS
    Idle = Idle
    Segment <- MCSegment
    Func = {f, g}
    Extern = {x}
    Opaque = {o}
    Modules <- MCModules
    Strict = TRUE
    MaxDepth = 3
SPECIFICATION FairSpec
CHECK_DEADLOCK FALSE
INVARIANTS
    TypeOK
    EffectsCovered
    ContractsPure
PROPERTIES
    CapabilitySafety
    RepairConverges
