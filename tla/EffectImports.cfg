CONSTANTS
    Idle = Idle
    Segment <- MCSegment
    Func = {f, g}
    Extern = {x}
    Opaque = {o}
    Modules <- MCModules
    Strict = TRUE
    MaxDepth = 3
SPECIFICATION Spec
CHECK_DEADLOCK FALSE
INVARIANT ImportedEffectsCovered
