CONSTANTS
    tested = tested
    helper = helper
    Func = {tested, helper}
    FuncOrder <- MCOrder
    Input = {0, 1, 2, 9}
    WrongType = 9
    NoInput = none
    Samples <- MCSamples
    MaxCases = 2
    Expr <- MCExpr
    Modules <- MCModules
    SeedFiles <- MCSeedFiles
    ConstValue <- MCConstValue
    EvalClause <- MCEvalClause
    EvalFunc <- MCEvalFunc
    Size <- MCSize
    DepthLimit = 2
    Fuel = 9
SPECIFICATION Spec
CHECK_DEADLOCK FALSE
INVARIANT GenerativeHolds
