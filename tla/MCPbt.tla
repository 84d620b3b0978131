------------------------------- MODULE MCPbt ---------------------------------
(***************************************************************************)
(* Two functions: tested, and the helper it calls.  Inputs 1 and 0         *)
(* are generated (in that order, so the first failure is not the smallest) *)
(* and 2 comes from seeds only.                                            *)
(***************************************************************************)
EXTENDS PbtRuntime

CONSTANTS tested, helper

MCOrder   == <<tested, helper>>
MCSamples == <<1, 0>>

Table(at0, at1, at2, wrong) == [x \in Input |-> IF x = 0 THEN at0 ELSE IF x = 1 THEN at1
                                               ELSE IF x = 2 THEN at2 ELSE wrong]
Same(at0, at1, at2, wrong) == E!Leaf(Table(at0, at1, at2, wrong),
                                     Table(at0, at1, at2, "false"))

Zero   == Same("true", "false", "false", "false")          \* x == 0
Pos    == Same("false", "true", "true", "unsupported")     \* x > 0
Small  == Same("true", "true", "false", "unsupported")     \* x < 2
Div    == E!Leaf(Table("trap", "true", "false", "unsupported"),   \* 1 / x == 1
                 Table("false", "true", "false", "false"))
Match  == E!Leaf(Table("unsupported", "unsupported", "unsupported", "unsupported"),
                 Table("true", "true", "true", "true"))
Id     == [x \in Input |-> x]
One    == [x \in Input |-> 1]

MCExpr == { E!Const(TRUE), E!Const(FALSE), E!Result, E!Not(E!Result), Zero, Pos, Small,
            Div, Match, E!Call(helper, Id), E!Call(helper, One), E!Call(tested, Id),
            E!Or(Zero, E!Call(helper, Id)), E!Implies(Pos, E!Call(helper, Id)),
            E!Or(E!Result, E!Old(Zero)), E!Implies(E!Old(E!Call(helper, Id)), E!Result),
            E!Old(E!Result), E!Or(Zero, E!Old(E!Call(helper, Id))) }

Function(uses, domain, requires, body, ensures) ==
    [uses |-> uses, domain |-> domain, requires |-> requires, body |-> body,
     ensures |-> ensures]

Functions(U, D, R, B, S) == { Function(u, d, r, b, s) : u \in U, d \in D, r \in R, b \in B, s \in S }

MCFs == Functions({FALSE}, {"full"},
                  { <<>>, <<Pos>>, <<E!Call(helper, Id)>>, <<Match>>, <<Div>> },
                  { E!Const(TRUE), Zero, Small, E!Call(helper, Id), E!Call(helper, One), E!Call(tested, Id),
                    Div, E!Not(E!Call(helper, Id)) },
                  { <<E!Result>>, <<E!Const(TRUE), E!Not(E!Result)>>,
                    <<E!Or(Zero, E!Call(helper, Id))>>,
                    <<E!Or(Zero, E!Old(E!Call(helper, Id)))>>,
                    <<E!Implies(Pos, E!Call(helper, Id)), E!Result>>,
                    <<E!Or(E!Result, E!Old(Zero)), Small>>,
                    <<E!Implies(E!Old(E!Call(helper, Id)), E!Result)>>,
                    <<E!Result, Div>>, <<E!Call(tested, Id)>>, <<Match>> })
        \cup Functions(BOOLEAN, {"bounded", "none"}, { <<>> }, { Zero, Small },
                       { <<E!Result>>, <<Small>>, <<E!Const(FALSE)>>, <<E!Call(tested, Id)>>, <<>> })

MCGs == Functions({FALSE}, {"full"}, { <<>>, <<Pos>> }, { E!Const(TRUE), Zero },
                  { <<>>, <<E!Result>>, <<Small>> })

MCModules == { [h \in Func |-> IF h = tested THEN a ELSE b] : a \in MCFs, b \in MCGs }

Injected(h, x) == [fn |-> h, input |-> x, complete |-> TRUE]

MCSeedFiles == { <<>>, << Injected(tested, 2), Injected(helper, 0) >>,
                 << Injected(tested, WrongType), Injected("unknown", 0),
                    [fn |-> tested, input |-> 0, complete |-> FALSE] >> }

MCConstValue(e) == E!ConstEval(e)
MCEvalClause(m, e, x, res) == E!EvalBool(m, e, x, res, res # "none", Fuel)
MCEvalFunc(m, h, x) == E!EvalCall(m, h, x, 0, Fuel)
MCSize(x) == x
=============================================================================
