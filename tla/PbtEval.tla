------------------------------- MODULE PbtEval -------------------------------
(***************************************************************************)
(* Two evaluators of the same contracts.                                   *)
(*   - PBT: the interpreter of kei_check/src/pbt.rs, which decides what    *)
(*     `kei check --generative` reports;                                   *)
(*   - TS: what the code emitted by kei_emit/src/emit.rs does at run time. *)
(* A function takes one parameter and returns a Bool.  The grammar keeps   *)
(* what decides the control: short circuits, calls, old(...), `result`,    *)
(* and leaves that the interpreter cannot evaluate or that trap.           *)
(***************************************************************************)
EXTENDS Sequences, Naturals, FiniteSets

CONSTANTS
    Input,       \* values a parameter may have
    DepthLimit,  \* deepest nesting of calls before eval_func_call gives up (64)
    Fuel         \* bound: nesting after which the host's stack is exhausted

Booleans == {"true", "false"}

\* Outcomes of the interpreter; "crash" is a stack overflow of the process.
Failures == {"unsupported", "trap", "precondition", "crash"}

Bool(b) == IF b THEN "true" ELSE "false"

(* Expressions. *)
Const(b)       == [op |-> "const", val |-> b]
Leaf(pbt, ts)  == [op |-> "leaf", pbt |-> pbt, ts |-> ts]   \* tables over Input
Result         == [op |-> "result"]
Not(e)         == [op |-> "not", arg |-> e]
Or(l, r)       == [op |-> "or", lhs |-> l, rhs |-> r]
Implies(l, r)  == [op |-> "implies", lhs |-> l, rhs |-> r]
Old(e)         == [op |-> "old", arg |-> e]
Call(f, arg)   == [op |-> "call", fn |-> f, arg |-> arg]    \* arg in [Input -> Input]

(***************************************************************************)
(* const_eval: only expressions without variables are folded.              *)
(***************************************************************************)
RECURSIVE ConstEval(_)
ConstEval(e) ==
    IF e.op = "const" THEN Bool(e.val)
    ELSE IF e.op = "not" THEN
        LET v == ConstEval(e.arg)
        IN  IF v = "none" THEN v ELSE Bool(v = "false")
    ELSE IF e.op \in {"or", "implies"} THEN
        LET l == ConstEval(e.lhs)
            r == ConstEval(e.rhs)
        IN  IF "none" \in {l, r} THEN "none"
            ELSE Bool(r = "true" \/ l = (IF e.op = "or" THEN "true" ELSE "false"))
    ELSE "none"

(***************************************************************************)
(* The interpreter.  `res` is the value of `result` or "none".             *)
(***************************************************************************)
RECURSIVE Eval(_, _, _, _, _, _, _), EvalCall(_, _, _, _, _), Clauses(_, _, _, _, _)

\* eval_bool: a clause starts again at depth 0.
EvalBool(m, e, x, res, ens, fuel) == Eval(m, e, x, res, ens, 0, fuel)

Eval(m, e, x, res, ens, depth, fuel) ==
    CASE e.op = "const"  -> Bool(e.val)
      [] e.op = "leaf"   -> e.pbt[x]
      [] e.op = "result" -> IF res = "none" THEN "unsupported" ELSE res
      [] e.op = "not"    -> LET v == Eval(m, e.arg, x, res, ens, depth, fuel)
                            IN  IF v \in Booleans THEN Bool(v = "false") ELSE v
      [] e.op \in {"or", "implies"} ->
            LET l == Eval(m, e.lhs, x, res, ens, depth, fuel)
            IN  IF l \in Failures THEN l
                ELSE IF l = (IF e.op = "or" THEN "true" ELSE "false") THEN "true"
                ELSE Eval(m, e.rhs, x, res, ens, depth, fuel)
      [] e.op = "old"    -> IF ~ens THEN "unsupported"
                            ELSE Eval(m, e.arg, x, "none", ens, depth, fuel)
      [] e.op = "call"   -> IF m[e.fn].uses THEN "unsupported"
                            ELSE EvalCall(m, e.fn, e.arg[x], depth + 1, fuel)

\* Clauses of a callee in order: the first one that is not true decides.
Clauses(m, s, x, res, fuel) ==
    IF s = <<>> THEN "true"
    ELSE LET v == EvalBool(m, Head(s), x, res, res # "none", fuel)
         IN  IF v = "true" THEN Clauses(m, Tail(s), x, res, fuel)
             ELSE IF v = "false" THEN "precondition"
             ELSE IF v = "crash" THEN v
             ELSE "unsupported"

\* Mutant: the ensures clauses of a callee are left to its own tests.
EvalCallUnchecked(m, f, x, depth, fuel) ==
    IF fuel = 0 THEN "crash"
    ELSE IF depth > DepthLimit THEN "unsupported"
    ELSE LET pre == Clauses(m, m[f].requires, x, "none", fuel - 1)
         IN  IF pre # "true" THEN pre
             ELSE Eval(m, m[f].body, x, "none", FALSE, depth, fuel - 1)

\* eval_func_call: requires, body and, below the top level, ensures.
EvalCall(m, f, x, depth, fuel) ==
    IF fuel = 0 THEN "crash"
    ELSE IF depth > DepthLimit THEN "unsupported"
    ELSE LET pre == Clauses(m, m[f].requires, x, "none", fuel - 1) IN
         IF pre # "true" THEN pre
         ELSE LET v == Eval(m, m[f].body, x, "none", FALSE, depth, fuel - 1) IN
              IF v \in Failures \/ depth = 0 THEN v
              ELSE LET post == Clauses(m, m[f].ensures, x, v, fuel - 1)
                   IN  IF post = "true" THEN v ELSE post

(***************************************************************************)
(* The emitted code: requires checks, the captured old values in the order *)
(* of their occurrence, the body, the ensures checks.  Without ensures     *)
(* clauses nothing is captured.                                            *)
(***************************************************************************)
RECURSIVE Olds(_)
Olds(e) == IF e.op = "old" THEN <<e.arg>>
           ELSE IF e.op = "not" THEN Olds(e.arg)
           ELSE IF e.op \in {"or", "implies"} THEN Olds(e.lhs) \o Olds(e.rhs)
           ELSE <<>>

RECURSIVE OldExprs(_)
OldExprs(s) == IF s = <<>> THEN <<>> ELSE Olds(Head(s)) \o OldExprs(Tail(s))

\* Captures that the clause itself may not reach, behind a short circuit.
RECURSIVE LateOlds(_)
LateOlds(e) == IF e.op = "not" THEN LateOlds(e.arg)
               ELSE IF e.op \in {"or", "implies"} THEN LateOlds(e.lhs) \o Olds(e.rhs)
               ELSE <<>>

RECURSIVE HasCall(_)
HasCall(e) == \/ e.op = "call"
              \/ e.op \in {"not", "old"} /\ HasCall(e.arg)
              \/ e.op \in {"or", "implies"} /\ (HasCall(e.lhs) \/ HasCall(e.rhs))

RECURSIVE Ts(_, _, _, _, _), TsCall(_, _, _, _), TsChecks(_, _, _, _, _),
          TsCaptures(_, _, _, _)

Ts(m, e, x, res, fuel) ==
    CASE e.op = "const"  -> Bool(e.val)
      [] e.op = "leaf"   -> e.ts[x]
      [] e.op = "result" -> res
      [] e.op = "old"    -> Ts(m, e.arg, x, "none", fuel)
      [] e.op = "not"    -> LET v == Ts(m, e.arg, x, res, fuel)
                            IN  IF v \in Booleans THEN Bool(v = "false") ELSE v
      [] e.op \in {"or", "implies"} ->
            LET l == Ts(m, e.lhs, x, res, fuel)
            IN  IF l \notin Booleans THEN l
                ELSE IF l = (IF e.op = "or" THEN "true" ELSE "false") THEN "true"
                ELSE Ts(m, e.rhs, x, res, fuel)
      [] e.op = "call"   -> TsCall(m, e.fn, e.arg[x], fuel)

TsChecks(m, s, x, res, fuel) ==
    IF s = <<>> THEN "true"
    ELSE LET v == Ts(m, Head(s), x, res, fuel)
         IN  IF v = "true" THEN TsChecks(m, Tail(s), x, res, fuel)
             ELSE IF v = "false" THEN "violation" ELSE v

TsCaptures(m, s, x, fuel) ==
    IF s = <<>> THEN "true"
    ELSE LET v == Ts(m, Head(s), x, "none", fuel)
         IN  IF v \in Booleans THEN TsCaptures(m, Tail(s), x, fuel) ELSE v

TsCall(m, f, x, fuel) ==
    IF fuel = 0 THEN "overflow"
    ELSE LET pre == TsChecks(m, m[f].requires, x, "none", fuel - 1) IN
         IF pre # "true" THEN pre
         ELSE LET old == TsCaptures(m, OldExprs(m[f].ensures), x, fuel - 1) IN
         IF old # "true" THEN old
         ELSE LET v == Ts(m, m[f].body, x, "none", fuel - 1) IN
         IF v \notin Booleans THEN v
         ELSE LET post == TsChecks(m, m[f].ensures, x, v, fuel - 1)
              IN  IF post = "true" THEN v ELSE post
=============================================================================
