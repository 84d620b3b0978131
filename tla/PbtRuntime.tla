----------------------------- MODULE PbtRuntime ------------------------------
(***************************************************************************)
(* What the reports of Pbt mean for the emitted code: the interpreter of   *)
(* pbt.rs is compared with the run-time checks of emit.rs.                 *)
(***************************************************************************)
EXTENDS Pbt

CONSTANTS DepthLimit, Fuel

E == INSTANCE PbtEval

Throws(f, x) == E!TsCall(mod, f, x, Fuel) \notin Booleans

Admitted(f, x) == E!TsChecks(mod, mod[f].requires, x, "none", Fuel) = "true"

Raised(f) == \E c \in EnsuresOf(mod, f) : levels[c] \in {"generative", "bounded"}

\* What the specification says of the level: the function is called on every
\* generated input that satisfies requires, and its clauses are raised when none of
\* them is a counterexample.  The emitted function would throw on none of them.
GenerativeHolds ==
    phase = "done" =>
        \A f \in Func : \A i \in DOMAIN Samples :
            Raised(f) /\ Admitted(f, Samples[i]) => ~Throws(f, Samples[i])

\* The two cases in which the interpreter has not seen what the emitted code does.
\* It skips an input on which the body traps, while emitted division by zero goes on
\* to the checks; and it does not evaluate an old(...) behind a short circuit that
\* decides, while emitted code captures it on entry, and a call in it may throw.
Judged(f, x) == EvalFunc(mod, f, x) # "trap"

CapturesLate(m) ==
    \E f \in Func : \E i \in DOMAIN m[f].ensures :
        LET late == E!LateOlds(m[f].ensures[i])
        IN  \E j \in DOMAIN late : E!HasCall(late[j])

\* Outside of those two cases the level means what it says: the emitted function
\* throws on no generated input that satisfies requires.  Violated by any other
\* run-time check, of a callee at any depth or of a contract that calls, which the
\* interpreter leaves out.
GenerativeHoldsIfJudged ==
    phase = "done" /\ ~CapturesLate(mod) =>
        \A f \in Func : \A i \in DOMAIN Samples :
            Raised(f) /\ Admitted(f, Samples[i]) /\ Judged(f, Samples[i])
                => ~Throws(f, Samples[i])

\* A counterexample is one: it is what the interpreter has found (see Pbt), and
\* on the input the diagnostic names, which satisfies requires, the emitted
\* function throws; a generated one is the smallest among the generated inputs
\* on which it throws, inputs and modules of the two cases above aside.
CounterexampleReal ==
    /\ CounterexamplesExact
    /\ phase = "done" =>
        \A d \in diags : d.code = "E4005" /\ d.input # WrongType =>
            /\ Admitted(d.fn, d.input) /\ Judged(d.fn, d.input) /\ Throws(d.fn, d.input)
            /\ d.by = "generated" /\ ~CapturesLate(mod) =>
                 \A i \in DOMAIN Samples :
                    /\ Admitted(d.fn, Samples[i]) /\ Judged(d.fn, Samples[i])
                    /\ Throws(d.fn, Samples[i])
                    => Size(d.input) <= Size(Samples[i])

\* pbt.rs "the depth limit prevents infinite recursion": checking a module
\* never exhausts the stack of the checker.
RecursionLimited == phase # "crashed"
=============================================================================
