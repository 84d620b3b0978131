--------------------------------- MODULE Pbt ---------------------------------
(***************************************************************************)
(* `kei check --generative` on one module: the static levels of its        *)
(* contract clauses, the generated cases of every function (pbt.rs         *)
(* run_module and run_function), the levels and diagnostics they lead to   *)
(* (check.rs apply_generative) and the seed file (pbt.rs check_seeds).     *)
(* How an expression is evaluated is left to constant operators.           *)
(***************************************************************************)
EXTENDS Sequences, Integers, FiniteSets

CONSTANTS
    Func,             \* the functions of the module
    FuncOrder,        \* their order in the source
    Input,            \* values a parameter may have, in a seed or at run time
    WrongType,        \* a literal in a seed that has not the parameter's type
    NoInput,          \* a diagnostic about no input
    Samples,          \* candidate_values: the generated inputs, in their order
    MaxCases,         \* MAX_GENERATIVE_CASES
    Expr,             \* contract clauses
    Modules,          \* the modules to check
    SeedFiles,        \* the seed files to inject
    ConstValue(_),    \* const_eval: "true", "false" or "none"
    EvalClause(_, _, _, _),   \* eval_bool(module, clause, input, result or "none")
    EvalFunc(_, _, _),        \* eval_func_call(module, function, input) at depth 0
    Size(_)           \* size_metric of an input

Booleans == {"true", "false"}
Outcome  == Booleans \cup {"unsupported", "trap", "precondition", "crash"}

(***************************************************************************)
(* A function: `domain` is what candidate_values can say of the parameter  *)
(* type: every case, a bounded sample, or nothing.                         *)
(***************************************************************************)
IsFunction(d) == /\ d.uses \in BOOLEAN
                 /\ d.domain \in {"full", "bounded", "none"}
                 /\ d.requires \in Seq(Expr) /\ d.ensures \in Seq(Expr)

Seed == [fn : Func \cup {"unknown"}, input : Input, complete : BOOLEAN]

ASSUME SampleAssumption == /\ Samples \in Seq(Input) /\ MaxCases \in Nat
                           /\ WrongType \in Input
                           /\ \A i \in 1..Len(Samples) : Samples[i] # WrongType
ASSUME SizeAssumption   == \A i \in 1..Len(Samples) : Size(Samples[i]) \in Int
ASSUME FuncAssumption   == /\ IsFiniteSet(Func) /\ FuncOrder \in Seq(Func)
                           /\ \A i, j \in 1..Len(FuncOrder) :
                                FuncOrder[i] = FuncOrder[j] => i = j
ASSUME ModuleAssumption == \A m \in Modules : /\ DOMAIN m = Func
                                              /\ \A f \in Func : IsFunction(m[f])
ASSUME SeedAssumption   == SeedFiles \subseteq Seq(Seed)

VARIABLES
    mod,        \* the module
    phase,      \* "static", "generate", "apply", "seeds", "demote", "done"; or
                \* "crashed": the host's stack overflowed and the process died
    todo,       \* functions run_module has not reached, a sequence
    case,       \* index of the next generated case, 0 between two functions
    failures,   \* failing cases of the current function
    checked,    \* cases_checked of the current function
    outcomes,   \* PropertyOutcome records
    levels,     \* verification level of every clause
    diags,      \* error diagnostics
    seeds,      \* seeds still to validate
    downgrades  \* clauses the seeds have broken

vars == <<mod, phase, todo, case, failures, checked, outcomes, levels, diags,
          seeds, downgrades>>

caseVars == <<case, failures, checked>>

Levels == {"static", "generative", "bounded", "runtime"}

Clause(m) == UNION { { <<f, "requires", i>> : i \in DOMAIN m[f].requires }
                     \cup { <<f, "ensures", i>> : i \in DOMAIN m[f].ensures } : f \in Func }

ExprOf(m, c) == IF c[2] = "requires" THEN m[c[1]].requires[c[3]] ELSE m[c[1]].ensures[c[3]]

EnsuresOf(m, f) == { c \in Clause(m) : c[1] = f /\ c[2] = "ensures" }

\* clause 0 is the whole function: it throws because a callee's contract fails.
Diag(code, by, f, clause, x) ==
    [code |-> code, by |-> by, fn |-> f, clause |-> clause, input |-> x]

\* The first outcome of a sequence that is not in S; `default` when all are.
FirstNotIn(S, s, default) ==
    IF \A i \in DOMAIN s : s[i] \in S THEN default
    ELSE s[CHOOSE i \in DOMAIN s : s[i] \notin S /\ \A j \in DOMAIN s : j < i => s[j] \in S]

\* all_hold: clauses are evaluated until one is not true.
AllHold(m, f, x) ==
    FirstNotIn({"true"}, [i \in DOMAIN m[f].requires |->
                             EvalClause(m, m[f].requires[i], x, "none")], "true")

Ensure(m, f, i, x, res) == EvalClause(m, m[f].ensures[i], x, res)

\* What the ensures loop of run_function meets first that is not a Bool.
EnsuresError(m, f, x, res) ==
    FirstNotIn(Booleans, [i \in DOMAIN m[f].ensures |-> Ensure(m, f, i, x, res)], "none")

\* How far the current input gets: its precondition, its result, its checks.
CaseOutcome(m, f, x) ==
    LET pre == AllHold(m, f, x)
        res == EvalFunc(m, f, x)
    IN  IF pre # "true" THEN pre
        ELSE IF res \notin Booleans THEN res
        ELSE EnsuresError(m, f, x, res)
-----------------------------------------------------------------------------
Init == /\ mod \in Modules
        /\ phase = "static" /\ todo = FuncOrder
        /\ case = 0 /\ failures = {} /\ checked = 0
        /\ outcomes = {}
        /\ levels = [c \in Clause(mod) |-> "runtime"]
        /\ diags = {}
        /\ seeds \in SeedFiles
        /\ downgrades = {}

\* check_contract_clause and collect_contracts; an error keeps PBT from running.
StaticCheck ==
    /\ phase = "static"
    /\ levels' = [c \in Clause(mod) |->
                    IF ConstValue(ExprOf(mod, c)) = "true" THEN "static" ELSE "runtime"]
    /\ diags' = { Diag("E4003", "check", c[1], c[3], NoInput) :
                    c \in { d \in Clause(mod) : ConstValue(ExprOf(mod, d)) = "false" } }
    /\ phase' = IF diags' = {} THEN "generate" ELSE "seeds"
    /\ UNCHANGED <<mod, todo, caseVars, outcomes, seeds, downgrades>>

Eligible(m, f) == /\ ~m[f].uses /\ m[f].ensures # <<>>
               /\ m[f].domain # "none" /\ Len(Samples) <= MaxCases

StartFunction ==
    /\ phase = "generate" /\ case = 0 /\ todo # <<>>
    /\ IF Eligible(mod, Head(todo))
       THEN /\ case' = 1 /\ failures' = {} /\ checked' = 0
            /\ UNCHANGED todo
       ELSE /\ todo' = Tail(todo)
            /\ UNCHANGED caseVars
    /\ UNCHANGED <<mod, phase, outcomes, levels, diags, seeds, downgrades>>

\* return None: the function is not reported and its clauses stay at runtime.
GiveUp == /\ todo' = Tail(todo) /\ case' = 0 /\ failures' = {} /\ checked' = 0

\* Mutant: a skipped input takes the next one with it.
SkipTwo == case' = case + 2 /\ UNCHANGED <<todo, failures, checked>>

Skip == case' = case + 1 /\ UNCHANGED <<todo, failures, checked>>

\* A clause that fails on the current input; clause 0 is the call as a whole.
Failed(clauses) == { [at |-> case, clause |-> i] : i \in clauses }

BrokenEnsures(m, f, x, res) == { i \in DOMAIN m[f].ensures : Ensure(m, f, i, x, res) = "false" }

Broken(m, f, x, res) == IF res = "precondition" THEN {0} ELSE BrokenEnsures(m, f, x, res)

\* Mutant: a clause that cannot be evaluated is tolerated, as it is in a seed.
RunCaseTolerant ==
    /\ phase = "generate" /\ case \in 1..Len(Samples)
    /\ LET f   == Head(todo)
           x   == Samples[case]
           pre == AllHold(mod, f, x)
           res == EvalFunc(mod, f, x)
       IN  /\ CaseOutcome(mod, f, x) # "crash"
           /\ IF pre \notin {"true", "unsupported"} \/ res = "trap" THEN Skip
              ELSE IF pre = "unsupported" \/ res = "unsupported" THEN GiveUp
              ELSE /\ case' = case + 1 /\ checked' = checked + 1 /\ UNCHANGED todo
                   /\ failures' = failures \cup Failed(Broken(mod, f, x, res))
    /\ UNCHANGED <<mod, phase, outcomes, levels, diags, seeds, downgrades>>

\* One iteration of the loop of run_function over the generated combos.
RunCase ==
    /\ phase = "generate" /\ case \in 1..Len(Samples)
    /\ LET f   == Head(todo)
           x   == Samples[case]
           pre == AllHold(mod, f, x)
           res == EvalFunc(mod, f, x)
       IN  /\ CaseOutcome(mod, f, x) # "crash"
           /\ IF pre \notin {"true", "unsupported"} THEN Skip
              ELSE IF pre = "unsupported" \/ res = "unsupported" THEN GiveUp
              ELSE IF res = "trap" THEN Skip
              ELSE IF res # "precondition" /\ \E i \in DOMAIN mod[f].ensures :
                                                 Ensure(mod, f, i, x, res) \notin Booleans
              THEN GiveUp
              ELSE /\ case' = case + 1 /\ checked' = checked + 1 /\ UNCHANGED todo
                   /\ failures' = failures \cup Failed(Broken(mod, f, x, res))
    /\ UNCHANGED <<mod, phase, outcomes, levels, diags, seeds, downgrades>>

CrashInCase ==
    /\ phase = "generate" /\ case \in 1..Len(Samples)
    /\ CaseOutcome(mod, Head(todo), Samples[case]) = "crash"
    /\ phase' = "crashed"
    /\ UNCHANGED <<mod, todo, caseVars, outcomes, levels, diags, seeds, downgrades>>

\* Found earlier: an earlier input, or an earlier clause on the same one.
Earlier(v, w) == v.at < w.at \/ (v.at = w.at /\ v.clause <= w.clause)

\* The smallest failing input is reported, the first of them in case of a tie.
Smallest ==
    CHOOSE v \in failures : \A w \in failures :
        \/ Size(Samples[v.at]) < Size(Samples[w.at])
        \/ Size(Samples[v.at]) = Size(Samples[w.at]) /\ Earlier(v, w)

Reported(v) == [fn |-> Head(todo), passed |-> failures = {},
                counterexample |-> IF failures = {} THEN {}
                                   ELSE {[input |-> Samples[v.at], clause |-> v.clause]}]

\* Mutant: the first failing input is reported.
FinishFunctionFirst ==
    /\ phase = "generate" /\ case = Len(Samples) + 1
    /\ outcomes' = IF checked = 0 THEN outcomes
                   ELSE outcomes \cup {Reported(CHOOSE v \in failures :
                                                  \A w \in failures : Earlier(v, w))}
    /\ GiveUp
    /\ UNCHANGED <<mod, phase, levels, diags, seeds, downgrades>>

FinishFunction ==
    /\ phase = "generate" /\ case = Len(Samples) + 1
    /\ outcomes' = IF checked = 0 THEN outcomes ELSE outcomes \cup {Reported(Smallest)}
    /\ GiveUp
    /\ UNCHANGED <<mod, phase, levels, diags, seeds, downgrades>>

AllRun == /\ phase = "generate" /\ todo = <<>>
          /\ phase' = "apply"
          /\ UNCHANGED <<mod, todo, caseVars, outcomes, levels, diags, seeds, downgrades>>

\* Mutant: a failing function raises its clauses as well.
ApplyGenerativeAll ==
    /\ phase = "apply"
    /\ levels' = [c \in Clause(mod) |->
                    IF /\ c[2] = "ensures" /\ levels[c] = "runtime"
                       /\ \E o \in outcomes : o.fn = c[1]
                    THEN "generative" ELSE levels[c]]
    /\ phase' = "seeds"
    /\ UNCHANGED <<mod, todo, caseVars, outcomes, diags, seeds, downgrades>>

\* Runtime ensures clauses of a function without counterexample are raised.
ApplyGenerative ==
    /\ phase = "apply"
    /\ levels' = [c \in Clause(mod) |->
                    IF /\ c[2] = "ensures" /\ levels[c] = "runtime"
                       /\ \E o \in outcomes : o.fn = c[1] /\ o.passed
                    THEN IF mod[c[1]].domain = "bounded" THEN "bounded" ELSE "generative"
                    ELSE levels[c]]
    /\ diags' = diags \cup
         UNION { { Diag("E4005", "generated", o.fn, ce.clause, ce.input) :
                     ce \in o.counterexample } : o \in outcomes }
    /\ phase' = "seeds"
    /\ UNCHANGED <<mod, todo, caseVars, outcomes, seeds, downgrades>>

\* Clauses with the text of clause i, which is what a downgrade is keyed by.
SameText(m, f, i) == { c \in EnsuresOf(m, f) : ExprOf(m, c) = m[f].ensures[i] }

\* An evaluation of the seed that overflows the host's stack.
SeedCrashes(m, f, x) ==
    LET pre == { EvalClause(m, m[f].requires[i], x, "none") : i \in DOMAIN m[f].requires }
        res == EvalFunc(m, f, x)
    IN  \/ "crash" \in pre
        \/ /\ "false" \notin pre
           /\ \/ res = "crash"
              \/ /\ res \in Booleans
                 /\ \E i \in DOMAIN m[f].ensures : Ensure(m, f, i, x, res) = "crash"

SeedErrors(code, f, x, clauses) == { Diag(code, "seed", f, i, x) : i \in clauses }

\* validate_seed: rejected for its shape, rejected by requires (clauses that
\* cannot be evaluated are tolerated), or injected into the ensures clauses.
ValidateSeed ==
    /\ phase = "seeds" /\ seeds # <<>>
    /\ LET s == Head(seeds)
           f == s.fn
           x == s.input
           typeErrors == IF x = WrongType THEN SeedErrors("E4007", f, x, {0}) ELSE {}
       IN  \/ /\ f \notin Func \/ ~s.complete
              /\ diags' = diags \cup SeedErrors("E4007", f, x, {0})
              /\ UNCHANGED downgrades
           \/ /\ f \in Func /\ s.complete /\ ~SeedCrashes(mod, f, x)
              /\ LET rejecting == { i \in DOMAIN mod[f].requires :
                                      EvalClause(mod, mod[f].requires[i], x, "none") = "false" }
                     res    == EvalFunc(mod, f, x)
                     broken == { i \in DOMAIN mod[f].ensures :
                                   Ensure(mod, f, i, x, res) \in {"false", "precondition"} }
                 IN  IF rejecting # {}
                     THEN /\ diags' = diags \cup typeErrors
                                        \cup SeedErrors("E4007", f, x, rejecting)
                          /\ UNCHANGED downgrades
                     ELSE IF res = "precondition"
                     THEN /\ diags' = diags \cup typeErrors \cup SeedErrors("E4005", f, x, {0})
                          /\ downgrades' = downgrades \cup EnsuresOf(mod, f)
                     ELSE IF res \in Booleans
                     THEN /\ diags' = diags \cup typeErrors
                                        \cup SeedErrors("E4005", f, x, broken)
                          /\ downgrades' = downgrades \cup UNION { SameText(mod, f, i) : i \in broken }
                     ELSE /\ diags' = diags \cup typeErrors
                          /\ UNCHANGED downgrades
    /\ seeds' = Tail(seeds)
    /\ UNCHANGED <<mod, phase, todo, caseVars, outcomes, levels>>

CrashInSeed ==
    /\ phase = "seeds" /\ seeds # <<>>
    /\ LET s == Head(seeds) IN s.fn \in Func /\ s.complete /\ SeedCrashes(mod, s.fn, s.input)
    /\ phase' = "crashed"
    /\ UNCHANGED <<mod, todo, caseVars, outcomes, levels, diags, seeds, downgrades>>

SeedsDone == /\ phase = "seeds" /\ seeds = <<>>
             /\ phase' = "demote"
             /\ UNCHANGED <<mod, todo, caseVars, outcomes, levels, diags, seeds, downgrades>>

\* Mutant: only clauses of functions that have failed as a whole are lowered.
DemoteWholeFunctions ==
    /\ phase = "demote"
    /\ levels' = [c \in Clause(mod) |->
                    IF EnsuresOf(mod, c[1]) \subseteq downgrades /\ levels[c] = "generative"
                    THEN "runtime" ELSE levels[c]]
    /\ phase' = "done"
    /\ UNCHANGED <<mod, todo, caseVars, outcomes, diags, seeds, downgrades>>

Demote == /\ phase = "demote"
          /\ levels' = [c \in Clause(mod) |->
                          IF c \in downgrades /\ levels[c] = "generative" THEN "runtime"
                          ELSE levels[c]]
          /\ phase' = "done"
          /\ UNCHANGED <<mod, todo, caseVars, outcomes, diags, seeds, downgrades>>

Next == \/ StaticCheck
        \/ StartFunction \/ RunCase \/ CrashInCase \/ FinishFunction \/ AllRun
        \/ ApplyGenerative
        \/ ValidateSeed \/ CrashInSeed \/ SeedsDone \/ Demote

Spec == Init /\ [][Next]_vars
-----------------------------------------------------------------------------
TypeOK == /\ \A f \in Func : IsFunction(mod[f])
          /\ phase \in {"static", "generate", "apply", "seeds", "demote", "done", "crashed"}
          /\ todo \in Seq(Func)
          /\ case \in 0..(Len(Samples) + 1) /\ checked \in 0..Len(Samples)
          /\ case # 0 => todo # <<>> /\ Eligible(mod, Head(todo))
          /\ levels \in [Clause(mod) -> Levels]
          /\ downgrades \subseteq Clause(mod)
          /\ \A o \in outcomes : o.fn \in Func /\ o.passed = (o.counterexample = {})

\* The interpreter's verdict on one input of a function.
Holds(m, f, x) ==
    AllHold(m, f, x) = "true" /\ EvalFunc(m, f, x) # "trap" =>
        \A i \in DOMAIN m[f].ensures : Ensure(m, f, i, x, EvalFunc(m, f, x)) = "true"

\* The report never says both that a clause is verified over all generated
\* inputs and that some input, generated or seeded, breaks that clause
\* (check_seeds: a broken clause is lowered from generative to runtime).
NoGenerativeWithCounterexample ==
    phase = "done" =>
        \A d \in diags : d.code = "E4005" =>
            \A c \in EnsuresOf(mod, d.fn) :
                d.clause \in {0, c[3]} => levels[c] # "generative"

\* What a raised level promises: the function was called on every generated
\* input that satisfies requires and on which it does not trap, and all of its
\* ensures clauses, not only the raised one, were true of the result.
RaisedMeansAllHold ==
    phase = "done" =>
        \A c \in Clause(mod) : levels[c] \in {"generative", "bounded"} =>
            \A i \in DOMAIN Samples : Holds(mod, c[1], Samples[i])

\* The clauses that a generated input of f breaks, as run_function judges it.
Breaks(m, f, x) == IF AllHold(m, f, x) = "true" /\ EvalFunc(m, f, x) # "trap"
                   THEN Broken(m, f, x, EvalFunc(m, f, x)) ELSE {}

\* Sample i is the first of the smallest inputs that break a clause of f.
IsLeastBreaking(m, f, i) ==
    \A j \in DOMAIN Samples : Breaks(m, f, Samples[j]) # {} =>
        \/ Size(Samples[i]) < Size(Samples[j])
        \/ Size(Samples[i]) = Size(Samples[j]) /\ i <= j

\* The clauses a seed that requires does not reject breaks, as validate_seed judges it.
SeedBreaks(m, f, x) ==
    IF EvalFunc(m, f, x) = "precondition" THEN {0}
    ELSE { i \in DOMAIN m[f].ensures :
             Ensure(m, f, i, x, EvalFunc(m, f, x)) \in {"false", "precondition"} }

\* A counterexample breaks the clause it is reported for and is not excluded by
\* requires.  A generated one is, of all generated inputs, the first of the
\* smallest that break anything, with the first clause it breaks (run_function:
\* the minimum of the failures, and the earlier one in case of a tie).
CounterexamplesExact ==
    \A d \in diags : d.code = "E4005" =>
        \/ /\ d.by = "generated"
           /\ \E i \in DOMAIN Samples :
                 /\ d.input = Samples[i] /\ IsLeastBreaking(mod, d.fn, i)
                 /\ d.clause \in Breaks(mod, d.fn, d.input)
                 /\ \A c \in Breaks(mod, d.fn, d.input) : d.clause <= c
        \/ /\ d.by = "seed" /\ d.clause \in SeedBreaks(mod, d.fn, d.input)
           /\ \A i \in DOMAIN mod[d.fn].requires :
                 EvalClause(mod, mod[d.fn].requires[i], d.input, "none") # "false"

\* A level only moves along static | runtime -> generative or bounded ->
\* runtime: it is raised by generated tests alone, a seed can only lower it,
\* and what the constant folder has decided is never revised.
LevelsMove ==
    [][\A c \in Clause(mod) :
          levels'[c] # levels[c] =>
              \/ phase = "static" /\ levels'[c] = "static"
              \/ /\ phase = "apply" /\ levels[c] = "runtime" /\ c[2] = "ensures"
                 /\ \E o \in outcomes : o.fn = c[1] /\ o.passed
              \/ phase = "demote" /\ levels[c] = "generative" /\ levels'[c] = "runtime"]_vars
=============================================================================
