------------------------------ MODULE PbtProofs ------------------------------
(***************************************************************************)
(* Theorems about Pbt, for every module, every generator of inputs, every  *)
(* seed file and every evaluator of expressions.  The inductive invariant  *)
(* says what each stage leaves for the next: what the loop over the cases  *)
(* has established so far, that a function is reported once, and that      *)
(* before `apply` no level is raised and no counterexample is reported.    *)
(***************************************************************************)
EXTENDS Pbt, FiniteSetTheorems, SequenceTheorems, WellFoundedInduction, TLAPS

PassedFor(f) == \E o \in outcomes : o.fn = f /\ o.passed

\* The function under way has passed every case it has been through.
CaseInv ==
    /\ case > 0 => checked < case
    /\ case = 0 => checked = 0
    /\ case > 0 /\ failures = {} =>
         \A i \in 1..(case - 1) : Holds(mod, Head(todo), Samples[i])

\* A function is reported at most once, and never before its turn.
OnceInv ==
    /\ \A i, j \in 1..Len(todo) : todo[i] = todo[j] => i = j
    /\ \A o \in outcomes : \A i \in 1..Len(todo) : todo[i] # o.fn
    /\ \A o, q \in outcomes : o.fn = q.fn => o = q
    /\ \A o \in outcomes : o.passed = (o.counterexample = {})

OutcomeInv == \A o \in outcomes : o.passed => \A i \in 1..Len(Samples) : Holds(mod, o.fn, Samples[i])

LevelInv ==
    /\ phase = "static" => \A c \in Clause(mod) : levels[c] = "runtime"
    /\ \A c \in Clause(mod) : levels[c] \in {"generative", "bounded"} => PassedFor(c[1])
    /\ phase \in {"static", "generate", "apply"} =>
         \A c \in Clause(mod) : levels[c] \notin {"generative", "bounded"}

\* No clause that a diagnostic d breaks is `generative`, now or after `demote`.
Settled(d, low) ==
    \A c \in EnsuresOf(mod, d.fn) : d.clause \in {0, c[3]} => levels[c] # "generative" \/ c \in low

DiagInv ==
    /\ phase \in {"static", "generate", "apply"} => \A d \in diags : d.code # "E4005"
    /\ phase \in {"seeds", "demote"} =>
         \A d \in diags : d.code = "E4005" => Settled(d, downgrades)
    /\ phase = "done" => \A d \in diags : d.code = "E4005" => Settled(d, {})

IInv == TypeOK /\ mod \in Modules /\ CaseInv /\ OnceInv /\ OutcomeInv /\ LevelInv /\ DiagInv
-----------------------------------------------------------------------------
\* What the rest of the functions still to do inherits.
LEMMA TodoTail ==
    ASSUME TypeOK, OnceInv, todo # <<>>
    PROVE  /\ Head(todo) \in Func /\ Tail(todo) \in Seq(Func)
           /\ \A i \in 1..Len(Tail(todo)) : Tail(todo)[i] # Head(todo)
           /\ \A i, j \in 1..Len(Tail(todo)) : Tail(todo)[i] = Tail(todo)[j] => i = j
           /\ \A o \in outcomes : o.fn # Head(todo)
           /\ \A o \in outcomes : \A i \in 1..Len(Tail(todo)) : Tail(todo)[i] # o.fn
<1>1. todo \in Seq(Func)
  BY DEF TypeOK
<1>2. /\ Head(todo) \in Func /\ Tail(todo) \in Seq(Func)
      /\ Len(Tail(todo)) = Len(todo) - 1
      /\ \A i \in 1..Len(Tail(todo)) : Tail(todo)[i] = todo[i + 1]
  BY <1>1, HeadTailProperties
<1>3. Len(todo) \in Nat /\ Len(todo) > 0 /\ Head(todo) = todo[1]
  BY <1>1
<1>4. \A i \in 1..Len(Tail(todo)) : i + 1 \in 1..Len(todo) /\ i + 1 # 1
  BY <1>2, <1>3
<1> DEFINE rest == Tail(todo)
<1>5. \A i \in 1..Len(rest) : rest[i] = todo[i + 1] /\ i + 1 \in 1..Len(todo) /\ i + 1 # 1
  BY <1>2, <1>4
<1>6. 1 \in 1..Len(todo)
  BY <1>3
<1> HIDE DEF rest
<1>7. \A i \in 1..Len(rest) : rest[i] # Head(todo)
  BY <1>3, <1>5, <1>6 DEF OnceInv
<1>8. \A i, j \in 1..Len(rest) : rest[i] = rest[j] => i = j
  <2> SUFFICES ASSUME NEW i \in 1..Len(rest), NEW j \in 1..Len(rest), rest[i] = rest[j]
               PROVE  i = j
    OBVIOUS
  <2>1. i + 1 = j + 1
    BY <1>5 DEF OnceInv
  <2> QED BY <2>1
<1>9. /\ \A o \in outcomes : o.fn # Head(todo)
      /\ \A o \in outcomes : \A i \in 1..Len(rest) : rest[i] # o.fn
  BY <1>3, <1>5, <1>6 DEF OnceInv
<1> QED BY <1>2, <1>7, <1>8, <1>9 DEF rest

\* return None in run_function: nothing is reported.
LEMMA GiveUpKeeps ==
    ASSUME IInv, phase = "generate", todo # <<>>, GiveUp,
           UNCHANGED <<mod, phase, outcomes, levels, diags, downgrades>>
    PROVE  IInv'
<1>1. TypeOK'
  <2>1. Tail(todo) \in Seq(Func)
    BY TodoTail DEF IInv
  <2> QED BY <2>1, SampleAssumption DEF IInv, TypeOK, GiveUp
<1>2. CaseInv'
  BY DEF IInv, CaseInv, GiveUp
<1>3. OnceInv'
  BY TodoTail DEF IInv, OnceInv, GiveUp
<1>4. OutcomeInv'
  BY DEF IInv, OutcomeInv
<1>5. LevelInv' /\ DiagInv'
  BY DEF IInv, LevelInv, DiagInv, PassedFor, Settled
<1> QED BY <1>1, <1>2, <1>3, <1>4, <1>5 DEF IInv

\* The next case is reached with what is known of the last one.
LEMMA NextCaseKeeps ==
    ASSUME IInv, phase = "generate", case \in 1..Len(Samples), case' = case + 1,
           checked' \in {checked, checked + 1},
           failures' = {} => failures = {} /\ Holds(mod, Head(todo), Samples[case]),
           UNCHANGED <<mod, phase, todo, outcomes, levels, diags, downgrades>>
    PROVE  IInv'
<1>1. Len(Samples) \in Nat
  BY SampleAssumption
<1>2. TypeOK'
  BY <1>1 DEF IInv, TypeOK, CaseInv
<1>3. CaseInv'
  <2>1. case' > 0 => checked' < case'
    BY <1>1 DEF IInv, TypeOK, CaseInv
  <2>2. ASSUME failures' = {}, NEW i \in 1..(case' - 1)
        PROVE  Holds(mod, Head(todo), Samples[i])
    <3>1. i \in 1..(case - 1) \/ i = case
      BY <2>2, <1>1
    <3> QED BY <3>1, <2>2 DEF IInv, CaseInv
  <2> QED BY <1>1, <2>1, <2>2 DEF CaseInv
<1>4. OnceInv' /\ OutcomeInv'
  BY DEF IInv, OnceInv, OutcomeInv
<1>5. LevelInv' /\ DiagInv'
  BY DEF IInv, LevelInv, DiagInv, PassedFor, Settled
<1> QED BY <1>2, <1>3, <1>4, <1>5 DEF IInv
-----------------------------------------------------------------------------
\* One lemma for each action.
LEMMA InitKeeps == Init => IInv
<1> SUFFICES ASSUME Init PROVE IInv
  OBVIOUS
<1>1. mod \in Modules /\ \A f \in Func : IsFunction(mod[f])
  BY ModuleAssumption DEF Init
<1>2. Len(Samples) \in Nat
  BY SampleAssumption
<1>3. TypeOK
  BY <1>1, <1>2, FuncAssumption DEF Init, TypeOK, Levels
<1>4. CaseInv
  BY DEF Init, CaseInv
<1>5. OnceInv
  BY FuncAssumption DEF Init, OnceInv
<1>6. OutcomeInv /\ LevelInv /\ DiagInv
  BY DEF Init, OutcomeInv, LevelInv, DiagInv, PassedFor, Settled
<1> QED BY <1>1, <1>3, <1>4, <1>5, <1>6 DEF IInv

LEMMA StaticCheckKeeps == IInv /\ StaticCheck => IInv'
<1> SUFFICES ASSUME IInv, StaticCheck PROVE IInv'
  OBVIOUS
<1>1. TypeOK'
  BY DEF IInv, StaticCheck, TypeOK, caseVars, Levels
<1>2. CaseInv' /\ OnceInv' /\ OutcomeInv'
  BY DEF IInv, StaticCheck, caseVars, CaseInv, OnceInv, OutcomeInv
<1>3. \A c \in Clause(mod) : levels'[c] \notin {"generative", "bounded"}
  BY DEF StaticCheck
<1>4. \A d \in diags' : d.code # "E4005"
  BY DEF StaticCheck, Diag
<1>5. phase' \in {"generate", "seeds"} /\ mod' = mod
  BY DEF StaticCheck
<1>6. LevelInv' /\ DiagInv'
  BY <1>3, <1>4, <1>5 DEF LevelInv, DiagInv
<1> QED BY <1>1, <1>2, <1>5, <1>6 DEF IInv

LEMMA StartFunctionKeeps == IInv /\ StartFunction => IInv'
<1> SUFFICES ASSUME IInv, StartFunction PROVE IInv'
  OBVIOUS
<1>1. CASE Eligible(mod, Head(todo))
  <2>1. /\ case' = 1 /\ failures' = {} /\ checked' = 0
        /\ UNCHANGED <<todo, mod, phase, outcomes, levels, diags, downgrades>>
    BY <1>1 DEF StartFunction
  <2>2. TypeOK'
    BY <1>1, <2>1, SampleAssumption DEF IInv, TypeOK, StartFunction
  <2>3. CaseInv' /\ OnceInv' /\ OutcomeInv'
    BY <2>1 DEF IInv, CaseInv, OnceInv, OutcomeInv
  <2>4. LevelInv' /\ DiagInv'
    BY <2>1 DEF IInv, LevelInv, DiagInv, PassedFor, Settled
  <2> QED BY <2>1, <2>2, <2>3, <2>4 DEF IInv
<1>2. CASE ~Eligible(mod, Head(todo))
  <2>1. /\ todo # <<>> /\ todo' = Tail(todo) /\ case = 0
        /\ UNCHANGED <<case, failures, checked, mod, phase, outcomes, levels, diags, downgrades>>
    BY <1>2 DEF StartFunction, caseVars
  <2>2. TypeOK'
    BY <2>1, TodoTail DEF IInv, TypeOK
  <2>3. CaseInv' /\ OutcomeInv'
    BY <2>1 DEF IInv, CaseInv, OutcomeInv
  <2>4. OnceInv'
    BY <2>1, TodoTail DEF IInv, OnceInv
  <2>5. LevelInv' /\ DiagInv'
    BY <2>1 DEF IInv, LevelInv, DiagInv, PassedFor, Settled
  <2> QED BY <2>1, <2>2, <2>3, <2>4, <2>5 DEF IInv
<1> QED BY <1>1, <1>2

LEMMA RunCaseKeeps == IInv /\ RunCase => IInv'
<1> SUFFICES ASSUME IInv, RunCase PROVE IInv'
  OBVIOUS
<1> DEFINE f   == Head(todo)
           x   == Samples[case]
           pre == AllHold(mod, f, x)
           res == EvalFunc(mod, f, x)
<1>1. /\ phase = "generate" /\ case \in 1..Len(Samples) /\ todo # <<>>
      /\ UNCHANGED <<mod, phase, outcomes, levels, diags, downgrades>>
  BY SampleAssumption DEF RunCase, IInv, TypeOK
<1>2. CASE GiveUp
  BY <1>1, <1>2, GiveUpKeeps
<1>3. ASSUME Skip, pre # "true" \/ res = "trap" PROVE IInv'
  <2>1. Holds(mod, f, x)
    BY <1>3 DEF Holds
  <2> QED BY <1>1, <1>3, <2>1, NextCaseKeeps DEF Skip
<1>4. ASSUME pre = "true", res # "trap",
             res = "precondition" \/ \A i \in DOMAIN mod[f].ensures :
                                        Ensure(mod, f, i, x, res) \in Booleans,
             case' = case + 1, checked' = checked + 1, UNCHANGED todo,
             failures' = failures \cup Failed(Broken(mod, f, x, res))
      PROVE  IInv'
  <2>1. ASSUME failures' = {}
        PROVE  failures = {} /\ Holds(mod, f, x)
    <3>1. failures = {} /\ Broken(mod, f, x, res) = {}
      BY <1>4, <2>1 DEF Failed
    <3>2. res # "precondition" /\ BrokenEnsures(mod, f, x, res) = {}
      BY <3>1 DEF Broken
    <3>3. \A i \in DOMAIN mod[f].ensures : Ensure(mod, f, i, x, res) = "true"
      BY <1>4, <3>2 DEF BrokenEnsures, Booleans
    <3> QED BY <3>1, <3>3 DEF Holds
  <2> QED BY <1>1, <1>4, <2>1, NextCaseKeeps
<1> QED BY <1>2, <1>3, <1>4 DEF RunCase

LEMMA FinishFunctionKeeps == IInv /\ FinishFunction => IInv'
<1> SUFFICES ASSUME IInv, FinishFunction PROVE IInv'
  OBVIOUS
<1> DEFINE o == Reported(Smallest)
<1>1. /\ phase = "generate" /\ case = Len(Samples) + 1 /\ case > 0 /\ todo # <<>>
      /\ outcomes' \in {outcomes, outcomes \cup {o}}
      /\ UNCHANGED <<mod, phase, levels, diags, downgrades>> /\ GiveUp
  BY SampleAssumption DEF FinishFunction, IInv, TypeOK
<1>2. /\ o.fn = Head(todo) /\ o.passed = (failures = {})
      /\ o.passed = (o.counterexample = {})
  BY DEF Reported
<1>3. TypeOK'
  <2>1. Head(todo) \in Func /\ Tail(todo) \in Seq(Func)
    BY <1>1, TodoTail DEF IInv
  <2>2. \A q \in outcomes' : q.fn \in Func /\ q.passed = (q.counterexample = {})
    <3> HIDE DEF o
    <3> QED BY <1>1, <1>2, <2>1 DEF IInv, TypeOK
  <2> QED BY <1>1, <2>1, <2>2, SampleAssumption DEF IInv, TypeOK, GiveUp
<1>4. CaseInv'
  BY <1>1 DEF IInv, CaseInv, GiveUp
<1>5. OnceInv'
  BY <1>1, <1>2, TodoTail DEF IInv, OnceInv, GiveUp
<1>6. OutcomeInv'
  <2>1. o.passed => \A i \in 1..Len(Samples) : Holds(mod, o.fn, Samples[i])
    <3>1. Len(Samples) \in Nat /\ case - 1 = Len(Samples)
      BY <1>1, SampleAssumption
    <3>2. failures = {} => \A i \in 1..Len(Samples) : Holds(mod, Head(todo), Samples[i])
      BY <1>1, <3>1 DEF IInv, CaseInv
    <3> HIDE DEF o
    <3> QED BY <1>2, <3>2
  <2> QED BY <1>1, <2>1 DEF IInv, OutcomeInv
<1>7. LevelInv' /\ DiagInv'
  BY <1>1 DEF IInv, LevelInv, DiagInv, PassedFor, Settled
<1> QED BY <1>1, <1>3, <1>4, <1>5, <1>6, <1>7 DEF IInv

LEMMA ApplyGenerativeKeeps == IInv /\ ApplyGenerative => IInv'
<1> SUFFICES ASSUME IInv, ApplyGenerative PROVE IInv'
  OBVIOUS
<1>1. phase = "apply" /\ phase' = "seeds"
      /\ UNCHANGED <<mod, todo, case, failures, checked, outcomes, downgrades>>
  BY DEF ApplyGenerative, caseVars
<1>2. TypeOK'
  BY <1>1 DEF IInv, TypeOK, ApplyGenerative, Levels
<1>3. CaseInv' /\ OnceInv' /\ OutcomeInv'
  BY <1>1 DEF IInv, CaseInv, OnceInv, OutcomeInv
<1>4. \A c \in Clause(mod) : levels'[c] \in {"generative", "bounded"} => PassedFor(c[1])
  BY <1>1 DEF IInv, LevelInv, ApplyGenerative, PassedFor
<1>5. LevelInv'
  BY <1>1, <1>4 DEF LevelInv, PassedFor
<1>6. ASSUME NEW d \in diags', d.code = "E4005", NEW c \in EnsuresOf(mod, d.fn)
      PROVE  levels'[c] # "generative"
  <2>1. PICK o \in outcomes : o.counterexample # {} /\ d.fn = o.fn
    BY <1>1, <1>6 DEF IInv, DiagInv, ApplyGenerative, Diag
  <2>2. \A q \in outcomes : q.fn = o.fn => ~q.passed
    BY <2>1 DEF IInv, OnceInv
  <2>3. c \in Clause(mod) /\ c[1] = o.fn
    BY <1>6, <2>1 DEF EnsuresOf
  <2>4. ~PassedFor(c[1])
    BY <2>2, <2>3 DEF PassedFor
  <2> QED BY <1>4, <2>3, <2>4
<1>7. DiagInv'
  BY <1>1, <1>6 DEF DiagInv, Settled
<1> QED BY <1>1, <1>2, <1>3, <1>5, <1>7 DEF IInv

LEMMA ValidateSeedKeeps == IInv /\ ValidateSeed => IInv'
<1> SUFFICES ASSUME IInv, ValidateSeed PROVE IInv'
  OBVIOUS
<1> DEFINE f == Head(seeds).fn
           x == Head(seeds).input
           res == EvalFunc(mod, f, x)
           broken == { i \in DOMAIN mod[f].ensures :
                         Ensure(mod, f, i, x, res) \in {"false", "precondition"} }
<1>1. phase = "seeds"
      /\ UNCHANGED <<mod, phase, todo, case, failures, checked, outcomes, levels>>
  BY DEF ValidateSeed, caseVars
<1>2. \/ downgrades' = downgrades
      \/ downgrades' = downgrades \cup EnsuresOf(mod, f)
      \/ downgrades' = downgrades \cup UNION { SameText(mod, f, i) : i \in broken }
  BY DEF ValidateSeed
<1>3. downgrades \subseteq downgrades' /\ downgrades' \subseteq Clause(mod)
  BY <1>2 DEF IInv, TypeOK, SameText, EnsuresOf
<1>4. TypeOK'
  BY <1>1, <1>3 DEF IInv, TypeOK
<1>5. CaseInv' /\ OnceInv' /\ OutcomeInv' /\ LevelInv'
  BY <1>1 DEF IInv, CaseInv, OnceInv, OutcomeInv, LevelInv, PassedFor
<1>6. ASSUME NEW d \in diags', d.code = "E4005", d \notin diags
      PROVE  /\ f \in Func /\ d.fn = f
             /\ \/ d.clause = 0 /\ EnsuresOf(mod, f) \subseteq downgrades'
                \/ /\ d.clause \in broken
                   /\ UNION { SameText(mod, f, i) : i \in broken } \subseteq downgrades'
  <2>1. ASSUME NEW I, NEW e \in SeedErrors("E4005", f, x, I)
        PROVE  e.fn = f /\ e.clause \in I
    BY <2>1 DEF SeedErrors, Diag
  <2>2. \A I : \A e \in SeedErrors("E4007", f, x, I) : e.code = "E4007"
    BY DEF SeedErrors, Diag
  <2>3. d \notin SeedErrors("E4007", f, x, {0})
    BY <1>6, <2>2, SMTT(30)
  <2>4. f \in Func
    BY <1>6, <2>3, SMTT(30) DEF ValidateSeed
  <2>5. \/ /\ d \in SeedErrors("E4005", f, x, {0})
           /\ downgrades' = downgrades \cup EnsuresOf(mod, f)
        \/ /\ d \in SeedErrors("E4005", f, x, broken)
           /\ downgrades' = downgrades \cup UNION { SameText(mod, f, i) : i \in broken }
    <3>1. \A I : d \notin SeedErrors("E4007", f, x, I)
      BY <1>6, <2>2
    <3>2. \A P : d \notin IF P THEN SeedErrors("E4007", f, x, {0}) ELSE {}
      BY <3>1
    <3> QED BY <1>6, <3>1, <3>2 DEF ValidateSeed
  <2> HIDE DEF f, x, res, broken
  <2> QED BY <2>1, <2>4, <2>5
<1>7. ASSUME NEW d \in diags', d.code = "E4005"
      PROVE  \A c \in EnsuresOf(mod, d.fn) :
                d.clause \in {0, c[3]} => levels[c] # "generative" \/ c \in downgrades'
  <2>1. CASE d \in diags
    BY <1>1, <1>3, <1>7, <2>1 DEF IInv, DiagInv, Settled
  <2>2. CASE d \notin diags
    <3>1. CASE d.clause = 0 /\ EnsuresOf(mod, f) \subseteq downgrades'
      BY <1>6, <1>7, <2>2, <3>1
    <3>2. ASSUME d.clause \in broken,
                 UNION { SameText(mod, f, i) : i \in broken } \subseteq downgrades',
                 NEW c \in EnsuresOf(mod, f), d.clause \in {0, c[3]}
          PROVE  c \in downgrades'
      <4>1. mod[f].ensures \in Seq(Expr)
        BY <1>6, <1>7, <2>2 DEF IInv, TypeOK, IsFunction
      <4>2. d.clause \in 1..Len(mod[f].ensures)
        BY <3>2, <4>1
      <4>3. d.clause = c[3] /\ c[1] = f /\ c[2] = "ensures"
        BY <3>2, <4>2 DEF EnsuresOf
      <4>4. c \in SameText(mod, f, d.clause)
        BY <3>2, <4>3 DEF SameText, ExprOf
      <4> QED BY <3>2, <4>4
    <3> QED BY <1>6, <1>7, <2>2, <3>1, <3>2
  <2> QED BY <2>1, <2>2
<1>8. DiagInv'
  BY <1>1, <1>7 DEF DiagInv, Settled
<1> QED BY <1>1, <1>4, <1>5, <1>8 DEF IInv

LEMMA DemoteKeeps == IInv /\ Demote => IInv'
<1> SUFFICES ASSUME IInv, Demote PROVE IInv'
  OBVIOUS
<1>1. phase = "demote" /\ phase' = "done"
      /\ UNCHANGED <<mod, todo, case, failures, checked, outcomes, diags, downgrades>>
  BY DEF Demote, caseVars
<1>2. TypeOK'
  BY <1>1 DEF IInv, TypeOK, Demote, Levels
<1>3. CaseInv' /\ OnceInv' /\ OutcomeInv'
  BY <1>1 DEF IInv, CaseInv, OnceInv, OutcomeInv
<1>4. \A c \in Clause(mod) :
        /\ levels'[c] \in {levels[c], "runtime"}
        /\ levels'[c] = "generative" => levels[c] = "generative" /\ c \notin downgrades
  BY DEF Demote
<1>5. LevelInv'
  <2>1. ASSUME NEW c \in Clause(mod), levels'[c] \in {"generative", "bounded"}
        PROVE  PassedFor(c[1])
    <3>1. levels[c] \in {"generative", "bounded"}
      BY <1>4, <2>1
    <3> QED BY <3>1 DEF IInv, LevelInv
  <2> QED BY <1>1, <2>1 DEF LevelInv, PassedFor
<1>6. \A f : \A c \in EnsuresOf(mod, f) : c \in Clause(mod)
  BY DEF EnsuresOf
<1>7. DiagInv'
  <2>1. ASSUME NEW d \in diags, d.code = "E4005",
               NEW c \in EnsuresOf(mod, d.fn), d.clause \in {0, c[3]}
        PROVE  levels'[c] # "generative"
    <3>1. levels[c] # "generative" \/ c \in downgrades
      BY <1>1, <2>1 DEF IInv, DiagInv, Settled
    <3>2. c \in Clause(mod)
      BY <1>6, <2>1
    <3> QED BY <1>4, <3>1, <3>2
  <2> QED BY <1>1, <2>1 DEF DiagInv, Settled
<1> QED BY <1>1, <1>2, <1>3, <1>5, <1>7 DEF IInv

\* Steps that only move `phase` to a stage about which IInv asks less, or that
\* change nothing.
LEMMA OthersKeep ==
    IInv /\ (CrashInCase \/ AllRun \/ CrashInSeed \/ SeedsDone \/ UNCHANGED vars) => IInv'
<1> SUFFICES ASSUME IInv, CrashInCase \/ AllRun \/ CrashInSeed \/ SeedsDone \/ UNCHANGED vars
             PROVE  IInv'
  OBVIOUS
<1>1. /\ UNCHANGED <<mod, todo, case, failures, checked, outcomes, levels, diags, downgrades>>
      /\ \/ phase' = phase
         \/ phase' = "crashed"
         \/ phase = "generate" /\ phase' = "apply"
         \/ phase = "seeds" /\ phase' = "demote"
  BY DEF CrashInCase, AllRun, CrashInSeed, SeedsDone, vars, caseVars
<1>2. TypeOK'
  BY <1>1 DEF IInv, TypeOK
<1>3. CaseInv' /\ OnceInv' /\ OutcomeInv'
  BY <1>1 DEF IInv, CaseInv, OnceInv, OutcomeInv
<1>4. LevelInv' /\ DiagInv'
  BY <1>1 DEF IInv, LevelInv, DiagInv, PassedFor, Settled
<1> QED BY <1>1, <1>2, <1>3, <1>4 DEF IInv
-----------------------------------------------------------------------------
\* The invariant of `kei check --generative`: what every stage of run_module,
\* apply_generative and check_seeds may rely on.
THEOREM Invariance == Spec => []IInv
<1>1. IInv /\ [Next]_vars => IInv'
  BY StaticCheckKeeps, StartFunctionKeeps, RunCaseKeeps, FinishFunctionKeeps,
     ApplyGenerativeKeeps, ValidateSeedKeeps, DemoteKeeps, OthersKeep DEF Next
<1> QED BY InitKeeps, <1>1, PTL DEF Spec

\* The state of the checker has its types: in particular the loop over the
\* cases never runs past the sample and counts no case twice.
THEOREM TypeCorrect == Spec => []TypeOK
<1>1. IInv => TypeOK
  BY DEF IInv
<1> QED BY <1>1, Invariance, PTL

\* No report has both a clause at level generative and a counterexample of it,
\* generated or seeded, whatever the module and the seeds are.
THEOREM NoFalseGenerative == Spec => []NoGenerativeWithCounterexample
<1>1. IInv => NoGenerativeWithCounterexample
  BY DEF IInv, DiagInv, Settled, NoGenerativeWithCounterexample
<1> QED BY <1>1, Invariance, PTL

\* A clause at level generative or bounded belongs to a function that was run
\* on every generated input its requires accept, with every ensures true,
\* however expressions are evaluated and whatever the seeds do afterwards.
THEOREM RaisedSoundness == Spec => []RaisedMeansAllHold
<1>1. IInv => RaisedMeansAllHold
  BY SampleAssumption DEF IInv, LevelInv, OutcomeInv, PassedFor, RaisedMeansAllHold
<1> QED BY <1>1, Invariance, PTL

\* Levels move only along the transitions the stages are for.
THEOREM LevelDiscipline == Spec => LevelsMove
<1>1. ASSUME IInv, [Next]_vars, NEW c \in Clause(mod), levels'[c] # levels[c]
      PROVE  \/ phase = "static" /\ levels'[c] = "static"
             \/ /\ phase = "apply" /\ levels[c] = "runtime" /\ c[2] = "ensures"
                /\ \E o \in outcomes : o.fn = c[1] /\ o.passed
             \/ phase = "demote" /\ levels[c] = "generative" /\ levels'[c] = "runtime"
  <2>1. CASE StaticCheck
    BY <1>1, <2>1 DEF StaticCheck, IInv, LevelInv
  <2>2. CASE ApplyGenerative
    BY <1>1, <2>2 DEF ApplyGenerative
  <2>3. CASE Demote
    BY <1>1, <2>3 DEF Demote
  <2>4. CASE StartFunction \/ RunCase \/ CrashInCase \/ FinishFunction \/ AllRun
             \/ ValidateSeed \/ CrashInSeed \/ SeedsDone \/ UNCHANGED vars
    <3>1. levels' = levels
      BY <2>4 DEF StartFunction, RunCase, CrashInCase, FinishFunction, AllRun,
                  ValidateSeed, CrashInSeed, SeedsDone, vars
    <3> QED BY <1>1, <3>1
  <2> QED BY <1>1, <2>1, <2>2, <2>3, <2>4 DEF Next
<1>2. IInv /\ [Next]_vars =>
        [\A c \in Clause(mod) :
          levels'[c] # levels[c] =>
              \/ phase = "static" /\ levels'[c] = "static"
              \/ /\ phase = "apply" /\ levels[c] = "runtime" /\ c[2] = "ensures"
                 /\ \E o \in outcomes : o.fn = c[1] /\ o.passed
              \/ phase = "demote" /\ levels[c] = "generative" /\ levels'[c] = "runtime"]_vars
  BY <1>1
<1> QED BY <1>2, Invariance, PTL DEF Spec, LevelsMove

-----------------------------------------------------------------------------
(***************************************************************************)
(* The counterexamples.  LeastInv adds to IInv that `failures` holds       *)
(* exactly what the inputs run so far break, and that an outcome carries   *)
(* the least of them.                                                      *)
(***************************************************************************)
FailureInv ==
    case > 0 =>
       /\ \A v \in failures : /\ v.at \in 1..(case - 1)
                              /\ v.clause \in Breaks(mod, Head(todo), Samples[v.at])
       /\ \A i \in 1..(case - 1) : \A c \in Breaks(mod, Head(todo), Samples[i]) :
             [at |-> i, clause |-> c] \in failures

\* What a generated counterexample of f is.
Exact(m, f, x, c) ==
    \E i \in DOMAIN Samples : /\ x = Samples[i] /\ IsLeastBreaking(m, f, i)
                              /\ c \in Breaks(m, f, x)
                              /\ \A b \in Breaks(m, f, x) : c <= b

ExactSeed(m, f, x, c) ==
    /\ c \in SeedBreaks(m, f, x)
    /\ \A i \in DOMAIN m[f].requires : EvalClause(m, m[f].requires[i], x, "none") # "false"

OutcomeLeast == \A o \in outcomes : \A ce \in o.counterexample :
                   Exact(mod, o.fn, ce.input, ce.clause)

DiagLeast == \A d \in diags : d.code = "E4005" =>
                \/ d.by = "generated" /\ Exact(mod, d.fn, d.input, d.clause)
                \/ d.by = "seed" /\ ExactSeed(mod, d.fn, d.input, d.clause)

LeastInv == FailureInv /\ OutcomeLeast /\ DiagLeast

\* Clauses are numbered from 1, and 0 stands for the call.
LEMMA BreaksNat ==
    ASSUME TypeOK, NEW f \in Func, NEW x
    PROVE  Breaks(mod, f, x) \subseteq Nat
<1>1. mod[f].ensures \in Seq(Expr)
  BY DEF TypeOK, IsFunction
<1>2. DOMAIN mod[f].ensures \subseteq Nat
  BY <1>1
<1> QED BY <1>2 DEF Breaks, Broken, BrokenEnsures


\* A set of numbers that is not empty has a least one.
LEMMA NatLeast ==
    ASSUME NEW S \in SUBSET Nat, S # {}
    PROVE  \E m \in S : \A k \in S : m <= k
<1> DEFINE R == { ss \in Nat \X Nat : ss[1] < ss[2] }
<1>1. IsWellFoundedOn(R, Nat)
  BY NatLessThanWellFounded DEF OpToRel
<1> HIDE DEF R
<1>2. PICK x \in S : \A y \in S : ~(<<y, x>> \in R)
  BY <1>1, WFMin
<1>3. \A y \in S : ~(y < x)
  BY <1>2 DEF R
<1> QED BY <1>3

\* Of a set of indices one has the least value: the one below which the fewest are.
LEMMA LeastValue ==
    ASSUME NEW n \in Nat, NEW w \in [1..n -> Int], NEW I \in SUBSET (1..n), I # {}
    PROVE  \E i \in I : \A j \in I : w[i] <= w[j]
<1> DEFINE Below(i) == { j \in I : w[j] < w[i] }
           Counts == { Cardinality(Below(i)) : i \in I }
<1>1. IsFiniteSet(I)
  BY FS_Interval, FS_Subset, n \in Int, 1 \in Int
<1>2. \A i \in I : IsFiniteSet(Below(i)) /\ Cardinality(Below(i)) \in Nat
  <2>1. \A i \in I : Below(i) \in SUBSET I
    OBVIOUS
  <2> HIDE DEF Below
  <2> QED BY <1>1, <2>1, FS_Subset, FS_CardinalityType
<1>3. PICK m \in Counts : \A k \in Counts : m <= k
  <2>1. Counts \in SUBSET Nat /\ Counts # {}
    BY <1>2
  <2> HIDE DEF Counts
  <2> QED BY <2>1, NatLeast
<1>4. PICK i \in I : m = Cardinality(Below(i))
  OBVIOUS
<1>5. ASSUME NEW j \in I, ~(w[i] <= w[j]) PROVE FALSE
  <2>1. w[i] \in Int /\ w[j] \in Int /\ w[j] < w[i]
    BY <1>5
  <2>2. j \in Below(i) /\ j \notin Below(j)
    BY <2>1
  <2>3. Below(j) \in SUBSET Below(i)
    <3>1. ASSUME NEW k \in Below(j) PROVE k \in Below(i)
      <4>1. k \in I /\ w[k] \in Int /\ w[k] < w[j]
        OBVIOUS
      <4> QED BY <2>1, <4>1
    <3> QED BY <3>1
  <2>4. Cardinality(Below(i)) <= Cardinality(Below(j))
    BY <1>3, <1>4
  <2> HIDE DEF Below
  <2>5. Cardinality(Below(j)) = Cardinality(Below(i))
    BY <1>2, <2>3, <2>4, FS_Subset
  <2> QED BY <1>2, <2>2, <2>3, <2>5, FS_Subset
<1> QED BY <1>2, <1>5

\* What run_function reports is the first of the smallest failing inputs, with
\* the first clause that fails on it, once all the inputs have been run.
LEMMA SmallestExact ==
    ASSUME IInv, FailureInv, todo # <<>>, case = Len(Samples) + 1, failures # {}
    PROVE  Exact(mod, Head(todo), Samples[Smallest.at], Smallest.clause)
<1> DEFINE n == Len(Samples)
           f == Head(todo)
           size == [i \in 1..n |-> Size(Samples[i])]
           I == { v.at : v \in failures }
           B(i) == Breaks(mod, f, Samples[i])
           First(v) == \A u \in failures :
                         \/ Size(Samples[v.at]) < Size(Samples[u.at])
                         \/ Size(Samples[v.at]) = Size(Samples[u.at]) /\ Earlier(v, u)
<1>1. n \in Nat /\ case > 0 /\ 1..(case - 1) = 1..n /\ DOMAIN Samples = 1..n
  BY SampleAssumption
<1>2. /\ \A v \in failures : v.at \in 1..n /\ v.clause \in B(v.at)
      /\ \A i \in 1..n : \A c \in B(i) : [at |-> i, clause |-> c] \in failures
  BY <1>1 DEF FailureInv
<1>3. size \in [1..n -> Int] /\ \A i \in 1..n : size[i] = Size(Samples[i])
  BY <1>1, SizeAssumption
<1>4. f \in Func /\ \A i \in 1..n : B(i) \subseteq Nat
  BY TodoTail, BreaksNat DEF IInv
<1>5. I \in SUBSET (1..n) /\ I # {}
  BY <1>2
<1> HIDE DEF n, f, size, I, B
<1>6. PICK i \in I : \A j \in I : size[i] <= size[j]
  BY <1>1, <1>3, <1>5, LeastValue
<1>7. PICK k \in I : size[k] = size[i] /\ \A j \in I : size[j] = size[i] => k <= j
  <2> DEFINE J == { j \in I : size[j] = size[i] }
  <2>1. J \in SUBSET Nat /\ J # {}
    <3>1. J \subseteq I /\ i \in J
      OBVIOUS
    <3>2. I \subseteq Nat
      BY <1>5
    <3> QED BY <3>1, <3>2
  <2>2. PICK k \in J : \A j \in J : k <= j
    <3> HIDE DEF J
    <3> QED BY <2>1, NatLeast
  <2> QED BY <2>2
<1>8. B(k) \in SUBSET Nat /\ B(k) # {}
  <2>1. PICK v \in failures : v.at = k
    BY DEF I
  <2> QED BY <1>2, <1>4, <1>5, <2>1
<1>9. PICK c \in B(k) : \A b \in B(k) : c <= b
  BY <1>8, NatLeast
<1>10. [at |-> k, clause |-> c] \in failures /\ First([at |-> k, clause |-> c])
  <2>1. [at |-> k, clause |-> c] \in failures
    BY <1>2, <1>5
  <2>2. ASSUME NEW u \in failures
        PROVE  \/ Size(Samples[k]) < Size(Samples[u.at])
               \/ /\ Size(Samples[k]) = Size(Samples[u.at])
                  /\ k < u.at \/ (k = u.at /\ c <= u.clause)
    <3>1. u.at \in I /\ u.at \in 1..n /\ u.clause \in B(u.at)
      BY <1>2 DEF I
    <3>2. k \in 1..n /\ i \in 1..n /\ size[k] <= size[u.at]
      BY <1>5, <1>6, <1>7, <3>1
    <3>3. size[k] \in Int /\ size[u.at] \in Int
      BY <1>3, <3>1, <3>2
    <3>4. CASE size[k] < size[u.at]
      BY <1>3, <3>1, <3>2, <3>4
    <3>5. CASE size[k] = size[u.at]
      <4>1. k <= u.at
        BY <1>7, <3>1, <3>5
      <4>2. k = u.at => c <= u.clause
        BY <1>9, <3>1
      <4> QED BY <1>3, <3>1, <3>2, <3>5, <4>1, <4>2
    <3> QED BY <3>2, <3>3, <3>4, <3>5
  <2> QED BY <2>1, <2>2 DEF Earlier
<1>11. Smallest \in failures /\ First(Smallest)
  BY <1>10 DEF Smallest
<1> DEFINE s == Smallest
<1>12. s \in failures /\ First(s)
  BY <1>11
<1> HIDE DEF s
<1>13. s.at \in 1..n /\ s.clause \in B(s.at) /\ s.clause \in Nat
  BY <1>2, <1>4, <1>12
<1>14. IsLeastBreaking(mod, f, s.at)
  <2> SUFFICES ASSUME NEW j \in 1..n, B(j) # {}
               PROVE  \/ Size(Samples[s.at]) < Size(Samples[j])
                      \/ Size(Samples[s.at]) = Size(Samples[j]) /\ s.at <= j
    BY <1>1 DEF IsLeastBreaking, B
  <2>1. PICK b \in B(j) : [at |-> j, clause |-> b] \in failures
    BY <1>2
  <2> DEFINE u == [at |-> j, clause |-> b]
  <2>2. u.at = j /\ u \in failures
    BY <2>1
  <2> HIDE DEF u
  <2> QED BY <1>12, <1>13, <2>2 DEF Earlier
<1>15. ASSUME NEW b \in B(s.at) PROVE s.clause <= b
  <2> DEFINE u == [at |-> s.at, clause |-> b]
  <2>1. u.at = s.at /\ u.clause = b /\ u \in failures
    BY <1>2, <1>13
  <2>2. Size(Samples[s.at]) \in Int
    BY <1>3, <1>13
  <2> HIDE DEF u
  <2> QED BY <1>12, <1>13, <2>1, <2>2 DEF Earlier
<1>16. Exact(mod, f, Samples[s.at], s.clause)
  BY <1>1, <1>13, <1>14, <1>15 DEF Exact, B
<1> QED BY <1>16 DEF s, f

-----------------------------------------------------------------------------
\* A step that runs no case keeps what is known of the failures.
LEMMA LeastInit == Init => LeastInv
<1> SUFFICES ASSUME Init PROVE LeastInv
  OBVIOUS
<1> QED BY DEF Init, LeastInv, FailureInv, OutcomeLeast, DiagLeast

\* A given-up function, and a case that goes on with new failures.
LEMMA LeastGiveUp ==
    ASSUME LeastInv, GiveUp, UNCHANGED <<mod, outcomes, diags>>
    PROVE  LeastInv'
<1>1. FailureInv'
  BY DEF GiveUp, FailureInv
<1>2. OutcomeLeast' /\ DiagLeast'
  BY DEF LeastInv, OutcomeLeast, DiagLeast
<1> QED BY <1>1, <1>2 DEF LeastInv

LEMMA LeastNextCase ==
    ASSUME LeastInv, case \in 1..Len(Samples), case' = case + 1,
           failures' = failures \cup Failed(Breaks(mod, Head(todo), Samples[case])),
           UNCHANGED <<mod, todo, outcomes, diags>>
    PROVE  LeastInv'
<1> DEFINE B(i) == Breaks(mod, Head(todo), Samples[i])
<1>1. case \in Nat /\ case > 0 /\ 1..(case' - 1) = 1..(case - 1) \cup {case}
  BY SampleAssumption
<1>2. /\ \A v \in failures : v.at \in 1..(case - 1) /\ v.clause \in B(v.at)
      /\ \A i \in 1..(case - 1) : \A c \in B(i) : [at |-> i, clause |-> c] \in failures
  BY <1>1 DEF LeastInv, FailureInv
<1>3. failures' = failures \cup { [at |-> case, clause |-> c] : c \in B(case) }
  BY DEF Failed
<1> HIDE DEF B
<1>4. ASSUME NEW v \in failures' PROVE v.at \in 1..(case' - 1) /\ v.clause \in B(v.at)
  BY <1>1, <1>2, <1>3
<1>5. ASSUME NEW i \in 1..(case' - 1), NEW c \in B(i)
      PROVE  [at |-> i, clause |-> c] \in failures'
  BY <1>1, <1>2, <1>3
<1>6. FailureInv'
  BY <1>4, <1>5 DEF FailureInv, B
<1>7. OutcomeLeast' /\ DiagLeast'
  BY DEF LeastInv, OutcomeLeast, DiagLeast
<1> QED BY <1>6, <1>7 DEF LeastInv

LEMMA LeastRunCase == IInv /\ LeastInv /\ RunCase => LeastInv'
<1> SUFFICES ASSUME IInv, LeastInv, RunCase PROVE LeastInv'
  OBVIOUS
<1> DEFINE f   == Head(todo)
           x   == Samples[case]
           pre == AllHold(mod, f, x)
           res == EvalFunc(mod, f, x)
<1>1. case \in 1..Len(Samples) /\ UNCHANGED <<mod, outcomes, diags>>
  BY DEF RunCase
<1>2. CASE GiveUp
  BY <1>1, <1>2, LeastGiveUp
<1>3. ASSUME Skip, pre # "true" \/ res = "trap" PROVE LeastInv'
  <2>1. Failed(Breaks(mod, f, x)) = {}
    BY <1>3 DEF Breaks, Failed
  <2> QED BY <1>1, <1>3, <2>1, LeastNextCase DEF Skip
<1>4. ASSUME pre = "true", res # "trap", case' = case + 1, UNCHANGED todo,
             failures' = failures \cup Failed(Broken(mod, f, x, res))
      PROVE  LeastInv'
  <2>1. Breaks(mod, f, x) = Broken(mod, f, x, res)
    BY <1>4 DEF Breaks
  <2> QED BY <1>1, <1>4, <2>1, LeastNextCase
<1> QED BY <1>2, <1>3, <1>4 DEF RunCase

LEMMA LeastFinishFunction == IInv /\ LeastInv /\ FinishFunction => LeastInv'
<1> SUFFICES ASSUME IInv, LeastInv, FinishFunction PROVE LeastInv'
  OBVIOUS
<1> DEFINE o == Reported(Smallest)
<1>1. /\ case = Len(Samples) + 1 /\ case > 0 /\ todo # <<>> /\ GiveUp
      /\ outcomes' \in {outcomes, outcomes \cup {o}} /\ UNCHANGED <<mod, diags>>
  BY SampleAssumption DEF FinishFunction, IInv, TypeOK
<1>2. ASSUME NEW ce \in o.counterexample PROVE Exact(mod, o.fn, ce.input, ce.clause)
  <2>1. /\ failures # {} /\ o.fn = Head(todo)
        /\ ce.input = Samples[Smallest.at] /\ ce.clause = Smallest.clause
    BY <1>2 DEF Reported
  <2> HIDE DEF o
  <2> QED BY <1>1, <2>1, SmallestExact DEF LeastInv
<1> HIDE DEF o
<1>3. OutcomeLeast'
  BY <1>1, <1>2 DEF LeastInv, OutcomeLeast
<1>4. FailureInv' /\ DiagLeast'
  BY <1>1 DEF GiveUp, LeastInv, FailureInv, DiagLeast
<1> QED BY <1>3, <1>4 DEF LeastInv

LEMMA LeastApplyGenerative == LeastInv /\ ApplyGenerative => LeastInv'
<1> SUFFICES ASSUME LeastInv, ApplyGenerative PROVE LeastInv'
  OBVIOUS
<1>1. UNCHANGED <<mod, todo, case, failures, outcomes>>
  BY DEF ApplyGenerative, caseVars
<1>2. ASSUME NEW d \in diags', d \notin diags
      PROVE  d.by = "generated" /\ Exact(mod, d.fn, d.input, d.clause)
  <2>1. PICK o \in outcomes : \E ce \in o.counterexample :
                                 d = Diag("E4005", "generated", o.fn, ce.clause, ce.input)
    BY <1>2 DEF ApplyGenerative
  <2> QED BY <2>1 DEF LeastInv, OutcomeLeast, Diag
<1>3. DiagLeast'
  BY <1>1, <1>2 DEF LeastInv, DiagLeast
<1>4. FailureInv' /\ OutcomeLeast'
  BY <1>1 DEF LeastInv, FailureInv, OutcomeLeast
<1> QED BY <1>3, <1>4 DEF LeastInv

LEMMA LeastValidateSeed == LeastInv /\ ValidateSeed => LeastInv'
<1> SUFFICES ASSUME LeastInv, ValidateSeed PROVE LeastInv'
  OBVIOUS
<1> DEFINE f == Head(seeds).fn
           x == Head(seeds).input
           res == EvalFunc(mod, f, x)
           rejecting == { i \in DOMAIN mod[f].requires :
                            EvalClause(mod, mod[f].requires[i], x, "none") = "false" }
           broken == { i \in DOMAIN mod[f].ensures :
                         Ensure(mod, f, i, x, res) \in {"false", "precondition"} }
<1>1. UNCHANGED <<mod, todo, case, failures, outcomes>>
  BY DEF ValidateSeed, caseVars
<1>2. ASSUME NEW d \in diags', d.code = "E4005", d \notin diags
      PROVE  d.by = "seed" /\ ExactSeed(mod, d.fn, d.input, d.clause)
  <2>1. ASSUME NEW K, NEW e \in SeedErrors("E4005", f, x, K)
        PROVE  e.by = "seed" /\ e.fn = f /\ e.input = x /\ e.clause \in K
    BY <2>1 DEF SeedErrors, Diag
  <2>2. \A K : d \notin SeedErrors("E4007", f, x, K)
    BY <1>2, SMTT(30) DEF SeedErrors, Diag
  <2>3. \A P : d \notin IF P THEN SeedErrors("E4007", f, x, {0}) ELSE {}
    BY <2>2
  <2>4. /\ rejecting = {}
        /\ \/ res = "precondition" /\ d \in SeedErrors("E4005", f, x, {0})
           \/ res # "precondition" /\ d \in SeedErrors("E4005", f, x, broken)
    BY <1>2, <2>2, <2>3 DEF ValidateSeed
  <2>5. \A i \in DOMAIN mod[f].requires :
           EvalClause(mod, mod[f].requires[i], x, "none") # "false"
    BY <2>4
  <2>6. SeedBreaks(mod, f, x) = IF res = "precondition" THEN {0} ELSE broken
    BY DEF SeedBreaks
  <2> HIDE DEF f, x, res, broken
  <2>7. d.by = "seed" /\ d.fn = f /\ d.input = x /\ d.clause \in SeedBreaks(mod, f, x)
    BY <2>1, <2>4, <2>6
  <2> QED BY <2>5, <2>7 DEF ExactSeed
<1>3. DiagLeast'
  BY <1>1, <1>2 DEF LeastInv, DiagLeast
<1>4. FailureInv' /\ OutcomeLeast'
  BY <1>1 DEF LeastInv, FailureInv, OutcomeLeast
<1> QED BY <1>3, <1>4 DEF LeastInv

LEMMA LeastOthers ==
    ASSUME IInv, LeastInv,
           \/ StaticCheck \/ StartFunction \/ CrashInCase \/ AllRun \/ CrashInSeed
           \/ SeedsDone \/ Demote \/ UNCHANGED vars
    PROVE  LeastInv'
<1>1. mod' = mod /\ outcomes' = outcomes
  BY DEF StaticCheck, StartFunction, CrashInCase, AllRun, CrashInSeed, SeedsDone, Demote, vars
<1>2. FailureInv'
  <2>1. CASE UNCHANGED <<todo, caseVars>>
    BY <1>1, <2>1 DEF LeastInv, FailureInv, caseVars
  <2>2. CASE StartFunction
    <3>1. CASE case' = 1 /\ failures' = {}
      BY <3>1 DEF FailureInv
    <3>2. CASE case' = 0
      BY <3>2 DEF FailureInv
    <3>3. case = 0 /\ (UNCHANGED caseVars => case' = 0)
      BY <2>2 DEF StartFunction, caseVars
    <3> QED BY <2>2, <3>1, <3>2, <3>3 DEF StartFunction
  <2> QED BY <2>1, <2>2
       DEF StaticCheck, CrashInCase, AllRun, CrashInSeed, SeedsDone, Demote, vars, caseVars
<1>3. DiagLeast'
  <2>1. CASE diags' = diags
    BY <1>1, <2>1 DEF LeastInv, DiagLeast
  <2>2. CASE StaticCheck
    <3>1. \A d \in diags' : d.code = "E4003"
      BY <2>2 DEF StaticCheck, Diag
    <3> QED BY <3>1 DEF DiagLeast
  <2> QED BY <2>1, <2>2
       DEF StartFunction, CrashInCase, AllRun, CrashInSeed, SeedsDone, Demote, vars
<1>4. OutcomeLeast'
  BY <1>1 DEF LeastInv, OutcomeLeast
<1> QED BY <1>2, <1>3, <1>4 DEF LeastInv

\* Every counterexample that is reported breaks the clause it is reported for
\* and, if it was generated, is the first of the smallest inputs that fail: what
\* run_function and validate_seed put into the diagnostics is exact for every
\* module, sequence of inputs and evaluator, seeds included.
THEOREM ExactCounterexamples == Spec => []CounterexamplesExact
<1>1. IInv /\ LeastInv /\ [Next]_vars => LeastInv'
  BY LeastRunCase, LeastFinishFunction, LeastApplyGenerative, LeastValidateSeed,
     LeastOthers DEF Next
<1>2. LeastInv => CounterexamplesExact
  BY DEF LeastInv, DiagLeast, Exact, ExactSeed, CounterexamplesExact
<1> QED BY LeastInit, Invariance, <1>1, <1>2, PTL DEF Spec
=============================================================================
