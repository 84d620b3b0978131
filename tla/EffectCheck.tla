---------------------------- MODULE EffectCheck ------------------------------
(***************************************************************************)
(* The effect checker of kei_check (Env::build, FnChecker::check and the   *)
(* call rules) followed by the run of the program it accepts.              *)
(*                                                                         *)
(* A module under check is a record: the `uses` clause of every function   *)
(* as written, the extern signatures, and the call expressions ("sites")   *)
(* of every function.  A site is seen by the checker in a mode (requires,  *)
(* ensures or body) and possibly inside a combinator lambda.  When no      *)
(* diagnostic is left the module is emitted and runs: a stack of           *)
(* activations, each in one of the parts emit_func lays out one after      *)
(* another.  Otherwise the author applies a proposed fix and checks again. *)
(***************************************************************************)
EXTENDS Effects, FiniteSets

CONSTANTS
    Func,       \* names of the functions of the module
    Extern,     \* paths with an extern signature
    Opaque,     \* imported names and namespace members without a signature
    Idle,       \* an activation that is evaluating no call
    Modules,    \* the modules that may be checked
    Strict,     \* CheckOptions::strict_extern
    MaxDepth    \* bound: activations on the stack of a run

How == {"call", "funref", "imported", "namespace"}

Site == [ctx : {"requires", "ensures", "body"}, lambda : BOOLEAN,
         how : {"call"}, callee : Func \cup Extern]
        \cup
        [ctx : {"requires", "ensures", "body"}, lambda : BOOLEAN,
         how : {"funref"}, callee : Func]
        \cup
        [ctx : {"requires", "ensures", "body"}, lambda : BOOLEAN,
         how : {"imported", "namespace"}, callee : Opaque]

KeiModule == [uses  : [Func -> SUBSET EffectPath],
              ext   : [Extern -> [uses : SUBSET EffectPath, query : BOOLEAN]],
              sites : [Func -> SUBSET Site]]

ASSUME NamesAssumption ==
    /\ Func \cap Extern = {} /\ Func \cap Opaque = {} /\ Extern \cap Opaque = {}
    /\ Idle \notin Site
ASSUME ModulesAssumption == Modules \subseteq KeiModule
\* A module is the text of a file.
ASSUME FiniteAssumption == /\ IsFiniteSet(Func)
                           /\ \A m \in Modules : \A f \in Func : IsFiniteSet(m.sites[f])
ASSUME OptionsAssumption == Strict \in BOOLEAN /\ MaxDepth \in Nat

VARIABLES
    mod,        \* the source as it stands
    phase,      \* "build", "check", "rejected" or "running"
    sig,        \* effects of the resolved signatures (env.funcs, env.externs)
    todo,       \* sites not visited yet
    diags,      \* error diagnostics
    warnings,   \* E3004 diagnostics
    stack,      \* activations of the run, outermost first
    performed,  \* {} or {e}: effect the last step performed across an extern
    leaked      \* {} or {e}: effect the last step performed behind an opaque name

vars == <<mod, phase, sig, todo, diags, warnings, stack, performed, leaked>>

checkVars == <<mod, phase, sig, todo, diags, warnings>>

(***************************************************************************)
(* Diagnostics.  `adds` is what the fix asks to declare in the `uses`      *)
(* clause of `in`: its edit inserts it where there is a clause, and its    *)
(* direction says it in words where there is none.  A fix that asks for    *)
(* no declaration has adds = {}.                                           *)
(***************************************************************************)
Codes == {"E3001", "E3002", "E3004", "E3005", "E4001", "E4004"}

Diagnostic == [code : Codes, in : Func \cup Extern, adds : SUBSET StandardEffects]

Diag(code, in, adds) == [code |-> code, in |-> in, adds |-> adds]

AllSites == UNION { {f} \X mod.sites[f] : f \in Func }

\* Mutant: an effect outside the hierarchy is kept in the signature.
KnownAll(clause) == clause

Known(clause) == { e \in clause : IsKnown(e) }

SigOf(m) == [n \in Func \cup Extern |->
                IF n \in Func THEN Known(m.uses[n]) ELSE Known(m.ext[n].uses)]

BuildDiags(m) ==
    { Diag("E3002", f, {}) : f \in { g \in Func : m.uses[g] # Known(m.uses[g]) } }
    \cup { Diag("E3002", x, {}) :
             x \in { y \in Extern : m.ext[y].uses # Known(m.ext[y].uses) } }
    \cup { Diag("E3005", x, {}) :
             x \in { y \in Extern : m.ext[y].query /\ m.ext[y].uses # {} } }

\* Mutant: every call is only compared with the caller's uses clause.
CheckCallEffectsAsBody(f, s, effects) ==
    { Diag("E3001", f, {e}) : e \in { eff \in effects : ~Permits(sig[f], eff) } }

\* check_call_effects: a lambda and a contract each add their own diagnostic,
\* and only a plain body call is compared with the caller's uses clause.
CheckCallEffects(f, s, effects) ==
    (IF s.lambda /\ effects # {} THEN { Diag("E3001", f, {}) } ELSE {})
    \cup (IF s.ctx # "body" /\ effects # {} THEN { Diag("E4001", f, {}) } ELSE {})
    \cup { Diag("E3001", f, {e}) :
             e \in { eff \in effects : ~s.lambda /\ s.ctx = "body" /\ ~Permits(sig[f], eff) } }

\* Mutant: the call rule is skipped inside a combinator lambda.
CallLocalOutsideLambda(f, s) ==
    IF s.lambda THEN {} ELSE CheckCallEffects(f, s, sig[s.callee])

CallLocal(f, s) == CheckCallEffects(f, s, sig[s.callee])

CallExtern(f, s) == IF s.ctx # "body" /\ ~mod.ext[s.callee].query
                    THEN { Diag("E4004", f, {}) }
                    ELSE CheckCallEffects(f, s, sig[s.callee])

\* Mutant: an argument position is not a call, so nothing is checked.
CheckCombinatorFnArgNever(f, s) == {}

\* A function named as a combinator argument hands its effects to the caller.
CheckCombinatorFnArg(f, s) == CheckCallEffects(f, s, sig[s.callee])

SiteDiags(f, s) == IF s.how = "call" /\ s.callee \in Extern THEN CallExtern(f, s)
                   ELSE IF s.how = "call" THEN CallLocal(f, s)
                   ELSE IF s.how = "funref" THEN CheckCombinatorFnArg(f, s)
                   ELSE {}

\* strict_extern looks at namespace members only; a bare imported name is opaque.
SiteWarnings(f, s) == IF Strict /\ s.how = "namespace"
                      THEN { Diag("E3004", f, {}) } ELSE {}

Fixable(d) == d.code = "E3001" /\ d.adds # {}
-----------------------------------------------------------------------------
Init == /\ mod \in Modules
        /\ phase = "build"
        /\ sig = [n \in Func \cup Extern |-> {}]
        /\ todo = {} /\ diags = {} /\ warnings = {}
        /\ stack = <<>> /\ performed = {} /\ leaked = {}

BuildEnv == /\ phase = "build"
            /\ phase' = "check"
            /\ sig' = SigOf(mod)
            /\ diags' = BuildDiags(mod)
            /\ warnings' = {}
            /\ todo' = AllSites
            /\ UNCHANGED <<mod, stack, performed, leaked>>

CheckSite(f, s) == /\ phase = "check"
                   /\ <<f, s>> \in todo
                   /\ todo' = todo \ {<<f, s>>}
                   /\ diags' = diags \cup SiteDiags(f, s)
                   /\ warnings' = warnings \cup SiteWarnings(f, s)
                   /\ UNCHANGED <<mod, phase, sig, stack, performed, leaked>>

\* emit_module refuses a module with any diagnostic.
Finish == /\ phase = "check" /\ todo = {}
          /\ phase' = IF diags = {} THEN "running" ELSE "rejected"
          /\ UNCHANGED <<mod, sig, todo, diags, warnings, stack, performed, leaked>>

\* Mutant: the edit replaces the uses clause instead of extending it.
ApplyFixReplacing(d) == /\ phase = "rejected"
                        /\ d \in diags /\ Fixable(d)
                        /\ mod' = [mod EXCEPT !.uses[d.in] = d.adds]
                        /\ phase' = "build"
                        /\ diags' = {}
                        /\ UNCHANGED <<sig, todo, warnings, stack, performed, leaked>>

\* The author declares the effect that a diagnostic's fix names, by its edit or,
\* in a function without a uses clause, by hand as its direction says, and checks
\* again.
ApplyFix(d) == /\ phase = "rejected"
               /\ d \in diags /\ Fixable(d)
               /\ mod' = [mod EXCEPT !.uses[d.in] = @ \cup d.adds]
               /\ phase' = "build"
               /\ diags' = {}
               /\ UNCHANGED <<sig, todo, warnings, stack, performed, leaked>>
-----------------------------------------------------------------------------
(***************************************************************************)
(* The run.  emit_func puts the requires checks first, then the values     *)
(* captured for old(...), which come from ensures clauses, then the body,  *)
(* then the ensures checks.                                                *)
(***************************************************************************)
Parts == {"requires", "old", "body", "ensures"}

Activation == [fn : Func, at : Parts, site : Site \cup {Idle}]

NextPart(at) == IF at = "requires" THEN "old"
                ELSE IF at = "old" THEN "body" ELSE "ensures"

CtxOf(at) == IF at = "old" THEN "ensures" ELSE at

IsPure(a) == a.at # "body" \/ (a.site # Idle /\ a.site.lambda)

Top == stack[Len(stack)]

Activate(f) == [fn |-> f, at |-> "requires", site |-> Idle]

SetTop(a) == [stack EXCEPT ![Len(stack)] = a]

Quiet == performed' = {} /\ leaked' = {} /\ UNCHANGED checkVars

\* The host calls an exported function.
Enter(f) == /\ phase = "running" /\ stack = <<>>
            /\ stack' = <<Activate(f)>>
            /\ Quiet

Advance == /\ stack # <<>> /\ Top.site = Idle /\ Top.at # "ensures"
           /\ stack' = SetTop([Top EXCEPT !.at = NextPart(@)])
           /\ Quiet

\* Control reaches a call expression of the part being evaluated.
Reach(s) == /\ stack # <<>> /\ Top.site = Idle
            /\ s \in mod.sites[Top.fn] /\ s.ctx = CtxOf(Top.at)
            /\ stack' = SetTop([Top EXCEPT !.site = s])
            /\ Quiet

Invoke == /\ stack # <<>> /\ Top.site # Idle
          /\ Top.site.callee \in Func
          /\ Len(stack) < MaxDepth
          /\ stack' = Append(stack, Activate(Top.site.callee))
          /\ Quiet

\* An extern may perform what its signature declares.
Perform(e) == /\ stack # <<>> /\ Top.site # Idle
              /\ Top.site.callee \in Extern
              /\ Permits(sig[Top.site.callee], e)
              /\ performed' = {e} /\ leaked' = {}
              /\ UNCHANGED <<checkVars, stack>>

\* Nothing is known of what an opaque name does.
Leak(e) == /\ stack # <<>> /\ Top.site # Idle
           /\ Top.site.callee \in Opaque
           /\ leaked' = {e} /\ performed' = {}
           /\ UNCHANGED <<checkVars, stack>>

\* The call expression has its value (a combinator may call several times).
Resume == /\ stack # <<>> /\ Top.site # Idle
          /\ stack' = SetTop([Top EXCEPT !.site = Idle])
          /\ Quiet

Return == /\ stack # <<>> /\ Top.site = Idle /\ Top.at = "ensures"
          /\ stack' = SubSeq(stack, 1, Len(stack) - 1)
          /\ Quiet

\* A requires or ensures check throws KeiContractViolation; Kei catches nothing.
Violate == /\ stack # <<>> /\ Top.at \in {"requires", "ensures"} /\ Top.site = Idle
           /\ stack' = <<>>
           /\ Quiet

Check == BuildEnv \/ Finish \/ (\E x \in todo : CheckSite(x[1], x[2]))

Repair == \E d \in diags : ApplyFix(d)

Run == \/ \E f \in Func : Enter(f)
       \/ Advance \/ Invoke \/ Resume \/ Return \/ Violate
       \/ \E s \in Site : Reach(s)
       \/ \E e \in StandardEffects : Perform(e) \/ Leak(e)

Next == Check \/ Repair \/ Run

Spec == Init /\ [][Next]_vars

\* The checker is a loop over a finite list, and the author repairs until the
\* checker is content.
FairSpec == Spec /\ WF_vars(Check) /\ WF_vars(Repair)
-----------------------------------------------------------------------------
TypeOK == /\ mod \in KeiModule
          /\ phase \in {"build", "check", "rejected", "running"}
          /\ sig \in [Func \cup Extern -> SUBSET StandardEffects]
          /\ todo \subseteq Func \X Site
          /\ diags \subseteq Diagnostic /\ warnings \subseteq Diagnostic
          /\ stack \in Seq(Activation)
          /\ performed \subseteq StandardEffects
          /\ leaked \subseteq StandardEffects

\* Capability safety (spec 3.1, README "uses"): an effect performed across a
\* declared boundary is covered by the uses clause of every activation on the
\* stack, however long the chain of calls, recursion and combinators that led
\* to it.  Violated if a call rule forgets one path or compares the wrong way.
EffectsCovered ==
    \A e \in performed : \A i \in 1..Len(stack) : Permits(sig[stack[i].fn], e)

\* Contracts and lambdas are pure (spec 4, KEI-E4001; spec v0.4 lambdas): no
\* effect is performed while any activation on the stack is in a contract
\* clause or in a combinator lambda.
ContractsPure == performed # {} => \A i \in 1..Len(stack) : ~IsPure(stack[i])

\* The run implements the promise of the effect system: every call narrows what
\* may be done, at the moment it is made, and a performer answers for itself.
\* This is what the call rules (check_call_effects) establish one call at a time;
\* an effect need not be performed for it to be broken.
Abstract == INSTANCE Capabilities WITH
    Effect <- StandardEffects,
    frames <- [i \in 1..Len(stack) |-> [caps |-> sig[stack[i].fn],
                                        pure |-> IsPure(stack[i])]],
    performed <- performed

CapabilitySafety == Abstract!Spec

\* The repair loop the fixes of KEI-E3001 drive ends: after finitely many
\* declarations no such diagnostic comes back, although each of them changes what
\* the callers of the repaired function have to declare.  It is about an author who
\* follows directions as well as edits.
RepairConverges ==
    <>[](phase \in {"rejected", "running"} /\ \A d \in diags : ~Fixable(d))

\* README "an undeclared use is a compile error": an effect behind an imported
\* function is covered by the uses clauses on the stack as well.
ImportedEffectsCovered ==
    \A e \in leaked : Top.site.how = "imported" =>
        \A i \in 1..Len(stack) : Permits(sig[stack[i].fn], e)
=============================================================================
