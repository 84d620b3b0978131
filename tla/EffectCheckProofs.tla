-------------------------- MODULE EffectCheckProofs --------------------------
(***************************************************************************)
(* Capability safety of every accepted module, for any set of functions,   *)
(* externs and call expressions and any stack depth.                       *)
(***************************************************************************)
EXTENDS EffectCheck, SequenceTheorems, FiniteSetTheorems, TLAPS

\* The effects the checker knows are paths with at least one segment.
LEMMA StandardPaths == StandardEffects \subseteq EffectPath
<1>1. ASSUME NEW S, NEW r \in S PROVE <<r>> \in Seq(S) /\ <<r>> # <<>>
  OBVIOUS
<1>2. ASSUME NEW S, NEW r \in S, NEW m \in S
      PROVE  <<r, m>> \in Seq(S) /\ <<r, m>> # <<>>
  OBVIOUS
<1>3. \A r \in Segment : <<r>> \in EffectPath
  BY <1>1, Zenon DEF EffectPath
<1>4. \A r, m \in Segment : <<r, m>> \in EffectPath
  BY <1>2, Zenon DEF EffectPath
<1>5. TopNames \subseteq Segment /\ RwNames \subseteq Segment
      /\ {"Read", "Write"} \subseteq Segment /\ "Audit" \in Segment /\ "Log" \in Segment
  BY SegmentAssumption DEF TopNames, RwNames, LeafNames
<1>6. ASSUME NEW p \in StandardEffects PROVE p \in EffectPath
  <2>1. CASE p \in { <<r>> : r \in TopNames }
    <3>1. PICK r \in TopNames : p = <<r>>
      BY <2>1, Zenon
    <3> QED
      BY <1>3, <1>5, <3>1, Zenon
  <2>2. CASE p \in RwNames \X {"Read", "Write"}
    <3>1. PICK r \in RwNames, m \in {"Read", "Write"} : p = <<r, m>>
      BY <2>2
    <3> QED
      BY <1>4, <1>5, <3>1, Zenon
  <2>3. CASE p \in {"Audit"} \X {"Log"}
    <3>1. p = <<"Audit", "Log">>
      BY <2>3
    <3> QED
      BY <1>4, <1>5, <3>1, Zenon
  <2> QED
    BY <2>1, <2>2, <2>3 DEF StandardEffects
<1> QED
  BY <1>6

\* `covers` is transitive on paths, which is what lets the checker compare a
\* callee with its direct caller only.
LEMMA CoversTransitive ==
    ASSUME NEW a \in EffectPath, NEW b \in EffectPath, NEW c \in EffectPath,
           Covers(a, b), Covers(b, c)
    PROVE  Covers(a, c)
<1>1. a \in Seq(Segment) /\ b \in Seq(Segment) /\ c \in Seq(Segment) /\ Len(a) > 0
  BY DEF EffectPath
<1>2. CASE a = <<"IO">>
  BY <1>2 DEF Covers
<1>3. CASE a = b \/ b = c
  BY <1>3 DEF Covers
<1>4. CASE b = <<"IO">> /\ IsAncestor(a, b)
  <2>1. Len(a) < 1
    BY <1>4 DEF IsAncestor
  <2> QED
    BY <2>1, <1>1
<1>5. CASE IsAncestor(a, b) /\ IsAncestor(b, c)
  <2>1. Len(a) < Len(c)
    BY <1>1, <1>5 DEF IsAncestor
  <2>2. ASSUME NEW i \in 1..Len(a) PROVE c[i] = a[i]
    <3>1. i \in 1..Len(b)
      BY <1>1, <1>5 DEF IsAncestor
    <3> QED
      BY <3>1, <1>5 DEF IsAncestor
  <2> QED
    BY <2>1, <2>2 DEF Covers, IsAncestor
<1> QED
  BY <1>2, <1>3, <1>4, <1>5 DEF Covers

\* A set of capabilities that permits everything another set holds permits
\* everything the other set permits.
LEMMA PermitsTransitive ==
    ASSUME NEW A \in SUBSET StandardEffects, NEW B \in SUBSET StandardEffects,
           \A b \in B : Permits(A, b),
           NEW e \in StandardEffects, Permits(B, e)
    PROVE  Permits(A, e)
<1>1. PICK b \in B : Covers(b, e)
  BY DEF Permits
<1>2. PICK a \in A : Covers(a, b)
  BY DEF Permits
<1>3. Covers(a, e)
  BY <1>1, <1>2, StandardPaths, CoversTransitive
<1> QED
  BY <1>3 DEF Permits
-----------------------------------------------------------------------------
\* What a clean call expression guarantees.
SiteSound(f, s) ==
    /\ s.lambda \/ s.ctx # "body" => sig[s.callee] = {}
    /\ \A e \in sig[s.callee] : Permits(sig[f], e)

\* Every report is about a function, and a fix inserts known effects.
LEMMA SiteDiagsType ==
    ASSUME TypeOK, NEW f \in Func, NEW s \in Site
    PROVE  SiteDiags(f, s) \subseteq Diagnostic /\ SiteWarnings(f, s) \subseteq Diagnostic
<1>1. ASSUME NEW effects \in SUBSET StandardEffects
      PROVE  CheckCallEffects(f, s, effects) \subseteq Diagnostic
  BY DEF CheckCallEffects, Diag, Diagnostic, Codes
<1>2. s.how \in {"call", "funref"} => sig[s.callee] \in SUBSET StandardEffects
  BY DEF TypeOK, Site
<1>3. s.how \in How
  BY DEF Site, How
<1>4. Diag("E4004", f, {}) \in Diagnostic /\ Diag("E3004", f, {}) \in Diagnostic
  BY DEF Diag, Diagnostic, Codes
<1> QED
  BY <1>1, <1>2, <1>3, <1>4
     DEF SiteDiags, SiteWarnings, CallExtern, CallLocal, CheckCombinatorFnArg, How

\* The checker reports every call expression that is not sound.
LEMMA CleanSiteIsSound ==
    ASSUME TypeOK, NEW f \in Func, NEW s \in Site,
           s.callee \in Func \cup Extern, SiteDiags(f, s) = {}
    PROVE  SiteSound(f, s)
<1>1. s.how \in {"call", "funref"} /\ (s.how = "funref" => s.callee \in Func)
      /\ s.lambda \in BOOLEAN
  BY NamesAssumption DEF Site
<1>2. CASE s.how = "call" /\ s.callee \in Extern /\ s.ctx # "body"
           /\ ~mod.ext[s.callee].query
  BY <1>2 DEF SiteDiags, CallExtern
<1>3. CASE CheckCallEffects(f, s, sig[s.callee]) = {}
  <2>1. ~(s.lambda /\ sig[s.callee] # {}) /\ ~(s.ctx # "body" /\ sig[s.callee] # {})
    BY <1>3 DEF CheckCallEffects
  <2>2. ASSUME NEW e \in sig[s.callee] PROVE Permits(sig[f], e)
    <3>1. ~s.lambda /\ s.ctx = "body"
      BY <2>1
    <3> QED
      BY <1>3, <3>1 DEF CheckCallEffects
  <2> QED
    BY <2>1, <2>2 DEF SiteSound
<1> QED
  BY <1>1, <1>2, <1>3
     DEF SiteDiags, CallExtern, CallLocal, CheckCombinatorFnArg
-----------------------------------------------------------------------------
(***************************************************************************)
(* The inductive invariant.  EffectsCovered alone is not inductive: it     *)
(* speaks of a step that performs an effect, and what makes that step safe *)
(* is the relation between every two activations below it (Dominates),     *)
(* which each call hands on because every call expression was found clean. *)
(***************************************************************************)
Dominates(a, b) == /\ IsPure(a) => sig[b.fn] = {}
                   /\ \A e \in sig[b.fn] : Permits(sig[a.fn], e)

Placed(a) == a.site # Idle => a.site \in mod.sites[a.fn] /\ a.site.ctx = CtxOf(a.at)

\* Every site taken off the list has left its diagnostics behind.
CheckedInv == phase = "check" =>
    \A f \in Func : \A s \in mod.sites[f] :
        <<f, s>> \in todo \/ SiteDiags(f, s) \subseteq diags

\* A module that runs has no site with a diagnostic.
AcceptedInv == phase = "running" =>
    \A f \in Func : \A s \in mod.sites[f] : SiteDiags(f, s) = {}

StackInv == /\ stack # <<>> => phase = "running"
            /\ \A i \in 1..Len(stack) : Placed(stack[i])
            /\ \A i, j \in 1..Len(stack) : i < j => Dominates(stack[i], stack[j])

IInv == TypeOK /\ CheckedInv /\ AcceptedInv /\ StackInv

\* The top of a stack is an activation of it.
LEMMA TopType ==
    ASSUME TypeOK, stack # <<>>
    PROVE  /\ Len(stack) \in Nat /\ Len(stack) >= 1
           /\ Top \in Activation
BY DEF TypeOK, Top

\* A call made by the top activation of an accepted module is sound.
LEMMA TopCallSound ==
    ASSUME IInv, stack # <<>>, Top.site # Idle, Top.site.callee \in Func \cup Extern
    PROVE  /\ Top.fn \in Func /\ Top.site \in Site
           /\ SiteSound(Top.fn, Top.site)
           /\ IsPure(Top) => sig[Top.site.callee] = {}
<1>1. Len(stack) \in 1..Len(stack) /\ Top \in Activation
  BY TopType DEF IInv
<1>2. Top.fn \in Func /\ Top.site \in Site /\ Top.at \in Parts
  BY <1>1 DEF Activation
<1>3. Top.site \in mod.sites[Top.fn] /\ Top.site.ctx = CtxOf(Top.at)
  BY <1>1 DEF IInv, StackInv, Placed, Top
<1>4. SiteDiags(Top.fn, Top.site) = {}
  BY <1>2, <1>3 DEF IInv, AcceptedInv, StackInv
<1>5. SiteSound(Top.fn, Top.site)
  BY <1>2, <1>4, CleanSiteIsSound DEF IInv
<1>6. IsPure(Top) => Top.site.lambda \/ Top.site.ctx # "body"
  BY <1>2, <1>3 DEF IsPure, CtxOf, Parts
<1> QED
  BY <1>2, <1>5, <1>6 DEF SiteSound

\* Whatever is safe for the top activation is safe for all of them.
LEMMA DominatesTransitive ==
    ASSUME TypeOK, NEW a \in Activation, NEW b \in Activation, NEW n \in Func \cup Extern,
           Dominates(a, b),
           \A e \in sig[n] : Permits(sig[b.fn], e)
    PROVE  /\ IsPure(a) => sig[n] = {}
           /\ \A e \in sig[n] : Permits(sig[a.fn], e)
<1>1. sig[n] \in SUBSET StandardEffects /\ sig[a.fn] \in SUBSET StandardEffects
      /\ sig[b.fn] \in SUBSET StandardEffects
  BY DEF TypeOK, Activation
<1>2. IsPure(a) => sig[n] = {}
  BY DEF Dominates, Permits
<1>3. ASSUME NEW e \in sig[n] PROVE Permits(sig[a.fn], e)
  BY <1>1, PermitsTransitive DEF Dominates
<1> QED
  BY <1>2, <1>3
-----------------------------------------------------------------------------
LEMMA InitInv == Init => IInv
BY ModulesAssumption
   DEF Init, IInv, TypeOK, CheckedInv, AcceptedInv, StackInv

\* Steps of the checker and of the repair happen on an empty stack.
LEMMA CheckInv == IInv /\ (Check \/ Repair) => IInv'
<1> SUFFICES ASSUME IInv, Check \/ Repair PROVE IInv'
  OBVIOUS
<1> USE DEF IInv
<1>1. CASE BuildEnv
  <2>1. TypeOK'
    <3>1. BuildDiags(mod) \subseteq Diagnostic
      BY DEF BuildDiags, Diag, Diagnostic, Codes
    <3> QED
      BY <1>1, <3>1
         DEF TypeOK, BuildEnv, SigOf, Known, IsKnown, AllSites, KeiModule
  <2>2. CheckedInv'
    BY <1>1 DEF TypeOK, BuildEnv, CheckedInv, AllSites, KeiModule
  <2>3. AcceptedInv' /\ StackInv'
    BY <1>1 DEF BuildEnv, AcceptedInv, StackInv
  <2> QED
    BY <2>1, <2>2, <2>3
<1>2. ASSUME NEW f, NEW s, <<f, s>> \in todo, CheckSite(f, s) PROVE IInv'
  <2>1. TypeOK'
    BY <1>2, SiteDiagsType DEF TypeOK, CheckSite
  <2>2. CheckedInv'
    <3> SUFFICES ASSUME NEW g \in Func, NEW t \in mod.sites[g]
                 PROVE  <<g, t>> \in todo' \/ SiteDiags(g, t)' \subseteq diags'
      BY <1>2 DEF CheckSite, CheckedInv
    <3>1. SiteDiags(g, t)' = SiteDiags(g, t)
      BY <1>2 DEF CheckSite, SiteDiags, CallExtern, CallLocal, CheckCombinatorFnArg,
                  CheckCallEffects
    <3>2. CASE <<g, t>> = <<f, s>>
      BY <1>2, <3>1, <3>2 DEF CheckSite
    <3>3. CASE <<g, t>> # <<f, s>>
      BY <1>2, <3>1, <3>3 DEF CheckSite, CheckedInv
    <3> QED
      BY <3>2, <3>3
  <2>3. AcceptedInv' /\ StackInv'
    BY <1>2 DEF CheckSite, AcceptedInv, StackInv
  <2> QED
    BY <2>1, <2>2, <2>3
<1>3. CASE Finish
  <2>1. TypeOK' /\ CheckedInv'
    BY <1>3 DEF TypeOK, Finish, CheckedInv
  <2>2. AcceptedInv'
    <3> SUFFICES ASSUME phase' = "running", NEW g \in Func, NEW t \in mod.sites[g]
                 PROVE  SiteDiags(g, t)' = {}
      BY <1>3 DEF Finish, AcceptedInv
    <3>1. SiteDiags(g, t)' = SiteDiags(g, t)
      BY <1>3 DEF Finish, SiteDiags, CallExtern, CallLocal, CheckCombinatorFnArg,
                  CheckCallEffects
    <3>2. diags = {} /\ todo = {}
      BY <1>3 DEF Finish
    <3> QED
      BY <1>3, <3>1, <3>2 DEF Finish, CheckedInv
  <2>3. StackInv'
    BY <1>3 DEF Finish, StackInv
  <2> QED
    BY <2>1, <2>2, <2>3
<1>4. ASSUME NEW d \in diags, ApplyFix(d) PROVE IInv'
  <2>1. TypeOK'
    <3>1. d.adds \subseteq EffectPath
      BY StandardPaths DEF TypeOK, Diagnostic
    <3>2. mod' \in KeiModule
      BY <1>4, <3>1 DEF TypeOK, ApplyFix, KeiModule
    <3> QED
      BY <1>4, <3>2 DEF TypeOK, ApplyFix
  <2>2. CheckedInv' /\ AcceptedInv' /\ StackInv'
    BY <1>4 DEF ApplyFix, CheckedInv, AcceptedInv, StackInv
  <2> QED
    BY <2>1, <2>2
<1> QED
  BY <1>1, <1>2, <1>3, <1>4 DEF Check, Repair, CheckSite, TypeOK
-----------------------------------------------------------------------------
\* The run leaves the checker's findings alone.
LEMMA RunKeepsFindings ==
    ASSUME IInv, UNCHANGED checkVars
    PROVE  CheckedInv' /\ AcceptedInv'
<1>1. \A f, s : SiteDiags(f, s)' = SiteDiags(f, s)
  BY DEF checkVars, SiteDiags, CallExtern, CallLocal, CheckCombinatorFnArg,
         CheckCallEffects
<1> QED
  BY <1>1 DEF IInv, checkVars, CheckedInv, AcceptedInv

\* Replacing the top activation by one of the same function, placed at a site
\* of that function or at none, keeps the relation between activations.
LEMMA SetTopInv ==
    ASSUME IInv, UNCHANGED checkVars, stack # <<>>,
           NEW a \in Activation, a.fn = Top.fn, Placed(a), stack' = SetTop(a)
    PROVE  stack' \in Seq(Activation) /\ StackInv'
<1>1. stack \in Seq(Activation) /\ Len(stack) \in Nat /\ Len(stack) >= 1
  BY TopType DEF IInv, TypeOK
<1>2. /\ stack' \in Seq(Activation) /\ Len(stack') = Len(stack)
      /\ stack'[Len(stack)] = a
      /\ \A i \in 1..Len(stack) : i # Len(stack) => stack'[i] = stack[i]
  BY <1>1 DEF SetTop
<1>3. ASSUME NEW i \in 1..Len(stack) PROVE Placed(stack[i])'
  <2>1. CASE i = Len(stack)
    BY <1>2, <2>1 DEF Placed, checkVars
  <2>2. CASE i # Len(stack)
    BY <1>2, <2>2 DEF Placed, checkVars, IInv, StackInv
  <2> QED
    BY <2>1, <2>2
<1>4. ASSUME NEW i \in 1..Len(stack), NEW j \in 1..Len(stack), i < j
      PROVE  Dominates(stack[i], stack[j])'
  <2>1. Dominates(stack[i], stack[j]) /\ stack'[i] = stack[i]
        /\ stack'[j].fn = stack[j].fn
    BY <1>1, <1>2, <1>4 DEF IInv, StackInv, Top
  <2> QED
    BY <2>1 DEF Dominates, checkVars
<1> QED
  BY <1>1, <1>2, <1>3, <1>4 DEF IInv, StackInv, checkVars

\* Whatever the outside world does, the stack stays as it was.
LEMMA SameStackInv ==
    ASSUME IInv, UNCHANGED <<checkVars, stack>>
    PROVE  stack' \in Seq(Activation) /\ StackInv'
BY DEF IInv, TypeOK, StackInv, checkVars, Dominates, Placed

\* A prefix of the stack is as good as the stack.
LEMMA PopInv ==
    ASSUME IInv, UNCHANGED checkVars, stack # <<>>,
           stack' = SubSeq(stack, 1, Len(stack) - 1)
    PROVE  stack' \in Seq(Activation) /\ StackInv'
<1>1. stack \in Seq(Activation) /\ Len(stack) \in Nat /\ Len(stack) >= 1
  BY TopType DEF IInv, TypeOK
<1>2. DEFINE n == Len(stack) - 1
<1>3. n \in Nat /\ stack' = SubSeq(stack, 1, n) /\ \A i \in 1..n : stack[i] \in Activation
  BY <1>1
<1> HIDE DEF n
<1>4. /\ SubSeq(stack, 1, n) \in Seq(Activation)
      /\ Len(SubSeq(stack, 1, n)) = n
      /\ \A i \in 1..n : SubSeq(stack, 1, n)[i] = stack[i]
  BY <1>3, SubSeqProperties, SMTT(30)
<1>5. n < Len(stack)
  BY <1>1 DEF n
<1>6. ASSUME NEW i \in 1..n PROVE Placed(stack[i])'
  BY <1>1, <1>3, <1>4, <1>5 DEF IInv, StackInv, checkVars, Placed
<1>7. ASSUME NEW i \in 1..n, NEW j \in 1..n, i < j PROVE Dominates(stack[i], stack[j])'
  <2>1. stack'[i] = stack[i] /\ stack'[j] = stack[j]
    BY <1>3, <1>4
  <2>2. i \in 1..Len(stack) /\ j \in 1..Len(stack)
    BY <1>1, <1>3, <1>5
  <2>3. Dominates(stack[i], stack[j])
    BY <1>7, <2>2 DEF IInv, StackInv
  <2> QED
    BY <2>1, <2>3 DEF Dominates, checkVars
<1> QED
  BY <1>3, <1>4, <1>6, <1>7 DEF IInv, StackInv, checkVars
-----------------------------------------------------------------------------
LEMMA RunInv == IInv /\ Run => IInv'
<1> SUFFICES ASSUME IInv, Run PROVE IInv'
  OBVIOUS
<1>1. UNCHANGED checkVars /\ performed' \subseteq StandardEffects
      /\ leaked' \subseteq StandardEffects
  BY DEF Run, Enter, Advance, Reach, Invoke, Perform, Leak, Resume, Return, Violate, Quiet
<1>2. CheckedInv' /\ AcceptedInv'
  BY <1>1, RunKeepsFindings
<1>3. ASSUME stack' \in Seq(Activation), StackInv' PROVE IInv'
  BY <1>1, <1>2, <1>3 DEF IInv, TypeOK, checkVars
<1>4. stack \in Seq(Activation)
  BY DEF IInv, TypeOK
<1>5. CASE \E f \in Func : Enter(f)
  <2>1. PICK f \in Func : stack' = <<Activate(f)>> /\ phase = "running"
    BY <1>5 DEF Enter
  <2>2. Activate(f) \in Activation /\ Activate(f).site = Idle
    BY DEF Activate, Activation, Parts
  <2>3. stack' \in Seq(Activation) /\ Len(stack') = 1 /\ stack'[1] = Activate(f)
    BY <2>1, <2>2
  <2> QED
    BY <1>1, <1>3, <2>1, <2>2, <2>3 DEF StackInv, Placed, checkVars
<1>6. CASE Advance
  <2> DEFINE a == [Top EXCEPT !.at = NextPart(@)]
  <2>1. Top \in Activation /\ Top.site = Idle /\ stack # <<>>
    BY <1>6, TopType DEF Advance, IInv
  <2>2. a \in Activation /\ a.fn = Top.fn /\ Placed(a)
    BY <2>1 DEF Activation, NextPart, Parts, Placed
  <2> QED
    BY <1>1, <1>3, <1>6, <2>1, <2>2, SetTopInv DEF Advance
<1>7. CASE \E s \in Site : Reach(s)
  <2>1. PICK s \in Site : Reach(s)
    BY <1>7
  <2> DEFINE a == [Top EXCEPT !.site = s]
  <2>2. Top \in Activation /\ stack # <<>>
    BY <2>1, TopType DEF Reach, IInv
  <2>3. a \in Activation /\ a.fn = Top.fn /\ Placed(a)
    BY <2>1, <2>2 DEF Activation, Placed, Reach
  <2> QED
    BY <1>1, <1>3, <2>1, <2>2, <2>3, SetTopInv DEF Reach
<1>8. CASE Resume
  <2> DEFINE a == [Top EXCEPT !.site = Idle]
  <2>1. Top \in Activation /\ stack # <<>>
    BY <1>8, TopType DEF Resume, IInv
  <2>2. a \in Activation /\ a.fn = Top.fn /\ Placed(a)
    BY <2>1 DEF Activation, Placed
  <2> QED
    BY <1>1, <1>3, <1>8, <2>1, <2>2, SetTopInv DEF Resume
<1>9. CASE Invoke
  <2> DEFINE b == Activate(Top.site.callee)
             n == Len(stack)
  <2>1. /\ stack # <<>> /\ Top.site # Idle /\ Top.site.callee \in Func
        /\ stack' = Append(stack, b)
    BY <1>9 DEF Invoke
  <2>2. n \in Nat /\ n >= 1 /\ Top \in Activation /\ Top = stack[n]
    BY <2>1, TopType DEF IInv, Top
  <2>3. b \in Activation /\ b.site = Idle /\ b.fn = Top.site.callee /\ b.fn \in Func
    BY <2>1 DEF Activate, Activation, Parts
  <2>4. /\ IsPure(Top) => sig[b.fn] = {}
        /\ \A e \in sig[b.fn] : Permits(sig[Top.fn], e)
    BY <2>1, <2>3, TopCallSound DEF SiteSound
  <2> HIDE DEF b
  <2>5. /\ stack' \in Seq(Activation) /\ Len(stack') = n + 1 /\ stack'[n + 1] = b
        /\ \A i \in 1..n : stack'[i] = stack[i]
    BY <1>4, <2>1, <2>3
  <2>6. ASSUME NEW i \in 1..n PROVE Dominates(stack[i], b)
    <3>1. CASE i = n
      BY <2>2, <2>4, <3>1 DEF Dominates
    <3>2. CASE i # n
      <4>1. stack[i] \in Activation /\ Dominates(stack[i], Top)
        BY <1>4, <2>2, <3>2 DEF IInv, StackInv
      <4> QED
        BY <2>2, <2>3, <2>4, <4>1, DominatesTransitive DEF Dominates, IInv
    <3> QED
      BY <3>1, <3>2
  <2>7. ASSUME NEW i \in 1..(n + 1) PROVE Placed(stack[i])'
    BY <1>1, <2>2, <2>3, <2>5 DEF Placed, checkVars, IInv, StackInv
  <2>8. ASSUME NEW i \in 1..(n + 1), NEW j \in 1..(n + 1), i < j
        PROVE  Dominates(stack[i], stack[j])'
    <3>1. i \in 1..n /\ stack'[i] = stack[i]
      BY <2>2, <2>5, <2>8
    <3>2. CASE j = n + 1
      BY <1>1, <2>5, <2>6, <3>1, <3>2 DEF Dominates, checkVars
    <3>3. CASE j # n + 1
      <4>1. j \in 1..n /\ stack'[j] = stack[j] /\ Dominates(stack[i], stack[j])
        BY <2>2, <2>5, <2>8, <3>1, <3>3 DEF IInv, StackInv
      <4> QED
        BY <1>1, <3>1, <4>1 DEF Dominates, checkVars
    <3> QED
      BY <3>2, <3>3
  <2>9. phase' = "running"
    BY <1>1, <2>1 DEF checkVars, IInv, StackInv
  <2> QED
    BY <1>3, <2>5, <2>7, <2>8, <2>9 DEF StackInv
<1>10. CASE \E e \in StandardEffects : Perform(e) \/ Leak(e)
  BY <1>1, <1>3, <1>10, SameStackInv DEF Perform, Leak
<1>11. CASE Return
  BY <1>1, <1>3, <1>11, PopInv DEF Return
<1>12. CASE Violate
  BY <1>1, <1>3, <1>12 DEF Violate, StackInv
<1> QED
  BY <1>5, <1>6, <1>7, <1>8, <1>9, <1>10, <1>11, <1>12 DEF Run

\* Nothing happens: the invariant is about the variables only.
LEMMA StutterInv == IInv /\ UNCHANGED vars => IInv'
<1> SUFFICES ASSUME IInv, UNCHANGED vars PROVE IInv'
  OBVIOUS
<1>1. UNCHANGED checkVars
  BY DEF vars, checkVars
<1> QED
  BY <1>1, RunKeepsFindings, SameStackInv DEF IInv, vars, TypeOK

\* The invariant holds of every reachable state.
THEOREM Invariance == Spec => []IInv
<1>1. IInv /\ [Next]_vars => IInv'
  BY CheckInv, RunInv, StutterInv DEF Next
<1> QED
  BY <1>1, InitInv, PTL DEF Spec

\* Every variable keeps its type: the checker produces only well-formed
\* diagnostics and the run only well-formed activations.
THEOREM TypeCorrect == Spec => []TypeOK
<1>1. IInv => TypeOK
  BY DEF IInv
<1> QED
  BY <1>1, Invariance, PTL
-----------------------------------------------------------------------------
(***************************************************************************)
(* Capability safety.                                                      *)
(***************************************************************************)
PerformedInv == performed # {} => stack # <<>>

SafeInv == IInv /\ PerformedInv /\ EffectsCovered /\ ContractsPure

\* The step that performs an effect finds every activation allowing it.
LEMMA PerformIsSafe ==
    ASSUME IInv, NEW e \in StandardEffects, Perform(e)
    PROVE  \A i \in 1..Len(stack) : ~IsPure(stack[i]) /\ Permits(sig[stack[i].fn], e)
<1>1. /\ stack # <<>> /\ Top.site # Idle /\ Top.site.callee \in Extern
      /\ Permits(sig[Top.site.callee], e)
  BY DEF Perform
<1>2. /\ Len(stack) \in Nat /\ Len(stack) >= 1 /\ Top \in Activation
      /\ stack \in Seq(Activation) /\ Top = stack[Len(stack)]
  BY <1>1, TopType DEF IInv, TypeOK, Top
<1>3. sig[Top.site.callee] # {}
  BY <1>1 DEF Permits
<1>4. /\ ~IsPure(Top)
      /\ \A d \in sig[Top.site.callee] : Permits(sig[Top.fn], d)
  BY <1>1, <1>3, TopCallSound DEF SiteSound
<1>5. ASSUME NEW i \in 1..Len(stack)
      PROVE  ~IsPure(stack[i]) /\ Permits(sig[stack[i].fn], e)
  <2>1. /\ stack[i] \in Activation /\ ~IsPure(stack[i])
        /\ \A d \in sig[Top.site.callee] : Permits(sig[stack[i].fn], d)
    <3>1. CASE i = Len(stack)
      BY <1>2, <1>4, <3>1
    <3>2. CASE i # Len(stack)
      <4>1. stack[i] \in Activation /\ Dominates(stack[i], Top)
        BY <1>2, <3>2 DEF IInv, StackInv
      <4> QED
        BY <1>1, <1>2, <1>3, <1>4, <4>1, DominatesTransitive DEF IInv
    <3> QED
      BY <3>1, <3>2
  <2>2. sig[stack[i].fn] \in SUBSET StandardEffects
        /\ sig[Top.site.callee] \in SUBSET StandardEffects
    BY <1>1, <2>1 DEF IInv, TypeOK, Activation
  <2> QED
    BY <1>1, <2>1, <2>2, PermitsTransitive
<1> QED
  BY <1>5

LEMMA SafeInit == Init => SafeInv
BY InitInv DEF Init, SafeInv, PerformedInv, EffectsCovered, ContractsPure

LEMMA SafeStep == SafeInv /\ [Next]_vars => SafeInv'
<1> SUFFICES ASSUME SafeInv, [Next]_vars PROVE SafeInv'
  OBVIOUS
<1>1. IInv'
  BY CheckInv, RunInv, StutterInv DEF Next, SafeInv
<1>2. CASE Check \/ Repair
  <2>1. stack = <<>> /\ performed = {} /\ performed' = {}
    BY <1>2 DEF SafeInv, IInv, StackInv, PerformedInv, Check, Repair, BuildEnv,
                CheckSite, Finish, ApplyFix
  <2> QED
    BY <1>1, <2>1 DEF SafeInv, PerformedInv, EffectsCovered, ContractsPure
<1>3. ASSUME NEW e \in StandardEffects, Perform(e) PROVE SafeInv'
  <2>1. stack' = stack /\ sig' = sig /\ performed' = {e} /\ stack # <<>>
    BY <1>3 DEF Perform, checkVars
  <2>2. \A i \in 1..Len(stack) : ~IsPure(stack[i]) /\ Permits(sig[stack[i].fn], e)
    BY <1>3, PerformIsSafe DEF SafeInv
  <2>3. EffectsCovered'
    BY <2>1, <2>2 DEF EffectsCovered
  <2>4. ContractsPure'
    BY <2>1, <2>2 DEF ContractsPure
  <2> QED
    BY <1>1, <2>1, <2>3, <2>4 DEF SafeInv, PerformedInv
<1>4. CASE Run /\ ~\E e \in StandardEffects : Perform(e)
  <2>1. performed' = {}
    BY <1>4 DEF Run, Enter, Advance, Reach, Invoke, Leak, Resume, Return, Violate, Quiet
  <2> QED
    BY <1>1, <2>1 DEF SafeInv, PerformedInv, EffectsCovered, ContractsPure
<1>5. CASE UNCHANGED vars
  BY <1>1, <1>5 DEF vars, SafeInv, PerformedInv, EffectsCovered, ContractsPure
<1> QED
  BY <1>2, <1>3, <1>4, <1>5 DEF Next

\* The whole invariant, the step that performs an effect included.
LEMMA Safety == Spec => []SafeInv
BY SafeInit, SafeStep, PTL DEF Spec

\* An accepted module performs, across its declared boundary, only effects that
\* every function on the call stack declares (spec 3.1): checking each call
\* against its direct caller is enough, whatever the calls and however deep.
THEOREM EffectSoundness == Spec => []EffectsCovered
<1>1. SafeInv => EffectsCovered
  BY DEF SafeInv
<1> QED
  BY <1>1, Safety, PTL

\* No effect happens below a contract clause or a combinator lambda.
THEOREM ContractPurity == Spec => []ContractsPure
<1>1. SafeInv => ContractsPure
  BY DEF SafeInv
<1> QED
  BY <1>1, Safety, PTL
-----------------------------------------------------------------------------
(***************************************************************************)
(* Refinement.  FramesOf(st, sg) is the stack st, under the signatures sg, *)
(* as Capabilities sees it.  A step that leaves the functions of the stack *)
(* where they are is a turn of the top activation, and a call narrows      *)
(* because its call expression was found clean.                            *)
(***************************************************************************)
FrameOf(a, sg) == [caps |-> sg[a.fn], pure |-> IsPure(a)]

FramesOf(st, sg) == [i \in 1..Len(st) |-> FrameOf(st[i], sg)]

Signatures == [Func \cup Extern -> SUBSET StandardEffects]

\* Both specifications compare effects in the same way.
LEMMA SamePermits == \A caps, e : Abstract!Permits(caps, e) <=> Permits(caps, e)
BY DEF Abstract!Permits, Abstract!Covers, Abstract!IsAncestor, Permits, Covers, IsAncestor

\* The stack is seen as a sequence of frames of the same length.
LEMMA FramesType ==
    ASSUME NEW st \in Seq(Activation), NEW sg \in Signatures
    PROVE  /\ FramesOf(st, sg) \in Seq(Abstract!Frame)
           /\ Len(FramesOf(st, sg)) = Len(st)
           /\ \A i \in 1..Len(st) : FramesOf(st, sg)[i] = FrameOf(st[i], sg)
<1>1. ASSUME NEW a \in Activation PROVE FrameOf(a, sg) \in Abstract!Frame
  <2>1. a.fn \in Func /\ sg[a.fn] \in SUBSET StandardEffects
    BY DEF Signatures, Activation
  <2>2. IsPure(a) \in BOOLEAN
    BY NamesAssumption DEF IsPure, Activation, Site
  <2> QED
    BY <2>1, <2>2 DEF FrameOf, Abstract!Frame
<1>2. Len(st) \in Nat /\ \A i \in 1..Len(st) : FrameOf(st[i], sg) \in Abstract!Frame
  BY <1>1
<1> HIDE DEF Abstract!Frame
<1> QED
  BY <1>2 DEF FramesOf

\* Replacing the top activation by one of the same function is a turn.
LEMMA FramesTurn ==
    ASSUME NEW st \in Seq(Activation), NEW su \in Seq(Activation), NEW sg \in Signatures,
           st # <<>>, Len(su) = Len(st), su[Len(st)].fn = st[Len(st)].fn,
           \A i \in 1..Len(st) : i # Len(st) => su[i] = st[i]
    PROVE  LET old == FramesOf(st, sg)
               new == FramesOf(su, sg)
           IN  /\ old # <<>> /\ Len(new) = Len(old)
               /\ new[Len(new)] \in Abstract!Frame
               /\ new = [old EXCEPT ![Len(old)].pure = new[Len(new)].pure]
<1> DEFINE n == Len(st)
           old == FramesOf(st, sg)
           new == FramesOf(su, sg)
<1>1. n \in Nat /\ n >= 1
  OBVIOUS
<1>2. /\ old \in Seq(Abstract!Frame) /\ Len(old) = n
      /\ \A i \in 1..n : old[i] = FrameOf(st[i], sg)
  BY FramesType
<1>3. /\ new \in Seq(Abstract!Frame) /\ Len(new) = n
      /\ \A i \in 1..n : new[i] = FrameOf(su[i], sg)
  BY FramesType
<1> HIDE DEF old, new
<1>4. \A i \in 1..n : i # n => new[i] = old[i]
  BY <1>2, <1>3
<1>5. old[n] \in Abstract!Frame /\ new[n] \in Abstract!Frame /\ old # <<>>
  BY <1>1, <1>2, <1>3
<1>6. old[n] = FrameOf(st[n], sg) /\ new[n] = FrameOf(su[n], sg)
  BY <1>1, <1>2, <1>3
<1>7. new[n].caps = old[n].caps
  BY <1>6 DEF FrameOf
<1> HIDE DEF n
<1>8. new[n] = [old[n] EXCEPT !.pure = new[n].pure]
  BY <1>5, <1>7 DEF Abstract!Frame
<1>9. new = [old EXCEPT ![n] = new[n]]
  BY <1>1, <1>2, <1>3, <1>4, <1>5
<1>10. new = [old EXCEPT ![n].pure = new[n].pure]
  BY <1>2, <1>8, <1>9
<1> QED
  BY <1>2, <1>3, <1>5, <1>10 DEF old, new

\* A call adds a frame, and a return takes the last one away.
LEMMA FramesAppend ==
    ASSUME NEW st \in Seq(Activation), NEW sg \in Signatures, NEW a \in Activation
    PROVE  LET old == FramesOf(st, sg)
               new == FramesOf(Append(st, a), sg)
           IN  /\ Len(new) = Len(old) + 1
               /\ new[Len(new)] = FrameOf(a, sg)
               /\ new[Len(new)] \in Abstract!Frame
               /\ new = Append(old, new[Len(new)])
<1> DEFINE n == Len(st)
           su == Append(st, a)
           old == FramesOf(st, sg)
           new == FramesOf(Append(st, a), sg)
<1>1. /\ n \in Nat /\ su \in Seq(Activation) /\ Len(su) = n + 1
      /\ su[n + 1] = a /\ \A i \in 1..n : su[i] = st[i]
  OBVIOUS
<1>2. /\ old \in Seq(Abstract!Frame) /\ Len(old) = n
      /\ \A i \in 1..n : old[i] = FrameOf(st[i], sg)
  BY FramesType
<1>3. new = FramesOf(su, sg)
  OBVIOUS
<1> HIDE DEF su, n, old, new
<1>4. /\ new \in Seq(Abstract!Frame) /\ Len(new) = n + 1
      /\ \A i \in 1..(n + 1) : new[i] = FrameOf(su[i], sg)
  BY <1>1, <1>3, FramesType
<1>5. new[n + 1] = FrameOf(a, sg) /\ \A i \in 1..n : new[i] = old[i]
  BY <1>1, <1>2, <1>4
<1>6. new[n + 1] \in Abstract!Frame
  BY <1>1, <1>4
<1>7. new = Append(old, new[n + 1])
  BY <1>1, <1>2, <1>4, <1>5, <1>6
<1> QED
  BY <1>2, <1>4, <1>5, <1>6, <1>7 DEF old, new

LEMMA FramesPop ==
    ASSUME NEW st \in Seq(Activation), st # <<>>, NEW sg \in Signatures
    PROVE  LET old == FramesOf(st, sg)
           IN  old # <<>> /\ FramesOf(SubSeq(st, 1, Len(st) - 1), sg) = SubSeq(old, 1, Len(old) - 1)
<1> DEFINE n == Len(st) - 1
           su == SubSeq(st, 1, n)
           old == FramesOf(st, sg)
           new == FramesOf(SubSeq(st, 1, Len(st) - 1), sg)
<1>1. n \in Nat /\ Len(st) = n + 1 /\ \A i \in 1..n : st[i] \in Activation
  OBVIOUS
<1>2. new = FramesOf(su, sg)
  OBVIOUS
<1> HIDE DEF n, new
<1>3. /\ old \in Seq(Abstract!Frame) /\ Len(old) = n + 1 /\ old # <<>>
      /\ \A i \in 1..(n + 1) : old[i] = FrameOf(st[i], sg)
  BY <1>1, FramesType
<1>4. su \in Seq(Activation) /\ Len(su) = n /\ \A i \in 1..n : su[i] = st[i]
  BY <1>1, SubSeqProperties, SMTT(30)
<1> HIDE DEF su, old
<1>5. /\ new \in Seq(Abstract!Frame) /\ Len(new) = n
      /\ \A i \in 1..n : new[i] = FrameOf(su[i], sg)
  BY <1>2, <1>4, FramesType
<1>6. \A i \in 1..n : new[i] = old[i]
  BY <1>1, <1>3, <1>4, <1>5
<1>7. SubSeq(old, 1, n) \in Seq(Abstract!Frame) /\ Len(SubSeq(old, 1, n)) = n
      /\ \A i \in 1..n : SubSeq(old, 1, n)[i] = old[i]
  <2>1. \A i \in 1..n : old[i] \in Abstract!Frame
    BY <1>1, <1>3
  <2> QED
    BY <1>1, <1>3, <2>1, SubSeqProperties, SMTT(30)
<1>8. new = SubSeq(old, 1, n)
  BY <1>1, <1>5, <1>6, <1>7
<1>9. n = Len(old) - 1
  BY <1>1, <1>3
<1> QED
  BY <1>3, <1>8, <1>9 DEF old, new
-----------------------------------------------------------------------------
\* Checker and run together implement the abstract capability discipline: every
\* call narrows what may be done, whether or not an effect is ever performed.
THEOREM Refinement == Spec => CapabilitySafety
<1> DEFINE F == [i \in 1..Len(stack) |-> [caps |-> sig[stack[i].fn],
                                           pure |-> IsPure(stack[i])]]
<1>1. Init => Abstract!Init
  <2> SUFFICES ASSUME Init PROVE F = <<>> /\ performed = {}
    BY DEF Abstract!Init
  <2> QED
    BY DEF Init
<1>2. SafeInv /\ IInv' /\ [Next]_vars => [Abstract!Next]_(Abstract!capVars)
  <2> SUFFICES ASSUME SafeInv, IInv', [Next]_vars
               PROVE  Abstract!Next \/ UNCHANGED <<F, performed>>
    BY DEF Abstract!capVars
  <2> USE DEF SafeInv
  <2>0. F = FramesOf(stack, sig) /\ F' = FramesOf(stack', sig')
    BY DEF FramesOf, FrameOf
  <2>1. /\ stack \in Seq(Activation) /\ sig \in Signatures
        /\ stack' \in Seq(Activation) /\ sig' \in Signatures
    BY DEF IInv, TypeOK, Signatures
  <2>2. stack # <<>> => /\ Len(stack) \in Nat /\ Len(stack) >= 1 /\ Top \in Activation
                        /\ F # <<>> /\ Len(F) = Len(stack) /\ F[Len(F)] = FrameOf(Top, sig)
    BY <2>0, <2>1, TopType, FramesType DEF IInv, Top
  <2>3. ASSUME performed' = {}, UNCHANGED sig, stack # <<>>,
               NEW a \in Activation, a.fn = Top.fn, stack' = SetTop(a)
        PROVE  Abstract!Turn
    <3>1. /\ stack' = [stack EXCEPT ![Len(stack)] = a] /\ a.fn = stack[Len(stack)].fn
          /\ Len(stack) \in Nat /\ Len(stack) >= 1
      BY <2>2, <2>3 DEF SetTop, Top
    <3>2. /\ Len(stack') = Len(stack) /\ stack'[Len(stack)] = a
          /\ \A i \in 1..Len(stack) : i # Len(stack) => stack'[i] = stack[i]
      BY <2>1, <2>3, <3>1
    <3>3. FramesOf(stack', sig') = FramesOf(stack', sig)
      BY <2>3
    <3> HIDE DEF F
    <3>4. /\ F # <<>> /\ Len(F') = Len(F) /\ F'[Len(F')] \in Abstract!Frame
          /\ F' = [F EXCEPT ![Len(F)].pure = F'[Len(F')].pure]
      <4>1. LET old == FramesOf(stack, sig)
                new == FramesOf(stack', sig)
            IN  /\ old # <<>> /\ Len(new) = Len(old)
                /\ new[Len(new)] \in Abstract!Frame
                /\ new = [old EXCEPT ![Len(old)].pure = new[Len(new)].pure]
        <5>1. stack'[Len(stack)].fn = stack[Len(stack)].fn
          BY <3>1, <3>2
        <5> QED
          BY <2>1, <2>3, <3>2, <5>1, FramesTurn, SMTT(30)
      <4>2. F = FramesOf(stack, sig) /\ F' = FramesOf(stack', sig)
        BY <2>0, <3>3
      <4> QED
        BY <4>1, <4>2
    <3> QED
      BY <2>3, <3>4
         DEF F, Abstract!Turn, Abstract!Running, Abstract!Current, Abstract!Silent
  <2>4. ASSUME stack' = <<>>, performed' = {}
        PROVE  Abstract!Abort
    BY <2>4 DEF Abstract!Abort, Abstract!Silent
  <2>5. CASE Check \/ Repair
    <3>1. stack = <<>> /\ stack' = <<>> /\ performed = {} /\ performed' = {}
      BY <2>5 DEF IInv, StackInv, PerformedInv, Check, Repair, BuildEnv, CheckSite, Finish, ApplyFix
    <3> QED
      BY <2>4, <3>1 DEF Abstract!Next
  <2>6. ASSUME NEW f \in Func, Enter(f) PROVE Abstract!Enter
    <3>1. /\ stack = <<>> /\ stack' = <<Activate(f)>> /\ performed' = {} /\ sig' = sig
      BY <2>6 DEF Enter, Quiet, checkVars
    <3>2. Len(stack') = 1
      BY <3>1
    <3> HIDE DEF F
    <3>3. Len(F') = 1 /\ F'[1] \in Abstract!Frame
      BY <2>0, <2>1, <3>2, FramesType
    <3>4. F = <<>>
      BY <3>1 DEF F
    <3> QED
      BY <3>1, <3>3, <3>4
         DEF F, Abstract!Enter, Abstract!Running, Abstract!Current, Abstract!Silent
  <2>7. ASSUME Advance PROVE Abstract!Turn
    <3> DEFINE a == [Top EXCEPT !.at = NextPart(@)]
    <3>1. /\ stack # <<>> /\ stack' = SetTop(a) /\ performed' = {} /\ UNCHANGED sig
      BY <2>7 DEF Advance, Quiet, checkVars
    <3>2. a \in Activation /\ a.fn = Top.fn
      BY <2>2, <3>1 DEF Activation, NextPart, Parts
    <3> QED
      BY <2>3, <3>1, <3>2
  <2>8. ASSUME NEW s \in Site, Reach(s) PROVE Abstract!Turn
    <3> DEFINE a == [Top EXCEPT !.site = s]
    <3>1. /\ stack # <<>> /\ stack' = SetTop(a) /\ performed' = {} /\ UNCHANGED sig
      BY <2>8 DEF Reach, Quiet, checkVars
    <3>2. a \in Activation /\ a.fn = Top.fn
      BY <2>2, <3>1 DEF Activation
    <3> QED
      BY <2>3, <3>1, <3>2
  <2>9. ASSUME Resume PROVE Abstract!Turn
    <3> DEFINE a == [Top EXCEPT !.site = Idle]
    <3>1. /\ stack # <<>> /\ stack' = SetTop(a) /\ performed' = {} /\ UNCHANGED sig
      BY <2>9 DEF Resume, Quiet, checkVars
    <3>2. a \in Activation /\ a.fn = Top.fn
      BY <2>2, <3>1 DEF Activation
    <3> QED
      BY <2>3, <3>1, <3>2
  <2>10. CASE Invoke
    <3> DEFINE b == Activate(Top.site.callee)
    <3>1. /\ stack # <<>> /\ Top.site # Idle /\ Top.site.callee \in Func
          /\ stack' = Append(stack, b) /\ performed' = {} /\ sig' = sig
      BY <2>10 DEF Invoke, Quiet, checkVars
    <3>2. b \in Activation /\ b.fn = Top.site.callee
      BY <3>1 DEF Activate, Activation, Parts
    <3>3. /\ Top.fn \in Func
          /\ IsPure(Top) => sig[b.fn] = {}
          /\ \A e \in sig[b.fn] : Permits(sig[Top.fn], e)
      BY <3>1, <3>2, TopCallSound DEF SiteSound
    <3> HIDE DEF b, F
    <3>4. FramesOf(stack', sig') = FramesOf(Append(stack, b), sig)
      BY <3>1
    <3>5. /\ Len(F') = Len(F) + 1 /\ F'[Len(F')] = FrameOf(b, sig)
          /\ F'[Len(F')] \in Abstract!Frame /\ F' = Append(F, F'[Len(F')])
      BY <2>0, <2>1, <3>2, <3>4, FramesAppend
    <3>6. /\ sig[b.fn] \in SUBSET StandardEffects /\ sig[Top.fn] \in SUBSET StandardEffects
      BY <3>1, <3>2, <3>3 DEF IInv, TypeOK
    <3>7. ASSUME NEW e \in StandardEffects, Permits(sig[b.fn], e)
          PROVE  ~IsPure(Top) /\ Permits(sig[Top.fn], e)
      <4>1. ~IsPure(Top)
        BY <3>3, <3>7 DEF Permits
      <4>2. Permits(sig[Top.fn], e)
        BY <3>3, <3>6, <3>7, PermitsTransitive
      <4> QED
        BY <4>1, <4>2
    <3>8. F # <<>> /\ F[Len(F)] = FrameOf(Top, sig)
      BY <2>2, <3>1
    <3>9. \A e \in StandardEffects :
              Permits(F'[Len(F')].caps, e) => Abstract!May(F[Len(F)], e)
      <4>1. /\ F'[Len(F')].caps = sig[b.fn] /\ F[Len(F)].caps = sig[Top.fn]
            /\ F[Len(F)].pure = IsPure(Top)
        BY <3>5, <3>8 DEF FrameOf
      <4> QED
        <5>1. \A e \in StandardEffects :
                  Permits(F'[Len(F')].caps, e) => ~F[Len(F)].pure /\ Permits(F[Len(F)].caps, e)
          BY <3>7, <4>1
        <5> QED
          BY <5>1, SamePermits DEF Abstract!May
    <3>10. Abstract!Call
      BY <3>1, <3>5, <3>8, <3>9, SamePermits
         DEF F, Abstract!Call, Abstract!Running, Abstract!Current, Abstract!Silent
    <3> QED
      BY <3>10 DEF Abstract!Next
  <2>11. CASE Return
    <3>1. /\ stack # <<>> /\ stack' = SubSeq(stack, 1, Len(stack) - 1)
          /\ performed' = {} /\ sig' = sig
      BY <2>11 DEF Return, Quiet, checkVars
    <3>2. FramesOf(stack', sig') = FramesOf(SubSeq(stack, 1, Len(stack) - 1), sig)
      BY <3>1
    <3> HIDE DEF F
    <3>3. F # <<>> /\ F' = SubSeq(F, 1, Len(F) - 1)
      BY <2>0, <2>1, <3>1, <3>2, FramesPop
    <3>4. Abstract!Return
      BY <3>1, <3>3 DEF F, Abstract!Return, Abstract!Running, Abstract!Silent
    <3> QED
      BY <3>4 DEF Abstract!Next
  <2>12. CASE Violate
    BY <2>4, <2>12 DEF Violate, Quiet, Abstract!Next
  <2>13. ASSUME NEW e \in StandardEffects, Perform(e) PROVE Abstract!Perform(e)
    <3>1. /\ stack # <<>> /\ Top.site # Idle /\ Top.site.callee \in Extern
          /\ Permits(sig[Top.site.callee], e)
          /\ UNCHANGED <<stack, sig>> /\ performed' = {e}
      BY <2>13 DEF Perform, checkVars
    <3>2. /\ Top.fn \in Func
          /\ IsPure(Top) => sig[Top.site.callee] = {}
          /\ \A x \in sig[Top.site.callee] : Permits(sig[Top.fn], x)
      BY <3>1, TopCallSound DEF SiteSound
    <3>3. ~IsPure(Top)
      BY <3>1, <3>2 DEF Permits
    <3>4. Permits(sig[Top.fn], e)
      <4>1. /\ sig[Top.site.callee] \in SUBSET StandardEffects
            /\ sig[Top.fn] \in SUBSET StandardEffects
        BY <3>1, <3>2 DEF IInv, TypeOK
      <4> QED
        BY <3>1, <3>2, <4>1, PermitsTransitive
    <3> HIDE DEF F
    <3>5. F # <<>> /\ F[Len(F)].caps = sig[Top.fn] /\ F[Len(F)].pure = IsPure(Top)
      BY <2>2, <3>1 DEF FrameOf
    <3>6. Abstract!May(F[Len(F)], e)
      BY <3>3, <3>4, <3>5, SamePermits DEF Abstract!May
    <3> QED
      BY <3>1, <3>5, <3>6
         DEF F, Abstract!Perform, Abstract!Running, Abstract!Current
  <2>14. ASSUME NEW e \in StandardEffects, Leak(e)
         PROVE  Abstract!Turn \/ UNCHANGED <<F, performed>>
    <3>1. /\ stack # <<>> /\ performed' = {} /\ UNCHANGED <<stack, sig>>
      BY <2>14 DEF Leak, checkVars
    <3>2. stack' = SetTop(Top)
      BY <2>1, <2>2, <3>1 DEF SetTop, Top
    <3> QED
      BY <2>2, <2>3, <3>1, <3>2
  <2>15. CASE UNCHANGED vars
    BY <2>15 DEF vars
  <2> HIDE DEF F
  <2>16. CASE Run
    BY <2>3, <2>6, <2>7, <2>8, <2>9, <2>10, <2>11, <2>12, <2>13, <2>14, <2>16
       DEF Run, Abstract!Next
  <2> QED
    BY <2>5, <2>15, <2>16 DEF Next
<1> QED
  BY <1>1, <1>2, Safety, PTL DEF SafeInv, Spec, CapabilitySafety, Abstract!Spec
-----------------------------------------------------------------------------
(***************************************************************************)
(* The safety half of the convergence of repairs: each step of the checker *)
(* and each repair leaves less to do.  What makes it true of a repair is   *)
(* that a fix never inserts what the clause already declares.              *)
(***************************************************************************)

\* The effects that a function may still be made to declare.
Undeclared == { p \in Func \X StandardEffects : p[2] \notin mod.uses[p[1]] }

Stage == IF phase = "build" THEN 2 ELSE IF phase = "check" THEN 1 ELSE 0

\* What is left to do, most significant first.
Left == <<Cardinality(Undeclared), Stage, Cardinality(todo)>>

LeftType == Left \in Nat \X Nat \X Nat

\* v comes before w in the lexicographic order.
Before(v, w) == \E i \in 1..3 : v[i] < w[i] /\ \A j \in 1..(i - 1) : v[j] = w[j]

FiniteInv == /\ \A f \in Func : IsFiniteSet(mod.sites[f])
             /\ IsFiniteSet(todo)

\* Signatures are those of the clauses as they stand, and a fix is for a function
\* that does not declare what it inserts.
FixInv == phase # "build" =>
    /\ sig = SigOf(mod)
    /\ \A d \in diags : Fixable(d) => d.in \in Func /\ d.adds \cap sig[d.in] = {}

RepairInv == IInv /\ FiniteInv /\ FixInv

LEMMA BeforeAt ==
    ASSUME NEW a, NEW b, NEW c, NEW p, NEW q, NEW r,
           \/ a < p
           \/ a = p /\ b < q
           \/ a = p /\ b = q /\ c < r
    PROVE  Before(<<a, b, c>>, <<p, q, r>>)
<1> DEFINE v == <<a, b, c>>
           w == <<p, q, r>>
<1>1. v[1] = a /\ v[2] = b /\ v[3] = c /\ w[1] = p /\ w[2] = q /\ w[3] = r
  OBVIOUS
<1> HIDE DEF v, w
<1>2. CASE a < p
  BY <1>1, <1>2 DEF Before
<1>3. CASE a = p /\ b < q
  BY <1>1, <1>3 DEF Before
<1>4. CASE a = p /\ b = q /\ c < r
  BY <1>1, <1>4 DEF Before
<1> QED BY <1>2, <1>3, <1>4 DEF v, w

LEMMA PairFinite == \A x, y : IsFiniteSet({x, y})
<1> TAKE x, y
<1>1. {x, y} = {x} \cup {y} /\ IsFiniteSet({x})
  BY FS_Singleton
<1>2. IsFiniteSet({x} \cup {y})
  BY <1>1, FS_AddElement
<1> QED BY <1>1, <1>2

\* The standard hierarchy has finitely many nodes.
LEMMA StandardFinite == IsFiniteSet(StandardEffects)
<1>1. IsFiniteSet(TopNames)
  <2> DEFINE A == {"IO", "Network", "File"}
             B == {"Database", "Clock"}
             C == {"Random", "Audit"}
  <2>1. IsFiniteSet({"IO", "Network"} \cup {"File"})
    BY PairFinite, FS_AddElement
  <2>2. A = {"IO", "Network"} \cup {"File"}
    OBVIOUS
  <2>3. IsFiniteSet(A) /\ IsFiniteSet(B) /\ IsFiniteSet(C)
    BY <2>1, <2>2, PairFinite
  <2>4. TopNames = (A \cup B) \cup C
    BY DEF TopNames
  <2> HIDE DEF A, B, C
  <2>5. IsFiniteSet(A \cup B)
    BY <2>3, FS_Union
  <2> QED BY <2>3, <2>4, <2>5, FS_Union
<1>2. IsFiniteSet({ <<r>> : r \in TopNames })
  <2> DEFINE S == { <<r>> : r \in TopNames }
             g == [r \in TopNames |-> <<r>>]
  <2>1. g \in Surjection(TopNames, S)
    BY DEF Surjection
  <2> QED BY <1>1, <2>1, FS_Surjection
<1>3. IsFiniteSet(RwNames \X {"Read", "Write"})
  <2>1. RwNames \in SUBSET TopNames
    BY DEF RwNames, TopNames
  <2>2. IsFiniteSet(RwNames)
    BY <1>1, <2>1, FS_Subset
  <2>3. IsFiniteSet({"Read", "Write"})
    BY PairFinite
  <2> QED BY <2>2, <2>3, FS_Product
<1>4. IsFiniteSet({"Audit"} \X {"Log"})
  BY FS_Singleton, FS_Product
<1>5. IsFiniteSet({ <<r>> : r \in TopNames } \cup (RwNames \X {"Read", "Write"}))
  BY <1>2, <1>3, FS_Union
<1> QED BY <1>4, <1>5, FS_Union DEF StandardEffects

LEMMA UndeclaredType == IsFiniteSet(Undeclared) /\ Cardinality(Undeclared) \in Nat
<1>1. IsFiniteSet(Func \X StandardEffects)
  BY FiniteAssumption, StandardFinite, FS_Product
<1>2. Undeclared \in SUBSET (Func \X StandardEffects)
  BY DEF Undeclared
<1> QED BY <1>1, <1>2, FS_Subset, FS_CardinalityType

\* A module has finitely many call expressions.
LEMMA SitesFinite ==
    ASSUME FiniteInv
    PROVE  IsFiniteSet(AllSites)
<1> DEFINE T == { {f} \X mod.sites[f] : f \in Func }
           g == [f \in Func |-> {f} \X mod.sites[f]]
<1>1. g \in Surjection(Func, T)
  BY DEF Surjection
<1>2. IsFiniteSet(T)
  <2> HIDE DEF T, g
  <2> QED BY <1>1, FiniteAssumption, FS_Surjection
<1>3. ASSUME NEW S \in T PROVE IsFiniteSet(S)
  <2>1. PICK f \in Func : S = {f} \X mod.sites[f]
    OBVIOUS
  <2> QED BY <2>1, FS_Singleton, FS_Product DEF FiniteInv
<1> HIDE DEF T
<1>4. IsFiniteSet(UNION T)
  BY <1>2, <1>3, FS_UNION
<1> QED BY <1>4 DEF T, AllSites

\* The fixes of a call expression insert what the caller does not declare.
LEMMA SiteFixes ==
    ASSUME NEW f \in Func, NEW s, NEW d \in SiteDiags(f, s), Fixable(d)
    PROVE  d.in \in Func /\ d.adds \cap sig[d.in] = {}
<1>1. PICK effects : d \in CheckCallEffects(f, s, effects)
  BY DEF SiteDiags, CallExtern, CallLocal, CheckCombinatorFnArg, Fixable, Diag
<1>2. PICK e \in effects : d = Diag("E3001", f, {e}) /\ ~Permits(sig[f], e)
  BY <1>1 DEF CheckCallEffects, Fixable, Diag
<1>3. e \notin sig[f]
  BY <1>2 DEF Permits, Covers
<1> QED BY <1>2, <1>3 DEF Diag
-----------------------------------------------------------------------------
LEMMA RepairInit == Init => RepairInv
<1> SUFFICES ASSUME Init PROVE RepairInv
  OBVIOUS
<1>1. IsFiniteSet({})
  BY FS_EmptySet
<1> QED BY <1>1, InitInv, FiniteAssumption DEF Init, RepairInv, FiniteInv, FixInv

LEMMA RepairStep == RepairInv /\ IInv' /\ [Next]_vars => RepairInv'
<1> SUFFICES ASSUME RepairInv, IInv', [Next]_vars PROVE FiniteInv' /\ FixInv'
  BY DEF RepairInv
<1> USE DEF RepairInv
<1>1. CASE BuildEnv
  <2>1. FiniteInv'
    BY <1>1, SitesFinite DEF BuildEnv, FiniteInv
  <2>2. \A d \in BuildDiags(mod) : ~Fixable(d)
    BY DEF BuildDiags, Fixable, Diag
  <2>3. FixInv'
    BY <1>1, <2>2 DEF BuildEnv, FixInv, SigOf, Fixable
  <2> QED BY <2>1, <2>3
<1>2. ASSUME NEW x \in todo, CheckSite(x[1], x[2]) PROVE FiniteInv' /\ FixInv'
  <2>1. IsFiniteSet(todo \ {x})
    BY FS_RemoveElement DEF FiniteInv
  <2>2. x \in Func \X Site
    BY DEF IInv, TypeOK
  <2>3. x[1] \in Func /\ x = <<x[1], x[2]>>
    BY <2>2
  <2>4. FiniteInv'
    BY <1>2, <2>1, <2>3 DEF CheckSite, FiniteInv
  <2>5. /\ sig' = sig /\ mod' = mod /\ phase = "check"
        /\ diags' = diags \cup SiteDiags(x[1], x[2])
    BY <1>2 DEF CheckSite
  <2>6. \A d \in diags' : Fixable(d) => d.in \in Func /\ d.adds \cap sig[d.in] = {}
    BY <2>3, <2>5, SiteFixes DEF FixInv
  <2>7. FixInv'
    BY <2>5, <2>6 DEF FixInv, SigOf, Fixable
  <2> QED BY <2>4, <2>7
<1>3. CASE Finish
  BY <1>3 DEF Finish, FiniteInv, FixInv, SigOf, Fixable
<1>4. ASSUME NEW d \in diags, ApplyFix(d) PROVE FiniteInv' /\ FixInv'
  <2>1. mod'.sites = mod.sites
    BY <1>4 DEF ApplyFix, IInv, TypeOK, KeiModule
  <2> QED BY <1>4, <2>1 DEF ApplyFix, FiniteInv, FixInv
<1>5. CASE UNCHANGED checkVars
  BY <1>5 DEF checkVars, FiniteInv, FixInv, SigOf, Fixable
<1>6. Run => UNCHANGED checkVars
  BY DEF Run, Enter, Advance, Reach, Invoke, Perform, Leak, Resume, Return, Violate, Quiet
<1>7. UNCHANGED vars => UNCHANGED checkVars
  BY DEF vars, checkVars
<1> QED BY <1>1, <1>2, <1>3, <1>4, <1>5, <1>6, <1>7 DEF Next, Check, Repair

\* A repair makes a clause declare an effect it did not.
LEMMA FixLess ==
    ASSUME RepairInv, NEW d \in diags, ApplyFix(d)
    PROVE  Cardinality(Undeclared') < Cardinality(Undeclared)
<1> USE DEF RepairInv
<1>1. /\ d \in Diagnostic /\ mod \in KeiModule /\ d.in \in Func /\ d.adds # {}
      /\ d.adds \subseteq StandardEffects /\ sig = SigOf(mod) /\ d.adds \cap sig[d.in] = {}
  BY DEF IInv, TypeOK, ApplyFix, FixInv, Fixable, Diagnostic
<1>2. PICK e \in d.adds : e \notin mod.uses[d.in]
  <2>1. sig[d.in] = mod.uses[d.in] \cap StandardEffects
    BY <1>1 DEF SigOf, Known, IsKnown
  <2> QED BY <1>1, <2>1
<1>3. \A f \in Func : mod'.uses[f] = IF f = d.in THEN mod.uses[f] \cup d.adds ELSE mod.uses[f]
  <2>1. mod.uses \in [Func -> SUBSET EffectPath]
    BY <1>1 DEF KeiModule
  <2>2. mod' = [mod EXCEPT !.uses[d.in] = @ \cup d.adds]
    BY DEF ApplyFix
  <2> QED BY <1>1, <2>1, <2>2 DEF KeiModule
<1>4. Undeclared' \in SUBSET Undeclared
  BY <1>3 DEF Undeclared
<1>5. <<d.in, e>> \in Undeclared /\ <<d.in, e>> \notin Undeclared'
  BY <1>1, <1>2, <1>3 DEF Undeclared
<1>6. Undeclared' # Undeclared
  BY <1>5
<1>7. /\ Cardinality(Undeclared') <= Cardinality(Undeclared)
      /\ Cardinality(Undeclared') # Cardinality(Undeclared)
  BY <1>4, <1>6, UndeclaredType, FS_Subset
<1>8. IsFiniteSet(Undeclared') /\ Cardinality(Undeclared') \in Nat
  BY <1>4, UndeclaredType, FS_Subset, FS_CardinalityType
<1> QED BY <1>7, <1>8, UndeclaredType

LEMMA CheckLess ==
    RepairInv /\ (Check \/ Repair) => Before(Left', Left)
<1> SUFFICES ASSUME RepairInv, Check \/ Repair PROVE Before(Left', Left)
  OBVIOUS
<1>1. ASSUME mod' = mod PROVE Undeclared' = Undeclared
  BY <1>1 DEF Undeclared
<1>2. CASE BuildEnv
  BY <1>1, <1>2, BeforeAt DEF BuildEnv, Left, Stage
<1>3. ASSUME NEW x \in todo, CheckSite(x[1], x[2]) PROVE Before(Left', Left)
  <2>1. x = <<x[1], x[2]>>
    BY DEF RepairInv, IInv, TypeOK
  <2>2. todo' = todo \ {x}
    BY <1>3, <2>1 DEF CheckSite
  <2>3. /\ Cardinality(todo \ {x}) = Cardinality(todo) - 1
        /\ Cardinality(todo) \in Nat
    BY FS_RemoveElement, FS_CardinalityType DEF RepairInv, FiniteInv
  <2>4. Cardinality(todo') < Cardinality(todo)
    BY <2>2, <2>3
  <2>5. Undeclared' = Undeclared /\ Stage' = Stage
    BY <1>1, <1>3 DEF CheckSite, Stage
  <2> QED BY <2>4, <2>5, BeforeAt DEF Left
<1>4. CASE Finish
  <2>1. Undeclared' = Undeclared /\ Stage' < Stage
    BY <1>1, <1>4 DEF Finish, Stage
  <2> QED BY <2>1, BeforeAt DEF Left
<1>5. ASSUME NEW d \in diags, ApplyFix(d) PROVE Before(Left', Left)
  BY <1>5, FixLess, BeforeAt DEF Left
<1> QED BY <1>2, <1>3, <1>4, <1>5 DEF Check, Repair

LEMMA LeftIsNatural == RepairInv => LeftType
<1> SUFFICES ASSUME RepairInv PROVE LeftType
  OBVIOUS
<1>1. Cardinality(todo) \in Nat
  BY FS_CardinalityType DEF RepairInv, FiniteInv
<1>2. Stage \in Nat
  BY DEF Stage
<1> QED BY <1>1, <1>2, UndeclaredType DEF LeftType, Left

\* Checking and repairing never go round in a circle: whatever changes what the
\* checker works on leaves less to do in a well-founded order.  A fix of KEI-E3001
\* (check_call_effects) always inserts an effect its clause does not have, although
\* every insertion changes what the callers have to declare.
THEOREM RepairsAdvance == Spec => []LeftType /\ [][~UNCHANGED checkVars => Before(Left', Left)]_vars
<1>1. IInv /\ [Next]_vars => IInv'
  BY CheckInv, RunInv, StutterInv DEF Next
<1>2. RepairInv /\ [Next]_vars => RepairInv'
  BY <1>1, RepairStep DEF RepairInv
<1>3. RepairInv /\ [Next]_vars => [~UNCHANGED checkVars => Before(Left', Left)]_vars
  <2>1. Run => UNCHANGED checkVars
    BY DEF Run, Enter, Advance, Reach, Invoke, Perform, Leak, Resume, Return, Violate, Quiet
  <2> QED BY <2>1, CheckLess DEF Next
<1> QED BY <1>2, <1>3, RepairInit, LeftIsNatural, PTL DEF Spec
=============================================================================
