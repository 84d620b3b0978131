---------------------------- MODULE AliasesProofs ----------------------------
(***************************************************************************)
(* Theorems about alias resolution for every set of aliases, every set of  *)
(* declarations and every order of the walk: both recursions are bounded   *)
(* by the number of aliases, E1002 is reported for the cycles and for      *)
(* nothing else, and an alias off the cycles gets its declared type        *)
(* wherever it is looked up.                                               *)
(*                                                                         *)
(* The frames of a recursion are the guard, so no alias is on the stack    *)
(* twice; they are a path, so meeting one of them again is a cycle; and an *)
(* alias is left when all it refers to has a type, so that what was left   *)
(* without a report is founded.                                            *)
(***************************************************************************)
EXTENDS Aliases, FiniteSetTheorems, SequenceTheorems, WellFoundedInduction, TLAPS

Frames(X) == [alias : Alias, args : Seq(X)]

Refs(i) == decl[stack[i].alias].refs

\* The frames of a walk, all but the last of which wait for a reference.
StackInv ==
    /\ \E X : stack \in Seq(Frames(X))
    /\ visiting = [i \in 1..Len(stack) |-> stack[i].alias]
    /\ \A i, j \in 1..Len(stack) : stack[i].alias = stack[j].alias => i = j
    /\ \A i \in 1..Len(stack) : Len(stack[i].args) <= Len(Refs(i))
    /\ \A i \in 1..Len(stack) : i < Len(stack) => Len(stack[i].args) < Len(Refs(i))

IInv == /\ decl \in Decls
        /\ phase \in {"local", "first", "second", "done"}
        /\ pending \in Seq(Alias)
        /\ DOMAIN resolved \subseteq Alias /\ errors \subseteq Alias
        /\ StackInv

\* The references of a declaration are aliases (kei_syntax parses a path).
LEMMA RefsType ==
    ASSUME decl \in Decls, NEW a \in Alias
    PROVE  decl[a].refs \in Seq(Alias) /\ Len(decl[a].refs) \in Nat
<1>1. decl[a] \in Decl
  BY DeclsAssumption
<1>2. PICK n \in 0..2 : decl[a].refs \in [1..n -> Alias]
  BY <1>1 DEF Decl
<1> QED BY <1>2

\* A sequence of frames stays one when its arguments may be more things.
LEMMA MoreFrames ==
    ASSUME NEW X, NEW Y, X \subseteq Y, NEW s \in Seq(Frames(X))
    PROVE  s \in Seq(Frames(Y))
<1>1. Seq(X) \subseteq Seq(Y)
  BY SeqMonotonic
<1>2. Frames(X) \subseteq Frames(Y)
  BY <1>1 DEF Frames
<1> QED BY <1>2, SeqMonotonic

\* The guard is a sequence of aliases, one for each frame.
LEMMA GuardType ==
    ASSUME StackInv
    PROVE  /\ Len(stack) \in Nat
           /\ visiting \in Seq(Alias) /\ Len(visiting) = Len(stack)
           /\ \A i \in 1..Len(stack) : stack[i].alias \in Alias /\ visiting[i] = stack[i].alias
<1>1. PICK X : stack \in Seq(Frames(X))
  BY DEF StackInv
<1>2. Len(stack) \in Nat
  BY <1>1
<1>3. \A i \in 1..Len(stack) : stack[i].alias \in Alias
  <2>1. \A i \in 1..Len(stack) : stack[i] \in Frames(X)
    BY <1>1, ElementOfSeq
  <2> QED BY <2>1 DEF Frames
<1>4. visiting \in [1..Len(stack) -> Alias]
  BY <1>3 DEF StackInv
<1>5. visiting \in Seq(Alias) /\ Len(visiting) = Len(stack)
  BY <1>2, <1>4
<1> QED BY <1>2, <1>3, <1>5 DEF StackInv

\* All but the last element of a sequence.
LEMMA FrontType ==
    ASSUME NEW S, NEW q \in Seq(S), q # <<>>
    PROVE  /\ Front(q) \in Seq(S) /\ Len(Front(q)) = Len(q) - 1
           /\ \A i \in 1..(Len(q) - 1) : Front(q)[i] = q[i]
<1> DEFINE n == Len(q) - 1
<1>1. n \in Nat /\ \A i \in 1..n : q[i] \in S
  BY EmptySeq, ElementOfSeq, LenProperties
<1>2. /\ SubSeq(q, 1, n) \in Seq(S)
      /\ Len(SubSeq(q, 1, n)) = IF 1 <= n THEN n - 1 + 1 ELSE 0
      /\ \A i \in 1..(n - 1 + 1) : SubSeq(q, 1, n)[i] = q[1 + i - 1]
  <2> HIDE DEF n
  <2> QED BY <1>1, SubSeqProperties
<1>3. n - 1 + 1 = n /\ \A i \in 1..n : 1 + i - 1 = i
  BY <1>1
<1>4. n = Len(q) - 1 /\ Front(q) = SubSeq(q, 1, n)
  BY DEF Front
<1>5. (IF 1 <= n THEN n - 1 + 1 ELSE 0) = n
  <2> HIDE DEF n
  <2> QED BY <1>1, <1>3
<1> HIDE DEF n
<1>6. \A i \in 1..n : SubSeq(q, 1, n)[i] = q[i]
  BY <1>2, <1>3
<1> QED BY <1>2, <1>4, <1>5, <1>6
-----------------------------------------------------------------------------
(* The three things a step does to the stack. *)

\* Entering an alias that is not on the way keeps the guard free of repetition.
LEMMA PushKeeps ==
    ASSUME StackInv, decl \in Decls, decl' = decl, NEW a \in Alias, Push(a),
           ~IsVisiting(a), stack # <<>> => HasRef
    PROVE  StackInv'
<1>1. PICK X : stack \in Seq(Frames(X))
  BY DEF StackInv
<1> DEFINE n == Len(stack)
<1>2. n \in Nat /\ visiting \in Seq(Alias) /\ Len(visiting) = n
  BY GuardType
<1>3. stack' = Append(stack, Frame(a)) /\ visiting' = Append(visiting, a)
  BY DEF Push
<1>4. Frame(a) \in Frames(X) /\ Frame(a).alias = a /\ Len(Frame(a).args) = 0
  BY DEF Frame, Frames
<1>5. /\ stack' \in Seq(Frames(X)) /\ Len(stack') = n + 1
      /\ \A i \in 1..n : stack'[i] = stack[i]
      /\ stack'[n + 1] = Frame(a)
  BY <1>1, <1>2, <1>3, <1>4, AppendProperties
<1>6. visiting' = [i \in 1..Len(stack') |-> stack'[i].alias]
  <2>1. /\ visiting' \in Seq(Alias) /\ Len(visiting') = n + 1
        /\ \A i \in 1..n : visiting'[i] = visiting[i]
        /\ visiting'[n + 1] = a
    BY <1>2, <1>3, AppendProperties
  <2>2. \A i \in 1..(n + 1) : visiting'[i] = stack'[i].alias
    <3>1. \A i \in 1..n : visiting[i] = stack[i].alias
      BY GuardType
    <3> QED BY <1>2, <1>4, <1>5, <2>1, <3>1
  <2> QED BY <1>2, <1>5, <2>1, <2>2
<1>7. \A i \in 1..n : stack[i].alias # a
  BY <1>2, GuardType DEF IsVisiting
<1>8. \A i, j \in 1..Len(stack') : stack'[i].alias = stack'[j].alias => i = j
  BY <1>2, <1>4, <1>5, <1>7 DEF StackInv
<1>9. \A i \in 1..n : Len(stack[i].args) < Len(Refs(i))
  <2>1. CASE n = 0
    BY <2>1, <1>2
  <2>2. CASE n # 0
    <3>1. Len(stack[n].args) < Len(Refs(n))
      BY <1>1, <2>2 DEF HasRef, Top, Refs
    <3> QED BY <1>2, <3>1 DEF StackInv
  <2> QED BY <2>1, <2>2
<1>10. \A i \in 1..Len(stack') :
         /\ Len(stack'[i].args) <= Len(decl'[stack'[i].alias].refs)
         /\ i < Len(stack') => Len(stack'[i].args) < Len(decl'[stack'[i].alias].refs)
  <2>1. ASSUME NEW i \in 1..n
        PROVE  Len(stack'[i].args) < Len(decl'[stack'[i].alias].refs)
    BY <1>5, <1>9 DEF Refs
  <2>2. ASSUME NEW i \in 1..n
        PROVE  /\ Len(stack'[i].args) \in Nat
               /\ Len(decl'[stack'[i].alias].refs) \in Nat
    <3>1. stack[i] \in Frames(X)
      BY <1>1
    <3>2. stack[i].alias \in Alias /\ Len(stack[i].args) \in Nat
      BY <3>1 DEF Frames
    <3> QED BY <1>5, <3>2, RefsType
  <2>3. 0 <= Len(decl'[a].refs)
    BY RefsType
  <2> QED BY <1>2, <1>4, <1>5, <2>1, <2>2, <2>3
<1> QED BY <1>5, <1>6, <1>8, <1>10 DEF StackInv, Refs

\* A frame that has dealt with a reference keeps its place.
LEMMA TookKeeps ==
    ASSUME StackInv, decl \in Decls, decl' = decl, HasRef,
           NEW ty, stack' = Took(ty), visiting' = visiting
    PROVE  StackInv'
<1>1. PICK X : stack \in Seq(Frames(X))
  BY DEF StackInv
<1> DEFINE n == Len(stack)
           Y == X \cup {ty}
<1>2. stack # <<>> /\ n \in Nat /\ n # 0
  BY <1>1 DEF HasRef
<1>3. stack \in Seq(Frames(Y))
  <2>1. X \subseteq Y
    OBVIOUS
  <2> HIDE DEF Y
  <2> QED BY <1>1, <2>1, MoreFrames
<1>4. stack[n] \in Frames(Y) /\ ty \in Y
  BY <1>2, <1>3
<1> DEFINE top == [stack[n] EXCEPT !.args = Append(@, ty)]
<1> HIDE DEF Y
<1>5. /\ stack[n].args \in Seq(Y)
      /\ Append(stack[n].args, ty) \in Seq(Y)
      /\ Len(Append(stack[n].args, ty)) = Len(stack[n].args) + 1
  BY <1>4 DEF Frames
<1>6. /\ top \in Frames(Y) /\ top.alias = stack[n].alias
      /\ Len(top.args) = Len(stack[n].args) + 1
  BY <1>4, <1>5 DEF Frames
<1>7. stack' = [stack EXCEPT ![n] = top]
  BY <1>2, <1>3 DEF Took
<1> HIDE DEF top
<1>8. /\ stack' \in Seq(Frames(Y)) /\ Len(stack') = n
      /\ \A i \in 1..n : i # n => stack'[i] = stack[i]
      /\ stack'[n] = top
  BY <1>2, <1>3, <1>6, <1>7
<1>9. \A i \in 1..n : stack'[i].alias = stack[i].alias
  BY <1>6, <1>8
<1>10. visiting' = [i \in 1..Len(stack') |-> stack'[i].alias]
  BY <1>8, <1>9 DEF StackInv
<1>11. Len(stack'[n].args) <= Len(decl'[stack'[n].alias].refs)
  <2>1. Len(stack[n].args) < Len(decl[stack[n].alias].refs)
    BY DEF HasRef, Top
  <2>2. stack[n].alias \in Alias
    BY <1>4 DEF Frames
  <2> QED BY <1>5, <1>6, <1>8, <2>1, <2>2, RefsType
<1>12. \A i, j \in 1..n : stack'[i].alias = stack'[j].alias => i = j
  BY <1>9 DEF StackInv
<1>13. \A i \in 1..n : i # n => Len(stack'[i].args) < Len(decl'[stack'[i].alias].refs)
  <2>1. \A i \in 1..n : i # n => Len(stack[i].args) < Len(decl[stack[i].alias].refs)
    BY <1>2 DEF StackInv, Refs
  <2> QED BY <1>8, <2>1
<1>14. \A i \in 1..n : Len(stack'[i].args) <= Len(decl'[stack'[i].alias].refs)
  <2>1. \A i \in 1..n : Len(stack[i].args) <= Len(decl[stack[i].alias].refs)
    BY DEF StackInv, Refs
  <2> QED BY <1>8, <1>11, <2>1
<1> QED BY <1>2, <1>8, <1>10, <1>12, <1>13, <1>14 DEF StackInv, Refs

\* A return takes the last frame and the last entry of the guard.
LEMMA ReturnKeeps ==
    ASSUME StackInv, decl \in Decls, decl' = decl, stack # <<>>,
           NEW ty, stack' = Returned(ty), visiting' = Front(visiting)
    PROVE  StackInv'
<1>1. PICK X : stack \in Seq(Frames(X))
  BY DEF StackInv
<1> DEFINE n == Len(stack)
           Y == X \cup {ty}
           s == Front(stack)
<1>2. n \in Nat /\ n # 0
  BY <1>1
<1>3. stack \in Seq(Frames(Y))
  <2>1. X \subseteq Y
    OBVIOUS
  <2> HIDE DEF Y
  <2> QED BY <1>1, <2>1, MoreFrames
<1>a. ty \in Y
  OBVIOUS
<1> HIDE DEF Y
<1>4. /\ s \in Seq(Frames(Y)) /\ Len(s) = n - 1
      /\ \A i \in 1..(n - 1) : s[i] = stack[i]
  BY <1>2, <1>3, FrontType
<1>5. /\ visiting' \in Seq(Alias) /\ Len(visiting') = n - 1
      /\ \A i \in 1..(n - 1) : visiting'[i] = stack[i].alias
  <2>1. visiting # <<>>
    BY <1>2, GuardType
  <2> QED BY <1>2, <2>1, GuardType, FrontType
<1>6. CASE s = <<>>
  <2>1. stack' = <<>> /\ n = 1
    BY <1>2, <1>4, <1>6 DEF Returned
  <2>2. visiting' = [i \in 1..Len(stack') |-> stack'[i].alias]
    BY <1>5, <2>1
  <2> QED BY <1>6, <1>4, <2>1, <2>2 DEF StackInv
<1>7. CASE s # <<>>
  <2> DEFINE m == n - 1
             top == [s[m] EXCEPT !.args = Append(@, ty)]
  <2>1. m \in Nat /\ m # 0 /\ Len(s) = m
    BY <1>2, <1>4, <1>7
  <2>2. s[m] \in Frames(Y) /\ s[m] = stack[m] /\ m < n /\ m \in 1..n
    BY <1>2, <1>4, <2>1
  <2>3. /\ s[m].args \in Seq(Y)
        /\ Append(s[m].args, ty) \in Seq(Y)
        /\ Len(Append(s[m].args, ty)) = Len(s[m].args) + 1
    BY <1>a, <2>2 DEF Frames
  <2>4. /\ top \in Frames(Y) /\ top.alias = s[m].alias
        /\ Len(top.args) = Len(s[m].args) + 1
    BY <2>2, <2>3 DEF Frames
  <2>5. stack' = [s EXCEPT ![m] = top]
    BY <1>7, <1>4, <2>1 DEF Returned
  <2> HIDE DEF top, s
  <2>6. /\ stack' \in Seq(Frames(Y)) /\ Len(stack') = m
        /\ \A i \in 1..m : i # m => stack'[i] = s[i]
        /\ stack'[m] = top
    BY <1>4, <2>1, <2>4, <2>5
  <2>7. \A i \in 1..m : stack'[i].alias = stack[i].alias
    BY <1>4, <2>1, <2>4, <2>6
  <2>8. visiting' = [i \in 1..Len(stack') |-> stack'[i].alias]
    BY <1>5, <2>6, <2>7
  <2>9. Len(stack'[m].args) <= Len(decl'[stack'[m].alias].refs)
    <3>1. Len(stack[m].args) < Len(decl[stack[m].alias].refs)
      BY <2>2 DEF StackInv, Refs
    <3>2. stack[m].alias \in Alias
      BY <2>2 DEF Frames
    <3> QED BY <2>2, <2>3, <2>4, <2>6, <3>1, <3>2, RefsType
  <2>10. \A i \in 1..m : i # m => Len(stack'[i].args) < Len(decl'[stack'[i].alias].refs)
    <3>1. \A i \in 1..m : i \in 1..n /\ i < n /\ s[i] = stack[i]
      BY <1>2, <1>4, <2>1
    <3>2. \A i \in 1..n : i < n => Len(stack[i].args) < Len(decl[stack[i].alias].refs)
      BY DEF StackInv, Refs
    <3> QED BY <2>6, <3>1, <3>2
  <2>11. \A i \in 1..m : Len(stack'[i].args) <= Len(decl'[stack'[i].alias].refs)
    <3>1. \A i \in 1..m : i \in 1..n /\ s[i] = stack[i]
      BY <1>2, <1>4, <2>1
    <3>2. \A i \in 1..n : Len(stack[i].args) <= Len(decl[stack[i].alias].refs)
      BY DEF StackInv, Refs
    <3> QED BY <2>6, <2>9, <3>1, <3>2
  <2>12. \A i, j \in 1..m : stack'[i].alias = stack'[j].alias => i = j
    <3>1. \A i \in 1..m : i \in 1..n
      BY <1>2, <2>1
    <3>2. \A i, j \in 1..n : stack[i].alias = stack[j].alias => i = j
      BY DEF StackInv
    <3> HIDE DEF m, n
    <3> QED BY <2>7, <3>1, <3>2
  <2>13. \A i \in 1..m : i < m => i # m
    BY <2>1
  <2>14. \E Z : stack' \in Seq(Frames(Z))
    BY <2>6
  <2> HIDE DEF m
  <2>15. /\ \A i \in 1..Len(stack') : Len(stack'[i].args) <= Len(decl'[stack'[i].alias].refs)
         /\ \A i \in 1..Len(stack') :
              i < Len(stack') => Len(stack'[i].args) < Len(decl'[stack'[i].alias].refs)
         /\ \A i, j \in 1..Len(stack') : stack'[i].alias = stack'[j].alias => i = j
    BY <2>6, <2>10, <2>11, <2>12, <2>13
  <2> QED BY <2>8, <2>14, <2>15 DEF StackInv, Refs
<1> QED BY <1>6, <1>7
-----------------------------------------------------------------------------
(* The steps of both walks. *)

LEMMA InitKeeps == Init => IInv
<1> SUFFICES ASSUME Init PROVE IInv
  OBVIOUS
<1>1. stack \in Seq(Frames({})) /\ Len(stack) = 0 /\ stack = <<>>
  BY EmptySeq DEF Init
<1>2. visiting = [i \in 1..Len(stack) |-> stack[i].alias]
  <2>1. visiting = <<>> /\ 1..Len(stack) = {}
    BY <1>1 DEF Init
  <2> QED BY <2>1
<1>3. StackInv
  BY <1>1, <1>2 DEF StackInv
<1> QED BY <1>3, AliasAssumption DEF Init, IInv, EmptyMap

\* A root is walked on an empty stack.
LEMMA RootKeeps ==
    ASSUME IInv, decl' = decl, stack = <<>>, NEW a \in Alias,
           \/ UNCHANGED <<stack, visiting, resolved, errors>>
           \/ Push(a)
    PROVE  StackInv' /\ resolved' = resolved /\ errors' = errors
<1>1. CASE UNCHANGED <<stack, visiting, resolved, errors>>
  BY <1>1 DEF IInv, StackInv, Refs
<1>2. CASE Push(a)
  <2>1. ~IsVisiting(a)
    BY GuardType DEF IInv, IsVisiting
  <2> QED BY <1>2, <2>1, PushKeeps DEF IInv, Push
<1> QED BY <1>1, <1>2

LEMMA NextRefType ==
    ASSUME IInv, HasRef
    PROVE  NextRef \in Alias
<1>1. PICK X : stack \in Seq(Frames(X))
  BY DEF IInv, StackInv
<1>2. Len(stack) \in 1..Len(stack) /\ Top \in Frames(X)
  BY <1>1 DEF HasRef, Top
<1>3. /\ Top.alias \in Alias /\ Len(Top.args) \in Nat
  BY <1>2 DEF Frames
<1>4. decl[Top.alias].refs \in Seq(Alias) /\ Len(decl[Top.alias].refs) \in Nat
  BY <1>3, RefsType DEF IInv
<1>5. Len(Top.args) + 1 \in 1..Len(decl[Top.alias].refs)
  BY <1>3, <1>4 DEF HasRef
<1> QED BY <1>4, <1>5, ElementOfSeq DEF NextRef

LEMMA TopAlias ==
    ASSUME IInv, stack # <<>>
    PROVE  Top.alias \in Alias
<1>1. Len(stack) \in 1..Len(stack)
  BY EmptySeq DEF IInv, StackInv
<1> QED BY <1>1, GuardType DEF IInv, Top

LEMMA LocalKeeps == IInv /\ (LocalRoot \/ LocalDep \/ LocalFinish \/ LocalDone) => IInv'
<1> SUFFICES ASSUME IInv, LocalRoot \/ LocalDep \/ LocalFinish \/ LocalDone PROVE IInv'
  OBVIOUS
<1>1. CASE LocalRoot
  <2>1. Head(pending) \in Alias /\ Tail(pending) \in Seq(Alias)
    BY <1>1, HeadTailProperties DEF LocalRoot, IInv
  <2>2. StackInv' /\ resolved' = resolved /\ errors' = errors
    BY <1>1, <2>1, RootKeeps DEF LocalRoot
  <2> QED BY <1>1, <2>1, <2>2 DEF LocalRoot, IInv
<1>2. CASE LocalDep
  <2>1. NextRef \in Alias
    BY <1>2, NextRefType DEF LocalDep
  <2>2. CASE /\ NextRef \notin DOMAIN resolved /\ ~IsVisiting(NextRef)
             /\ Push(NextRef)
    <3>1. StackInv'
      BY <1>2, <2>1, <2>2, PushKeeps DEF LocalDep, IInv
    <3> QED BY <1>2, <2>2, <3>1 DEF LocalDep, IInv, Push
  <2>3. CASE stack' = Took(Unknown) /\ UNCHANGED <<visiting, resolved, errors>>
    <3>1. StackInv'
      BY <1>2, <2>3, TookKeeps DEF LocalDep, IInv
    <3> QED BY <1>2, <2>3, <3>1 DEF LocalDep, IInv
  <2>4. CASE /\ stack' = Took(Unknown) /\ UNCHANGED visiting
             /\ resolved' = Bind(NextRef, Unknown) /\ errors' = errors \cup {NextRef}
    <3>1. StackInv'
      BY <1>2, <2>4, TookKeeps DEF LocalDep, IInv
    <3> QED BY <1>2, <2>1, <2>4, <3>1 DEF LocalDep, IInv, Bind
  <2> QED BY <1>2, <2>2, <2>3, <2>4 DEF LocalDep
<1>3. CASE LocalFinish
  <2>1. Top.alias \in Alias
    BY <1>3, TopAlias DEF LocalFinish
  <2>2. StackInv'
    BY <1>3, ReturnKeeps DEF LocalFinish, IInv
  <2>3. DOMAIN resolved' \subseteq Alias
    BY <1>3, <2>1 DEF LocalFinish, Bind, IInv
  <2> QED BY <1>3, <2>2, <2>3 DEF LocalFinish, IInv
<1>4. CASE LocalDone
  <2>1. StackInv'
    BY <1>4 DEF LocalDone, IInv, StackInv, Refs
  <2> QED BY <1>4, <2>1, AliasAssumption DEF LocalDone, IInv, EmptyMap
<1> QED BY <1>1, <1>2, <1>3, <1>4

LEMMA ImportKeeps == IInv /\ (ImportRoot \/ ImportRef \/ ImportFinish \/ ImportDone) => IInv'
<1> SUFFICES ASSUME IInv, ImportRoot \/ ImportRef \/ ImportFinish \/ ImportDone PROVE IInv'
  OBVIOUS
<1>1. CASE ImportRoot
  <2>1. PICK i \in 1..Len(pending) :
          /\ pending' = [j \in 1..(Len(pending) - 1) |->
                            IF j < i THEN pending[j] ELSE pending[j + 1]]
          /\ IF pending[i] \in DOMAIN resolved
             THEN UNCHANGED <<stack, visiting, resolved, errors>>
             ELSE Push(pending[i])
    BY <1>1 DEF ImportRoot
  <2>2. Len(pending) \in Nat /\ \A j \in 1..Len(pending) : pending[j] \in Alias
    BY DEF IInv
  <2>3. pending' \in Seq(Alias)
    <3>1. \A j \in 1..(Len(pending) - 1) : j \in 1..Len(pending) /\ j + 1 \in 1..Len(pending)
      BY <2>2
    <3>2. pending' \in [1..(Len(pending) - 1) -> Alias]
      BY <2>1, <2>2, <3>1
    <3>3. Len(pending) - 1 \in Nat
      BY <2>1, <2>2
    <3> QED BY <3>2, <3>3
  <2>4. StackInv' /\ resolved' = resolved /\ errors' = errors
    BY <1>1, <2>1, <2>2, RootKeeps DEF ImportRoot
  <2> QED BY <1>1, <2>3, <2>4 DEF ImportRoot, IInv
<1>2. CASE ImportRef
  <2>1. NextRef \in Alias
    BY <1>2, NextRefType DEF ImportRef
  <2>2. CASE /\ NextRef \notin DOMAIN resolved /\ ~IsVisiting(NextRef)
             /\ Push(NextRef)
    <3>1. StackInv'
      BY <1>2, <2>1, <2>2, PushKeeps DEF ImportRef, IInv
    <3> QED BY <1>2, <2>2, <3>1 DEF ImportRef, IInv, Push
  <2>3. ASSUME NEW ty, stack' = Took(ty), UNCHANGED <<visiting, resolved, errors>>
        PROVE  IInv'
    <3>1. StackInv'
      BY <1>2, <2>3, TookKeeps DEF ImportRef, IInv
    <3> QED BY <1>2, <2>3, <3>1 DEF ImportRef, IInv
  <2> QED BY <1>2, <2>2, <2>3 DEF ImportRef
<1>3. CASE ImportFinish
  <2>1. Top.alias \in Alias
    BY <1>3, TopAlias DEF ImportFinish
  <2>2. StackInv'
    BY <1>3, ReturnKeeps DEF ImportFinish, IInv
  <2>3. DOMAIN resolved' \subseteq Alias
    BY <1>3, <2>1 DEF ImportFinish, Bind, IInv
  <2> QED BY <1>3, <2>2, <2>3 DEF ImportFinish, IInv
<1>4. CASE ImportDone
  <2>1. StackInv'
    BY <1>4 DEF ImportDone, IInv, StackInv, Refs
  <2> QED BY <1>4, <2>1, AliasAssumption DEF ImportDone, IInv, EmptyMap
<1> QED BY <1>1, <1>2, <1>3, <1>4

LEMMA IntervalSize ==
    ASSUME NEW n \in Nat
    PROVE  Cardinality(1..n) = n
<1>1. 1 \in Int /\ n \in Int
  OBVIOUS
<1>2. Cardinality(1..n) = IF 1 > n THEN 0 ELSE n - 1 + 1
  BY ONLY <1>1, FS_Interval, Zenon
<1> QED BY <1>2

\* The strengthened invariant holds in every state of every walk.
THEOREM Invariance == Spec => []IInv
<1>1. IInv /\ UNCHANGED vars => IInv'
  BY DEF IInv, vars, StackInv, Refs
<1>2. IInv /\ [Next]_vars => IInv'
  BY <1>1, LocalKeeps, ImportKeeps DEF Next
<1> QED BY InitKeeps, <1>2, PTL DEF Spec

\* The frames of a walk and its guard agree, and no frame has gone through more
\* references than its declaration has.
THEOREM TypeCorrect == Spec => []TypeOK
<1>1. IInv => TypeOK
  <2> SUFFICES ASSUME IInv PROVE TypeOK
    OBVIOUS
  <2>1. DOMAIN stack = 1..Len(stack) /\ DOMAIN pending = 1..Len(pending)
    BY LenProperties DEF IInv, StackInv
  <2>2. \A i \in 1..Len(stack) : stack[i].alias \in Alias
    BY GuardType DEF IInv
  <2>3. visiting = [i \in DOMAIN stack |-> stack[i].alias]
    BY <2>1 DEF IInv, StackInv
  <2>4. \A i \in DOMAIN stack : /\ stack[i].alias \in Alias
                                /\ Len(stack[i].args) <= Len(decl[stack[i].alias].refs)
    BY <2>1, <2>2 DEF IInv, StackInv, Refs
  <2>5. \A i \in DOMAIN pending : pending[i] \in Alias
    BY <2>1 DEF IInv
  <2> QED BY <2>3, <2>4, <2>5 DEF IInv, TypeOK
<1> QED BY <1>1, Invariance, PTL

\* No walk recurses deeper than there are aliases: ensure_alias, ty_of and
\* ty_of_alias cannot overflow the stack on a cycle, whatever it looks like.
THEOREM BoundedRecursion == Spec => []RecursionBounded
<1>1. IInv => RecursionBounded
  <2> SUFFICES ASSUME IInv PROVE RecursionBounded
    OBVIOUS
  <2>1. Len(stack) \in Nat /\ visiting \in Seq(Alias) /\ Len(visiting) = Len(stack)
    BY GuardType DEF IInv
  <2>2. visiting \in Injection(1..Len(stack), Alias)
    BY <2>1, GuardType DEF IInv, StackInv, Injection, IsInjective
  <2>3. Cardinality(1..Len(stack)) = Len(stack)
    BY <2>1, IntervalSize
  <2>4. Cardinality(1..Len(stack)) <= Cardinality(Alias)
    BY <2>2, AliasAssumption, FS_Injection
  <2> QED BY <2>3, <2>4 DEF RecursionBounded
<1> QED BY <1>1, Invariance, PTL
-----------------------------------------------------------------------------
(* Paths between declarations, of declarations d.                          *)

EdgeIn(d, a, b) == \E i \in DOMAIN d[a].refs : d[a].refs[i] = b

Closed(d, a, S) == /\ \A x \in Alias : EdgeIn(d, a, x) => x \in S
                   /\ \A x \in S, y \in Alias : EdgeIn(d, x, y) => y \in S

PathIn(d, a, b) == \A S \in SUBSET Alias : Closed(d, a, S) => b \in S

CyclicIn(d, a) == PathIn(d, a, a) \/ \E b \in Alias : PathIn(d, a, b) /\ PathIn(d, b, b)

\* The graph of the properties is that of the declarations of this module.
LEMMA Graph == /\ \A a, b : Edge(a, b) <=> EdgeIn(decl, a, b)
               /\ \A a, b : Path(a, b) <=> PathIn(decl, a, b)
               /\ \A a : ReachesCycle(a) <=> CyclicIn(decl, a)
<1>1. \A a, b : Edge(a, b) <=> EdgeIn(decl, a, b)
  BY DEF Edge, EdgeIn
<1>2. \A a, b : Path(a, b) <=> PathIn(decl, a, b)
  BY <1>1 DEF Path, PathIn, Closed
<1> QED BY <1>1, <1>2 DEF ReachesCycle, OnCycle, CyclicIn

\* What an alias refers to, it has a path to; so has what has a path to it.
LEMMA PathSteps ==
    ASSUME NEW d, NEW a \in Alias, NEW b \in Alias, EdgeIn(d, a, b)
    PROVE  /\ PathIn(d, a, b)
           /\ \A x : PathIn(d, x, a) => PathIn(d, x, b)
           /\ \A x : PathIn(d, b, x) => PathIn(d, a, x)
BY DEF PathIn, Closed

\* A path begins with a reference.
LEMMA PathFirst ==
    ASSUME NEW d, NEW a \in Alias, NEW c, PathIn(d, a, c)
    PROVE  \E b \in Alias : EdgeIn(d, a, b) /\ (b = c \/ PathIn(d, b, c))
<1> DEFINE S == { z \in Alias : \E b \in Alias : EdgeIn(d, a, b) /\ (b = z \/ PathIn(d, b, z)) }
<1>1. Closed(d, a, S)
  <2>1. ASSUME NEW x \in S, NEW y \in Alias, EdgeIn(d, x, y)
        PROVE  y \in S
    <3>1. PICK b \in Alias : EdgeIn(d, a, b) /\ (b = x \/ PathIn(d, b, x))
      OBVIOUS
    <3>2. PathIn(d, b, y)
      BY <2>1, <3>1, PathSteps
    <3> QED BY <3>1, <3>2
  <2> QED BY <2>1 DEF Closed
<1>2. S \in SUBSET Alias
  OBVIOUS
<1> HIDE DEF S
<1>3. c \in S
  BY <1>1, <1>2 DEF PathIn
<1> QED BY <1>3 DEF S

\* What an alias off the cycles refers to is off the cycles, and it is another.
LEMMA AcyclicSteps ==
    ASSUME NEW d, NEW a \in Alias, NEW b \in Alias, EdgeIn(d, a, b), ~CyclicIn(d, a)
    PROVE  ~CyclicIn(d, b) /\ b # a /\ ~PathIn(d, b, b)
BY PathSteps DEF CyclicIn

-----------------------------------------------------------------------------
(* The expansion of an alias.                                              *)

TypeIn(d, names, a, args) ==
    LET ty == Build(d[a].shape, args)
    IN  IF d[a].tag = NoTag THEN ty ELSE Tagged(names[a], ty)

\* The type a gets when its references have the types of T.
Over(d, names, T, a) == TypeIn(d, names, a, [i \in DOMAIN d[a].refs |-> T[d[a].refs[i]]])

\* The first m expansions.
IsExpand(d, names, f, m) ==
    f = [n \in 0..m |-> [a \in Alias |-> IF n = 0 THEN Unknown ELSE Over(d, names, f[n - 1], a)]]

LEMMA NatLeast ==
    ASSUME NEW S \in SUBSET Nat, S # {}
    PROVE  \E m \in S : \A k \in S : m <= k
<1> DEFINE R == { ss \in Nat \X Nat : ss[1] < ss[2] }
<1>1. IsWellFoundedOn(R, Nat)
  BY NatLessThanWellFounded DEF OpToRel
<1> HIDE DEF R
<1>2. PICK x \in S : \A y \in S : ~(<<y, x>> \in R)
  BY <1>1, WFMin
<1>3. \A y \in S : ~(y < x)
  BY <1>2 DEF R
<1> QED BY <1>3

LEMMA ExpandExists ==
    ASSUME NEW d, NEW names, NEW m \in Nat
    PROVE  \E f : IsExpand(d, names, f, m)
<1> DEFINE S == { k \in Nat : ~ \E f : IsExpand(d, names, f, k) }
<1>1. SUFFICES ASSUME S # {} PROVE FALSE
  OBVIOUS
<1>2. PICK k \in S : \A j \in S : k <= j
  <2> S \in SUBSET Nat
    OBVIOUS
  <2> HIDE DEF S
  <2> QED BY <1>1, NatLeast
<1>3. k \in Nat /\ ~ \E f : IsExpand(d, names, f, k)
  OBVIOUS
<1>4. CASE k = 0
  <2> DEFINE f == [n \in 0..0 |-> [a \in Alias |-> Unknown]]
  <2>1. \A n \in 0..0 : n = 0
    OBVIOUS
  <2>2. IsExpand(d, names, f, 0)
    BY <2>1 DEF IsExpand
  <2> QED BY <1>3, <1>4, <2>2
<1>5. CASE k # 0
  <2>1. k - 1 \in Nat /\ k - 1 \notin S
    BY <1>2, <1>5
  <2>2. PICK f : IsExpand(d, names, f, k - 1)
    BY <2>1
  <2> DEFINE L(n, g) == [a \in Alias |-> IF n = 0 THEN Unknown ELSE Over(d, names, g, a)]
             h == [n \in 0..k |-> IF n = k THEN L(n, f[n - 1]) ELSE f[n]]
  <2>3. \A n \in 0..(k - 1) : f[n] = L(n, f[n - 1])
    BY <2>2 DEF IsExpand
  <2>4. \A n \in 0..k : n # 0 => h[n - 1] = f[n - 1]
    BY <1>3
  <2>5. \A n \in 0..k : h[n] = L(n, f[n - 1])
    <3>1. \A n \in 0..k : n = k \/ n \in 0..(k - 1)
      BY <1>3
    <3> HIDE DEF L
    <3> QED BY <2>3, <3>1
  <2>6. \A n \in 0..k : L(n, f[n - 1]) = L(n, h[n - 1])
    BY <2>4
  <2>7. h = [n \in 0..k |-> L(n, h[n - 1])]
    <3>1. \A n \in 0..k : h[n] = L(n, h[n - 1])
      BY <2>5, <2>6
    <3>2. h = [n \in 0..k |-> h[n]]
      OBVIOUS
    <3> HIDE DEF h, L
    <3> QED BY <3>1, <3>2
  <2>8. IsExpand(d, names, h, k)
    BY <2>7 DEF IsExpand
  <2> QED BY <1>3, <2>8
<1> QED BY <1>4, <1>5

\* The aliases off the cycles have as many levels as they reach aliases.
Reach(d, a) == { x \in Alias : PathIn(d, a, x) }

LEMMA ReachSmaller ==
    ASSUME NEW d, NEW a \in Alias, NEW b \in Alias, EdgeIn(d, a, b), ~CyclicIn(d, a)
    PROVE  /\ Cardinality(Reach(d, a)) \in Nat /\ Cardinality(Reach(d, b)) \in Nat
           /\ Cardinality(Reach(d, b)) < Cardinality(Reach(d, a))
<1>1. IsFiniteSet(Reach(d, a)) /\ IsFiniteSet(Reach(d, b))
  <2>1. Reach(d, a) \subseteq Alias /\ Reach(d, b) \subseteq Alias
    BY DEF Reach
  <2> QED BY <2>1, AliasAssumption, FS_Subset
<1>2. Reach(d, b) \subseteq Reach(d, a) /\ b \in Reach(d, a) /\ b \notin Reach(d, b)
  BY PathSteps, AcyclicSteps DEF Reach
<1>3. /\ Cardinality(Reach(d, a)) \in Nat /\ Cardinality(Reach(d, b)) \in Nat
  BY <1>1, FS_CardinalityType
<1>4. /\ Cardinality(Reach(d, b)) <= Cardinality(Reach(d, a))
      /\ Cardinality(Reach(d, b)) = Cardinality(Reach(d, a)) => Reach(d, b) = Reach(d, a)
  BY <1>1, <1>2, FS_Subset
<1> QED BY <1>2, <1>3, <1>4

\* Where T gives every alias off the cycles the type its references make it,
\* T is the expansion.
Solves(d, names, T) == \A a \in Alias : ~CyclicIn(d, a) => T[a] = Over(d, names, T, a)

LEMMA SolutionIsExpansion ==
    ASSUME decl \in Decls, NEW names, NEW T, Solves(decl, names, T),
           NEW a \in Alias, ~CyclicIn(decl, a)
    PROVE  T[a] = Expansion(names)[a]
<1> DEFINE Depth == Cardinality(Alias)
           rank(x) == Cardinality(Reach(decl, x))
           G(f, n) == [x \in Alias |->
                         IF n = 0 THEN Unknown
                         ELSE TypeOf(names, x, [i \in DOMAIN decl[x].refs |->
                                                  f[n - 1][decl[x].refs[i]]])]
           expand == CHOOSE f : f = [n \in 0..Depth |-> G(f, n)]
<1>1. Depth \in Nat
  BY AliasAssumption, FS_CardinalityType
<1>2. Expansion(names) = expand[Depth]
  BY DEF Expansion
<1>3. \A f, n : G(f, n) = [x \in Alias |-> IF n = 0 THEN Unknown
                                          ELSE Over(decl, names, f[n - 1], x)]
  BY DEF Over, TypeIn, TypeOf
<1>4. \A n \in 0..Depth, x \in Alias :
         expand[n][x] = IF n = 0 THEN Unknown ELSE Over(decl, names, expand[n - 1], x)
  <2>1. PICK f : IsExpand(decl, names, f, Depth)
    BY <1>1, ExpandExists
  <2>2. f = [n \in 0..Depth |-> G(f, n)]
    <3> HIDE DEF G
    <3> QED BY <1>3, <2>1 DEF IsExpand
  <2>3. expand = [n \in 0..Depth |-> G(expand, n)]
    <3> HIDE DEF G
    <3> QED BY <2>2
  <2> HIDE DEF expand, Depth
  <2>4. \A n \in 0..Depth : expand[n] = G(expand, n)
    <3> HIDE DEF G
    <3> QED BY <2>3
  <2>5. \A n \in 0..Depth : expand[n] = [x \in Alias |-> IF n = 0 THEN Unknown
                                            ELSE Over(decl, names, expand[n - 1], x)]
    <3> HIDE DEF G
    <3> QED BY <1>3, <2>4
  <2> QED BY <2>5
<1> HIDE DEF expand
<1>5. \A x \in Alias : decl[x].refs \in Seq(Alias) /\ DOMAIN decl[x].refs = 1..Len(decl[x].refs)
  BY RefsType, LenProperties
<1>6. \A x \in Alias : rank(x) \in Nat
  <2>1. \A x \in Alias : Reach(decl, x) \subseteq Alias
    BY DEF Reach
  <2> QED BY <2>1, AliasAssumption, FS_Subset, FS_CardinalityType
<1> DEFINE Wrong(x, n) == ~CyclicIn(decl, x) /\ rank(x) < n /\ expand[n][x] # T[x]
           W == { k \in Nat : \E x \in Alias, n \in 0..Depth : rank(x) = k /\ Wrong(x, n) }
<1>7. W = {}
  <2>1. SUFFICES ASSUME W # {} PROVE FALSE
    OBVIOUS
  <2>2. PICK k \in W : \A j \in W : k <= j
    <3>1. W \in SUBSET Nat
      OBVIOUS
    <3> HIDE DEF W
    <3> QED BY <2>1, <3>1, NatLeast
  <2>3. PICK x \in Alias, n \in 0..Depth : rank(x) = k /\ Wrong(x, n)
    OBVIOUS
  <2>4. n # 0 /\ n - 1 \in 0..Depth /\ n \in Nat
    BY <1>1, <1>6, <2>3
  <2>5. ASSUME NEW i \in DOMAIN decl[x].refs
        PROVE  expand[n - 1][decl[x].refs[i]] = T[decl[x].refs[i]]
    <3> DEFINE b == decl[x].refs[i]
    <3>1. b \in Alias /\ EdgeIn(decl, x, b)
      BY <1>5 DEF EdgeIn
    <3> HIDE DEF b
    <3>2. ~CyclicIn(decl, b) /\ rank(b) < rank(x)
      BY <2>3, <3>1, AcyclicSteps, ReachSmaller
    <3>3. rank(b) < n - 1 /\ rank(b) \in Nat /\ rank(b) \notin W
      <4>1. rank(b) \in Nat /\ rank(x) \in Nat
        BY <1>6, <3>1
      <4>2. ~(rank(x) <= rank(b))
        BY <3>2, <4>1
      <4> HIDE DEF rank, W
      <4> QED BY <2>2, <2>3, <2>4, <3>2, <4>1, <4>2
    <3> HIDE DEF rank
    <3> QED BY <2>4, <3>1, <3>2, <3>3 DEF b
  <2>6. expand[n][x] = Over(decl, names, expand[n - 1], x)
    BY <1>4, <2>3, <2>4
  <2>7. Over(decl, names, expand[n - 1], x) = Over(decl, names, T, x)
    BY <2>5 DEF Over
  <2>8. T[x] = Over(decl, names, T, x)
    BY <2>3 DEF Solves
  <2> QED BY <2>3, <2>6, <2>7, <2>8
<1>8. rank(a) < Depth
  <2>1. Reach(decl, a) \subseteq Alias /\ a \notin Reach(decl, a)
    BY DEF Reach, CyclicIn
  <2>2. rank(a) <= Depth /\ (rank(a) = Depth => Reach(decl, a) = Alias)
    BY <2>1, AliasAssumption, FS_Subset
  <2>3. rank(a) \in Nat
    BY <1>6
  <2> HIDE DEF rank, Depth
  <2> QED BY <1>1, <2>1, <2>2, <2>3
<1>9. ~Wrong(a, Depth)
  <2>1. rank(a) \in Nat /\ Depth \in 0..Depth
    BY <1>1, <1>6
  <2> HIDE DEF Wrong, rank, Depth
  <2> QED BY <1>7, <2>1
<1> QED BY <1>2, <1>8, <1>9

-----------------------------------------------------------------------------
(* What the walks remember.                                                *)

OnStack(st, a) == \E i \in 1..Len(st) : st[i].alias = a

NamesIn(d, ph) == IF ph = "local" THEN [a \in Alias |-> a] ELSE [a \in Alias |-> d[a].tag]

\* Every part of W has an alias that refers to none of that part.
Founded(d, W) == \A T \in SUBSET W : T # {} => \E x \in T : \A y \in T : ~EdgeIn(d, x, y)

\* Each frame waits for the next, and has a path to all that are above it.
OrderInv ==
    /\ \A i \in 1..Len(stack) : i < Len(stack) =>
          decl[stack[i].alias].refs[Len(stack[i].args) + 1] = stack[i + 1].alias
    /\ \A i, j \in 1..Len(stack) : i < j => PathIn(decl, stack[i].alias, stack[j].alias)

\* No alias is forgotten.
CoverInv ==
    /\ phase # "done" => \A a \in Alias : \/ a \in DOMAIN resolved \/ OnStack(stack, a)
                                          \/ \E i \in 1..Len(pending) : pending[i] = a
    /\ phase = "done" => stack = <<>> /\ Alias \subseteq DOMAIN resolved

\* An alias is reported for a path to itself; only that gives it a type while
\* its walk is under way.
ErrorInv ==
    /\ \A a \in errors : PathIn(decl, a, a)
    /\ \A a \in DOMAIN resolved : OnStack(stack, a) => phase = "local" /\ a \in errors

\* The local walk leaves an alias when all it refers to has been resolved, so that
\* the aliases it has left without a report cannot be on a cycle.
GraphInv ==
    /\ phase = "local" =>
         /\ \A a \in DOMAIN resolved : ~OnStack(stack, a) =>
               \A b \in Alias : EdgeIn(decl, a, b) => b \in DOMAIN resolved
         /\ \A i \in 1..Len(stack) : \A k \in 1..Len(stack[i].args) :
               decl[stack[i].alias].refs[k] \in DOMAIN resolved
         /\ Founded(decl, DOMAIN resolved \ errors)
    /\ phase # "local" => Founded(decl, Alias \ errors)

\* Off the cycles types are final: they are the ones the references make.
FinalInv ==
    \A a \in DOMAIN resolved : ~CyclicIn(decl, a) =>
       /\ \A b \in Alias : EdgeIn(decl, a, b) => b \in DOMAIN resolved
       /\ resolved[a] = Over(decl, NamesIn(decl, phase), resolved, a)

\* The frames of an importing walk hold such types.
ArgsInv ==
    phase # "local" =>
       \A i \in 1..Len(stack) : \A k \in 1..Len(stack[i].args) :
          ~CyclicIn(decl, decl[stack[i].alias].refs[k]) =>
             /\ decl[stack[i].alias].refs[k] \in DOMAIN resolved
             /\ stack[i].args[k] = resolved[decl[stack[i].alias].refs[k]]

\* So do the results of the walks that have ended.
SavedInv == /\ phase # "local" => Solves(decl, NamesIn(decl, "local"), local)
            /\ phase \in {"second", "done"} => Solves(decl, NamesIn(decl, phase), import1)

ValueInv == FinalInv /\ ArgsInv /\ SavedInv

WalkInv == IInv /\ OrderInv /\ CoverInv /\ ErrorInv /\ GraphInv /\ ValueInv

LEMMA FrameType ==
    ASSUME StackInv, NEW i \in 1..Len(stack)
    PROVE  /\ stack[i].alias \in Alias
           /\ Len(stack[i].args) \in Nat
           /\ stack[i].args = [k \in 1..Len(stack[i].args) |-> stack[i].args[k]]
<1>1. PICK X : stack \in Seq(Frames(X))
  BY DEF StackInv
<1>2. stack[i] \in Frames(X)
  BY <1>1, ElementOfSeq
<1>3. stack[i].alias \in Alias /\ stack[i].args \in Seq(X)
  BY <1>2 DEF Frames
<1> QED BY <1>3, LenProperties

\* The frame g is the frame f after one more reference, which got the type ty.
Grown(f, g, ty) == /\ g.alias = f.alias /\ Len(g.args) = Len(f.args) + 1
                   /\ \A k \in 1..Len(f.args) : g.args[k] = f.args[k]
                   /\ g.args[Len(f.args) + 1] = ty

LEMMA PushedStack ==
    ASSUME StackInv, NEW a \in Alias, stack' = Append(stack, Frame(a))
    PROVE  /\ Len(stack) \in Nat /\ Len(stack') = Len(stack) + 1
           /\ \A i \in 1..Len(stack) : stack'[i] = stack[i]
           /\ stack'[Len(stack) + 1].alias = a
           /\ Len(stack'[Len(stack) + 1].args) = 0
           /\ \A x : OnStack(stack', x) <=> OnStack(stack, x) \/ x = a
<1>1. PICK X : stack \in Seq(Frames(X))
  BY DEF StackInv
<1>2. Frame(a) \in Frames(X) /\ Frame(a).alias = a /\ Len(Frame(a).args) = 0
  BY DEF Frame, Frames
<1>3. /\ Len(stack) \in Nat /\ Len(stack') = Len(stack) + 1
      /\ \A i \in 1..Len(stack) : stack'[i] = stack[i]
      /\ stack'[Len(stack) + 1] = Frame(a)
  BY <1>1, <1>2, AppendProperties, LenProperties
<1>4. \A x : OnStack(stack', x) <=> OnStack(stack, x) \/ x = a
  BY <1>2, <1>3 DEF OnStack
<1> QED BY <1>2, <1>3, <1>4

LEMMA TookStack ==
    ASSUME StackInv, stack # <<>>, NEW ty, stack' = Took(ty)
    PROVE  /\ Len(stack) \in Nat \ {0} /\ Len(stack') = Len(stack)
           /\ \A i \in 1..Len(stack) : i # Len(stack) => stack'[i] = stack[i]
           /\ \A i \in 1..Len(stack) : stack'[i].alias = stack[i].alias
           /\ Grown(stack[Len(stack)], stack'[Len(stack)], ty)
           /\ \A x : OnStack(stack', x) <=> OnStack(stack, x)
<1>1. PICK X : stack \in Seq(Frames(X))
  BY DEF StackInv
<1> DEFINE n == Len(stack)
           Y == X \cup {ty}
           top == [stack[n] EXCEPT !.args = Append(@, ty)]
<1>2. n \in Nat /\ n # 0
  BY <1>1
<1>3. stack \in Seq(Frames(Y)) /\ ty \in Y
  <2>1. X \subseteq Y /\ ty \in Y
    OBVIOUS
  <2> HIDE DEF Y
  <2> QED BY <1>1, <2>1, MoreFrames
<1> HIDE DEF Y
<1>4. stack[n] \in Frames(Y)
  BY <1>2, <1>3
<1>5. stack[n].args \in Seq(Y)
  BY <1>4 DEF Frames
<1>6. /\ Append(stack[n].args, ty) \in Seq(Y)
      /\ Len(Append(stack[n].args, ty)) = Len(stack[n].args) + 1
      /\ \A k \in 1..Len(stack[n].args) : Append(stack[n].args, ty)[k] = stack[n].args[k]
      /\ Append(stack[n].args, ty)[Len(stack[n].args) + 1] = ty
  BY <1>3, <1>5, AppendProperties
<1>7. top.alias = stack[n].alias /\ top.args = Append(stack[n].args, ty) /\ top \in Frames(Y)
  BY <1>4, <1>6 DEF Frames
<1>8. stack' = [stack EXCEPT ![n] = top]
  BY <1>2, <1>3 DEF Took
<1>9. Grown(stack[n], top, ty)
  BY <1>6, <1>7 DEF Grown
<1> HIDE DEF top
<1>10. /\ Len(stack') = n /\ stack'[n] = top
       /\ \A i \in 1..n : i # n => stack'[i] = stack[i]
  BY <1>2, <1>3, <1>7, <1>8, ExceptSeq
<1>11. \A i \in 1..n : stack'[i].alias = stack[i].alias
  BY <1>7, <1>10
<1>12. \A x : OnStack(stack', x) <=> OnStack(stack, x)
  BY <1>10, <1>11 DEF OnStack
<1> QED BY <1>2, <1>9, <1>10, <1>11, <1>12

LEMMA ReturnedStack ==
    ASSUME StackInv, stack # <<>>, NEW ty, stack' = Returned(ty)
    PROVE  /\ Len(stack) \in Nat \ {0} /\ Len(stack') = Len(stack) - 1
           /\ \A i \in 1..(Len(stack) - 1) : stack'[i].alias = stack[i].alias
           /\ \A i \in 1..(Len(stack) - 1) : i # Len(stack) - 1 => stack'[i] = stack[i]
           /\ Len(stack) > 1 => Grown(stack[Len(stack) - 1], stack'[Len(stack) - 1], ty)
           /\ \A x : OnStack(stack, x) <=> OnStack(stack', x) \/ x = Top.alias
           /\ ~OnStack(stack', Top.alias)
<1>1. PICK X : stack \in Seq(Frames(X))
  BY DEF StackInv
<1> DEFINE n == Len(stack)
           m == n - 1
           Y == X \cup {ty}
           s == Front(stack)
           low == [s[m] EXCEPT !.args = Append(@, ty)]
<1>2. n \in Nat /\ n # 0
  BY <1>1
<1>3. stack \in Seq(Frames(Y)) /\ ty \in Y
  <2>1. X \subseteq Y /\ ty \in Y
    OBVIOUS
  <2> HIDE DEF Y
  <2> QED BY <1>1, <2>1, MoreFrames
<1> HIDE DEF Y
<1>4. /\ s \in Seq(Frames(Y)) /\ Len(s) = m /\ m \in Nat
      /\ \A i \in 1..m : s[i] = stack[i]
  BY <1>2, <1>3, FrontType
<1>5. /\ Len(stack') = m
      /\ \A i \in 1..m : i # m => stack'[i] = stack[i]
      /\ m # 0 => Grown(stack[m], stack'[m], ty)
  <2>1. CASE s = <<>>
    BY <1>4, <2>1 DEF Returned
  <2>2. CASE s # <<>>
    <3>1. m # 0 /\ m \in 1..m /\ s[m] = stack[m] /\ s[m] \in Frames(Y)
      BY <1>2, <1>4, <2>2
    <3>2. s[m].args \in Seq(Y)
      BY <3>1 DEF Frames
    <3>3. /\ Append(s[m].args, ty) \in Seq(Y)
          /\ Len(Append(s[m].args, ty)) = Len(s[m].args) + 1
          /\ \A k \in 1..Len(s[m].args) : Append(s[m].args, ty)[k] = s[m].args[k]
          /\ Append(s[m].args, ty)[Len(s[m].args) + 1] = ty
      BY <1>3, <3>2, AppendProperties
    <3>4. /\ low.alias = s[m].alias /\ low.args = Append(s[m].args, ty)
          /\ low \in Frames(Y)
      BY <3>1, <3>3 DEF Frames
    <3>5. Grown(stack[m], low, ty)
      BY <3>1, <3>3, <3>4 DEF Grown
    <3>6. stack' = [s EXCEPT ![m] = low]
      BY <1>4, <2>2, <3>1 DEF Returned
    <3> HIDE DEF low, s, m
    <3>7. /\ Len(stack') = m /\ stack'[m] = low
          /\ \A i \in 1..m : i # m => stack'[i] = s[i]
      BY <1>4, <3>1, <3>4, <3>6, ExceptSeq
    <3> QED BY <1>4, <3>1, <3>5, <3>7
  <2> QED BY <2>1, <2>2
<1>6. \A i \in 1..m : stack'[i].alias = stack[i].alias
  BY <1>2, <1>5 DEF Grown
<1>7. \A i \in 1..n : i \in 1..m \/ i = n
  BY <1>2
<1>8. \A x : OnStack(stack, x) <=> OnStack(stack', x) \/ x = Top.alias
  <2>1. \A i \in 1..m : i \in 1..n
    BY <1>2
  <2>2. n \in 1..n /\ Top = stack[n]
    BY <1>2 DEF Top
  <2> HIDE DEF n, m
  <2> QED BY <1>5, <1>6, <1>7, <2>1, <2>2 DEF OnStack, n
<1>9. ~OnStack(stack', Top.alias)
  <2>1. \A i \in 1..m : i \in 1..n /\ i # n /\ n \in 1..n
    BY <1>2
  <2>2. \A i, j \in 1..n : stack[i].alias = stack[j].alias => i = j
    BY DEF StackInv
  <2>3. Top = stack[n]
    BY DEF Top
  <2> HIDE DEF n, m
  <2> QED BY <1>5, <1>6, <2>1, <2>2, <2>3 DEF OnStack
<1> QED BY <1>2, <1>5, <1>6, <1>8, <1>9

\* What a frame is still to deal with next.
LEMMA NextIs ==
    ASSUME StackInv, decl \in Decls, HasRef
    PROVE  /\ NextRef = decl[stack[Len(stack)].alias].refs[Len(stack[Len(stack)].args) + 1]
           /\ EdgeIn(decl, stack[Len(stack)].alias, NextRef)
           /\ stack[Len(stack)].alias \in Alias /\ Len(stack) \in 1..Len(stack)
<1> DEFINE n == Len(stack)
           f == stack[n]
<1>1. n \in 1..n
  BY EmptySeq DEF StackInv, HasRef
<1> HIDE DEF n
<1>2. f.alias \in Alias /\ Len(f.args) \in Nat /\ Top = f
  BY <1>1, FrameType DEF n, Top
<1> HIDE DEF f
<1>3. decl[f.alias].refs \in Seq(Alias) /\ Len(decl[f.alias].refs) \in Nat
  BY <1>2, RefsType
<1>4. Len(f.args) < Len(decl[f.alias].refs)
  BY <1>2 DEF HasRef
<1>5. Len(f.args) + 1 \in DOMAIN decl[f.alias].refs
  BY <1>2, <1>3, <1>4, LenProperties
<1> QED BY <1>1, <1>2, <1>5 DEF NextRef, EdgeIn, f, n

\* The references of a declaration, by number and as edges.
LEMMA RefsEdges ==
    ASSUME decl \in Decls, NEW a \in Alias
    PROVE  /\ DOMAIN decl[a].refs = 1..Len(decl[a].refs)
           /\ \A k \in DOMAIN decl[a].refs : /\ decl[a].refs[k] \in Alias
                                             /\ EdgeIn(decl, a, decl[a].refs[k])
<1>1. decl[a].refs \in Seq(Alias) /\ DOMAIN decl[a].refs = 1..Len(decl[a].refs)
  BY RefsType, LenProperties
<1> QED BY <1>1 DEF EdgeIn

LEMMA OverAgrees ==
    ASSUME decl \in Decls, NEW a \in Alias, NEW names, NEW T, NEW U,
           \A b \in Alias : EdgeIn(decl, a, b) => T[b] = U[b]
    PROVE  Over(decl, names, T, a) = Over(decl, names, U, a)
<1>1. \A k \in DOMAIN decl[a].refs : T[decl[a].refs[k]] = U[decl[a].refs[k]]
  BY RefsEdges
<1> QED BY <1>1 DEF Over

LEMMA BindIs ==
    ASSUME NEW a, NEW ty
    PROVE  /\ DOMAIN Bind(a, ty) = DOMAIN resolved \cup {a}
           /\ Bind(a, ty)[a] = ty
           /\ \A b \in DOMAIN resolved : b # a => Bind(a, ty)[b] = resolved[b]
BY DEF Bind

-----------------------------------------------------------------------------
(* The order of the frames, under the three things a step does to them.    *)

\* A walk is entered for the next reference of the top frame, or for a root.
LEMMA PushOrder ==
    ASSUME StackInv, OrderInv, decl \in Decls, decl' = decl, NEW a \in Alias, Push(a),
           stack # <<>> => HasRef /\ a = NextRef
    PROVE  OrderInv'
<1> DEFINE n == Len(stack)
<1>1. stack' = Append(stack, Frame(a))
  BY DEF Push
<1>2. /\ n \in Nat /\ Len(stack') = n + 1
      /\ \A i \in 1..n : stack'[i] = stack[i]
      /\ stack'[n + 1].alias = a
  BY <1>1, PushedStack
<1>3. ASSUME n # 0
      PROVE  /\ decl[stack[n].alias].refs[Len(stack[n].args) + 1] = a
             /\ \A i \in 1..n : PathIn(decl, stack[i].alias, a)
  <2>1. /\ stack[n].alias \in Alias /\ n \in 1..n
        /\ a = decl[stack[n].alias].refs[Len(stack[n].args) + 1]
        /\ EdgeIn(decl, stack[n].alias, a)
    <3>1. PICK X : stack \in Seq(Frames(X))
      BY DEF StackInv
    <3>2. stack # <<>>
      BY <1>3, <3>1, EmptySeq
    <3> QED BY <3>2, NextIs
  <2>2. ASSUME NEW i \in 1..n, i # n
        PROVE  PathIn(decl, stack[i].alias, stack[n].alias)
    <3>1. i < n
      BY <1>2, <2>2
    <3> QED BY <2>1, <3>1 DEF OrderInv
  <2>3. /\ PathIn(decl, stack[n].alias, a)
        /\ \A x : PathIn(decl, x, stack[n].alias) => PathIn(decl, x, a)
    <3> DEFINE t == stack[n].alias
    <3>1. t \in Alias /\ EdgeIn(decl, t, a)
      BY <2>1
    <3> HIDE DEF t
    <3>2. PathIn(decl, t, a) /\ \A x : PathIn(decl, x, t) => PathIn(decl, x, a)
      BY <3>1, PathSteps
    <3> QED BY <3>2 DEF t
  <2> QED BY <2>1, <2>2, <2>3
<1>4. ASSUME NEW i \in 1..Len(stack'), i < Len(stack')
      PROVE  decl[stack'[i].alias].refs[Len(stack'[i].args) + 1] = stack'[i + 1].alias
  <2>1. i \in 1..n /\ stack'[i] = stack[i]
    BY <1>2, <1>4
  <2>2. CASE i = n
    BY <1>2, <1>3, <2>1, <2>2
  <2>3. CASE i # n
    <3>1. i < n /\ stack'[i + 1] = stack[i + 1]
      BY <1>2, <2>1, <2>3
    <3> QED BY <2>1, <3>1 DEF OrderInv
  <2> QED BY <2>2, <2>3
<1>5. ASSUME NEW i \in 1..Len(stack'), NEW j \in 1..Len(stack'), i < j
      PROVE  PathIn(decl, stack'[i].alias, stack'[j].alias)
  <2>1. i \in 1..n /\ stack'[i] = stack[i] /\ n # 0
    BY <1>2, <1>5
  <2>2. CASE j = n + 1
    BY <1>2, <1>3, <2>1, <2>2
  <2>3. CASE j # n + 1
    <3>1. j \in 1..n /\ stack'[j] = stack[j]
      BY <1>2, <2>3
    <3> QED BY <1>5, <2>1, <3>1 DEF OrderInv
  <2> QED BY <2>2, <2>3
<1> QED BY <1>4, <1>5 DEF OrderInv

LEMMA TookOrder ==
    ASSUME StackInv, OrderInv, decl' = decl, stack # <<>>, NEW ty, stack' = Took(ty)
    PROVE  OrderInv'
<1> DEFINE n == Len(stack)
<1>1. /\ n \in Nat /\ Len(stack') = n
      /\ \A i \in 1..n : i # n => stack'[i] = stack[i]
      /\ \A i \in 1..n : stack'[i].alias = stack[i].alias
  BY TookStack
<1>2. ASSUME NEW i \in 1..n, i < n
      PROVE  decl[stack'[i].alias].refs[Len(stack'[i].args) + 1] = stack'[i + 1].alias
  <2>1. stack'[i] = stack[i] /\ stack'[i + 1].alias = stack[i + 1].alias
    BY <1>1, <1>2
  <2> QED BY <1>2, <2>1 DEF OrderInv
<1>3. \A i, j \in 1..n : i < j => PathIn(decl, stack'[i].alias, stack'[j].alias)
  BY <1>1 DEF OrderInv
<1> QED BY <1>1, <1>2, <1>3 DEF OrderInv

LEMMA ReturnOrder ==
    ASSUME StackInv, OrderInv, decl' = decl, stack # <<>>, NEW ty, stack' = Returned(ty)
    PROVE  OrderInv'
<1> DEFINE n == Len(stack)
           m == n - 1
<1>1. /\ n \in Nat /\ Len(stack') = m
      /\ \A i \in 1..m : stack'[i].alias = stack[i].alias
      /\ \A i \in 1..m : i # m => stack'[i] = stack[i]
  BY ReturnedStack
<1>2. \A i \in 1..m : i \in 1..n /\ i < n
  BY <1>1
<1>3. ASSUME NEW i \in 1..m, i < m
      PROVE  decl[stack'[i].alias].refs[Len(stack'[i].args) + 1] = stack'[i + 1].alias
  <2>1. i # m /\ i + 1 \in 1..m
    BY <1>1, <1>3
  <2>2. stack'[i] = stack[i] /\ stack'[i + 1].alias = stack[i + 1].alias
    BY <1>1, <2>1
  <2> QED BY <1>2, <2>2 DEF OrderInv
<1>4. \A i, j \in 1..m : i < j => PathIn(decl, stack'[i].alias, stack'[j].alias)
  BY <1>1, <1>2 DEF OrderInv
<1> QED BY <1>1, <1>3, <1>4 DEF OrderInv

\* What the walk is on the way to and refers to is on a cycle.
LEMMA VisitingIsCyclic ==
    ASSUME StackInv, OrderInv, decl \in Decls, HasRef, IsVisiting(NextRef)
    PROVE  /\ OnStack(stack, NextRef)
           /\ PathIn(decl, NextRef, NextRef) /\ CyclicIn(decl, NextRef)
<1> DEFINE n == Len(stack)
<1>1. /\ stack[n].alias \in Alias /\ n \in 1..n
      /\ EdgeIn(decl, stack[n].alias, NextRef)
  BY NextIs
<1>2. PICK i \in 1..n : stack[i].alias = NextRef
  BY GuardType DEF IsVisiting
<1>3. NextRef \in Alias /\ n \in Nat
  BY <1>2, GuardType
<1>4. PathIn(decl, NextRef, NextRef)
  <2>1. CASE i = n
    BY <1>1, <1>2, <1>3, <2>1, PathSteps
  <2>2. CASE i # n
    <3>1. PathIn(decl, NextRef, stack[n].alias)
      BY <1>1, <1>2, <1>3, <2>2 DEF OrderInv
    <3> QED BY <1>1, <1>3, <3>1, PathSteps
  <2> QED BY <2>1, <2>2
<1> QED BY <1>2, <1>4 DEF OnStack, CyclicIn
-----------------------------------------------------------------------------
(* The steps.                                                              *)

\* A root that has been resolved is passed over.
LEMMA SkipKeeps ==
    ASSUME WalkInv, UNCHANGED <<decl, phase, stack, resolved, errors, local, import1>>,
           \A i \in 1..Len(pending) :
              pending[i] \in DOMAIN resolved \/ \E j \in 1..Len(pending') : pending'[j] = pending[i],
           phase # "done"
    PROVE  OrderInv' /\ CoverInv' /\ ErrorInv' /\ GraphInv' /\ ValueInv'
<1>1. OrderInv' /\ ErrorInv'
  BY DEF WalkInv, OrderInv, ErrorInv
<1>2. GraphInv' /\ ValueInv'
  BY DEF WalkInv, GraphInv, ValueInv, FinalInv, ArgsInv, SavedInv
<1>3. CoverInv'
  BY DEF WalkInv, CoverInv
<1> QED BY <1>1, <1>2, <1>3

\* A walk is entered.
LEMMA EnterKeeps ==
    ASSUME WalkInv, NEW a \in Alias, a \notin DOMAIN resolved, Push(a),
           UNCHANGED <<decl, phase, local, import1>>, phase # "done",
           stack # <<>> => HasRef /\ a = NextRef,
           \A i \in 1..Len(pending) :
              pending[i] = a \/ \E j \in 1..Len(pending') : pending'[j] = pending[i]
    PROVE  OrderInv' /\ CoverInv' /\ ErrorInv' /\ GraphInv' /\ ValueInv'
<1> DEFINE n == Len(stack)
<1>1. /\ stack' = Append(stack, Frame(a)) /\ resolved' = resolved /\ errors' = errors
      /\ decl' = decl /\ phase' = phase /\ local' = local /\ import1' = import1
  BY DEF Push
<1>2. StackInv /\ decl \in Decls
  BY DEF WalkInv, IInv
<1>3. /\ n \in Nat /\ Len(stack') = n + 1
      /\ \A i \in 1..n : stack'[i] = stack[i]
      /\ Len(stack'[n + 1].args) = 0
      /\ \A x : OnStack(stack', x) <=> OnStack(stack, x) \/ x = a
  BY <1>1, <1>2, PushedStack
<1>4. \A i \in 1..Len(stack') : \A k \in 1..Len(stack'[i].args) : i \in 1..n /\ stack'[i] = stack[i]
  <2>1. \A i \in 1..(n + 1) : i \in 1..n \/ i = n + 1
    BY <1>3
  <2> QED BY <1>3, <2>1
<1>5. OrderInv'
  BY <1>1, <1>2, PushOrder DEF WalkInv
<1>6. CoverInv'
  BY <1>1, <1>3 DEF WalkInv, CoverInv
<1>7. ErrorInv'
  BY <1>1, <1>3 DEF WalkInv, ErrorInv
<1>8. GraphInv'
  <2>1. CASE phase = "local"
    <3>1. \A x \in DOMAIN resolved' : ~OnStack(stack', x) =>
             \A b \in Alias : EdgeIn(decl', x, b) => b \in DOMAIN resolved'
      BY <1>1, <1>3, <2>1 DEF WalkInv, GraphInv
    <3>2. \A i \in 1..Len(stack') : \A k \in 1..Len(stack'[i].args) :
             decl'[stack'[i].alias].refs[k] \in DOMAIN resolved'
      BY <1>1, <1>4, <2>1 DEF WalkInv, GraphInv
    <3>3. Founded(decl', DOMAIN resolved' \ errors')
      BY <1>1, <2>1 DEF WalkInv, GraphInv
    <3> QED BY <1>1, <2>1, <3>1, <3>2, <3>3 DEF GraphInv
  <2>2. CASE phase # "local"
    BY <1>1, <2>2 DEF WalkInv, GraphInv
  <2> QED BY <2>1, <2>2
<1>9. ValueInv'
  <2>1. ASSUME phase # "local", NEW i \in 1..Len(stack'), NEW k \in 1..Len(stack'[i].args),
               ~CyclicIn(decl, decl[stack'[i].alias].refs[k])
        PROVE  /\ decl[stack'[i].alias].refs[k] \in DOMAIN resolved'
               /\ stack'[i].args[k] = resolved'[decl[stack'[i].alias].refs[k]]
    <3>1. i \in 1..Len(stack) /\ stack'[i] = stack[i] /\ resolved' = resolved
      BY <1>1, <1>4
    <3>2. k \in 1..Len(stack[i].args) /\ ~CyclicIn(decl, decl[stack[i].alias].refs[k])
      BY <2>1, <3>1
    <3>3. /\ decl[stack[i].alias].refs[k] \in DOMAIN resolved
          /\ stack[i].args[k] = resolved[decl[stack[i].alias].refs[k]]
      BY <2>1, <3>1, <3>2 DEF WalkInv, ValueInv, ArgsInv
    <3> QED BY <3>1, <3>3
  <2>2. ArgsInv'
    <3> SUFFICES ASSUME phase' # "local", NEW i \in 1..Len(stack'), NEW k \in 1..Len(stack'[i].args),
                        ~CyclicIn(decl', decl'[stack'[i].alias].refs[k])
                 PROVE  /\ decl'[stack'[i].alias].refs[k] \in DOMAIN resolved'
                        /\ stack'[i].args[k] = resolved'[decl'[stack'[i].alias].refs[k]]
      BY DEF ArgsInv
    <3>1. decl' = decl /\ phase' = phase
      BY <1>1
    <3>2. phase # "local" /\ ~CyclicIn(decl, decl[stack'[i].alias].refs[k])
      BY <3>1
    <3>3. /\ decl[stack'[i].alias].refs[k] \in DOMAIN resolved'
          /\ stack'[i].args[k] = resolved'[decl[stack'[i].alias].refs[k]]
      BY <2>1, <3>2
    <3> QED BY <3>1, <3>3
  <2>3. FinalInv' /\ SavedInv'
    BY <1>1 DEF WalkInv, ValueInv, FinalInv, SavedInv
  <2> QED BY <2>2, <2>3 DEF ValueInv
<1> QED BY <1>5, <1>6, <1>7, <1>8, <1>9

\* A reference is dealt with without a walk: it has been resolved, or it is on the
\* way, and then on a cycle.  The local walk reports the cycle and gives it a type.
LEMMA DealtKeeps ==
    ASSUME WalkInv, HasRef, NEW ty, stack' = Took(ty),
           UNCHANGED <<decl, phase, pending, local, import1>>, phase # "done",
           \/ NextRef \in DOMAIN resolved /\ UNCHANGED <<resolved, errors>>
           \/ /\ NextRef \notin DOMAIN resolved /\ IsVisiting(NextRef)
              /\ IF phase = "local"
                 THEN resolved' = Bind(NextRef, Unknown) /\ errors' = errors \cup {NextRef}
                 ELSE UNCHANGED <<resolved, errors>>,
           phase # "local" /\ NextRef \in DOMAIN resolved => ty = resolved[NextRef]
    PROVE  OrderInv' /\ CoverInv' /\ ErrorInv' /\ GraphInv' /\ ValueInv'
<1> DEFINE n == Len(stack)
           r == NextRef
           m == Len(stack[n].args)
<1>1. /\ StackInv /\ OrderInv /\ decl \in Decls /\ stack # <<>>
      /\ decl' = decl /\ phase' = phase /\ local' = local /\ import1' = import1
  BY DEF WalkInv, IInv, HasRef
<1>2. /\ n \in Nat \ {0} /\ Len(stack') = n
      /\ \A i \in 1..n : i # n => stack'[i] = stack[i]
      /\ \A i \in 1..n : stack'[i].alias = stack[i].alias
      /\ Grown(stack[n], stack'[n], ty)
      /\ \A x : OnStack(stack', x) <=> OnStack(stack, x)
  BY <1>1, TookStack
<1>3. /\ r = decl[stack[n].alias].refs[m + 1] /\ EdgeIn(decl, stack[n].alias, r)
      /\ stack[n].alias \in Alias /\ n \in 1..n /\ r \in Alias
  BY <1>1, NextIs, NextRefType DEF WalkInv
<1> HIDE DEF r, n
<1>m. m \in Nat
  BY <1>1, <1>3, FrameType DEF n
<1>4. r \notin DOMAIN resolved => /\ OnStack(stack, r) /\ PathIn(decl, r, r)
                                  /\ CyclicIn(decl, r)
  BY <1>1, VisitingIsCyclic DEF r
<1>5. /\ DOMAIN resolved \subseteq DOMAIN resolved' /\ errors \subseteq errors'
      /\ DOMAIN resolved' \subseteq DOMAIN resolved \cup {r}
      /\ errors' \subseteq errors \cup {r}
      /\ r \in DOMAIN resolved => resolved' = resolved /\ errors' = errors
      /\ phase = "local" /\ r \notin DOMAIN resolved => r \in DOMAIN resolved' /\ r \in errors'
      /\ phase # "local" => resolved' = resolved /\ errors' = errors
      /\ \A b \in DOMAIN resolved : resolved'[b] = resolved[b]
  <2>1. CASE r \in DOMAIN resolved \/ phase # "local"
    BY <2>1 DEF r
  <2>2. CASE ~(r \in DOMAIN resolved \/ phase # "local")
    <3>1. resolved' = Bind(r, Unknown) /\ errors' = errors \cup {r} /\ phase = "local"
          /\ r \notin DOMAIN resolved
      BY <2>2 DEF r
    <3>2. /\ DOMAIN resolved' = DOMAIN resolved \cup {r}
          /\ \A b \in DOMAIN resolved : b # r => resolved'[b] = resolved[b]
      <4>1. /\ DOMAIN Bind(r, Unknown) = DOMAIN resolved \cup {r}
            /\ \A b \in DOMAIN resolved : b # r => Bind(r, Unknown)[b] = resolved[b]
        BY DEF Bind
      <4> QED BY <3>1, <4>1
    <3>3. \A b \in DOMAIN resolved : resolved'[b] = resolved[b]
      BY <3>1, <3>2
    <3>4. errors \subseteq errors' /\ errors' \subseteq errors \cup {r} /\ r \in errors'
      BY <3>1
    <3>5. /\ DOMAIN resolved \subseteq DOMAIN resolved' /\ r \in DOMAIN resolved'
          /\ DOMAIN resolved' \subseteq DOMAIN resolved \cup {r}
      BY <3>2
    <3> QED BY <3>1, <3>3, <3>4, <3>5
  <2> QED BY <2>1, <2>2
<1>6. OrderInv'
  BY <1>1, TookOrder
<1>7. CoverInv'
  BY <1>1, <1>2, <1>5 DEF WalkInv, CoverInv
<1>8. ErrorInv'
  <2>1. \A x \in errors' : PathIn(decl, x, x)
    BY <1>4, <1>5 DEF WalkInv, ErrorInv
  <2>2. \A x \in DOMAIN resolved' : OnStack(stack', x) => phase = "local" /\ x \in errors'
    <3>1. TAKE x \in DOMAIN resolved'
    <3>2. CASE x \in DOMAIN resolved
      BY <1>2, <1>5, <3>2 DEF WalkInv, ErrorInv
    <3>3. CASE x \notin DOMAIN resolved
      BY <1>5, <3>3
    <3> QED BY <3>2, <3>3
  <2> QED BY <1>1, <2>1, <2>2 DEF ErrorInv
\* The places of the references dealt with.
<1>9. ASSUME NEW i \in 1..Len(stack'), NEW k \in 1..Len(stack'[i].args)
      PROVE  /\ i \in 1..n /\ stack'[i].alias = stack[i].alias
             /\ \/ i = n /\ k = m + 1 /\ decl[stack'[i].alias].refs[k] = r
                   /\ stack'[i].args[k] = ty
                \/ k \in 1..Len(stack[i].args) /\ stack'[i].args[k] = stack[i].args[k]
  <2>1. i \in 1..n /\ stack'[i].alias = stack[i].alias
    BY <1>2, <1>9
  <2>2. CASE i # n
    BY <1>2, <2>1, <2>2
  <2>3. CASE i = n
    <3>1. /\ Len(stack'[n].args) = m + 1 /\ stack'[n].args[m + 1] = ty
          /\ \A j \in 1..m : stack'[n].args[j] = stack[n].args[j]
      BY <1>2 DEF Grown
    <3>2. k \in 1..m \/ k = m + 1
      BY <1>m, <2>3, <3>1
    <3> QED BY <1>3, <2>1, <2>3, <3>1, <3>2
  <2> QED BY <2>1, <2>2, <2>3
<1> HIDE DEF m
<1>10. GraphInv'
  <2>1. CASE phase = "local"
    <3>1. \A x \in DOMAIN resolved' : ~OnStack(stack', x) =>
             \A b \in Alias : EdgeIn(decl', x, b) => b \in DOMAIN resolved'
      <4>1. TAKE x \in DOMAIN resolved'
      <4>2. ~OnStack(stack', x) => x \in DOMAIN resolved
        BY <1>2, <1>4, <1>5
      <4> QED BY <1>1, <1>2, <1>5, <2>1, <4>2 DEF WalkInv, GraphInv
    <3>2. \A i \in 1..Len(stack') : \A k \in 1..Len(stack'[i].args) :
             decl'[stack'[i].alias].refs[k] \in DOMAIN resolved'
      <4>1. r \in DOMAIN resolved'
        BY <1>5, <2>1
      <4>2. TAKE i \in 1..Len(stack')
      <4>3. TAKE k \in 1..Len(stack'[i].args)
      <4>4. CASE decl[stack'[i].alias].refs[k] = r
        BY <1>1, <4>1, <4>4
      <4>5. CASE decl[stack'[i].alias].refs[k] # r
        BY <1>1, <1>5, <1>9, <2>1, <4>5 DEF WalkInv, GraphInv, n
      <4> QED BY <4>4, <4>5
    <3>3. Founded(decl', DOMAIN resolved' \ errors')
      <4>1. DOMAIN resolved' \ errors' \subseteq DOMAIN resolved \ errors
        BY <1>5, <2>1
      <4> QED BY <1>1, <2>1, <4>1 DEF WalkInv, GraphInv, Founded
    <3> QED BY <1>1, <2>1, <3>1, <3>2, <3>3 DEF GraphInv
  <2>2. CASE phase # "local"
    BY <1>1, <1>5, <2>2 DEF WalkInv, GraphInv
  <2> QED BY <2>1, <2>2
<1>11. ValueInv'
  <2>1. ASSUME NEW x \in DOMAIN resolved', ~CyclicIn(decl, x)
        PROVE  /\ \A b \in Alias : EdgeIn(decl, x, b) => b \in DOMAIN resolved'
               /\ resolved'[x] = Over(decl, NamesIn(decl, phase), resolved', x)
    <3>1. x \in DOMAIN resolved
      BY <1>4, <1>5, <2>1
    <3>2. x \in Alias
      BY <3>1 DEF WalkInv, IInv
    <3>3. /\ \A b \in Alias : EdgeIn(decl, x, b) => b \in DOMAIN resolved
          /\ resolved[x] = Over(decl, NamesIn(decl, phase), resolved, x)
      BY <2>1, <3>1 DEF WalkInv, ValueInv, FinalInv
    <3>4. \A b \in Alias : EdgeIn(decl, x, b) => resolved[b] = resolved'[b]
      BY <1>5, <3>3
    <3>5. Over(decl, NamesIn(decl, phase), resolved, x) = Over(decl, NamesIn(decl, phase), resolved', x)
      BY <1>1, <3>2, <3>4, OverAgrees
    <3> QED BY <1>5, <3>1, <3>3, <3>5
  <2>2. ASSUME phase # "local", NEW i \in 1..Len(stack'), NEW k \in 1..Len(stack'[i].args),
               ~CyclicIn(decl, decl[stack'[i].alias].refs[k])
        PROVE  /\ decl[stack'[i].alias].refs[k] \in DOMAIN resolved'
               /\ stack'[i].args[k] = resolved'[decl[stack'[i].alias].refs[k]]
    <3>1. CASE decl[stack'[i].alias].refs[k] = r /\ stack'[i].args[k] = ty
      <4>1. r \in DOMAIN resolved
        BY <1>4, <2>2, <3>1
      <4> QED BY <1>5, <2>2, <3>1, <4>1 DEF r
    <3>2. CASE k \in 1..Len(stack[i].args) /\ stack'[i].args[k] = stack[i].args[k]
      <4>1. i \in 1..Len(stack) /\ stack'[i].alias = stack[i].alias
        BY <1>9 DEF n
      <4>2. /\ decl[stack[i].alias].refs[k] \in DOMAIN resolved
            /\ stack[i].args[k] = resolved[decl[stack[i].alias].refs[k]]
        BY <2>2, <3>2, <4>1 DEF WalkInv, ValueInv, ArgsInv
      <4> QED BY <1>5, <3>2, <4>1, <4>2
    <3> QED BY <1>9, <3>1, <3>2
  <2>3. FinalInv'
    BY <1>1, <2>1 DEF FinalInv
  <2>4. ArgsInv'
    <3> SUFFICES ASSUME phase' # "local", NEW i \in 1..Len(stack'), NEW k \in 1..Len(stack'[i].args),
                        ~CyclicIn(decl', decl'[stack'[i].alias].refs[k])
                 PROVE  /\ decl'[stack'[i].alias].refs[k] \in DOMAIN resolved'
                        /\ stack'[i].args[k] = resolved'[decl'[stack'[i].alias].refs[k]]
      BY DEF ArgsInv
    <3>1. decl' = decl /\ phase' = phase
      BY <1>1
    <3>2. phase # "local" /\ ~CyclicIn(decl, decl[stack'[i].alias].refs[k])
      BY <3>1
    <3>3. /\ decl[stack'[i].alias].refs[k] \in DOMAIN resolved'
          /\ stack'[i].args[k] = resolved'[decl[stack'[i].alias].refs[k]]
      BY <2>2, <3>2
    <3> QED BY <3>1, <3>3
  <2>5. SavedInv'
    BY <1>1 DEF WalkInv, ValueInv, SavedInv
  <2> QED BY <2>3, <2>4, <2>5 DEF ValueInv
<1> QED BY <1>6, <1>7, <1>8, <1>10, <1>11

\* A walk is left: its alias has its type.
LEMMA LeaveKeeps ==
    ASSUME WalkInv, stack # <<>>, ~HasRef, NEW ty,
           resolved' = Bind(Top.alias, ty),
           NEW up, stack' = Returned(up), phase # "local" => up = ty,
           UNCHANGED <<decl, phase, pending, errors, local, import1>>, phase # "done",
           ty = TypeIn(decl, NamesIn(decl, phase), Top.alias,
                       IF phase = "local"
                       THEN [i \in DOMAIN decl[Top.alias].refs |-> Lookup(decl[Top.alias].refs[i])]
                       ELSE Top.args)
    PROVE  OrderInv' /\ CoverInv' /\ ErrorInv' /\ GraphInv' /\ ValueInv'
<1> DEFINE n == Len(stack)
           t == Top.alias
           names == NamesIn(decl, phase)
<1>1. /\ StackInv /\ OrderInv /\ decl \in Decls
      /\ decl' = decl /\ phase' = phase /\ local' = local /\ import1' = import1
      /\ pending' = pending /\ errors' = errors
  BY DEF WalkInv, IInv
<1>2. /\ n \in Nat \ {0} /\ Len(stack') = n - 1
      /\ \A i \in 1..(n - 1) : stack'[i].alias = stack[i].alias
      /\ \A i \in 1..(n - 1) : i # n - 1 => stack'[i] = stack[i]
      /\ n > 1 => Grown(stack[n - 1], stack'[n - 1], up)
      /\ \A x : OnStack(stack, x) <=> OnStack(stack', x) \/ x = t
      /\ ~OnStack(stack', t)
  BY <1>1, ReturnedStack
<1>3. n \in 1..n /\ Top = stack[n] /\ t \in Alias
  <2>1. n \in 1..n
    BY <1>2
  <2>2. IInv
    BY DEF WalkInv
  <2>3. Top = stack[n]
    BY DEF Top
  <2> QED BY <2>1, <2>2, <2>3, TopAlias
<1>4. /\ \A x \in DOMAIN resolved' : x \in DOMAIN resolved \/ x = t
      /\ DOMAIN resolved \subseteq DOMAIN resolved' /\ t \in DOMAIN resolved'
      /\ resolved'[t] = ty
      /\ \A b \in DOMAIN resolved : b # t => resolved'[b] = resolved[b]
  <2>1. /\ DOMAIN Bind(t, ty) = DOMAIN resolved \cup {t}
        /\ Bind(t, ty)[t] = ty
        /\ \A b \in DOMAIN resolved : b # t => Bind(t, ty)[b] = resolved[b]
    BY DEF Bind
  <2>2. resolved' = Bind(t, ty)
    OBVIOUS
  <2> HIDE DEF t
  <2> QED BY <2>1, <2>2
\* All its references have been dealt with.
<1>5. DOMAIN decl[t].refs = 1..Len(Top.args) /\ Top.args = [k \in DOMAIN decl[t].refs |-> Top.args[k]]
  <2>1. /\ Len(Top.args) \in Nat /\ Len(Top.args) <= Len(decl[t].refs)
        /\ Top.args = [k \in 1..Len(Top.args) |-> Top.args[k]]
    BY <1>1, <1>3, FrameType DEF StackInv, Refs
  <2>2. Len(decl[t].refs) \in Nat /\ DOMAIN decl[t].refs = 1..Len(decl[t].refs)
    BY <1>1, <1>3, RefsType, RefsEdges
  <2>3. Len(Top.args) = Len(decl[t].refs)
    BY <2>1, <2>2 DEF HasRef
  <2> QED BY <2>1, <2>2, <2>3
\* What is off the cycles and has been resolved is not the alias that is left now.
<1>6. t \in DOMAIN resolved => CyclicIn(decl, t) /\ t \in errors
  BY <1>2 DEF WalkInv, ErrorInv, CyclicIn
<1>7. \A k \in DOMAIN decl[t].refs : decl[t].refs[k] \in Alias /\ EdgeIn(decl, t, decl[t].refs[k])
  BY <1>1, <1>3, RefsEdges
<1>t. Top.alias = t
  OBVIOUS
<1> HIDE DEF t, n, names
<1>8. OrderInv'
  BY <1>1, ReturnOrder
<1>9. CoverInv'
  BY <1>1, <1>2, <1>4 DEF WalkInv, CoverInv
<1>10. ErrorInv'
  <2>1. \A x \in DOMAIN resolved' : OnStack(stack', x) => phase = "local" /\ x \in errors
    BY <1>2, <1>4 DEF WalkInv, ErrorInv
  <2> QED BY <1>1, <2>1 DEF WalkInv, ErrorInv
\* The places of the references dealt with.
<1>11. ASSUME NEW i \in 1..Len(stack'), NEW k \in 1..Len(stack'[i].args)
       PROVE  /\ i \in 1..Len(stack) /\ stack'[i].alias = stack[i].alias
              /\ \/ decl[stack'[i].alias].refs[k] = t /\ stack'[i].args[k] = up
                 \/ k \in 1..Len(stack[i].args) /\ stack'[i].args[k] = stack[i].args[k]
  <2>1. i \in 1..(n - 1) /\ i \in 1..n /\ stack'[i].alias = stack[i].alias
    BY <1>2, <1>11
  <2>2. CASE i # n - 1
    BY <1>2, <2>1, <2>2 DEF n
  <2>3. CASE i = n - 1
    <3> DEFINE m == Len(stack[i].args)
    <3>1. m \in Nat
      BY <1>1, <2>1, FrameType DEF n
    <3>2. Grown(stack[i], stack'[i], up)
      BY <1>2, <2>1, <2>3
    <3>3. /\ Len(stack'[i].args) = m + 1 /\ stack'[i].args[m + 1] = up
          /\ \A j \in 1..m : stack'[i].args[j] = stack[i].args[j]
      BY <3>2 DEF Grown
    <3>4. decl[stack'[i].alias].refs[m + 1] = t
      <4>1. i \in 1..Len(stack) /\ i < Len(stack) /\ i + 1 = n
        BY <1>2, <2>1, <2>3 DEF n
      <4>2. decl[stack[i].alias].refs[m + 1] = stack[i + 1].alias
        BY <1>1, <4>1 DEF OrderInv
      <4> QED BY <1>3, <1>t, <2>1, <4>1, <4>2
    <3>5. k \in 1..m \/ k = m + 1
      BY <3>1, <3>3
    <3> QED BY <2>1, <3>3, <3>4, <3>5 DEF n
  <2> QED BY <2>1, <2>2, <2>3
<1>12. GraphInv'
  <2>1. CASE phase = "local"
    <3>1. ASSUME NEW x \in DOMAIN resolved', ~OnStack(stack', x),
                 NEW b \in Alias, EdgeIn(decl, x, b)
          PROVE  b \in DOMAIN resolved'
      <4>1. CASE x = t
        <5>1. PICK k \in DOMAIN decl[t].refs : b = decl[t].refs[k]
          BY <3>1, <4>1 DEF EdgeIn
        <5>2. decl[stack[n].alias].refs[k] \in DOMAIN resolved
          BY <1>3, <1>5, <2>1, <5>1 DEF WalkInv, GraphInv, n
        <5> QED BY <1>3, <1>4, <1>t, <5>1, <5>2
      <4>2. CASE x # t
        <5>1. x \in DOMAIN resolved /\ ~OnStack(stack, x)
          BY <1>2, <1>4, <3>1, <4>2
        <5>2. b \in DOMAIN resolved
          BY <2>1, <3>1, <5>1 DEF WalkInv, GraphInv
        <5> QED BY <1>4, <5>2
      <4> QED BY <4>1, <4>2
    <3>2. ASSUME NEW i \in 1..Len(stack'), NEW k \in 1..Len(stack'[i].args)
          PROVE  decl[stack'[i].alias].refs[k] \in DOMAIN resolved'
      <4>1. CASE decl[stack'[i].alias].refs[k] = t
        BY <1>4, <4>1
      <4>2. CASE k \in 1..Len(stack[i].args)
        <5>1. i \in 1..Len(stack) /\ stack'[i].alias = stack[i].alias
          BY <1>11
        <5>2. decl[stack[i].alias].refs[k] \in DOMAIN resolved
          BY <2>1, <4>2, <5>1 DEF WalkInv, GraphInv
        <5> QED BY <1>4, <5>1, <5>2
      <4> QED BY <1>11, <4>1, <4>2
    <3>3. Founded(decl, DOMAIN resolved' \ errors)
      <4>1. SUFFICES ASSUME NEW T \in SUBSET (DOMAIN resolved' \ errors), T # {}
                     PROVE  \E x \in T : \A y \in T : ~EdgeIn(decl, x, y)
        BY DEF Founded
      <4>2. Founded(decl, DOMAIN resolved \ errors)
        BY <2>1 DEF WalkInv, GraphInv
      <4>3. CASE t \notin T
        <5>1. T \in SUBSET (DOMAIN resolved \ errors)
          BY <1>4, <4>3
        <5> QED BY <4>1, <4>2, <5>1 DEF Founded
      <4>4. CASE t \in T
        <5>1. t \notin DOMAIN resolved
          BY <1>6, <4>4
        <5>2. T \ {t} \in SUBSET (DOMAIN resolved \ errors)
          BY <1>4
        <5>3. \A x \in T \ {t} : ~EdgeIn(decl, x, t)
          <6>1. TAKE x \in T \ {t}
          <6>2. x \in DOMAIN resolved /\ x \notin errors
            BY <5>2
          <6>3. ~OnStack(stack, x)
            BY <6>2 DEF WalkInv, ErrorInv
          <6> QED BY <1>3, <2>1, <5>1, <6>2, <6>3 DEF WalkInv, GraphInv
        <5>4. CASE T \ {t} = {}
          <6>1. ~EdgeIn(decl, t, t)
            <7>1. \A k \in DOMAIN decl[t].refs : decl[stack[n].alias].refs[k] \in DOMAIN resolved
              BY <1>3, <1>5, <2>1 DEF WalkInv, GraphInv, n
            <7> QED BY <1>3, <1>t, <5>1, <7>1 DEF EdgeIn
          <6> QED BY <4>4, <5>4, <6>1
        <5>5. CASE T \ {t} # {}
          <6>1. PICK x \in T \ {t} : \A y \in T \ {t} : ~EdgeIn(decl, x, y)
            BY <4>2, <5>2, <5>5 DEF Founded
          <6> QED BY <5>3, <6>1
        <5> QED BY <5>4, <5>5
      <4> QED BY <4>3, <4>4
    <3> QED BY <1>1, <2>1, <3>1, <3>2, <3>3 DEF GraphInv
  <2>2. CASE phase # "local"
    BY <1>1, <2>2 DEF WalkInv, GraphInv
  <2> QED BY <2>1, <2>2
<1>13. ASSUME NEW x \in DOMAIN resolved', ~CyclicIn(decl, x)
       PROVE  /\ \A b \in Alias : EdgeIn(decl, x, b) => b \in DOMAIN resolved'
              /\ resolved'[x] = Over(decl, names, resolved', x)
  <2>1. CASE x # t
    <3>1. x \in DOMAIN resolved /\ x \in Alias
      BY <1>4, <2>1 DEF WalkInv, IInv
    <3>2. /\ \A b \in Alias : EdgeIn(decl, x, b) => b \in DOMAIN resolved
          /\ resolved[x] = Over(decl, names, resolved, x)
      BY <1>13, <3>1 DEF WalkInv, ValueInv, FinalInv, names
    <3>3. \A b \in Alias : EdgeIn(decl, x, b) => resolved'[b] = resolved[b]
      <4>1. \A b \in Alias : EdgeIn(decl, x, b) => b # t
        BY <1>6, <1>13, <3>1, <3>2, AcyclicSteps
      <4> QED BY <1>4, <3>2, <4>1
    <3>4. Over(decl, names, resolved', x) = Over(decl, names, resolved, x)
      BY <1>1, <3>1, <3>3, OverAgrees
    <3>5. \A b \in Alias : EdgeIn(decl, x, b) => b \in DOMAIN resolved'
      BY <1>4, <3>2
    <3> QED BY <1>4, <2>1, <3>1, <3>2, <3>4, <3>5
  <2>2. CASE x = t
    <3>1. ASSUME NEW k \in DOMAIN decl[t].refs
          PROVE  /\ decl[t].refs[k] \in DOMAIN resolved /\ decl[t].refs[k] # t
                 /\ phase # "local" => Top.args[k] = resolved[decl[t].refs[k]]
      <4>1. /\ ~CyclicIn(decl, decl[t].refs[k]) /\ decl[t].refs[k] # t
        BY <1>3, <1>7, <1>13, <2>2, AcyclicSteps
      <4>2. k \in 1..Len(stack[n].args) /\ stack[n].alias = t
        BY <1>3, <1>5, <1>t
      <4>3. n \in 1..Len(stack)
        BY <1>3 DEF n
      <4>4. CASE phase = "local"
        BY <4>1, <4>2, <4>3, <4>4 DEF WalkInv, GraphInv
      <4>5. CASE phase # "local"
        <5>1. /\ decl[stack[n].alias].refs[k] \in DOMAIN resolved
              /\ stack[n].args[k] = resolved[decl[stack[n].alias].refs[k]]
          BY <4>1, <4>2, <4>3, <4>5 DEF WalkInv, ValueInv, ArgsInv
        <5> QED BY <1>3, <4>1, <4>2, <5>1
      <4> QED BY <4>4, <4>5
    <3>2. \A b \in Alias : EdgeIn(decl, t, b) => b \in DOMAIN resolved'
      BY <1>4, <3>1 DEF EdgeIn
    <3> DEFINE args == [k \in DOMAIN decl[t].refs |-> resolved'[decl[t].refs[k]]]
    <3>3. \A k \in DOMAIN decl[t].refs : resolved'[decl[t].refs[k]] = resolved[decl[t].refs[k]]
      BY <1>4, <3>1
    <3>4. ty = TypeIn(decl, names, t, args)
      <4>1. CASE phase = "local"
        <5>1. \A k \in DOMAIN decl[t].refs : Lookup(decl[t].refs[k]) = resolved[decl[t].refs[k]]
          BY <3>1 DEF Lookup
        <5>2. [k \in DOMAIN decl[t].refs |-> Lookup(decl[t].refs[k])] = args
          BY <3>3, <5>1
        <5>3. ty = TypeIn(decl, names, t, [k \in DOMAIN decl[t].refs |-> Lookup(decl[t].refs[k])])
          BY <1>t, <4>1 DEF names
        <5> HIDE DEF args
        <5> QED BY <5>2, <5>3
      <4>2. CASE phase # "local"
        <5>1. Top.args = args
          <6>1. \A k \in DOMAIN decl[t].refs : Top.args[k] = resolved'[decl[t].refs[k]]
            BY <3>1, <3>3, <4>2
          <6>2. [k \in DOMAIN decl[t].refs |-> Top.args[k]] = args
            BY <6>1
          <6> HIDE DEF args
          <6> QED BY <1>5, <6>2
        <5>2. ty = TypeIn(decl, names, t, Top.args)
          BY <1>t, <4>2 DEF names
        <5> HIDE DEF args
        <5> QED BY <5>1, <5>2
      <4> QED BY <4>1, <4>2
    <3>5. Over(decl, names, resolved', t) = TypeIn(decl, names, t, args)
      BY DEF Over
    <3> HIDE DEF args
    <3> QED BY <1>4, <2>2, <3>2, <3>4, <3>5
  <2> QED BY <2>1, <2>2
<1>14. ValueInv'
  <2>1. ASSUME phase # "local", NEW i \in 1..Len(stack'), NEW k \in 1..Len(stack'[i].args),
               ~CyclicIn(decl, decl[stack'[i].alias].refs[k])
        PROVE  /\ decl[stack'[i].alias].refs[k] \in DOMAIN resolved'
               /\ stack'[i].args[k] = resolved'[decl[stack'[i].alias].refs[k]]
    <3>1. CASE decl[stack'[i].alias].refs[k] = t /\ stack'[i].args[k] = up
      BY <1>4, <2>1, <3>1
    <3>2. CASE k \in 1..Len(stack[i].args) /\ stack'[i].args[k] = stack[i].args[k]
      <4>1. i \in 1..Len(stack) /\ stack'[i].alias = stack[i].alias
        BY <1>11
      <4>2. /\ decl[stack[i].alias].refs[k] \in DOMAIN resolved
            /\ stack[i].args[k] = resolved[decl[stack[i].alias].refs[k]]
        BY <2>1, <3>2, <4>1 DEF WalkInv, ValueInv, ArgsInv
      <4> DEFINE b == decl[stack[i].alias].refs[k]
      <4>3. b # t
        BY <1>6, <2>1, <4>1, <4>2
      <4>4. b = decl[stack'[i].alias].refs[k] /\ b \in DOMAIN resolved /\ stack[i].args[k] = resolved[b]
        BY <4>1, <4>2
      <4> HIDE DEF b
      <4>5. b \in DOMAIN resolved' /\ resolved'[b] = resolved[b]
        BY <1>4, <4>3, <4>4
      <4> QED BY <3>2, <4>4, <4>5
    <3> QED BY <1>11, <3>1, <3>2
  <2>2. FinalInv'
    BY <1>1, <1>13 DEF FinalInv, names
  <2>3. ArgsInv'
    <3> SUFFICES ASSUME phase' # "local", NEW i \in 1..Len(stack'), NEW k \in 1..Len(stack'[i].args),
                        ~CyclicIn(decl', decl'[stack'[i].alias].refs[k])
                 PROVE  /\ decl'[stack'[i].alias].refs[k] \in DOMAIN resolved'
                        /\ stack'[i].args[k] = resolved'[decl'[stack'[i].alias].refs[k]]
      BY DEF ArgsInv
    <3>1. decl' = decl /\ phase' = phase
      BY <1>1
    <3>2. phase # "local" /\ ~CyclicIn(decl, decl[stack'[i].alias].refs[k])
      BY <3>1
    <3>3. /\ decl[stack'[i].alias].refs[k] \in DOMAIN resolved'
          /\ stack'[i].args[k] = resolved'[decl[stack'[i].alias].refs[k]]
      BY <2>1, <3>2
    <3> QED BY <3>1, <3>3
  <2>4. SavedInv'
    BY <1>1 DEF WalkInv, ValueInv, SavedInv
  <2> QED BY <2>2, <2>3, <2>4 DEF ValueInv
<1> QED BY <1>8, <1>9, <1>10, <1>12, <1>14

-----------------------------------------------------------------------------
(* The steps of both walks, what they keep, and the results.                *)

\* The end of the local walk: its types are the types of the module.
LEMMA LocalDoneKeeps == WalkInv /\ LocalDone => OrderInv' /\ CoverInv' /\ ErrorInv' /\ GraphInv' /\ ValueInv'
<1> SUFFICES ASSUME WalkInv, LocalDone
             PROVE  OrderInv' /\ CoverInv' /\ ErrorInv' /\ GraphInv' /\ ValueInv'
  OBVIOUS
<1>1. /\ phase = "local" /\ stack = <<>> /\ pending = <<>> /\ Len(<<>>) = 0
      /\ local' = resolved /\ resolved' = EmptyMap /\ phase' = "first"
      /\ pending' = DeclOrder /\ decl' = decl /\ stack' = stack /\ errors' = errors
      /\ import1' = import1
  BY EmptySeq DEF LocalDone
<1>2. DOMAIN EmptyMap = {} /\ \A x : ~OnStack(<<>>, x)
  BY <1>1 DEF EmptyMap, OnStack
<1>3. Alias \subseteq DOMAIN resolved
  BY <1>1, <1>2 DEF WalkInv, CoverInv
<1>4. OrderInv' /\ ErrorInv'
  BY <1>1, <1>2 DEF WalkInv, OrderInv, ErrorInv
<1>5. CoverInv'
  BY <1>1, AliasAssumption DEF CoverInv
<1>6. GraphInv'
  <2>1. Founded(decl, DOMAIN resolved \ errors)
    BY <1>1 DEF WalkInv, GraphInv
  <2>2. Founded(decl, Alias \ errors)
    BY <1>3, <2>1 DEF Founded
  <2> QED BY <1>1, <2>2 DEF GraphInv
<1>7. ValueInv'
  <2>1. Solves(decl, NamesIn(decl, "local"), resolved)
    BY <1>1, <1>3 DEF WalkInv, ValueInv, FinalInv, SavedInv, Solves
  <2> QED BY <1>1, <1>2, <2>1 DEF ValueInv, FinalInv, ArgsInv, SavedInv
<1> QED BY <1>4, <1>5, <1>6, <1>7

\* The end of the walk of an importing process.
LEMMA ImportDoneKeeps == WalkInv /\ ImportDone => OrderInv' /\ CoverInv' /\ ErrorInv' /\ GraphInv' /\ ValueInv'
<1> SUFFICES ASSUME WalkInv, ImportDone
             PROVE  OrderInv' /\ CoverInv' /\ ErrorInv' /\ GraphInv' /\ ValueInv'
  OBVIOUS
<1>1. /\ phase \in {"first", "second"} /\ stack = <<>> /\ pending = <<>> /\ Len(<<>>) = 0
      /\ decl' = decl /\ stack' = stack /\ errors' = errors /\ local' = local
      /\ \/ /\ phase = "first" /\ phase' = "second" /\ pending' = DeclOrder
            /\ import1' = resolved /\ resolved' = EmptyMap
         \/ /\ phase = "second" /\ phase' = "done" /\ import1' = import1
            /\ resolved' = resolved /\ pending' = pending
  BY EmptySeq DEF ImportDone, Importing
<1>2. DOMAIN EmptyMap = {} /\ \A x : ~OnStack(<<>>, x)
  BY <1>1 DEF EmptyMap, OnStack
<1>3. Alias \subseteq DOMAIN resolved
  BY <1>1, <1>2 DEF WalkInv, CoverInv
<1>4. OrderInv' /\ ErrorInv'
  BY <1>1, <1>2 DEF WalkInv, OrderInv, ErrorInv
<1>5. CoverInv'
  BY <1>1, <1>3, AliasAssumption DEF CoverInv
<1>6. GraphInv'
  BY <1>1 DEF WalkInv, GraphInv
<1>7. ValueInv'
  <2>1. Solves(decl, NamesIn(decl, phase), resolved)
    BY <1>3 DEF WalkInv, ValueInv, FinalInv, SavedInv, Solves
  <2>2. NamesIn(decl, "first") = NamesIn(decl, "second") /\ NamesIn(decl, "second") = NamesIn(decl, "done")
    BY DEF NamesIn
  <2>3. Solves(decl, NamesIn(decl, "local"), local)
    BY <1>1 DEF WalkInv, ValueInv, SavedInv
  <2>4. CASE phase = "first"
    BY <1>1, <1>2, <2>1, <2>2, <2>3, <2>4 DEF ValueInv, FinalInv, ArgsInv, SavedInv
  <2>5. CASE phase = "second"
    <3>1. Solves(decl, NamesIn(decl, phase), import1)
      BY <2>5 DEF WalkInv, ValueInv, SavedInv
    <3>2. \A x \in DOMAIN resolved : ~CyclicIn(decl, x) =>
             /\ \A b \in Alias : EdgeIn(decl, x, b) => b \in DOMAIN resolved
             /\ resolved[x] = Over(decl, NamesIn(decl, phase), resolved, x)
      BY DEF WalkInv, ValueInv, FinalInv
    <3> QED BY <1>1, <2>2, <2>3, <2>5, <3>1, <3>2 DEF ValueInv, FinalInv, ArgsInv, SavedInv
  <2> QED BY <1>1, <2>4, <2>5
<1> QED BY <1>4, <1>5, <1>6, <1>7

LEMMA InitWalk == Init => WalkInv
<1> SUFFICES ASSUME Init PROVE WalkInv
  OBVIOUS
<1>1. /\ phase = "local" /\ pending = DeclOrder /\ stack = <<>> /\ Len(<<>>) = 0
      /\ resolved = EmptyMap /\ errors = {} /\ DOMAIN EmptyMap = {}
  BY EmptySeq DEF Init, EmptyMap
<1>2. OrderInv /\ ErrorInv /\ ValueInv
  BY <1>1 DEF OrderInv, ErrorInv, ValueInv, FinalInv, ArgsInv, SavedInv
<1>3. CoverInv
  BY <1>1, AliasAssumption DEF CoverInv
<1>4. GraphInv
  BY <1>1 DEF GraphInv, Founded
<1> QED BY <1>2, <1>3, <1>4, InitKeeps DEF WalkInv

\* The rest of a sequence has all of it but its head.
LEMMA TailHas ==
    ASSUME NEW S, NEW q \in Seq(S), q # <<>>
    PROVE  \A i \in 1..Len(q) : q[i] = Head(q) \/ \E j \in 1..Len(Tail(q)) : Tail(q)[j] = q[i]
<1>1. /\ Len(q) \in Nat /\ Len(Tail(q)) = Len(q) - 1 /\ Head(q) = q[1]
      /\ \A i \in 1..(Len(q) - 1) : Tail(q)[i] = q[i + 1]
  BY HeadTailProperties, LenProperties
<1>2. TAKE i \in 1..Len(q)
<1>3. CASE i = 1
  BY <1>1, <1>3
<1>4. CASE i # 1
  <2>1. i - 1 \in 1..Len(Tail(q)) /\ Tail(q)[i - 1] = q[(i - 1) + 1] /\ (i - 1) + 1 = i
    BY <1>1, <1>4
  <2> QED BY <2>1
<1> QED BY <1>3, <1>4

LEMMA LocalWalk ==
    WalkInv /\ (LocalRoot \/ LocalDep \/ LocalFinish \/ LocalDone)
    => OrderInv' /\ CoverInv' /\ ErrorInv' /\ GraphInv' /\ ValueInv'
<1> SUFFICES ASSUME WalkInv, LocalRoot \/ LocalDep \/ LocalFinish \/ LocalDone
             PROVE  OrderInv' /\ CoverInv' /\ ErrorInv' /\ GraphInv' /\ ValueInv'
  OBVIOUS
<1> DEFINE Goal == OrderInv' /\ CoverInv' /\ ErrorInv' /\ GraphInv' /\ ValueInv'
<1>1. CASE LocalRoot
  <2> DEFINE a == Head(pending)
  <2>1. /\ phase = "local" /\ stack = <<>> /\ pending # <<>> /\ pending' = Tail(pending)
        /\ pending \in Seq(Alias)
        /\ UNCHANGED <<decl, phase, local, import1>>
    BY <1>1 DEF LocalRoot, WalkInv, IInv
  <2>2. a \in Alias
    BY <2>1, HeadTailProperties
  <2>3. \A i \in 1..Len(pending) :
           pending[i] = a \/ \E j \in 1..Len(pending') : pending'[j] = pending[i]
    BY <2>1, TailHas
  <2>4. CASE a \in DOMAIN resolved
    <3>1. UNCHANGED <<stack, resolved, errors>>
      BY <1>1, <2>4 DEF LocalRoot
    <3> HIDE DEF a
    <3> QED BY <2>1, <2>3, <2>4, <3>1, SkipKeeps
  <2>5. CASE a \notin DOMAIN resolved
    <3>1. Push(a)
      BY <1>1, <2>5 DEF LocalRoot
    <3> HIDE DEF a
    <3> QED BY <2>1, <2>2, <2>3, <2>5, <3>1, EnterKeeps
  <2> QED BY <2>4, <2>5
<1>2. CASE LocalDep
  <2>1. /\ phase = "local" /\ HasRef /\ UNCHANGED <<decl, phase, pending, local, import1>>
        /\ NextRef \in Alias
    BY <1>2, NextRefType DEF LocalDep, WalkInv
  <2>2. CASE NextRef \notin DOMAIN resolved /\ ~IsVisiting(NextRef) /\ Push(NextRef)
    BY <2>1, <2>2, EnterKeeps
  <2>3. CASE /\ NextRef \in DOMAIN resolved /\ stack' = Took(Unknown)
             /\ UNCHANGED <<resolved, errors>>
    BY <2>1, <2>3, DealtKeeps
  <2>4. CASE /\ NextRef \notin DOMAIN resolved /\ IsVisiting(NextRef) /\ stack' = Took(Unknown)
             /\ resolved' = Bind(NextRef, Unknown) /\ errors' = errors \cup {NextRef}
    BY <2>1, <2>4, DealtKeeps
  <2> QED BY <1>2, <2>2, <2>3, <2>4 DEF LocalDep
<1>3. CASE LocalFinish
  <2> DEFINE args == [i \in DOMAIN decl[Top.alias].refs |-> Lookup(decl[Top.alias].refs[i])]
             ty == TypeOf(LocalNames, Top.alias, args)
  <2>1. /\ phase = "local" /\ stack # <<>> /\ ~HasRef
        /\ resolved' = Bind(Top.alias, ty) /\ stack' = Returned(Unknown)
        /\ UNCHANGED <<decl, phase, pending, errors, local, import1>>
    BY <1>3 DEF LocalFinish
  <2>2. ty = TypeIn(decl, NamesIn(decl, phase), Top.alias, args)
    BY <2>1 DEF TypeOf, TypeIn, NamesIn, LocalNames
  <2> HIDE DEF ty
  <2> QED BY <2>1, <2>2, LeaveKeeps
<1>4. CASE LocalDone
  BY <1>4, LocalDoneKeeps
<1> QED BY <1>1, <1>2, <1>3, <1>4

LEMMA ImportWalk ==
    WalkInv /\ (ImportRoot \/ ImportRef \/ ImportFinish \/ ImportDone)
    => OrderInv' /\ CoverInv' /\ ErrorInv' /\ GraphInv' /\ ValueInv'
<1> SUFFICES ASSUME WalkInv, ImportRoot \/ ImportRef \/ ImportFinish \/ ImportDone
             PROVE  OrderInv' /\ CoverInv' /\ ErrorInv' /\ GraphInv' /\ ValueInv'
  OBVIOUS
<1>1. CASE ImportRoot
  <2>1. /\ phase \notin {"local", "done"} /\ stack = <<>> /\ UNCHANGED <<decl, phase, local, import1>>
        /\ Len(pending) \in Nat /\ \A j \in 1..Len(pending) : pending[j] \in Alias
    BY <1>1, LenProperties DEF ImportRoot, Importing, WalkInv, IInv
  <2>2. PICK i \in 1..Len(pending) :
          /\ pending' = [j \in 1..(Len(pending) - 1) |->
                            IF j < i THEN pending[j] ELSE pending[j + 1]]
          /\ IF pending[i] \in DOMAIN resolved
             THEN UNCHANGED <<stack, visiting, resolved, errors>>
             ELSE Push(pending[i])
    BY <1>1 DEF ImportRoot
  <2> DEFINE a == pending[i]
  <2>3. a \in Alias
    BY <2>1
  <2>4. ASSUME NEW k \in 1..Len(pending)
        PROVE  pending[k] = a \/ \E j \in 1..Len(pending') : pending'[j] = pending[k]
    <3>1. Len(pending') = Len(pending) - 1 /\ Len(pending) - 1 \in Nat
      BY <2>1, <2>2
    <3>2. CASE k < i
      <4>1. k \in 1..(Len(pending) - 1)
        BY <2>1, <3>2
      <4>2. pending'[k] = pending[k]
        BY <2>2, <3>2, <4>1
      <4> QED BY <3>1, <4>1, <4>2
    <3>3. CASE k > i
      <4>1. k - 1 \in 1..(Len(pending) - 1) /\ ~(k - 1 < i) /\ (k - 1) + 1 = k
        BY <2>1, <3>3
      <4>2. pending'[k - 1] = pending[k]
        BY <2>2, <4>1
      <4> QED BY <3>1, <4>1, <4>2
    <3>4. CASE k = i
      BY <3>4
    <3> QED BY <2>1, <3>2, <3>3, <3>4
  <2>5. CASE a \in DOMAIN resolved
    <3>1. UNCHANGED <<stack, resolved, errors>>
      BY <2>2, <2>5
    <3> HIDE DEF a
    <3> QED BY <2>1, <2>4, <2>5, <3>1, SkipKeeps
  <2>6. CASE a \notin DOMAIN resolved
    <3>1. Push(a)
      BY <2>2, <2>6
    <3> HIDE DEF a
    <3> QED BY <2>1, <2>3, <2>4, <2>6, <3>1, EnterKeeps
  <2> QED BY <2>5, <2>6
<1>2. CASE ImportRef
  <2>1. /\ phase \notin {"local", "done"} /\ HasRef
        /\ UNCHANGED <<decl, phase, pending, local, import1>>
        /\ NextRef \in Alias
    BY <1>2, NextRefType DEF ImportRef, Importing, WalkInv
  <2>2. CASE NextRef \notin DOMAIN resolved /\ ~IsVisiting(NextRef) /\ Push(NextRef)
    BY <2>1, <2>2, EnterKeeps
  <2>3. CASE /\ NextRef \in DOMAIN resolved /\ stack' = Took(resolved[NextRef])
             /\ UNCHANGED <<resolved, errors>>
    BY <2>1, <2>3, DealtKeeps
  <2>4. CASE /\ NextRef \notin DOMAIN resolved /\ IsVisiting(NextRef) /\ stack' = Took(Unknown)
             /\ UNCHANGED <<resolved, errors>>
    BY <2>1, <2>4, DealtKeeps
  <2> QED BY <1>2, <2>2, <2>3, <2>4 DEF ImportRef
<1>3. CASE ImportFinish
  <2> DEFINE ty == TypeOf(ImportedNames, Top.alias, Top.args)
  <2>1. /\ phase \notin {"local", "done"} /\ stack # <<>> /\ ~HasRef
        /\ resolved' = Bind(Top.alias, ty) /\ stack' = Returned(ty)
        /\ UNCHANGED <<decl, phase, pending, errors, local, import1>>
    BY <1>3 DEF ImportFinish, Importing
  <2>2. ty = TypeIn(decl, NamesIn(decl, phase), Top.alias, Top.args)
    BY <2>1 DEF TypeOf, TypeIn, NamesIn, ImportedNames
  <2> HIDE DEF ty
  <2> QED BY <2>1, <2>2, LeaveKeeps
<1>4. CASE ImportDone
  BY <1>4, ImportDoneKeeps
<1> QED BY <1>1, <1>2, <1>3, <1>4

LEMMA StutterWalk == WalkInv /\ UNCHANGED vars
                     => OrderInv' /\ CoverInv' /\ ErrorInv' /\ GraphInv' /\ ValueInv'
<1> SUFFICES ASSUME WalkInv, UNCHANGED vars
             PROVE  OrderInv' /\ CoverInv' /\ ErrorInv' /\ GraphInv' /\ ValueInv'
  OBVIOUS
<1>1. /\ decl' = decl /\ phase' = phase /\ pending' = pending /\ stack' = stack
      /\ resolved' = resolved /\ errors' = errors /\ local' = local /\ import1' = import1
  BY DEF vars
<1>2. OrderInv' /\ CoverInv'
  BY <1>1 DEF WalkInv, OrderInv, CoverInv
<1>3. ErrorInv' /\ GraphInv'
  BY <1>1 DEF WalkInv, ErrorInv, GraphInv
<1>4. ValueInv'
  <2>1. FinalInv' /\ SavedInv'
    BY <1>1 DEF WalkInv, ValueInv, FinalInv, SavedInv
  <2>2. ArgsInv'
    BY <1>1 DEF WalkInv, ValueInv, ArgsInv
  <2> QED BY <2>1, <2>2 DEF ValueInv
<1> QED BY <1>2, <1>3, <1>4

\* What the walks remember is kept by every step of both.
THEOREM WalkInvariance == Spec => []WalkInv
<1>1. IInv /\ [Next]_vars => IInv'
  <2>1. IInv /\ UNCHANGED vars => IInv'
    BY DEF IInv, vars, StackInv, Refs
  <2> QED BY <2>1, LocalKeeps, ImportKeeps DEF Next
<1>2. WalkInv /\ [Next]_vars => WalkInv'
  BY <1>1, LocalWalk, ImportWalk, StutterWalk DEF Next, WalkInv
<1> QED BY <1>2, InitWalk, PTL DEF Spec

\* E1002 is exact, of any graph of declarations: what ensure_alias reports lies on a
\* cycle, and whatever lies on a cycle shares one with something it reports.
THEOREM ExactCycles == Spec => []CyclesReported
<1>1. WalkInv => CyclesReported
  <2> SUFFICES ASSUME WalkInv, phase # "local"
               PROVE  /\ \A a \in errors : OnCycle(a)
                      /\ \A a \in Alias : OnCycle(a) =>
                            \E b \in errors : a = b \/ (Path(a, b) /\ Path(b, a))
    BY DEF CyclesReported
  <2>1. \A a \in errors : OnCycle(a)
    BY Graph DEF WalkInv, ErrorInv, OnCycle
  <2>2. ASSUME NEW a \in Alias, PathIn(decl, a, a),
               \A b \in errors : a # b /\ ~(PathIn(decl, a, b) /\ PathIn(decl, b, a))
        PROVE  FALSE
    <3> DEFINE T == { x \in Alias : PathIn(decl, a, x) /\ PathIn(decl, x, a) }
    <3>1. T \in SUBSET (Alias \ errors) /\ a \in T
      BY <2>2
    <3>2. Founded(decl, Alias \ errors)
      BY DEF WalkInv, GraphInv
    <3>3. PICK x \in T : \A y \in T : ~EdgeIn(decl, x, y)
      <4> HIDE DEF T
      <4> QED BY <3>1, <3>2 DEF Founded
    <3>4. PICK y \in Alias : EdgeIn(decl, x, y) /\ (y = a \/ PathIn(decl, y, a))
      BY PathFirst
    <3>5. PathIn(decl, a, y) /\ PathIn(decl, y, a)
      BY <2>2, <3>4, PathSteps
    <3> QED BY <3>3, <3>4, <3>5
  <2> QED BY <2>1, <2>2, Graph DEF OnCycle
<1> QED BY <1>1, WalkInvariance, PTL

\* Off the cycles every lookup gives the declared type in full: in the module itself
\* and in each process that imports it, whatever the order of the declarations and of
\* the keys of the HashMap (ensure_alias, ty_of_alias).
THEOREM ResolvedReferences == Spec => []ReferencesResolved
<1>1. WalkInv => ReferencesResolved
  <2> SUFFICES ASSUME WalkInv, NEW a \in Alias, ~ReachesCycle(a)
               PROVE  /\ phase # "local" => local[a] = Expansion(LocalNames)[a]
                      /\ phase = "done" => /\ import1[a] = Expansion(ImportedNames)[a]
                                           /\ resolved[a] = Expansion(ImportedNames)[a]
    BY DEF ReferencesResolved
  <2>1. decl \in Decls /\ ~CyclicIn(decl, a)
    BY Graph DEF WalkInv, IInv
  <2>2. NamesIn(decl, "local") = LocalNames /\ NamesIn(decl, "done") = ImportedNames
    BY DEF NamesIn, LocalNames, ImportedNames
  <2>3. ASSUME phase # "local"
        PROVE  local[a] = Expansion(LocalNames)[a]
    <3>1. Solves(decl, LocalNames, local)
      BY <2>2, <2>3 DEF WalkInv, ValueInv, SavedInv
    <3> QED BY <2>1, <3>1, SolutionIsExpansion
  <2>4. ASSUME phase = "done"
        PROVE  import1[a] = Expansion(ImportedNames)[a] /\ resolved[a] = Expansion(ImportedNames)[a]
    <3>1. Solves(decl, ImportedNames, import1)
      BY <2>2, <2>4 DEF WalkInv, ValueInv, SavedInv
    <3>2. Solves(decl, ImportedNames, resolved)
      BY <2>2, <2>4 DEF WalkInv, ValueInv, FinalInv, SavedInv, CoverInv, Solves
    <3> QED BY <2>1, <3>1, <3>2, SolutionIsExpansion
  <2> QED BY <2>3, <2>4
<1> QED BY <1>1, WalkInvariance, PTL
-----------------------------------------------------------------------------
(* The safety half of termination: every step of either walk leaves less to do. *)

\* What is left to do, most significant first: walks to make, aliases the walk has
\* not met, frames to leave, and references of the frame under way, or roots.
WalksLeft == IF phase = "local" THEN 3 ELSE IF phase = "first" THEN 2
             ELSE IF phase = "second" THEN 1 ELSE 0

Unmet == { a \in Alias : a \notin DOMAIN resolved /\ ~IsVisiting(a) }

Ahead == IF stack = <<>> THEN Len(pending)
         ELSE Len(decl[Top.alias].refs) - Len(Top.args)

Left == <<WalksLeft, Cardinality(Unmet), Len(stack), Ahead>>

LeftType == Left \in Nat \X Nat \X Nat \X Nat

\* v comes before w in the lexicographic order.
Before(v, w) == \E i \in 1..4 : v[i] < w[i] /\ \A j \in 1..(i - 1) : v[j] = w[j]

LEMMA BeforeAt ==
    ASSUME NEW a, NEW b, NEW c, NEW d, NEW p, NEW q, NEW r, NEW s,
           \/ a < p
           \/ a = p /\ b < q
           \/ a = p /\ b = q /\ c < r
           \/ a = p /\ b = q /\ c = r /\ d < s
    PROVE  Before(<<a, b, c, d>>, <<p, q, r, s>>)
<1> DEFINE v == <<a, b, c, d>>
           w == <<p, q, r, s>>
<1>1. /\ v[1] = a /\ v[2] = b /\ v[3] = c /\ v[4] = d
      /\ w[1] = p /\ w[2] = q /\ w[3] = r /\ w[4] = s
  OBVIOUS
<1> HIDE DEF v, w
<1>2. CASE a < p
  BY <1>1, <1>2 DEF Before
<1>3. CASE a = p /\ b < q
  BY <1>1, <1>3 DEF Before
<1>4. CASE a = p /\ b = q /\ c < r
  BY <1>1, <1>4 DEF Before
<1>5. CASE a = p /\ b = q /\ c = r /\ d < s
  BY <1>1, <1>5 DEF Before
<1> QED BY <1>2, <1>3, <1>4, <1>5 DEF v, w

\* The guard has the aliases on the stack.
LEMMA VisitingIsOnStack ==
    ASSUME StackInv
    PROVE  \A x : IsVisiting(x) <=> OnStack(stack, x)
BY GuardType DEF IsVisiting, OnStack

LEMMA UnmetType == IsFiniteSet(Unmet) /\ Cardinality(Unmet) \in Nat
<1>1. Unmet \in SUBSET Alias
  BY DEF Unmet
<1> QED BY <1>1, AliasAssumption, FS_Subset, FS_CardinalityType

LEMMA LeftIsNatural == IInv => LeftType
<1> SUFFICES ASSUME IInv PROVE LeftType
  OBVIOUS
<1>1. Len(stack) \in Nat /\ Len(pending) \in Nat
  BY GuardType DEF IInv
<1>2. CASE stack # <<>>
  <2> DEFINE n == Len(stack)
  <2>1. n \in 1..n
    BY <1>2, EmptySeq DEF IInv, StackInv
  <2>2. PICK X : stack \in Seq(Frames(X))
    BY DEF IInv, StackInv
  <2>3. stack[n] \in Frames(X) /\ Top = stack[n]
    BY <2>1, <2>2 DEF Top
  <2>4. Len(Top.args) \in Nat /\ Top.alias \in Alias
    BY <2>3 DEF Frames
  <2>5. Len(decl[Top.alias].refs) \in Nat /\ Len(Top.args) <= Len(decl[Top.alias].refs)
    BY <2>1, <2>3, <2>4, RefsType DEF IInv, StackInv, Refs
  <2>6. Ahead \in Nat
    <3>1. Ahead = Len(decl[Top.alias].refs) - Len(Top.args)
      BY <1>2 DEF Ahead
    <3> QED BY <2>4, <2>5, <3>1
  <2> QED BY <1>1, <2>6, UnmetType DEF LeftType, Left, WalksLeft
<1>3. CASE stack = <<>>
  BY <1>1, <1>3, UnmetType DEF LeftType, Left, WalksLeft, Ahead
<1> QED BY <1>2, <1>3

\* Entering an alias leaves one fewer to meet.
LEMMA PushLess ==
    ASSUME IInv, IInv', NEW a \in Alias, Push(a), phase' = phase,
           a \notin DOMAIN resolved, ~IsVisiting(a)
    PROVE  Before(Left', Left)
<1>1. stack' = Append(stack, Frame(a)) /\ resolved' = resolved
  BY DEF Push
<1>2. \A x : OnStack(stack', x) <=> OnStack(stack, x) \/ x = a
  BY <1>1, PushedStack DEF IInv
<1>3. \A x : /\ IsVisiting(x) <=> OnStack(stack, x)
             /\ IsVisiting(x)' <=> OnStack(stack', x)
  <2>1. \A x : IsVisiting(x) <=> OnStack(stack, x)
    BY VisitingIsOnStack DEF IInv
  <2>2. (StackInv => \A x : IsVisiting(x) <=> OnStack(stack, x))'
    BY VisitingIsOnStack, PTL
  <2> QED BY <2>1, <2>2 DEF IInv, OnStack
<1>4. Unmet' = Unmet \ {a} /\ a \in Unmet
  BY <1>1, <1>2, <1>3 DEF Unmet
<1>5. Cardinality(Unmet') < Cardinality(Unmet)
  <2>1. Cardinality(Unmet \ {a}) = Cardinality(Unmet) - 1
    BY <1>4, UnmetType, FS_RemoveElement
  <2> QED BY <1>4, <2>1, UnmetType
<1>6. WalksLeft' = WalksLeft
  BY DEF WalksLeft
<1> QED BY <1>5, <1>6, BeforeAt DEF Left

\* A reference that is dealt with is one fewer of the frame under way.
LEMMA TookLess ==
    ASSUME IInv, IInv', HasRef, NEW ty, stack' = Took(ty), visiting' = visiting,
           decl' = decl, phase' = phase,
           \/ resolved' = resolved
           \/ \E r : IsVisiting(r) /\ resolved' = Bind(r, Unknown)
    PROVE  Before(Left', Left)
<1> DEFINE n == Len(stack)
<1>1. /\ stack # <<>> /\ n \in Nat \ {0} /\ Len(stack') = n
      /\ stack'[n].alias = stack[n].alias
      /\ Len(stack'[n].args) = Len(stack[n].args) + 1
  BY TookStack DEF IInv, HasRef, Grown
<1>2. stack' # <<>> /\ Top = stack[n] /\ Top' = stack'[n]
  BY <1>1, EmptySeq DEF Top
<1>3. Len(Top.args) \in Nat /\ Len(decl[Top.alias].refs) \in Nat
  <2>1. PICK X : stack \in Seq(Frames(X))
    BY DEF IInv, StackInv
  <2>2. Top \in Frames(X)
    BY <1>1, <1>2, <2>1
  <2> QED BY <2>2, RefsType DEF Frames, IInv
<1>4. Ahead' < Ahead
  <2>1. Ahead = Len(decl[Top.alias].refs) - Len(Top.args)
    BY <1>1 DEF Ahead
  <2>2. Ahead' = Len(decl[Top'.alias].refs) - Len(Top'.args)
    BY <1>2 DEF Ahead
  <2>3. Top'.alias = Top.alias /\ Len(Top'.args) = Len(Top.args) + 1
    BY <1>1, <1>2
  <2>4. Ahead' = Len(decl[Top.alias].refs) - (Len(Top.args) + 1)
    BY <2>2, <2>3
  <2> DEFINE k == Len(decl[Top.alias].refs)
             m == Len(Top.args)
  <2>5. k \in Nat /\ m \in Nat /\ Ahead = k - m /\ Ahead' = k - (m + 1)
    BY <1>3, <2>1, <2>4
  <2> HIDE DEF k, m
  <2>6. k - (m + 1) < k - m
    BY <2>5
  <2> QED BY <2>5, <2>6
<1>5. Unmet' = Unmet
  <2>1. \A x : IsVisiting(x)' <=> IsVisiting(x)
    BY DEF IsVisiting
  <2>2. CASE resolved' = resolved
    BY <2>1, <2>2 DEF Unmet
  <2>3. ASSUME NEW r, IsVisiting(r), resolved' = Bind(r, Unknown)
        PROVE  Unmet' = Unmet
    <3>1. DOMAIN resolved' = DOMAIN resolved \cup {r}
      BY <2>3 DEF Bind
    <3> QED BY <2>1, <2>3, <3>1 DEF Unmet
  <2> QED BY <2>2, <2>3
<1>6. WalksLeft' = WalksLeft
  BY DEF WalksLeft
<1> QED BY <1>1, <1>4, <1>5, <1>6, BeforeAt DEF Left

\* A return leaves one frame fewer and no alias to meet again.
LEMMA ReturnLess ==
    ASSUME IInv, IInv', stack # <<>>, NEW ty, stack' = Returned(ty), phase' = phase,
           NEW val, resolved' = Bind(Top.alias, val)
    PROVE  Before(Left', Left)
<1>1. /\ Len(stack) \in Nat \ {0} /\ Len(stack') = Len(stack) - 1
      /\ \A x : OnStack(stack, x) <=> OnStack(stack', x) \/ x = Top.alias
  BY ReturnedStack DEF IInv
<1>2. \A x : /\ IsVisiting(x) <=> OnStack(stack, x)
             /\ IsVisiting(x)' <=> OnStack(stack', x)
  <2>1. \A x : IsVisiting(x) <=> OnStack(stack, x)
    BY VisitingIsOnStack DEF IInv
  <2>2. (StackInv => \A x : IsVisiting(x) <=> OnStack(stack, x))'
    BY VisitingIsOnStack, PTL
  <2> QED BY <2>1, <2>2 DEF IInv, OnStack
<1>3. DOMAIN resolved' = DOMAIN resolved \cup {Top.alias}
  BY DEF Bind
<1>4. Unmet' = Unmet
  BY <1>1, <1>2, <1>3 DEF Unmet
<1>5. WalksLeft' = WalksLeft
  BY DEF WalksLeft
<1> QED BY <1>1, <1>4, <1>5, BeforeAt DEF Left

\* A root that has its type already is one fewer.
LEMMA SkipLess ==
    ASSUME stack = <<>>, UNCHANGED <<phase, stack, visiting, resolved>>,
           Len(pending) \in Nat, Len(pending') = Len(pending) - 1
    PROVE  Before(Left', Left)
<1>1. Unmet' = Unmet
  BY DEF Unmet, IsVisiting
<1>2. WalksLeft' = WalksLeft /\ Len(stack') = Len(stack) /\ Ahead' < Ahead
  BY DEF WalksLeft, Ahead
<1> QED BY <1>1, <1>2, BeforeAt DEF Left

LEMMA WalkLess == IInv /\ IInv' /\ Next => Before(Left', Left)
<1> SUFFICES ASSUME IInv, IInv', Next PROVE Before(Left', Left)
  OBVIOUS
<1>1. Len(pending) \in Nat /\ \A i \in 1..Len(pending) : pending[i] \in Alias
  BY ElementOfSeq DEF IInv
<1>2. CASE LocalRoot
  <2>1. /\ phase' = phase /\ stack = <<>> /\ Head(pending) \in Alias
        /\ Len(pending') = Len(pending) - 1
    BY <1>2, HeadTailProperties DEF LocalRoot, IInv
  <2>2. ~IsVisiting(Head(pending))
    BY <2>1, GuardType DEF IInv, IsVisiting
  <2>3. CASE Head(pending) \in DOMAIN resolved
    <3>1. UNCHANGED <<stack, visiting, resolved>>
      BY <1>2, <2>3 DEF LocalRoot
    <3> QED BY <1>1, <2>1, <3>1, SkipLess
  <2>4. CASE Head(pending) \notin DOMAIN resolved
    <3>1. Push(Head(pending))
      BY <1>2, <2>4 DEF LocalRoot
    <3> QED BY <2>1, <2>2, <2>4, <3>1, PushLess
  <2> QED BY <2>3, <2>4
<1>3. CASE LocalDep
  <2>1. NextRef \in Alias /\ HasRef /\ decl' = decl /\ phase' = phase
    BY <1>3, NextRefType DEF LocalDep
  <2>2. CASE NextRef \notin DOMAIN resolved /\ ~IsVisiting(NextRef) /\ Push(NextRef)
    BY <2>1, <2>2, PushLess
  <2>3. CASE /\ stack' = Took(Unknown) /\ visiting' = visiting
             /\ \/ resolved' = resolved
                \/ IsVisiting(NextRef) /\ resolved' = Bind(NextRef, Unknown)
    BY <2>1, <2>3, TookLess
  <2> QED BY <1>3, <2>2, <2>3 DEF LocalDep
<1>4. CASE LocalFinish
  <2>1. /\ stack # <<>> /\ stack' = Returned(Unknown) /\ phase' = phase
        /\ \E val : resolved' = Bind(Top.alias, val)
    BY <1>4 DEF LocalFinish
  <2> QED BY <2>1, ReturnLess
<1>5. CASE LocalDone
  <2>1. WalksLeft' < WalksLeft
    BY <1>5 DEF LocalDone, WalksLeft
  <2> QED BY <2>1, BeforeAt DEF Left
<1>6. CASE ImportRoot
  <2>1. PICK i \in 1..Len(pending) :
          /\ pending' = [j \in 1..(Len(pending) - 1) |->
                            IF j < i THEN pending[j] ELSE pending[j + 1]]
          /\ IF pending[i] \in DOMAIN resolved
             THEN UNCHANGED <<stack, visiting, resolved, errors>>
             ELSE Push(pending[i])
    BY <1>6 DEF ImportRoot
  <2>2. Len(pending') = Len(pending) - 1
    <3>1. Len(pending) - 1 \in Nat
      BY <1>1
    <3> QED BY <2>1, <3>1
  <2>3. stack = <<>> /\ phase' = phase /\ ~IsVisiting(pending[i])
    BY <1>6, GuardType DEF ImportRoot, IInv, IsVisiting
  <2>4. CASE pending[i] \in DOMAIN resolved
    BY <1>1, <2>1, <2>2, <2>3, <2>4, SkipLess
  <2>5. CASE pending[i] \notin DOMAIN resolved
    BY <1>1, <2>1, <2>3, <2>5, PushLess
  <2> QED BY <2>4, <2>5
<1>7. CASE ImportRef
  <2>1. NextRef \in Alias /\ HasRef /\ decl' = decl /\ phase' = phase
    BY <1>7, NextRefType DEF ImportRef
  <2>2. CASE NextRef \notin DOMAIN resolved /\ ~IsVisiting(NextRef) /\ Push(NextRef)
    BY <2>1, <2>2, PushLess
  <2>3. ASSUME NEW ty, stack' = Took(ty), UNCHANGED <<visiting, resolved>>
        PROVE  Before(Left', Left)
    BY <2>1, <2>3, TookLess
  <2> QED BY <1>7, <2>2, <2>3 DEF ImportRef
<1>8. CASE ImportFinish
  <2>1. /\ stack # <<>> /\ phase' = phase
        /\ \E ty : stack' = Returned(ty) /\ resolved' = Bind(Top.alias, ty)
    BY <1>8 DEF ImportFinish
  <2> QED BY <2>1, ReturnLess
<1>9. CASE ImportDone
  <2>1. WalksLeft' < WalksLeft
    BY <1>9 DEF ImportDone, WalksLeft
  <2> QED BY <2>1, BeforeAt DEF Left
<1> QED BY <1>2, <1>3, <1>4, <1>5, <1>6, <1>7, <1>8, <1>9 DEF Next

\* No step of ensure_alias or of ty_of_alias is without progress: each one leaves less
\* to do in a well-founded order, whether the alias is entered, met on the way, found
\* in the cache, or left, so neither recursion runs forever on any declarations.
THEOREM WalksAdvance == Spec => []LeftType /\ [][Before(Left', Left)]_vars
<1>1. IInv /\ IInv' /\ [Next]_vars => [Before(Left', Left)]_vars
  BY WalkLess
<1> QED BY <1>1, Invariance, LeftIsNatural, PTL DEF Spec
=============================================================================
