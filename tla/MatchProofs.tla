----------------------------- MODULE MatchProofs -----------------------------
(***************************************************************************)
(* Theorems about Match, for every enum, every payload, every pattern and  *)
(* any number of arms: a match the checker accepts takes the arm of the    *)
(* value it is given and binds what it typed, and a match is refused for   *)
(* being incomplete or redundant exactly when it is.                       *)
(*                                                                         *)
(* A pattern that is right is the pattern of one constructor, and its test *)
(* is true of the values of that constructor alone.  The rest is what the  *)
(* loop over the arms remembers of the arms behind it.                     *)
(***************************************************************************)
EXTENDS Match, SequenceTheorems, WellFoundedInduction, TLAPS

CtorSet(shape) == Elements(Ctors(shape))

\* What is said of an arm whose pattern is that of constructor c.
Fits(shape, p, c) == /\ c \in CtorSet(shape) /\ p.path = PathOf(shape, c)
                     /\ CtorsAt(shape, p.path) = {c}
                     /\ Key(shape, p) = <<c.name>>
                     /\ PayloadDiags(p, c) = {}

LEMMA ElementsOfSeq ==
    ASSUME NEW s, IsSeq(s)
    PROVE  /\ Len(s) \in Nat /\ DOMAIN s = 1..Len(s)
           /\ \A i \in 1..Len(s) : s[i] \in Elements(s)
BY LenProperties DEF IsSeq, Elements

LEMMA Fields ==
    ASSUME NEW name, NEW k, NEW slots
    PROVE  /\ Ctor(name, k, slots).name = name /\ Ctor(name, k, slots).k = k
           /\ Ctor(name, k, slots).slots = slots
BY DEF Ctor

\* A set of numbers that is not empty has a least one.
LEMMA NatLeast ==
    ASSUME NEW S \in SUBSET Nat, S # {}
    PROVE  \E m \in S : \A k \in S : m <= k
<1> DEFINE R == { ss \in Nat \X Nat : ss[1] < ss[2] }
<1>1. IsWellFoundedOn(R, Nat)
  BY NatLessThanWellFounded DEF OpToRel
<1> HIDE DEF R
<1>2. PICK x \in S : \A y \in S : ~(<<y, x>> \in R)
  BY <1>1, WFMin
<1>3. \A y \in S : ~(y < x)
  BY <1>2 DEF R
<1> QED BY <1>3

\* The constructors of a shape have names of their own.
LEMMA CtorType ==
    ASSUME NEW shape, IsShape(shape), IsKnown(shape)
    PROVE  /\ \A c \in CtorSet(shape) : IsCtor(c)
           /\ \A c, d \in CtorSet(shape) : c.name = d.name => c = d
<1>1. CASE shape.k = "enum"
  <2>1. /\ CtorSet(shape) = { shape.variants[i] : i \in DOMAIN shape.variants }
    BY <1>1 DEF CtorSet, Ctors, Elements
  <2> QED BY <1>1, <2>1 DEF IsShape
<1>2. ASSUME NEW x, NEW n
      PROVE  IsCtor(Ctor(x, "tuple", <<n>>)) <=> x # "undefined"
  <2>1. IsSeq(<<n>>)
    BY DEF IsSeq, Elements
  <2> QED BY <2>1, Fields DEF IsCtor
<1>3. IsCtor(Ctor("None", "unit", <<>>))
  <2>1. IsSeq(<<>>)
    BY EmptySeq DEF IsSeq
  <2> QED BY <2>1, Fields DEF IsCtor
<1>4. CASE shape.k = "option"
  <2>1. CtorSet(shape) = { Ctor("Some", "tuple", <<"value">>), Ctor("None", "unit", <<>>) }
    BY <1>4 DEF CtorSet, Ctors, Elements, OptionCtors
  <2> QED BY <2>1, <1>2, <1>3, Fields
<1>5. CASE shape.k = "result"
  <2>1. CtorSet(shape) = { Ctor("Ok", "tuple", <<"value">>), Ctor("Err", "tuple", <<"error">>) }
    BY <1>5 DEF CtorSet, Ctors, Elements, ResultCtors
  <2> QED BY <2>1, <1>2, Fields
<1> QED BY <1>1, <1>4, <1>5 DEF IsKnown

\* A path belongs to one constructor.
LEMMA PathsDiffer ==
    ASSUME NEW shape, IsShape(shape), IsKnown(shape),
           NEW c \in CtorSet(shape), NEW d \in CtorSet(shape),
           PathOf(shape, c) = PathOf(shape, d)
    PROVE  c = d
<1>1. c.name = d.name
  BY DEF PathOf
<1> QED BY <1>1, CtorType

\* A pattern nothing is wrong with is that of one constructor.
LEMMA RightPattern ==
    ASSUME NEW shape, IsShape(shape), IsKnown(shape), NEW p, PatternDiags(shape, p) = {}
    PROVE  \E c \in CtorSet(shape) : Fits(shape, p, c)
<1>1. shape.k # "unknown"
  BY DEF IsKnown
<1>2. CtorsAt(shape, p.path) # {}
  BY <1>1 DEF PatternDiags
<1>3. PICK c \in CtorSet(shape) : PathOf(shape, c) = p.path
  BY <1>2 DEF CtorsAt, CtorSet, Elements
<1>4. CtorsAt(shape, p.path) = {c}
  BY <1>3, PathsDiffer DEF CtorsAt, CtorSet, Elements
<1>5. PayloadDiags(p, c) = {}
  BY <1>1, <1>2, <1>4 DEF PatternDiags
<1>6. Key(shape, p) = <<c.name>>
  <2>1. Key(shape, p) = << p.path[Len(p.path)] >>
    BY <1>1, <1>2 DEF Key
  <2>2. CASE shape.k = "enum"
    <3>1. p.path = <<EnumName, c.name>>
      BY <1>3, <2>2 DEF PathOf
    <3> QED BY <2>1, <3>1
  <2>3. CASE shape.k # "enum"
    <3>1. p.path = <<c.name>>
      BY <1>3, <2>3 DEF PathOf
    <3> QED BY <2>1, <3>1
  <2> QED BY <2>2, <2>3
<1> QED BY <1>3, <1>4, <1>5, <1>6 DEF Fits

\* The values of a known type are those of its constructors.
LEMMA ValuesByCtor ==
    ASSUME NEW shape, IsShape(shape), IsKnown(shape)
    PROVE  /\ \A v \in Values(shape) : v.ctor \in CtorSet(shape)
           /\ \A c \in CtorSet(shape) : \E v \in Values(shape) : v.ctor = c
<1>1. \A c : BuiltIn(c).ctor = c /\ Variant(c).ctor = c
  BY DEF BuiltIn, Variant
<1>2. CASE shape.k = "enum"
  <2>1. Values(shape) = { Variant(c) : c \in CtorSet(shape) }
    BY <1>2 DEF Values, CtorSet
  <2> QED BY <1>1, <2>1
<1>3. CASE shape.k # "enum"
  <2>1. Values(shape) = { BuiltIn(c) : c \in CtorSet(shape) }
    BY <1>3 DEF Values, CtorSet, IsKnown
  <2> QED BY <1>1, <2>1
<1> QED BY <1>2, <1>3

\* The test of a right pattern is true of the values of its constructor alone.
LEMMA TestExact ==
    ASSUME NEW shape, IsShape(shape), IsKnown(shape), NEW p,
           NEW c \in CtorSet(shape), Fits(shape, p, c), NEW v \in Values(shape)
    PROVE  Test(p, v) <=> v.ctor = c
<1>1. v.ctor \in CtorSet(shape)
  BY ValuesByCtor
<1>2. v.ctor.name = c.name <=> v.ctor = c
  BY <1>1, CtorType
<1>3. CASE shape.k = "enum"
  <2>1. p.path = <<EnumName, c.name>> /\ p.path[Len(p.path)] = c.name
    BY <1>3 DEF Fits, PathOf
  <2>2. p.path \notin {<<"Some">>, <<"Ok">>, <<"None">>, <<"Err">>}
    <3>1. Len(p.path) = 2
      BY <2>1
    <3>2. \A x : Len(<<x>>) = 1
      OBVIOUS
    <3> QED BY <3>1, <3>2
  <2>3. v.kind = v.ctor.name
    BY <1>3 DEF Values, Variant
  <2> QED BY <1>2, <2>1, <2>2, <2>3 DEF Test
<1>4. CASE shape.k # "enum"
  <2>1. p.path = <<c.name>>
    BY <1>4 DEF Fits, PathOf
  <2>2. v.ok = IF v.ctor.name \in {"Some", "Ok"} THEN "true" ELSE "false"
    BY <1>4 DEF Values, IsKnown, BuiltIn
  <2>3. CASE shape.k = "option"
    <3>1. \A d \in CtorSet(shape) : d.name \in {"Some", "None"}
      BY <2>3, Fields DEF CtorSet, Ctors, Elements, OptionCtors
    <3>2. c.name \in {"Some", "None"} /\ v.ctor.name \in {"Some", "None"}
      BY <1>1, <3>1
    <3>3. Test(p, v) <=> v.ctor.name = c.name
      <4>1. p.path = <<"Some">> <=> c.name = "Some"
        BY <2>1
      <4>2. p.path = <<"None">> <=> c.name = "None"
        BY <2>1
      <4>3. p.path # <<"Ok">>
        BY <2>1, <3>2
      <4> QED BY <2>2, <3>2, <4>1, <4>2, <4>3 DEF Test
    <3> QED BY <1>2, <3>3
  <2>4. CASE shape.k = "result"
    <3>1. \A d \in CtorSet(shape) : d.name \in {"Ok", "Err"}
      BY <2>4, Fields DEF CtorSet, Ctors, Elements, ResultCtors
    <3>2. c.name \in {"Ok", "Err"} /\ v.ctor.name \in {"Ok", "Err"}
      BY <1>1, <3>1
    <3>3. Test(p, v) <=> v.ctor.name = c.name
      <4>1. p.path = <<"Ok">> <=> c.name = "Ok"
        BY <2>1
      <4>2. p.path = <<"Err">> <=> c.name = "Err"
        BY <2>1
      <4>3. p.path # <<"Some">>
        BY <2>1, <3>2
      <4> QED BY <2>2, <3>2, <4>1, <4>2, <4>3 DEF Test
    <3> QED BY <1>2, <3>3
  <2> QED BY <1>4, <2>3, <2>4 DEF IsKnown
<1> QED BY <1>3, <1>4

\* What a pattern that is right says of its payload.
LEMMA RightPayload ==
    ASSUME NEW p, IsPattern(p), NEW c, IsCtor(c), PayloadDiags(p, c) = {}
    PROVE  /\ p.k = c.k /\ ~Repeats(p.names)
           /\ c.k \in {"tuple", "unit"} => Len(p.names) = Len(c.slots)
           /\ c.k = "record" => Elements(p.names) = Elements(c.slots)
<1>1. /\ p.k = c.k
      /\ c.k = "tuple" => Len(p.names) = Len(c.slots)
      /\ c.k = "record" => Elements(p.names) = Elements(c.slots)
  BY DEF PayloadDiags
<1>2. \A i, j \in DOMAIN p.names :
         i < j /\ p.names[i] = p.names[j] => ~(c.k = "tuple" \/ p.names[i] \in Elements(c.slots))
  BY <1>1 DEF PayloadDiags
<1>3. c.k = "unit" => p.names = <<>> /\ c.slots = <<>>
  BY <1>1 DEF IsPattern, IsCtor
<1>4. ~Repeats(p.names)
  <2>1. CASE c.k = "unit"
    BY <1>3, <2>1 DEF Repeats
  <2>2. CASE c.k = "tuple"
    BY <1>2, <2>2 DEF Repeats
  <2>3. CASE c.k = "record"
    <3>1. \A i \in DOMAIN p.names : p.names[i] \in Elements(c.slots)
      BY <1>1, <2>3 DEF Elements
    <3> QED BY <1>2, <3>1 DEF Repeats
  <2> QED BY <2>1, <2>2, <2>3 DEF IsCtor
<1> QED BY <1>1, <1>3, <1>4

\* Where patterns have one segment, a payload is read as `value` or `error`.
LEMMA BuiltInRead ==
    ASSUME NEW shape, IsShape(shape), IsKnown(shape), NEW p, IsPattern(p),
           NEW c \in CtorSet(shape), Fits(shape, p, c), p.k = c.k
    PROVE  /\ shape.k = "enum" => ~ReadsBuiltIn(p)
           /\ shape.k # "enum" /\ c.k # "unit" =>
                /\ ReadsBuiltIn(p) /\ c.k = "tuple"
                /\ c.slots = << IF p.path = <<"Err">> THEN "error" ELSE "value" >>
<1>1. CASE shape.k = "enum"
  <2>1. Len(p.path) = 2
    BY <1>1 DEF Fits, PathOf
  <2>2. \A x : Len(<<x>>) = 1
    OBVIOUS
  <2> QED BY <1>1, <2>1, <2>2 DEF ReadsBuiltIn
<1>2. CASE shape.k # "enum" /\ c.k # "unit"
  <2>1. p.path = <<c.name>>
    BY <1>2 DEF Fits, PathOf
  <2>2. \/ c = Ctor("Some", "tuple", <<"value">>)
        \/ c = Ctor("Ok", "tuple", <<"value">>)
        \/ c = Ctor("Err", "tuple", <<"error">>)
    <3>1. c \in CtorSet(shape) /\ c # Ctor("None", "unit", <<>>)
      BY <1>2, Fields
    <3>2. shape.k = "option" => CtorSet(shape) = { Ctor("Some", "tuple", <<"value">>),
                                                   Ctor("None", "unit", <<>>) }
      BY DEF CtorSet, Ctors, Elements, OptionCtors
    <3>3. shape.k = "result" => CtorSet(shape) = { Ctor("Ok", "tuple", <<"value">>),
                                                   Ctor("Err", "tuple", <<"error">>) }
      BY DEF CtorSet, Ctors, Elements, ResultCtors
    <3> QED BY <1>2, <3>1, <3>2, <3>3 DEF IsKnown
  <2>3. /\ c.name \in {"Some", "Ok", "Err"} /\ c.k = "tuple"
        /\ c.slots = << IF c.name = "Err" THEN "error" ELSE "value" >>
    BY <2>2, Fields
  <2>4. p.path = <<"Err">> <=> c.name = "Err"
    BY <2>1
  <2> QED BY <1>2, <2>1, <2>3, <2>4 DEF ReadsBuiltIn
<1> QED BY <1>1, <1>2

\* No constant of a right arm is declared twice.
LEMMA NamesOnce ==
    ASSUME NEW p, ~Repeats(p.names)
    PROVE  ~Repeats(Names(p))
<1>1. \A x : ~Repeats(<<x>>)
  BY DEF Repeats
<1> QED BY <1>1 DEF Names

\* A value whose constructor is that of the pattern is read without an error.
LEMMA NoRaise ==
    ASSUME NEW shape, IsShape(shape), IsKnown(shape), NEW p, IsPattern(p),
           NEW c \in CtorSet(shape), Fits(shape, p, c),
           NEW v \in Values(shape), v.ctor = c
    PROVE  ~Raises(v, p)
<1>1. IsCtor(c)
  BY CtorType
<1>2. p.k = c.k
  BY <1>1, RightPayload DEF Fits
<1>3. c.k = "unit" => p.names = <<>>
  BY <1>2 DEF IsPattern
<1>4. CASE shape.k = "enum"
  <2>1. v.kind = c.name
    BY <1>4 DEF Values, Variant
  <2> QED BY <1>1, <1>2, <2>1 DEF Raises, IsCtor
<1>5. CASE shape.k # "enum"
  BY <1>2, <1>3, <1>5, BuiltInRead DEF Raises
<1> QED BY <1>4, <1>5

LEMMA PositionIs ==
    ASSUME NEW s, IsSeq(s), ~Repeats(s), NEW i \in DOMAIN s
    PROVE  Position(s, s[i]) = i
<1>1. DOMAIN s = 1..Len(s) /\ Len(s) \in Nat
  BY ElementsOfSeq
<1>2. \A j \in DOMAIN s : s[j] = s[i] => j = i
  BY <1>1 DEF Repeats
<1>3. s[i] = s[i] /\ \A j \in 1..(i - 1) : s[j] # s[i]
  BY <1>1, <1>2
<1> QED BY <1>2, <1>3 DEF Position

\* The run binds the names the check bound, to the slots the check typed.
LEMMA BoundAsChecked ==
    ASSUME NEW shape, IsShape(shape), IsKnown(shape), NEW p, IsPattern(p),
           NEW c \in CtorSet(shape), Fits(shape, p, c),
           NEW v, v.ctor = c
    PROVE  /\ DOMAIN Bound(v, p) = DOMAIN Names(p)
           /\ { Names(p)[i] : i \in DOMAIN Names(p) } = DOMAIN Bindings(shape, p)
           /\ \A i \in DOMAIN Names(p) :
                /\ Bound(v, p)[i][1] = Names(p)[i]
                /\ Bound(v, p)[i][2] = Bindings(shape, p)[Names(p)[i]]
                /\ Bound(v, p)[i][2] \in Elements(c.slots)
<1>1. IsCtor(c)
  BY CtorType
<1>2. /\ p.k = c.k /\ ~Repeats(p.names)
      /\ c.k \in {"tuple", "unit"} => Len(p.names) = Len(c.slots)
      /\ c.k = "record" => Elements(p.names) = Elements(c.slots)
  BY <1>1, RightPayload DEF Fits
<1>3. /\ Len(p.names) \in Nat /\ DOMAIN p.names = 1..Len(p.names)
      /\ Len(c.slots) \in Nat /\ DOMAIN c.slots = 1..Len(c.slots)
      /\ \A i \in DOMAIN c.slots : c.slots[i] \in Elements(c.slots)
      /\ \A i \in DOMAIN p.names : p.names[i] \in Elements(p.names)
  BY <1>1, ElementsOfSeq DEF IsCtor, IsPattern
<1>4. Bindings(shape, p) =
         IF c.k = "record"
         THEN [n \in Elements(p.names) \cap Elements(c.slots) |-> n]
         ELSE [n \in Elements(p.names) |->
                 IF Position(p.names, n) \in DOMAIN c.slots
                 THEN c.slots[Position(p.names, n)] ELSE "_"]
  <2>1. CtorsAt(shape, p.path) = {c}
    BY DEF Fits
  <2>2. (CHOOSE d \in {c} : TRUE) = c
    OBVIOUS
  <2> QED BY <1>2, <2>1, <2>2 DEF Bindings
<1>5. /\ DOMAIN Bound(v, p) = DOMAIN Names(p)
      /\ \A i \in DOMAIN Names(p) : /\ Bound(v, p)[i][1] = Names(p)[i]
                                    /\ Bound(v, p)[i][2] = SlotAt(v, p, i)
  BY DEF Bound
<1>6. Names(p) = p.names
  <2>1. CASE ReadsBuiltIn(p) /\ p.names # <<>>
    <3>1. shape.k # "enum" /\ c.k # "unit"
      BY <1>2, <2>1, BuiltInRead DEF ReadsBuiltIn
    <3>2. Len(p.names) = 1
      <4>1. \A x : Len(<<x>>) = 1
        OBVIOUS
      <4>2. /\ c.slots = << IF p.path = <<"Err">> THEN "error" ELSE "value" >>
            /\ c.k = "tuple"
        BY <1>2, <3>1, BuiltInRead
      <4> QED BY <1>2, <4>1, <4>2
    <3>3. p.names = <<p.names[1]>>
      <4>1. p.names \in Seq(Elements(p.names)) /\ p.names[1] \in Elements(p.names)
        BY <1>3, <3>2 DEF IsPattern, IsSeq
      <4>2. <<p.names[1]>> \in Seq(Elements(p.names)) /\ Len(<<p.names[1]>>) = 1
        BY <4>1
      <4> QED BY <3>2, <4>1, <4>2, SeqEqual
    <3> QED BY <2>1, <3>3 DEF Names
  <2>2. CASE ~(ReadsBuiltIn(p) /\ p.names # <<>>)
    BY <2>2 DEF Names
  <2> QED BY <2>1, <2>2
<1>7. DOMAIN Bindings(shape, p) = Elements(p.names)
  BY <1>2, <1>4
<1>8. ASSUME NEW i \in DOMAIN p.names
      PROVE  /\ SlotAt(v, p, i) = Bindings(shape, p)[p.names[i]]
             /\ SlotAt(v, p, i) \in Elements(c.slots)
  <2>1. CASE c.k = "record"
    <3>1. p.names[i] \in Elements(c.slots) /\ Bindings(shape, p)[p.names[i]] = p.names[i]
      BY <1>2, <1>3, <1>4, <2>1
    <3>2. SlotAt(v, p, i) = p.names[i]
      BY <1>2, <2>1, <3>1 DEF SlotAt, ReadsBuiltIn
    <3> QED BY <3>1, <3>2
  <2>2. CASE c.k = "unit"
    BY <1>2, <1>3, <2>2 DEF IsPattern
  <2>3. CASE c.k = "tuple"
    <3>1. i \in DOMAIN c.slots
      BY <1>2, <1>3, <2>3
    <3>2. Position(p.names, p.names[i]) = i
      BY <1>2, PositionIs DEF IsPattern
    <3>3. Bindings(shape, p)[p.names[i]] = c.slots[i]
      <4>1. Bindings(shape, p) = [n \in Elements(p.names) |->
                                    IF Position(p.names, n) \in DOMAIN c.slots
                                    THEN c.slots[Position(p.names, n)] ELSE "_"]
        BY <1>4, <2>3
      <4>2. p.names[i] \in Elements(p.names)
        BY <1>3
      <4> QED BY <3>1, <3>2, <4>1, <4>2
    <3>4. SlotAt(v, p, i) = c.slots[i]
      <4>1. CASE ReadsBuiltIn(p)
        <5>1. c.slots = << IF p.path = <<"Err">> THEN "error" ELSE "value" >>
          BY <1>2, <2>3, <4>1, BuiltInRead
        <5>2. i = 1
          BY <1>3, <3>1, <5>1
        <5>3. c.slots[i] = IF p.path = <<"Err">> THEN "error" ELSE "value"
          BY <5>1, <5>2
        <5> QED BY <1>3, <3>1, <4>1, <5>3 DEF SlotAt
      <4>2. CASE ~ReadsBuiltIn(p)
        BY <1>2, <2>3, <3>1, <4>2 DEF SlotAt
      <4> QED BY <4>1, <4>2
    <3> QED BY <1>3, <3>1, <3>3, <3>4
  <2> QED BY <1>1, <2>1, <2>2, <2>3 DEF IsCtor
<1>9. { p.names[i] : i \in DOMAIN p.names } = DOMAIN Bindings(shape, p)
  BY <1>7 DEF Elements
<1> QED BY <1>5, <1>6, <1>8, <1>9
-----------------------------------------------------------------------------
(* The inductive invariant.                                                *)

Pat(pr, i)   == pr.arms[i].pattern
ShapeOf(pr)  == MatchShape(pr.scrutinee)
KeyAt(pr, i) == Key(ShapeOf(pr), Pat(pr, i))
KeysTo(pr, n) == { KeyAt(pr, i) : i \in 1..n } \ {<<>>}
Redundant(pr, i) == KeyAt(pr, i) # <<>> /\ \E j \in 1..(i - 1) : KeyAt(pr, j) = KeyAt(pr, i)
Lacking(pr, n) == \E c \in CtorSet(ShapeOf(pr)) : <<c.name>> \notin KeysTo(pr, n)

Codes == {"E1004", "E2001", "E2007", "E2008", "E2009"}

\* The number of arms checked, of a match in phase ph.
Checked(pr, ph, n) == IF ph = "check" THEN n - 1
                      ELSE IF ShapeOf(pr).k = "other" THEN 0 ELSE Len(pr.arms)

TypeInv == /\ program \in Programs
           /\ phase \in {"check", "refused", "emitted", "run", "taken", "thrown"}
           /\ next \in 1..(Len(arms) + 1)
           /\ diags \subseteq (0..Len(arms)) \X Codes
           /\ result \in Ty
           /\ ShapeOf(program).k = "other" => next = 1 /\ phase \in {"check", "refused"}

\* What the check remembers is the keys and the bindings of the arms behind it.
MemoryInv ==
    /\ seen = KeysTo(program, Checked(program, phase, next))
    /\ scopes = [i \in 1..Checked(program, phase, next) |->
                    Bindings(ShapeOf(program), Pat(program, i))]

\* The diagnostics of the arms behind it, and no others, have been made.
DiagInv ==
    /\ \A i \in 1..Checked(program, phase, next) :
         /\ \A code \in {"E1004", "E2009"} :
              <<i, code>> \in diags <=> code \in PatternDiags(ShapeOf(program), Pat(program, i))
         /\ <<i, "E2008">> \in diags <=> Redundant(program, i)
    /\ phase = "check" => \A d \in diags : d[1] \in 1..(next - 1)
    /\ phase # "check" /\ ShapeOf(program).k # "other" =>
         (<<0, "E2007">> \in diags <=> Lacking(program, Len(arms)))
    /\ phase \in {"emitted", "run", "taken", "thrown"} => diags = {}

RunInv ==
    /\ phase = "emitted" => next = 1
    /\ phase \in {"run", "taken", "thrown"} => value \in Values(ShapeOf(program))
    /\ phase = "run" => \A i \in 1..(next - 1) : ~Test(Pat(program, i), value)
    /\ phase = "taken" => /\ next \in DOMAIN arms
                          /\ Test(Pat(program, next), value)
                          /\ bound = Bound(value, Pat(program, next))
    /\ phase = "thrown" => ~IsKnown(ShapeOf(program))

IInv == TypeInv /\ MemoryInv /\ DiagInv /\ RunInv

LEMMA Expand == /\ Shape = ShapeOf(program)
                /\ \A i : arms[i].pattern = Pat(program, i)
BY DEF Shape, ShapeOf, Pat, arms

LEMMA ProgramType ==
    ASSUME NEW pr \in Programs
    PROVE  /\ IsShape(ShapeOf(pr))
           /\ Len(pr.arms) \in Nat /\ DOMAIN pr.arms = 1..Len(pr.arms)
           /\ \A i \in 1..Len(pr.arms) : IsPattern(Pat(pr, i)) /\ pr.arms[i].body \in Ty
<1>1. IsSeq(pr.arms)
  BY ProgramsAssumption
<1>2. Len(pr.arms) \in Nat /\ DOMAIN pr.arms = 1..Len(pr.arms)
  BY <1>1, ElementsOfSeq
<1> QED BY <1>2, ProgramsAssumption DEF ShapeOf, Pat

LEMMA PatternCodes ==
    ASSUME NEW shape, NEW p
    PROVE  PatternDiags(shape, p) \subseteq {"E1004", "E2009"}
<1>1. \A c : PayloadDiags(p, c) \subseteq {"E1004", "E2009"}
  BY DEF PayloadDiags
<1> QED BY <1>1 DEF PatternDiags

\* In a match whose patterns are right every arm is that of a constructor, and
\* two arms with one key are arms of one constructor.
LEMMA RightArms ==
    ASSUME NEW pr \in Programs, IsKnown(ShapeOf(pr)),
           \A i \in 1..Len(pr.arms) : PatternDiags(ShapeOf(pr), Pat(pr, i)) = {}
    PROVE  \E ct \in [1..Len(pr.arms) -> CtorSet(ShapeOf(pr))] :
             /\ \A i \in 1..Len(pr.arms) :
                  /\ Fits(ShapeOf(pr), Pat(pr, i), ct[i])
                  /\ KeyAt(pr, i) = <<ct[i].name>>
                  /\ \A v \in Values(ShapeOf(pr)) : Test(Pat(pr, i), v) <=> v.ctor = ct[i]
             /\ \A i, j \in 1..Len(pr.arms) : KeyAt(pr, i) = KeyAt(pr, j) <=> ct[i] = ct[j]
             /\ \A c \in CtorSet(ShapeOf(pr)) :
                  <<c.name>> \in KeysTo(pr, Len(pr.arms)) <=>
                    \E i \in 1..Len(pr.arms) : ct[i] = c
<1> DEFINE shape == ShapeOf(pr)
           n == Len(pr.arms)
           ct == [i \in 1..n |-> CHOOSE c \in CtorSet(shape) : Fits(shape, Pat(pr, i), c)]
<1>1. IsShape(shape) /\ IsKnown(shape)
  BY ProgramType
<1>2. ASSUME NEW i \in 1..n
      PROVE  ct[i] \in CtorSet(shape) /\ Fits(shape, Pat(pr, i), ct[i])
  <2>1. \E c \in CtorSet(shape) : Fits(shape, Pat(pr, i), c)
    BY <1>1, RightPattern
  <2> QED BY <2>1
<1>3. ct \in [1..n -> CtorSet(shape)]
  BY <1>2
<1>4. ASSUME NEW i \in 1..n
      PROVE  /\ KeyAt(pr, i) = <<ct[i].name>>
             /\ \A v \in Values(shape) : Test(Pat(pr, i), v) <=> v.ctor = ct[i]
  <2> HIDE DEF ct
  <2>1. KeyAt(pr, i) = <<ct[i].name>>
    BY <1>2 DEF KeyAt, Fits
  <2> HIDE DEF shape
  <2> QED BY <1>1, <1>2, <2>1, TestExact
<1> HIDE DEF ct, shape
<1>5. ASSUME NEW c \in CtorSet(shape), NEW d \in CtorSet(shape)
      PROVE  <<c.name>> = <<d.name>> <=> c = d
  BY <1>1, CtorType
<1>6. \A i, j \in 1..n : KeyAt(pr, i) = KeyAt(pr, j) <=> ct[i] = ct[j]
  BY <1>2, <1>4, <1>5
<1>7. ASSUME NEW c \in CtorSet(shape)
      PROVE  <<c.name>> \in KeysTo(pr, n) <=> \E i \in 1..n : ct[i] = c
  <2>1. <<c.name>> # <<>>
    OBVIOUS
  <2>2. <<c.name>> \in KeysTo(pr, n) <=> \E i \in 1..n : KeyAt(pr, i) = <<c.name>>
    BY <2>1 DEF KeysTo
  <2> QED BY <1>2, <1>4, <1>5, <2>2
<1> QED BY <1>2, <1>3, <1>4, <1>6, <1>7 DEF shape

-----------------------------------------------------------------------------
LEMMA Start == Init => IInv
<1> SUFFICES ASSUME Init PROVE IInv
  OBVIOUS
<1>1. /\ program \in Programs /\ phase = "check" /\ next = 1
      /\ seen = {} /\ diags = {} /\ scopes = <<>> /\ result = UnknownTy
  BY DEF Init
<1>2. TypeInv
  <2>1. Len(program.arms) \in Nat
    BY <1>1, ProgramType
  <2>2. next \in 1..(Len(arms) + 1)
    BY <1>1, <2>1 DEF arms
  <2>3. result \in Ty
    BY <1>1 DEF Ty, BaseTy, UnknownTy
  <2> QED BY <1>1, <2>2, <2>3 DEF TypeInv
<1>3. Checked(program, phase, next) = 0
  BY <1>1 DEF Checked
<1>4. MemoryInv
  BY <1>1, <1>3 DEF MemoryInv, KeysTo
<1>5. DiagInv
  BY <1>1, <1>3 DEF DiagInv
<1>6. RunInv
  BY <1>1 DEF RunInv
<1> QED BY <1>2, <1>4, <1>5, <1>6 DEF IInv

LEMMA RefuseKeeps == IInv /\ RefuseScrutinee => IInv'
<1> SUFFICES ASSUME IInv, RefuseScrutinee PROVE IInv'
  OBVIOUS
<1>1. /\ phase = "check" /\ Shape.k = "other" /\ ShapeOf(program).k = "other"
      /\ diags' = {<<0, "E2009">>} /\ phase' = "refused"
      /\ program' = program /\ next' = next /\ seen' = seen
      /\ scopes' = scopes /\ result' = result
  BY Expand DEF RefuseScrutinee
<1>2. /\ program \in Programs /\ next = 1 /\ Len(program.arms) \in Nat
  BY <1>1, ProgramType DEF IInv, TypeInv
<1>3. TypeInv'
  BY <1>1, <1>2 DEF IInv, TypeInv, arms, Codes
<1>4. Checked(program, phase, next) = 0 /\ Checked(program', phase', next') = 0
  BY <1>1, <1>2 DEF Checked
<1>5. MemoryInv'
  BY <1>1, <1>4 DEF IInv, MemoryInv
<1>6. DiagInv'
  BY <1>1, <1>4 DEF DiagInv
<1>7. RunInv'
  BY <1>1 DEF RunInv
<1> QED BY <1>3, <1>5, <1>6, <1>7 DEF IInv

LEMMA ArmKeeps == IInv /\ CheckArm => IInv'
<1> SUFFICES ASSUME IInv, CheckArm PROVE IInv'
  OBVIOUS
<1> DEFINE p    == Pat(program, next)
           ty   == program.arms[next].body
           key  == KeyAt(program, next)
           new  == ArmDiags(key, p, ty)
<1>1. /\ phase = "check" /\ ShapeOf(program).k # "other" /\ next <= Len(program.arms)
      /\ diags' = diags \cup ({next} \X new)
      /\ seen' = Cover(key)
      /\ scopes' = Append(scopes, Bindings(ShapeOf(program), p))
      /\ result' = IF Compatible(ty, result) THEN Join(ty) ELSE result
      /\ next' = next + 1 /\ program' = program /\ phase' = phase
  BY DEF CheckArm, Shape, ShapeOf, Pat, KeyAt, arms
<1>2. /\ program \in Programs /\ Len(program.arms) \in Nat
      /\ next \in 1..(Len(program.arms) + 1) /\ next \in 1..Len(program.arms)
      /\ ty \in Ty /\ result \in Ty /\ diags \subseteq (0..Len(program.arms)) \X Codes
  <2>1. /\ program \in Programs /\ next \in 1..(Len(program.arms) + 1)
        /\ result \in Ty /\ diags \subseteq (0..Len(program.arms)) \X Codes
    BY DEF IInv, TypeInv, arms
  <2>2. Len(program.arms) \in Nat
    BY <2>1, ProgramType
  <2>3. next \in 1..Len(program.arms)
    BY <1>1, <2>1, <2>2
  <2> QED BY <2>1, <2>2, <2>3, ProgramType
<1>3. /\ Checked(program, phase, next) = next - 1
      /\ Checked(program', phase', next') = next
  BY <1>1, <1>2 DEF Checked
<1>4. /\ seen = KeysTo(program, next - 1)
      /\ scopes = [i \in 1..(next - 1) |-> Bindings(ShapeOf(program), Pat(program, i))]
  BY <1>3 DEF IInv, MemoryInv
<1>5. /\ \A code : code \in {"E1004", "E2009"} =>
            (code \in new <=> code \in PatternDiags(ShapeOf(program), p))
      /\ "E2008" \in new <=> key \in seen
      /\ new \subseteq Codes
  <2>1. /\ new = PatternDiags(ShapeOf(program), p)
                 \cup (IF key \in seen THEN {"E2008"} ELSE {})
                 \cup (IF next = 1 \/ Compatible(ty, result) THEN {} ELSE {"E2001"})
    BY Expand DEF ArmDiags
  <2>2. PatternDiags(ShapeOf(program), p) \subseteq {"E1004", "E2009"}
    BY PatternCodes
  <2> HIDE DEF new, key, p, ty
  <2> QED BY <2>1, <2>2 DEF Codes
<1>6. key \in seen <=> Redundant(program, next)
  BY <1>2, <1>4 DEF KeysTo, Redundant
<1> HIDE DEF new, ty
<1>7. TypeInv'
  <2>1. diags' \subseteq (0..Len(program.arms)) \X Codes
    BY <1>1, <1>2, <1>5
  <2>2. result' \in Ty
    BY <1>1, <1>2 DEF Join
  <2>3. next' \in 1..(Len(program.arms) + 1)
    BY <1>1, <1>2
  <2> QED BY <1>1, <1>2, <2>1, <2>2, <2>3 DEF IInv, TypeInv, arms
<1>8. MemoryInv'
  <2>1. seen' = KeysTo(program, next)
    <3>1. KeysTo(program, next) = (KeysTo(program, next - 1) \cup {key}) \ {<<>>}
      <4>1. 1..next = (1..(next - 1)) \cup {next}
        BY <1>2
      <4> QED BY <4>1 DEF KeysTo
    <3>2. <<>> \notin KeysTo(program, next - 1)
      BY DEF KeysTo
    <3> HIDE DEF key
    <3> QED BY <1>1, <1>4, <3>1, <3>2 DEF Cover
  <2>2. scopes' = [i \in 1..next |-> Bindings(ShapeOf(program), Pat(program, i))]
    <3> DEFINE B(i) == Bindings(ShapeOf(program), Pat(program, i))
               S == { B(i) : i \in 1..next }
               t == [i \in 1..next |-> B(i)]
    <3>1. B(next) \in S /\ \A i \in 1..(next - 1) : B(i) \in S
      BY <1>2
    <3> HIDE DEF S, B
    <3>2. scopes \in Seq(S) /\ Len(scopes) = next - 1
      <4>1. scopes \in [1..(next - 1) -> S] /\ next - 1 \in Nat
        BY <1>2, <1>4, <3>1 DEF B
      <4> QED BY <4>1
    <3>3. t \in Seq(S) /\ Len(t) = next
      <4>1. t \in [1..next -> S] /\ next \in Nat
        <5>1. \A i \in 1..next : i \in 1..(next - 1) \/ i = next
          BY <1>2
        <5> QED BY <1>2, <3>1, <5>1
      <4> QED BY <4>1
    <3>4. /\ scopes' = Append(scopes, B(next))
      BY <1>1 DEF B
    <3>5. /\ scopes' \in Seq(S) /\ Len(scopes') = next
          /\ \A i \in 1..(next - 1) : scopes'[i] = scopes[i]
          /\ scopes'[next] = B(next)
      BY <1>2, <3>1, <3>2, <3>4, AppendProperties
    <3>6. \A i \in 1..next : scopes'[i] = t[i]
      <4>1. \A i \in 1..(next - 1) : scopes[i] = B(i)
        BY <1>4 DEF B
      <4>2. \A i \in 1..next : i \in 1..(next - 1) \/ i = next
        BY <1>2
      <4> QED BY <3>5, <4>1, <4>2
    <3>7. scopes' = t
      <4> HIDE DEF t
      <4> QED BY <3>3, <3>5, <3>6, SeqEqual
    <3> QED BY <3>7 DEF B
  <2> QED BY <1>1, <1>3, <2>1, <2>2 DEF MemoryInv
<1>9. DiagInv'
  <2>1. \A d \in diags : d[1] \in 1..(next - 1)
    BY <1>1 DEF IInv, DiagInv
  <2>2. \A i \in 1..(next - 1) :
           /\ \A code \in {"E1004", "E2009"} :
                <<i, code>> \in diags <=> code \in PatternDiags(ShapeOf(program), Pat(program, i))
           /\ <<i, "E2008">> \in diags <=> Redundant(program, i)
    BY <1>3 DEF IInv, DiagInv
  <2>3. \A i, code : /\ i # next => (<<i, code>> \in diags' <=> <<i, code>> \in diags)
                     /\ <<next, code>> \in diags' <=> code \in new
    <3>1. \A code : <<next, code>> \notin diags
      BY <1>2, <2>1
    <3> QED BY <1>1, <3>1
  <2>4. \A i \in 1..next :
           /\ \A code \in {"E1004", "E2009"} :
                <<i, code>> \in diags' <=> code \in PatternDiags(ShapeOf(program), Pat(program, i))
           /\ <<i, "E2008">> \in diags' <=> Redundant(program, i)
    <3>1. TAKE i \in 1..next
    <3>2. CASE i = next
      BY <1>5, <1>6, <2>3, <3>2
    <3>3. CASE i # next
      <4>1. i \in 1..(next - 1)
        BY <1>2, <3>3
      <4> HIDE DEF p, key
      <4> QED BY <2>2, <2>3, <3>3, <4>1
    <3> QED BY <3>2, <3>3
  <2>5. \A d \in diags' : d[1] \in 1..next
    BY <1>1, <1>2, <2>1
  <2>6. next' - 1 = next
    BY <1>1, <1>2
  <2> QED BY <1>1, <1>3, <2>4, <2>5, <2>6 DEF DiagInv
<1>10. RunInv'
  BY <1>1 DEF RunInv
<1> QED BY <1>7, <1>8, <1>9, <1>10 DEF IInv

LEMMA ExhaustivenessKeeps == IInv /\ CheckExhaustiveness => IInv'
<1> SUFFICES ASSUME IInv, CheckExhaustiveness PROVE IInv'
  OBVIOUS
<1>1. /\ phase = "check" /\ ShapeOf(program).k # "other" /\ next = Len(program.arms) + 1
      /\ diags' = diags \cup (IF Missing THEN {<<0, "E2007">>} ELSE {})
      /\ phase' \in {"emitted", "refused"} /\ (phase' = "emitted" => diags' = {})
      /\ next' = 1 /\ program' = program /\ seen' = seen /\ scopes' = scopes
      /\ result' = result
  BY DEF CheckExhaustiveness, Shape, ShapeOf, arms
<1>2. /\ program \in Programs /\ Len(program.arms) \in Nat
      /\ diags \subseteq (0..Len(program.arms)) \X Codes
  BY ProgramType DEF IInv, TypeInv, arms
<1>3. /\ Checked(program, phase, next) = Len(program.arms)
      /\ Checked(program', phase', next') = Len(program.arms)
  BY <1>1, <1>2 DEF Checked
<1>4. TypeInv'
  <2>1. diags' \subseteq (0..Len(program.arms)) \X Codes
    BY <1>1, <1>2 DEF Codes
  <2> QED BY <1>1, <1>2, <2>1 DEF IInv, TypeInv, arms
<1>5. MemoryInv'
  BY <1>1, <1>3 DEF IInv, MemoryInv
<1>6. DiagInv'
  <2>1. Missing <=> Lacking(program, Len(program.arms))
    <3>1. seen = KeysTo(program, Len(program.arms))
      BY <1>3 DEF IInv, MemoryInv
    <3>2. CtorSet(ShapeOf(program)) =
            { Ctors(Shape)[i] : i \in DOMAIN Ctors(Shape) }
      BY Expand DEF CtorSet, Elements
    <3> QED BY <3>1, <3>2 DEF Missing, Lacking
  <2>2. <<0, "E2007">> \notin diags
    BY <1>1, <1>2 DEF IInv, DiagInv
  <2>3. <<0, "E2007">> \in diags' <=> Lacking(program, Len(program.arms))
    BY <1>1, <2>1, <2>2
  <2>4. \A i \in 1..Len(program.arms) : \A code : <<i, code>> \in diags' <=> <<i, code>> \in diags
    BY <1>1, <1>2
  <2> QED BY <1>1, <1>3, <2>3, <2>4 DEF IInv, DiagInv, arms
<1>7. RunInv'
  BY <1>1 DEF RunInv
<1> QED BY <1>4, <1>5, <1>6, <1>7 DEF IInv

\* An accepted match of a known type: every arm is that of a constructor.
LEMMA Accepted ==
    ASSUME TypeInv, DiagInv, phase \in {"emitted", "run", "taken", "thrown"}
    PROVE  /\ program \in Programs /\ Len(program.arms) \in Nat
           /\ Checked(program, phase, next) = Len(program.arms)
           /\ \A i \in 1..Len(program.arms) : PatternDiags(ShapeOf(program), Pat(program, i)) = {}
           /\ ~Lacking(program, Len(program.arms))
<1>1. program \in Programs /\ Len(program.arms) \in Nat /\ ShapeOf(program).k # "other"
  BY ProgramType DEF TypeInv
<1>2. Checked(program, phase, next) = Len(program.arms)
  BY <1>1 DEF Checked
<1>3. diags = {}
  BY DEF DiagInv
<1>4. ~Lacking(program, Len(program.arms))
  BY <1>1, <1>3 DEF DiagInv, arms
<1>5. ASSUME NEW i \in 1..Len(program.arms)
      PROVE  PatternDiags(ShapeOf(program), Pat(program, i)) = {}
  <2>1. \A code \in {"E1004", "E2009"} : code \notin PatternDiags(ShapeOf(program), Pat(program, i))
    BY <1>2, <1>3 DEF DiagInv
  <2> QED BY <2>1, PatternCodes
<1> QED BY <1>1, <1>2, <1>4, <1>5

LEMMA EnterKeeps == IInv /\ Enter => IInv'
<1> SUFFICES ASSUME IInv, Enter PROVE IInv'
  OBVIOUS
<1>1. /\ phase = "emitted" /\ value' \in Values(ShapeOf(program)) /\ phase' = "run"
      /\ program' = program /\ next' = next /\ seen' = seen /\ diags' = diags
      /\ scopes' = scopes /\ result' = result
  BY Expand DEF Enter
<1>2. program \in Programs /\ Len(program.arms) \in Nat /\ ShapeOf(program).k # "other"
  BY <1>1, ProgramType DEF IInv, TypeInv
<1>3. /\ Checked(program, phase, next) = Len(program.arms)
      /\ Checked(program', phase', next') = Len(program.arms)
  BY <1>1, <1>2 DEF Checked
<1>4. TypeInv'
  BY <1>1, <1>2 DEF IInv, TypeInv, arms
<1>5. MemoryInv'
  BY <1>1, <1>3 DEF IInv, MemoryInv
<1>6. DiagInv'
  BY <1>1, <1>3 DEF IInv, DiagInv, arms
<1>7. RunInv'
  <2>1. next = 1
    BY <1>1 DEF IInv, RunInv
  <2> QED BY <1>1, <2>1 DEF RunInv
<1> QED BY <1>4, <1>5, <1>6, <1>7 DEF IInv

LEMMA TryKeeps == IInv /\ TryArm => IInv'
<1> SUFFICES ASSUME IInv, TryArm PROVE IInv'
  OBVIOUS
<1> DEFINE p == Pat(program, next)
<1>1. /\ phase = "run" /\ next <= Len(program.arms)
      /\ program' = program /\ seen' = seen /\ diags' = diags
      /\ scopes' = scopes /\ result' = result /\ value' = value
      /\ \/ /\ Test(p, value) /\ bound' = Bound(value, p)
            /\ phase' = "taken" /\ next' = next
         \/ Test(p, value) /\ Raises(value, p) /\ phase' = "thrown" /\ next' = next
         \/ ~Test(p, value) /\ next' = next + 1 /\ phase' = "run"
  BY DEF TryArm, Pat, arms
<1> HIDE DEF p
<1>2. /\ program \in Programs /\ Len(program.arms) \in Nat /\ ShapeOf(program).k # "other"
      /\ next \in 1..Len(program.arms)
  <2>1. program \in Programs /\ next \in 1..(Len(program.arms) + 1)
    BY DEF IInv, TypeInv, arms
  <2>2. Len(program.arms) \in Nat
    BY <2>1, ProgramType
  <2> QED BY <1>1, <2>1, <2>2 DEF IInv, TypeInv
<1>3. next \in DOMAIN program.arms /\ IsPattern(p) /\ IsShape(ShapeOf(program))
  BY <1>2, ProgramType DEF p
<1>4. /\ Checked(program, phase, next) = Len(program.arms)
      /\ Checked(program', phase', next') = Len(program.arms)
  BY <1>1, <1>2 DEF Checked
<1>5. TypeInv'
  BY <1>1, <1>2 DEF IInv, TypeInv, arms
<1>6. MemoryInv'
  BY <1>1, <1>4 DEF IInv, MemoryInv
<1>7. DiagInv'
  BY <1>1, <1>4 DEF IInv, DiagInv, arms
<1>8. RunInv'
  <2>1. value \in Values(ShapeOf(program)) /\ \A i \in 1..(next - 1) : ~Test(Pat(program, i), value)
    BY <1>1 DEF IInv, RunInv
  <2>2. CASE phase' = "taken"
    BY <1>1, <1>3, <2>1, <2>2 DEF RunInv, p, arms
  <2>3. CASE phase' = "run"
    <3>1. ~Test(p, value) /\ next' = next + 1
      BY <1>1, <2>3
    <3>2. \A i \in 1..next : ~Test(Pat(program, i), value)
      <4>1. \A i \in 1..next : i \in 1..(next - 1) \/ i = next
        BY <1>2
      <4> QED BY <2>1, <3>1, <4>1 DEF p
    <3>3. next' - 1 = next
      BY <1>2, <3>1
    <3> QED BY <1>1, <2>1, <2>3, <3>2, <3>3 DEF RunInv
  <2>4. CASE phase' = "thrown"
    <3>1. Test(p, value) /\ Raises(value, p)
      BY <1>1, <2>4
    <3>2. ~IsKnown(ShapeOf(program))
      <4>1. SUFFICES ASSUME IsKnown(ShapeOf(program)) PROVE FALSE
        OBVIOUS
      <4>2. PatternDiags(ShapeOf(program), p) = {}
        BY <1>1, <1>2, Accepted DEF IInv, p
      <4>3. PICK c \in CtorSet(ShapeOf(program)) : Fits(ShapeOf(program), p, c)
        BY <1>3, <4>1, <4>2, RightPattern
      <4>4. value.ctor = c
        BY <1>3, <2>1, <3>1, <4>1, <4>3, TestExact
      <4> QED BY <1>3, <2>1, <3>1, <4>1, <4>3, <4>4, NoRaise
    <3> QED BY <1>1, <2>1, <2>4, <3>2 DEF RunInv
  <2> QED BY <1>1, <2>2, <2>3, <2>4
<1> QED BY <1>5, <1>6, <1>7, <1>8 DEF IInv

LEMMA FallKeeps == IInv /\ FallThrough => IInv'
<1> SUFFICES ASSUME IInv, FallThrough PROVE IInv'
  OBVIOUS
<1>1. /\ phase = "run" /\ next = Len(program.arms) + 1 /\ phase' = "thrown"
      /\ program' = program /\ next' = next /\ seen' = seen /\ diags' = diags
      /\ scopes' = scopes /\ result' = result /\ value' = value
  BY DEF FallThrough, arms
<1>2. program \in Programs /\ Len(program.arms) \in Nat /\ ShapeOf(program).k # "other"
  BY <1>1, ProgramType DEF IInv, TypeInv
<1>3. /\ Checked(program, phase, next) = Len(program.arms)
      /\ Checked(program', phase', next') = Len(program.arms)
  BY <1>1, <1>2 DEF Checked
<1>4. TypeInv'
  BY <1>1, <1>2 DEF IInv, TypeInv, arms
<1>5. MemoryInv'
  BY <1>1, <1>3 DEF IInv, MemoryInv
<1>6. DiagInv'
  BY <1>1, <1>3 DEF IInv, DiagInv, arms
<1>7. RunInv'
  <2>1. value \in Values(ShapeOf(program))
        /\ \A i \in 1..Len(program.arms) : ~Test(Pat(program, i), value)
    BY <1>1, <1>2 DEF IInv, RunInv
  <2>2. ~IsKnown(ShapeOf(program))
    <3>1. SUFFICES ASSUME IsKnown(ShapeOf(program)) PROVE FALSE
      OBVIOUS
    <3>2. /\ \A i \in 1..Len(program.arms) : PatternDiags(ShapeOf(program), Pat(program, i)) = {}
          /\ ~Lacking(program, Len(program.arms))
      BY <1>1, Accepted DEF IInv
    <3>3. value.ctor \in CtorSet(ShapeOf(program))
      BY <1>2, <2>1, <3>1, ProgramType, ValuesByCtor
    <3>4. PICK i \in 1..Len(program.arms) : Test(Pat(program, i), value)
      <4>1. PICK ct \in [1..Len(program.arms) -> CtorSet(ShapeOf(program))] :
              /\ \A i \in 1..Len(program.arms) :
                   \A v \in Values(ShapeOf(program)) : Test(Pat(program, i), v) <=> v.ctor = ct[i]
              /\ \A c \in CtorSet(ShapeOf(program)) :
                   <<c.name>> \in KeysTo(program, Len(program.arms)) <=>
                     \E i \in 1..Len(program.arms) : ct[i] = c
        BY <1>2, <3>1, <3>2, RightArms
      <4>2. PICK i \in 1..Len(program.arms) : ct[i] = value.ctor
        BY <3>2, <3>3, <4>1 DEF Lacking
      <4> QED BY <2>1, <4>1, <4>2
    <3> QED BY <2>1, <3>4
  <2> QED BY <1>1, <2>1, <2>2 DEF RunInv
<1> QED BY <1>4, <1>5, <1>6, <1>7 DEF IInv

LEMMA StutterKeeps == IInv /\ UNCHANGED vars => IInv'
<1> SUFFICES ASSUME IInv, UNCHANGED vars PROVE IInv'
  OBVIOUS
<1>1. /\ program' = program /\ phase' = phase /\ next' = next /\ seen' = seen
      /\ diags' = diags /\ scopes' = scopes /\ result' = result
      /\ value' = value /\ bound' = bound
  BY DEF vars
<1> QED BY <1>1 DEF IInv, TypeInv, MemoryInv, DiagInv, RunInv, arms

\* The invariant, in every state of every match.
THEOREM Invariance == Spec => []IInv
<1>1. IInv /\ [Next]_vars => IInv'
  BY RefuseKeeps, ArmKeeps, ExhaustivenessKeeps, EnterKeeps, TryKeeps, FallKeeps,
     StutterKeeps DEF Next
<1> QED BY <1>1, Start, PTL DEF Spec
-----------------------------------------------------------------------------
\* What the state is made of, of any match (FnChecker::infer_match).
LEMMA Typed == IInv => TypeOK
<1> SUFFICES ASSUME IInv PROVE TypeOK
  OBVIOUS
<1>1. /\ program \in Programs /\ Len(program.arms) \in Nat
      /\ next \in 1..(Len(program.arms) + 1)
  BY ProgramType DEF IInv, TypeInv, arms
<1>2. Checked(program, phase, next) \in 0..Len(program.arms)
  BY <1>1 DEF Checked
<1>3. Len(scopes) <= Len(arms)
  <2>1. Len(scopes) = Checked(program, phase, next)
    BY <1>2 DEF IInv, MemoryInv
  <2> QED BY <1>1, <1>2, <2>1 DEF arms
<1>4. <<>> \notin seen
  BY DEF IInv, MemoryInv, KeysTo
<1> QED BY <1>3, <1>4 DEF IInv, TypeInv, RunInv, TypeOK, Codes

\* spec v0.2 1.3, of every match on a known type the checker accepts: its code
\* loads, no arm raises an error and no value reaches the throw at the end
\* (emit_match).
THEOREM NoValueFallsThrough == Spec => []NeverFallsThrough
<1>1. IInv => NeverFallsThrough
  <2> SUFFICES ASSUME IInv, IsKnown(Shape) PROVE phase # "thrown" /\ (phase = "emitted" => Loads)
    BY DEF NeverFallsThrough
  <2>1. phase # "thrown"
    BY Expand DEF IInv, RunInv
  <2>2. ASSUME phase = "emitted", NEW i \in DOMAIN arms
        PROVE  ~Repeats(Names(Pat(program, i)))
    <3>1. /\ program \in Programs /\ i \in 1..Len(program.arms)
          /\ PatternDiags(ShapeOf(program), Pat(program, i)) = {}
      BY <2>2, Accepted, ProgramType DEF IInv, TypeInv, arms
    <3>2. /\ IsShape(ShapeOf(program)) /\ IsPattern(Pat(program, i))
      BY <3>1, ProgramType
    <3>3. PICK c \in CtorSet(ShapeOf(program)) : Fits(ShapeOf(program), Pat(program, i), c)
      BY <3>1, <3>2, Expand, RightPattern
    <3>4. IsCtor(c)
      BY <3>2, Expand, CtorType
    <3> QED BY <3>2, <3>3, <3>4, RightPayload, NamesOnce DEF Fits
  <2> QED BY <2>1, <2>2, Expand DEF Loads
<1> QED BY <1>1, Invariance, PTL

\* In every accepted match on a known type the arm taken is that of the value's
\* constructor, and binds the names of the checked scope, each once, to slots of
\* the types the check gave them.
THEOREM BindingsTyped == Spec => []BindingsAsTyped
<1>1. IInv => BindingsAsTyped
  <2> SUFFICES ASSUME IInv, phase = "taken", IsKnown(Shape)
               PROVE  /\ PathOf(Shape, value.ctor) = arms[next].pattern.path
                      /\ { bound[i][1] : i \in DOMAIN bound } = DOMAIN scopes[next]
                      /\ ~Repeats([i \in DOMAIN bound |-> bound[i][1]])
                      /\ \A i \in DOMAIN bound : /\ bound[i][2] = scopes[next][bound[i][1]]
                                                 /\ bound[i][2] \in Elements(value.ctor.slots)
    BY Typed DEF BindingsAsTyped
  <2> DEFINE p == Pat(program, next)
             shape == ShapeOf(program)
  <2>1. /\ program \in Programs /\ next \in 1..Len(program.arms)
        /\ Test(p, value) /\ bound = Bound(value, p) /\ value \in Values(shape)
    BY ProgramType DEF IInv, TypeInv, RunInv, arms
  <2>2. PatternDiags(shape, p) = {} /\ scopes[next] = Bindings(shape, p)
    <3>1. Checked(program, phase, next) = Len(program.arms)
      BY Accepted DEF IInv
    <3> QED BY <2>1, <3>1, Accepted DEF IInv, MemoryInv
  <2>3. IsShape(shape) /\ IsKnown(shape) /\ IsPattern(p) /\ Shape = shape
    BY <2>1, ProgramType, Expand
  <2>4. arms[next].pattern = p
    BY Expand
  <2> HIDE DEF p, shape
  <2>5. PICK c \in CtorSet(shape) : Fits(shape, p, c)
    BY <2>2, <2>3, RightPattern
  <2>6. value.ctor = c
    BY <2>1, <2>3, <2>5, TestExact
  <2>7. PathOf(shape, c) = p.path
    BY <2>5 DEF Fits
  <2>8. /\ DOMAIN bound = DOMAIN Names(p)
        /\ { Names(p)[i] : i \in DOMAIN Names(p) } = DOMAIN scopes[next]
        /\ \A i \in DOMAIN Names(p) :
             /\ bound[i][1] = Names(p)[i]
             /\ bound[i][2] = scopes[next][Names(p)[i]]
             /\ bound[i][2] \in Elements(c.slots)
    <3>1. /\ DOMAIN Bound(value, p) = DOMAIN Names(p)
          /\ { Names(p)[i] : i \in DOMAIN Names(p) } = DOMAIN Bindings(shape, p)
          /\ \A i \in DOMAIN Names(p) :
               /\ Bound(value, p)[i][1] = Names(p)[i]
               /\ Bound(value, p)[i][2] = Bindings(shape, p)[Names(p)[i]]
               /\ Bound(value, p)[i][2] \in Elements(c.slots)
      BY <2>3, <2>5, <2>6, BoundAsChecked
    <3> QED BY <2>1, <2>2, <3>1
  <2>9. ~Repeats(Names(p))
    <3>1. IsCtor(c)
      BY <2>3, CtorType
    <3> QED BY <2>3, <2>5, <3>1, RightPayload, NamesOnce DEF Fits
  <2>10. ~Repeats([i \in DOMAIN bound |-> bound[i][1]])
    BY <2>8, <2>9 DEF Repeats
  <2>11. { bound[i][1] : i \in DOMAIN bound } = DOMAIN scopes[next]
    BY <2>8
  <2> QED BY <2>3, <2>4, <2>6, <2>7, <2>8, <2>10, <2>11
<1> QED BY <1>1, Invariance, PTL

\* Whatever the order of the arms, E2008 and E2007 are exact: of patterns that
\* are right, those reported as redundant are those no value reaches, and a match
\* is reported as incomplete when some value reaches none (check_exhaustiveness).
THEOREM VerdictsAreExact == Spec => []VerdictsExact
<1>1. IInv => VerdictsExact
  <2> SUFFICES ASSUME IInv, phase \in {"refused", "emitted"}, IsKnown(Shape),
                      \A d \in diags : d[2] \in {"E2001", "E2007", "E2008"}
               PROVE  /\ \A i \in DOMAIN arms :
                           <<i, "E2008">> \in diags <=> ~ \E v \in Values(Shape) : TakenFor(v, i)
                      /\ <<0, "E2007">> \in diags <=>
                           \E v \in Values(Shape) : \A i \in DOMAIN arms : ~TakenFor(v, i)
    BY DEF VerdictsExact
  <2> DEFINE n == Len(program.arms)
             shape == ShapeOf(program)
             vals == Values(shape)
  <2>1. /\ program \in Programs /\ n \in Nat /\ DOMAIN arms = 1..n
        /\ IsShape(shape) /\ IsKnown(shape) /\ Shape = shape /\ shape.k # "other"
    BY ProgramType, Expand DEF IInv, TypeInv, arms, IsKnown
  <2>2. Checked(program, phase, next) = n
    BY <2>1 DEF Checked
  <2>3. /\ \A i \in 1..n : <<i, "E2008">> \in diags <=> Redundant(program, i)
        /\ <<0, "E2007">> \in diags <=> Lacking(program, n)
    BY <2>1, <2>2 DEF IInv, DiagInv, arms
  <2>4. \A i \in 1..n : PatternDiags(shape, Pat(program, i)) = {}
    <3>1. TAKE i \in 1..n
    <3>2. \A code \in {"E1004", "E2009"} : <<i, code>> \notin diags
      OBVIOUS
    <3>3. \A code \in {"E1004", "E2009"} : code \notin PatternDiags(shape, Pat(program, i))
      BY <2>2, <3>2 DEF IInv, DiagInv
    <3> QED BY <3>3, PatternCodes
  <2>5. PICK ct \in [1..n -> CtorSet(shape)] :
          /\ \A i \in 1..n :
               /\ KeyAt(program, i) = <<ct[i].name>>
               /\ \A v \in vals : Test(Pat(program, i), v) <=> v.ctor = ct[i]
          /\ \A i, j \in 1..n : KeyAt(program, i) = KeyAt(program, j) <=> ct[i] = ct[j]
          /\ \A c \in CtorSet(shape) :
               <<c.name>> \in KeysTo(program, n) <=> \E i \in 1..n : ct[i] = c
    BY <2>1, <2>4, RightArms
  <2> HIDE DEF n, shape, vals
  <2>6. ASSUME NEW v \in vals, NEW i \in 1..n
        PROVE  TakenFor(v, i) <=> v.ctor = ct[i] /\ \A j \in 1..(i - 1) : v.ctor # ct[j]
    <3>1. \A j \in 1..(i - 1) : j \in 1..n
      BY <2>1
    <3> QED BY <2>5, <3>1, Expand DEF TakenFor
  <2>7. ASSUME NEW i \in 1..n
        PROVE  Redundant(program, i) <=> \E j \in 1..(i - 1) : ct[j] = ct[i]
    <3>1. KeyAt(program, i) # <<>>
      BY <2>5
    <3>2. \A j \in 1..(i - 1) : j \in 1..n
      BY <2>1
    <3> QED BY <2>5, <3>1, <3>2 DEF Redundant
  <2>8. ASSUME NEW i \in 1..n
        PROVE  <<i, "E2008">> \in diags <=> ~ \E v \in vals : TakenFor(v, i)
    <3>1. \E v \in vals : v.ctor = ct[i]
      BY <2>1, <2>5, ValuesByCtor DEF vals
    <3> QED BY <2>3, <2>6, <2>7, <3>1
  <2>9. Lacking(program, n) <=> \E v \in vals : \A i \in 1..n : ct[i] # v.ctor
    <3>1. Lacking(program, n) <=> \E c \in CtorSet(shape) : \A i \in 1..n : ct[i] # c
      BY <2>5 DEF Lacking, shape
    <3> QED BY <2>1, <3>1, ValuesByCtor DEF vals
  <2>10. ASSUME NEW v \in vals
         PROVE  (\E i \in 1..n : ct[i] = v.ctor) <=> \E i \in 1..n : TakenFor(v, i)
    <3>1. ASSUME NEW k \in 1..n, ct[k] = v.ctor
          PROVE  \E i \in 1..n : TakenFor(v, i)
      <4> DEFINE S == { i \in 1..n : ct[i] = v.ctor }
      <4>1. S \in SUBSET Nat /\ S # {}
        BY <2>1, <3>1
      <4>2. PICK m \in S : \A i \in S : m <= i
        <5> HIDE DEF S
        <5> QED BY <4>1, NatLeast
      <4>3. m \in 1..n /\ \A j \in 1..(m - 1) : v.ctor # ct[j]
        BY <2>1, <4>2
      <4> QED BY <2>6, <4>2, <4>3
    <3> QED BY <2>6, <3>1
  <2>11. <<0, "E2007">> \in diags <=> \E v \in vals : \A i \in 1..n : ~TakenFor(v, i)
    BY <2>3, <2>9, <2>10
  <2> QED BY <2>1, <2>8, <2>11 DEF vals
<1> QED BY <1>1, Invariance, PTL
=============================================================================
