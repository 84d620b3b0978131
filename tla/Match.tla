-------------------------------- MODULE Match --------------------------------
(***************************************************************************)
(* A `match` expression from its check to its run.  FnChecker::infer_match *)
(* goes through the arms, decides what each pattern covers, binds and is   *)
(* wrong about, and then whether the match is exhaustive.  emit_match      *)
(* turns every arm into a test of a discriminator of the value and some    *)
(* `const` bindings, one after another, with a throw after the last.       *)
(*                                                                         *)
(* A constructor, built in or a variant of an enum, is a name, the kind of *)
(* its payload and the slots the payload has; a slot stands for the type   *)
(* of what it holds.                                                       *)
(***************************************************************************)
EXTENDS Sequences, Naturals

CONSTANTS
    EnumName,   \* the enum a scrutinee may be of
    Programs    \* the matches to check: [scrutinee, arms]

VARIABLES
    program,    \* the match under check, then under way
    phase,      \* "check", "refused", "emitted", "run", "taken" or "thrown"
    next,       \* index of the arm that is dealt with next
    seen,       \* keys covered so far
    diags,      \* <<arm, code>>; arm 0 is the whole match
    scopes,     \* bindings of the arms checked so far
    result,     \* type of the match so far
    value,      \* the value of the scrutinee at run time
    bound       \* names bound at run time, with the slots they got

vars == <<program, phase, next, seen, diags, scopes, result, value, bound>>

arms  == program.arms
-----------------------------------------------------------------------------
(* Types of arm bodies: Int, String, Option of them, and Unknown.          *)

BaseTy == {"Int", "Str", "_"}

Ty == [option : BOOLEAN, of : BaseTy]

UnknownTy == [option |-> FALSE, of |-> "_"]

\* Ty::compatible: Unknown is compatible with everything, at any depth.
Compatible(s, t) == \/ UnknownTy \in {s, t}
                    \/ s.option = t.option /\ (s.of = t.of \/ "_" \in {s.of, t.of})
-----------------------------------------------------------------------------
(* Scrutinees and their constructors.                                      *)

Ctor(name, k, slots) == [name |-> name, k |-> k, slots |-> slots]

OptionCtors == << Ctor("Some", "tuple", <<"value">>), Ctor("None", "unit", <<>>) >>
ResultCtors == << Ctor("Ok", "tuple", <<"value">>), Ctor("Err", "tuple", <<"error">>) >>

\* A tagged type is matched as the type it is made of.
MatchShape(ty) == IF ty.k = "tagged" THEN ty.of ELSE ty

Shape == MatchShape(program.scrutinee)

IsKnown(shape) == shape.k \in {"option", "result", "enum"}

Ctors(shape) == IF shape.k = "option" THEN OptionCtors
                ELSE IF shape.k = "result" THEN ResultCtors
                ELSE IF shape.k = "enum" THEN shape.variants ELSE <<>>

\* An enum pattern is written `Enum.Variant`, a built-in one by its name alone.
PathOf(shape, c) == IF shape.k = "enum" THEN <<EnumName, c.name>> ELSE <<c.name>>

CtorsAt(shape, path) ==
    { c \in { Ctors(shape)[i] : i \in DOMAIN Ctors(shape) } : PathOf(shape, c) = path }

Elements(s) == { s[i] : i \in DOMAIN s }

Repeats(s) == \E i, j \in DOMAIN s : i < j /\ s[i] = s[j]
-----------------------------------------------------------------------------
(* The check of one arm.                                                   *)

\* The key an arm covers; <<>> when it fits no constructor.
Key(shape, p) == IF shape.k = "unknown" THEN p.path
                 ELSE IF CtorsAt(shape, p.path) = {} THEN <<>>
                 ELSE << p.path[Len(p.path)] >>

\* Mutant: only the kind of the payload is compared, not its names.
PayloadDiagsKindOnly(p, c) ==
    (IF p.k # c.k THEN {"E2009"} ELSE {})
    \cup (IF c.k # "unit" /\ p.k = c.k /\ Repeats(p.names) THEN {"E1004"} ELSE {})

\* bind_ctor_payload, expect_unit_payload, bind_tuple and bind_record.
PayloadDiags(p, c) ==
    (IF \/ p.k # c.k
        \/ c.k = "tuple"  /\ Len(p.names) # Len(c.slots)
        \/ c.k = "record" /\ Elements(p.names) # Elements(c.slots)
     THEN {"E2009"} ELSE {})
    \cup
    (IF /\ p.k = c.k
        /\ \E i, j \in DOMAIN p.names :
              /\ i < j /\ p.names[i] = p.names[j]
              /\ c.k = "tuple" \/ p.names[i] \in Elements(c.slots)
     THEN {"E1004"} ELSE {})

PatternDiags(shape, p) ==
    IF shape.k = "unknown" THEN {}
    ELSE IF CtorsAt(shape, p.path) = {} THEN {"E2009"}
    ELSE UNION { PayloadDiags(p, c) : c \in CtorsAt(shape, p.path) }

Position(s, e) == CHOOSE i \in DOMAIN s : s[i] = e /\ \A j \in 1..(i - 1) : s[j] # e

\* The slot the checker takes the type of a bound name from; "_" is Unknown.
Bindings(shape, p) ==
    IF \E c \in CtorsAt(shape, p.path) : c.k = p.k
    THEN LET c == CHOOSE d \in CtorsAt(shape, p.path) : TRUE
         IN  IF c.k = "record"
             THEN [n \in Elements(p.names) \cap Elements(c.slots) |-> n]
             ELSE [n \in Elements(p.names) |->
                      IF Position(p.names, n) \in DOMAIN c.slots
                      THEN c.slots[Position(p.names, n)] ELSE "_"]
    ELSE IF shape.k = "option" /\ p.path = <<"None">> THEN <<>>
    ELSE [n \in Elements(p.names) |-> "_"]

IsSeq(s) == s \in Seq(Elements(s))

\* A variant declared twice is reported and dropped where the enum is declared,
\* and no build that has such a report emits code; "undefined" is the name of no
\* variant, it stands for the absence of one.
IsCtor(c) == /\ c = Ctor(c.name, c.k, c.slots) /\ c.name # "undefined"
             /\ c.k \in {"unit", "tuple", "record"} /\ IsSeq(c.slots)
             /\ c.k = "unit" => c.slots = <<>>

IsShape(shape) ==
    /\ shape.k \in {"option", "result", "enum", "unknown", "other"}
    /\ shape.k = "enum" =>
         /\ IsSeq(shape.variants)
         /\ \A i \in DOMAIN shape.variants : IsCtor(shape.variants[i])
         /\ \A i, j \in DOMAIN shape.variants :
               shape.variants[i].name = shape.variants[j].name => i = j

IsPattern(p) == /\ IsSeq(p.path) /\ p.path # <<>>
                /\ p.k \in {"unit", "tuple", "record"} /\ IsSeq(p.names)
                /\ p.k = "unit" => p.names = <<>>

ASSUME ProgramsAssumption ==
    \A p \in Programs :
        /\ IsShape(MatchShape(p.scrutinee)) /\ IsSeq(p.arms)
        /\ \A i \in DOMAIN p.arms : IsPattern(p.arms[i].pattern) /\ p.arms[i].body \in Ty

Init == /\ program \in Programs
        /\ phase = "check" /\ next = 1
        /\ seen = {} /\ diags = {} /\ scopes = <<>>
        /\ result = UnknownTy
        /\ value = "none" /\ bound = <<>>

\* A scrutinee that is no Option, Result or enum is refused, arms unseen.
RefuseScrutinee ==
    /\ phase = "check" /\ Shape.k = "other"
    /\ diags' = {<<0, "E2009">>} /\ phase' = "refused"
    /\ UNCHANGED <<program, next, seen, scopes, result, value, bound>>

\* Mutant: only the arm before is remembered.
CoverLast(key) == IF key = <<>> THEN seen ELSE {key}

Cover(key) == IF key = <<>> THEN seen ELSE seen \cup {key}

\* The first arm gives the match its type; a later one only for Unknown.
Join(ty) == IF result = UnknownTy THEN ty ELSE result

ArmDiags(key, p, ty) ==
    PatternDiags(Shape, p)
    \cup (IF key \in seen THEN {"E2008"} ELSE {})
    \cup (IF next = 1 \/ Compatible(ty, result) THEN {} ELSE {"E2001"})

CheckArm ==
    /\ phase = "check" /\ Shape.k # "other" /\ next <= Len(arms)
    /\ LET p   == arms[next].pattern
           ty  == arms[next].body
           key == Key(Shape, p)
       IN  /\ diags' = diags \cup ({next} \X ArmDiags(key, p, ty))
           /\ seen' = Cover(key)
           /\ scopes' = Append(scopes, Bindings(Shape, p))
           /\ result' = IF Compatible(ty, result) THEN Join(ty) ELSE result
    /\ next' = next + 1
    /\ UNCHANGED <<program, phase, value, bound>>

\* Mutant: the last constructor is not asked for.
MissingButLast == \E i \in 1..(Len(Ctors(Shape)) - 1) : <<Ctors(Shape)[i].name>> \notin seen

Missing == \E i \in DOMAIN Ctors(Shape) : <<Ctors(Shape)[i].name>> \notin seen

\* check_exhaustiveness; a match without diagnostics is emitted.
CheckExhaustiveness ==
    /\ phase = "check" /\ Shape.k # "other" /\ next = Len(arms) + 1
    /\ diags' = diags \cup (IF Missing THEN {<<0, "E2007">>} ELSE {})
    /\ phase' = IF diags' = {} THEN "emitted" ELSE "refused"
    /\ next' = 1
    /\ UNCHANGED <<program, seen, scopes, result, value, bound>>
-----------------------------------------------------------------------------
(* The run.                                                                *)

\* A value as emitted code and the runtime build it.
BuiltIn(c) == [ok |-> IF c.name \in {"Some", "Ok"} THEN "true" ELSE "false",
               kind |-> "undefined", ctor |-> c]
Variant(c) == [ok |-> "undefined", kind |-> c.name, ctor |-> c]

\* An object of hand-written code that has neither discriminator.
Foreign == [ok |-> "undefined", kind |-> "undefined", ctor |-> Ctor("foreign", "unit", <<>>)]

\* What a scrutinee of unknown type may turn out to be.
Imported == {Foreign, Variant(Ctor("A", "unit", <<>>)), Variant(Ctor("B", "tuple", <<"0">>))}
            \cup { BuiltIn(c) : c \in Elements(OptionCtors) \cup Elements(ResultCtors) }

Values(shape) ==
    IF shape.k = "enum" THEN { Variant(c) : c \in Elements(Ctors(shape)) }
    ELSE IF shape.k = "unknown" THEN Imported
    ELSE { BuiltIn(c) : c \in Elements(Ctors(shape)) }

\* The condition of an arm.  `!v.ok` is true of a value without `ok`.
Test(p, v) ==
    IF p.path \in {<<"Some">>, <<"Ok">>} THEN v.ok = "true"
    ELSE IF p.path \in {<<"None">>, <<"Err">>} THEN v.ok # "true"
    ELSE v.kind = p.path[Len(p.path)]

\* Some(x), Ok(x) and Err(e) read `v.value` and `v.error`, for their first name
\* only; all other patterns read `v.values[i]` or `v.fields.f`.
ReadsBuiltIn(p) == p.path \in {<<"Some">>, <<"Ok">>, <<"Err">>} /\ p.k = "tuple"

Names(p) == IF ReadsBuiltIn(p) /\ p.names # <<>> THEN <<p.names[1]>> ELSE p.names

\* Indexing `values` or `fields` of a value without them is a TypeError.
Raises(v, p) == /\ ~ReadsBuiltIn(p) /\ p.names # <<>>
                /\ v.kind = "undefined" \/ v.ctor.k # p.k

SlotAt(v, p, i) ==
    LET slots == v.ctor.slots
        Slot(s) == IF s \in Elements(slots) THEN s ELSE "undefined"
    IN  IF ReadsBuiltIn(p) THEN Slot(IF p.path = <<"Err">> THEN "error" ELSE "value")
        ELSE IF p.k = "record" THEN Slot(p.names[i])
        ELSE IF i \in DOMAIN slots THEN slots[i] ELSE "undefined"

Bound(v, p) == [i \in DOMAIN Names(p) |-> <<Names(p)[i], SlotAt(v, p, i)>>]

\* A module that declares a `const` twice in a block does not load.
Loads == \A i \in DOMAIN arms : ~Repeats(Names(arms[i].pattern))

Enter == /\ phase = "emitted" /\ Loads
         /\ value' \in Values(Shape)
         /\ phase' = "run"
         /\ UNCHANGED <<program, next, seen, diags, scopes, result, bound>>

TryArm ==
    /\ phase = "run" /\ next <= Len(arms)
    /\ LET p == arms[next].pattern
       IN  \/ /\ Test(p, value) /\ ~Raises(value, p)
              /\ bound' = Bound(value, p)
              /\ phase' = "taken"
              /\ UNCHANGED next
           \/ /\ Test(p, value) /\ Raises(value, p)
              /\ phase' = "thrown"
              /\ UNCHANGED <<next, bound>>
           \/ /\ ~Test(p, value)
              /\ next' = next + 1
              /\ UNCHANGED <<phase, bound>>
    /\ UNCHANGED <<program, seen, diags, scopes, result, value>>

FallThrough == /\ phase = "run" /\ next = Len(arms) + 1
               /\ phase' = "thrown"
               /\ UNCHANGED <<program, next, seen, diags, scopes, result, value, bound>>

Next == \/ RefuseScrutinee \/ CheckArm \/ CheckExhaustiveness
        \/ Enter \/ TryArm \/ FallThrough

Spec == Init /\ [][Next]_vars
-----------------------------------------------------------------------------
(***************************************************************************)
(* Properties.                                                             *)
(***************************************************************************)
TypeOK == /\ phase \in {"check", "refused", "emitted", "run", "taken", "thrown"}
          /\ next \in 1..(Len(arms) + 1)
          /\ <<>> \notin seen
          /\ diags \subseteq (0..Len(arms)) \X {"E1004", "E2001", "E2007", "E2008", "E2009"}
          /\ Len(scopes) <= Len(arms)
          /\ result \in Ty
          /\ phase = "taken" => next \in DOMAIN arms

\* spec v0.2 1.3 "when the type resolves, the throw at the end is unreachable": a
\* match the checker has accepted on a known type loads, and takes an arm for
\* every value of that type without an error.
NeverFallsThrough ==
    IsKnown(Shape) => /\ phase # "thrown"
                      /\ phase = "emitted" => Loads

\* The arm that is taken is the one for the value's own constructor, and every
\* name it binds is bound once, to the slot the checker took its type from.
BindingsAsTyped ==
    /\ TypeOK
    /\ phase = "taken" /\ IsKnown(Shape) =>
        /\ PathOf(Shape, value.ctor) = arms[next].pattern.path
        /\ { bound[i][1] : i \in DOMAIN bound } = DOMAIN scopes[next]
        /\ ~Repeats([i \in DOMAIN bound |-> bound[i][1]])
        /\ \A i \in DOMAIN bound : /\ bound[i][2] = scopes[next][bound[i][1]]
                                   /\ bound[i][2] \in Elements(value.ctor.slots)

TakenFor(v, i) == /\ Test(arms[i].pattern, v)
                  /\ \A j \in 1..(i - 1) : ~Test(arms[j].pattern, v)

\* When patterns are right, E2008 names exactly the arms no value reaches and
\* E2007 is there exactly when some value reaches no arm: no good match is
\* refused, and none of the verdicts depends on the order of the arms.
VerdictsExact ==
    /\ phase \in {"refused", "emitted"} /\ IsKnown(Shape)
    /\ \A d \in diags : d[2] \in {"E2001", "E2007", "E2008"}
    => /\ \A i \in DOMAIN arms :
            <<i, "E2008">> \in diags <=> ~ \E v \in Values(Shape) : TakenFor(v, i)
       /\ <<0, "E2007">> \in diags <=>
            \E v \in Values(Shape) : \A i \in DOMAIN arms : ~TakenFor(v, i)
=============================================================================
