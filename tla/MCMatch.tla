------------------------------- MODULE MCMatch -------------------------------
(***************************************************************************)
(* Options, results, enums of one and two variants with every kind of      *)
(* payload, a tagged option, an unknown and a plain type.  Any pattern     *)
(* alone, before and after one that can be right; three arms of those that *)
(* can be right; three arms with all body types on an enum of three.       *)
(***************************************************************************)
EXTENDS Match

Unit   == [k |-> "unit", names |-> <<>>]
Payloads == {Unit}
    \cup { [k |-> "tuple",  names |-> n] : n \in {<<>>, <<"x">>, <<"f", "g">>, <<"x", "x">>} }
    \cup { [k |-> "record", names |-> n] : n \in {<<"f">>, <<"g", "f">>, <<"f", "x">>, <<"f", "f">>} }

Pattern(path, p) == [path |-> path, k |-> p.k, names |-> p.names]

Paths == { <<"Some">>, <<"None">>, <<"Ok">>, <<"Err">>, <<"E", "A">>, <<"E", "B">>,
           <<"F", "A">>, <<"A">> }

Patterns == { Pattern(path, p) : path \in Paths, p \in Payloads }

One(x) == [k |-> "tuple", names |-> <<x>>]

Usual == { Pattern(<<"Some">>, One("x")), Pattern(<<"None">>, Unit),
           Pattern(<<"Ok">>, One("x")), Pattern(<<"Err">>, One("y")),
           Pattern(<<"E", "A">>, Unit),
           Pattern(<<"E", "A">>, [k |-> "tuple", names |-> <<"y", "x">>]),
           Pattern(<<"E", "B">>, [k |-> "record", names |-> <<"f", "g">>]),
           Pattern(<<"E", "B">>, One("x")), Pattern(<<"E", "C">>, Unit) }

Enum(variants) == [k |-> "enum", variants |-> variants]

A1 == Ctor("A", "unit", <<>>)
A2 == Ctor("A", "tuple", <<"0", "1">>)
B1 == Ctor("B", "record", <<"f", "g">>)
B2 == Ctor("B", "tuple", <<"0">>)
C1 == Ctor("C", "unit", <<>>)

OptionTy == [k |-> "option"]

Scrutinees == { OptionTy, [k |-> "result"], [k |-> "unknown"], [k |-> "other"],
                [k |-> "tagged", of |-> OptionTy],
                Enum(<<A1>>), Enum(<<A2, B1>>), Enum(<<A1, B2>>) }

Three == Enum(<<A1, B2, C1>>)

Int == [option |-> FALSE, of |-> "Int"]

Arm(p, ty) == [pattern |-> p, body |-> ty]

Arms(ps) == [i \in DOMAIN ps |-> Arm(ps[i], Int)]

Match(s, a) == [scrutinee |-> s, arms |-> a]

Tuples(S, n) == [1..n -> S]

Typed == << Pattern(<<"E", "A">>, Unit), Pattern(<<"E", "B">>, One("x")),
            Pattern(<<"E", "C">>, Unit) >>

MCPrograms ==
    { Match(s, Arms(ps)) : s \in Scrutinees,
                           ps \in { <<p>> : p \in Patterns }
                                  \cup { <<p, q>> : p \in Patterns, q \in Usual }
                                  \cup { <<q, p>> : p \in Patterns, q \in Usual } }
    \cup { Match(s, Arms(ps)) : s \in Scrutinees \cup {Three}, ps \in {<<>>} \cup Tuples(Usual, 3) }
    \cup { Match(Three, [i \in 1..3 |-> Arm(Typed[i], tys[i])]) : tys \in Tuples(Ty, 3) }
=============================================================================
