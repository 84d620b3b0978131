------------------------------- MODULE MCBuild -------------------------------
(***************************************************************************)
(* Three files under p/: a.kei and s/c.kei import b.kei.  A file may fail  *)
(* to parse, be wrong in itself or against what it imports, and b.kei may  *)
(* be declared as module `a` or import `a` back.                           *)
(***************************************************************************)
EXTENDS Build

A == <<"a">>
B == <<"b">>
C == <<"s", "c">>

MCDir    == <<"p">>
MCFiles  == {A, B, C}
MCSorted == <<A, B, C>>

None == [p \in {} |-> "one"]

Source(parses, sound, decl, exports, expects) ==
    [parses |-> parses, sound |-> sound, decl |-> decl, exports |-> exports,
     expects |-> expects]

Expecting(path, e) == [p \in {path} |-> e]

MCSaves == [f \in MCFiles |->
    CASE f = A -> { Source(TRUE, TRUE, A, "one", Expecting(B, "one")),
                    Source(TRUE, TRUE, <<>>, "one", Expecting(B, "two")),
                    Source(TRUE, FALSE, A, "one", None) }
      [] f = B -> { Source(TRUE, TRUE, B, "one", None),
                    Source(TRUE, TRUE, B, "two", Expecting(A, "one")),
                    Source(TRUE, TRUE, A, "one", None),
                    Source(FALSE, TRUE, B, "one", None) }
      [] f = C -> { Source(TRUE, TRUE, C, "one", Expecting(B, "one")),
                    Source(TRUE, TRUE, C, "one", Expecting(B, "two")) }]
=============================================================================
