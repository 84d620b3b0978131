--------------------------- MODULE MCEffectCheck -----------------------------
(***************************************************************************)
(* Every module of two functions and one extern in which a function has at *)
(* most one call expression, over clauses that are empty, exact, a parent  *)
(* node, the root IO or unknown.  Two functions that call each other give  *)
(* stacks of every shape up to the depth bound.                            *)
(***************************************************************************)
EXTENDS EffectCheck

DB      == <<"Database">>
DBWrite == <<"Database", "Write">>
Clock   == <<"Clock">>
Root    == <<"IO">>
Bogus   == <<"Datbase">>

MCClauses == { {}, {DBWrite}, {DB}, {Root} }

MCSegment == TopNames \cup LeafNames \cup {"Datbase"}

MCExterns == { [uses |-> {DBWrite}, query |-> FALSE],
               [uses |-> {DB, Clock}, query |-> FALSE],
               [uses |-> {Bogus},   query |-> FALSE],
               [uses |-> {},        query |-> TRUE],
               [uses |-> {DBWrite}, query |-> TRUE] }

\* Opaque names matter in one place only: a plain body call.
MCSites == { s \in Site : s.callee \in Opaque => s.ctx = "body" /\ ~s.lambda }

AtMostOne(S) == { {} } \cup { {s} : s \in S }

MCModules == [uses  : [Func -> MCClauses],
              ext   : [Extern -> MCExterns],
              sites : [Func -> AtMostOne(MCSites)]]
=============================================================================
