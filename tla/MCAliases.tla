------------------------------ MODULE MCAliases ------------------------------
(***************************************************************************)
(* Every module of three aliases whose declarations are an integer, a      *)
(* renaming, an option, a result or a tagged form of the first two: all    *)
(* graphs of up to six references on three nodes, with every cycle, shared *)
(* reference and forward reference those allow.                            *)
(***************************************************************************)
EXTENDS Aliases

CONSTANTS A, B, C

MCOrder == <<A, B, C>>

MCDecl == { d \in Decl : /\ d.shape \in {"int", "same", "option", "result"}
                         /\ d.tag # NoTag => d.shape \in {"int", "same"} }

MCDecls == [Alias -> MCDecl]
=============================================================================
