-------------------------------- MODULE MCLsp --------------------------------
(***************************************************************************)
(* Two documents; texts with and without diagnostics and with and without  *)
(* a function under the cursor.                                            *)
(***************************************************************************)
EXTENDS Lsp

MCText == {"", "good", "bad"}

MCDiagnose(t) == IF t = "good" THEN {} ELSE {t}

MCHoverMarkdown(t) == IF t = "" THEN "null" ELSE t
=============================================================================
