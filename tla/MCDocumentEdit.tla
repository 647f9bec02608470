--------------------------- MODULE MCDocumentEdit ---------------------------
(* Instances of DocumentEdit for TLC. *)
EXTENDS DocumentEdit, TLC
=============================================================================
