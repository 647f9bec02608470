---------------------------- MODULE MCTaskPatch ----------------------------
(* Small instances of TaskPatch. *)
EXTENDS TaskPatch

CONSTANTS t1, t2, d1, n1, n2

Single == {{"state"}, {"title"}}
Title == {{"title"}}
Both == {{"state", "title"}}
=============================================================================
