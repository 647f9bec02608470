--------------------------- MODULE MCRecordDelta ---------------------------
(* Instances of RecordDelta for TLC. *)
EXTENDS RecordDelta, TLC

CONSTANTS a, b
TabSymmetry == Permutations(Tabs)
=============================================================================
