--------------------------- MODULE MCEventStream ---------------------------
(* Instances of EventStream for TLC. *)
EXTENDS EventStream, TLC

CONSTANTS a, b
Events == (a :> 2) @@ (b :> 0)
=============================================================================
