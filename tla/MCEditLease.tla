----------------------------- MODULE MCEditLease -----------------------------
(* Instances of EditLease for TLC. *)
EXTENDS EditLease, TLC
=============================================================================
