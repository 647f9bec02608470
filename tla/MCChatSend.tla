----------------------------- MODULE MCChatSend -----------------------------
(* Instances of ChatSend for TLC. *)
EXTENDS ChatSend, TLC
=============================================================================
