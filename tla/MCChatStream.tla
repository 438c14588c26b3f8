---------------------------- MODULE MCChatStream ----------------------------
(* ChatStream on small instances. *)
EXTENDS ChatStream, TLC
=============================================================================
