-------------------------- MODULE MCCommandDeadline --------------------------
(* CommandDeadline on a short clock. *)
EXTENDS CommandDeadline
=============================================================================
