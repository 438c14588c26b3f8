--------------------------- MODULE MCUpdateDialog ---------------------------
(* UpdateDialog on small instances. *)
EXTENDS UpdateDialog
=============================================================================
