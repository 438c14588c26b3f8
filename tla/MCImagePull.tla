----------------------------- MODULE MCImagePull -----------------------------
(* ImagePull on a small instance. *)
EXTENDS ImagePull

=============================================================================
