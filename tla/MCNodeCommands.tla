--------------------------- MODULE MCNodeCommands ---------------------------
(* NodeCommands on small instances: keys are interchangeable. *)
EXTENDS NodeCommands, TLC

KeySymmetry == Permutations(Key)
=============================================================================
