--------------------------- MODULE MCGatewayLease ---------------------------
(* GatewayLease on small instances: a remote and a local instance. *)
EXTENDS GatewayLease, TLC

CONSTANTS local, remote, r1, r2, r3, d1, d2, d3

OwnIds == r1 :> d1 @@ r2 :> d2 @@ r3 :> d3
SharedId == r1 :> d1 @@ r2 :> d1 @@ r3 :> d2

\* With SharedId, r1 and r2 are interchangeable.
SameIdSymmetry == Permutations({r1, r2})
=============================================================================
