--------------------------- MODULE MCProviderSetup --------------------------
(* ProviderSetup on small instances: plans of one setup and of two. *)
EXTENDS ProviderSetup

Wanted == {"local", "hf", "remote"}

\* Two setups on this server at a time are left to the proofs: four times as many
\* states as all the other pairs together, which share only the routes.
Pairs == {plan \in [1..2 -> Wanted] : ~(plan[1] = "local" /\ plan[2] = "local")}
Singles == [1..1 -> Wanted]
=============================================================================
