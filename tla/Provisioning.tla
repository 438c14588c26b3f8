---------------------------- MODULE Provisioning ----------------------------
(***************************************************************************)
(* What the control plane promises of the setups of providers, however     *)
(* their requests fail, overlap and go on behind the browser's back.       *)
(*                                                                         *)
(* The rows of a setup are made in order, the provider's and then the      *)
(* runtime's, and go together; what is gone is not made again.  A          *)
(* container is started once, for a runtime that is or was there.  A       *)
(* runtime may be answered for before it is committed: it is then owed,    *)
(* and made, or lost with the commit, while its provider is not deleted.   *)
(* A setup ends once; it ends well only when all it needs is there, or was *)
(* answered for, and nothing of one that ended well is touched by the      *)
(* setups of others or by a request that comes late, but that what is owed *)
(* is made or lost.                                                        *)
(***************************************************************************)
CONSTANT Setup

VARIABLES
  hosted,      \* the setups that run a container, rather than use an endpoint
  outcome,     \* per setup: "none", "open", "done" or "failed"
  rows,        \* per setup: "none", "provider", "runtime" (both) or "gone"
  container,   \* per setup: "none", "running" or "removed"
  debt         \* per setup: "none", or its runtime is "owed" or "lost"

vars == <<hosted, outcome, rows, container, debt>>

Init ==
  /\ hosted \subseteq Setup
  /\ outcome = [s \in Setup |-> "none"]
  /\ rows = [s \in Setup |-> "none"]
  /\ container = [s \in Setup |-> "none"]
  /\ debt = [s \in Setup |-> "none"]

Complete(s) ==
  IF s \in hosted THEN rows[s] = "runtime" /\ container[s] = "running"
                  ELSE rows[s] \in {"provider", "runtime"}

Begin(s) ==
  /\ outcome[s] = "none"
  /\ outcome' = [outcome EXCEPT ![s] = "open"]
  /\ UNCHANGED <<rows, container, debt>>

End(s, how) ==
  /\ outcome[s] = "open"
  /\ how = "done" => Complete(s) \/ debt[s] # "none"
  /\ outcome' = [outcome EXCEPT ![s] = how]
  /\ UNCHANGED <<rows, container, debt>>

MakeProvider(s) ==
  /\ rows[s] = "none"
  /\ rows' = [rows EXCEPT ![s] = "provider"]
  /\ UNCHANGED <<container, debt>>

\* Made before it is answered for.
MakeRuntime(s) ==
  /\ rows[s] = "provider"
  /\ rows' = [rows EXCEPT ![s] = "runtime"]
  /\ UNCHANGED <<container, debt>>

\* Answered for before it is made.
Owe(s) ==
  /\ rows[s] = "provider" /\ debt[s] = "none"
  /\ debt' = [debt EXCEPT ![s] = "owed"]
  /\ UNCHANGED <<rows, container>>

\* The row may have been deleted while its container was being started.
StartContainer(s) ==
  /\ rows[s] \in {"runtime", "gone"}
  /\ container[s] = "none"
  /\ container' = [container EXCEPT ![s] = "running"]
  /\ UNCHANGED <<rows, debt>>

RemoveContainer(s) ==
  /\ rows[s] = "runtime"
  /\ container' = [container EXCEPT ![s] = "removed"]
  /\ UNCHANGED <<rows, debt>>

Delete(s) ==
  /\ rows[s] \in {"provider", "runtime"} /\ debt[s] # "owed"
  /\ rows' = [rows EXCEPT ![s] = "gone"]
  /\ \/ UNCHANGED container
     \/ container' = [container EXCEPT ![s] = "removed"]
  /\ UNCHANGED debt

\* What a setup that has begun and has not ended well may undergo.
Change(s) ==
  /\ outcome[s] \in {"open", "failed"}
  /\ \/ MakeProvider(s) \/ MakeRuntime(s) \/ Owe(s)
     \/ StartContainer(s) \/ RemoveContainer(s) \/ Delete(s)
  /\ UNCHANGED outcome

\* What is owed is made, with its container ordered, however the setup ended ...
Pay(s) ==
  /\ debt[s] = "owed" /\ rows[s] = "provider"
  /\ debt' = [debt EXCEPT ![s] = "none"]
  /\ rows' = [rows EXCEPT ![s] = "runtime"]
  /\ IF s \in hosted THEN container' = [container EXCEPT ![s] = "running"]
                     ELSE UNCHANGED container
  /\ UNCHANGED outcome

\* ... or lost.
Default(s) ==
  /\ debt[s] = "owed"
  /\ debt' = [debt EXCEPT ![s] = "lost"]
  /\ UNCHANGED <<outcome, rows, container>>

Next ==
  /\ \E s \in Setup : \/ Begin(s)
                      \/ End(s, "done")
                      \/ End(s, "failed")
                      \/ Change(s)
                      \/ Pay(s)
                      \/ Default(s)
  /\ UNCHANGED hosted

Spec == Init /\ [][Next]_vars
=============================================================================
