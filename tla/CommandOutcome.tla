--------------------------- MODULE CommandOutcome ---------------------------
(***************************************************************************)
(* What the node control plane promises of a command, whatever happens to  *)
(* streams and processes: a node executes one command at a time; the       *)
(* outcome of a command is decided once and stays; an execution that is    *)
(* broken off decides nothing and may be started again; and success is     *)
(* reported only of a command whose outcome is success.                    *)
(***************************************************************************)
CONSTANT Command

VARIABLES
  outcome,   \* per command: "none", "executing", "ok" or "fail"
  reported   \* the commands the control plane shows as succeeded

vars == <<outcome, reported>>

Init ==
  /\ outcome = [c \in Command |-> "none"]
  /\ reported = {}

Start(c) ==
  /\ \A d \in Command : outcome[d] # "executing"
  /\ outcome[c] = "none"
  /\ outcome' = [outcome EXCEPT ![c] = "executing"]
  /\ UNCHANGED reported

Decide(c, o) ==
  /\ outcome[c] = "executing" \/ (outcome[c] = "none" /\ o = "fail")
  /\ outcome' = [outcome EXCEPT ![c] = o]
  /\ UNCHANGED reported

BreakOff(c) ==
  /\ outcome[c] = "executing"
  /\ outcome' = [outcome EXCEPT ![c] = "none"]
  /\ UNCHANGED reported

\* The report may lag, and may be taken back; it is never invented.
Report ==
  /\ reported' \in SUBSET {c \in Command : outcome[c] = "ok"}
  /\ UNCHANGED outcome

Next ==
  \/ \E c \in Command : Start(c) \/ BreakOff(c)
  \/ \E c \in Command, o \in {"ok", "fail"} : Decide(c, o)
  \/ Report

Spec == Init /\ [][Next]_vars
=============================================================================
