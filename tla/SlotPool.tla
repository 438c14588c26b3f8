------------------------------ MODULE SlotPool ------------------------------
(***************************************************************************)
(* What the gateway promises of an instance's slots: a request takes one   *)
(* only while fewer than the largest configured limit are out, uses it,    *)
(* and gives it back or loses it; a lost slot is never handed out again,   *)
(* and never comes back.                                                   *)
(***************************************************************************)
EXTENDS Naturals

CONSTANTS Instance, MaxLimit

VARIABLES
  used,   \* slots in the hands of requests, per instance
  lost    \* slots nobody will give back, per instance

vars == <<used, lost>>

Init ==
  /\ used = [i \in Instance |-> 0]
  /\ lost = [i \in Instance |-> 0]

Take(i) ==
  /\ used[i] + lost[i] < MaxLimit
  /\ used' = [used EXCEPT ![i] = @ + 1]
  /\ UNCHANGED lost

GiveBack(i) ==
  /\ used[i] > 0
  /\ used' = [used EXCEPT ![i] = @ - 1]
  /\ UNCHANGED lost

Lose(i) ==
  /\ used[i] > 0
  /\ used' = [used EXCEPT ![i] = @ - 1]
  /\ lost' = [lost EXCEPT ![i] = @ + 1]

Next == \E i \in Instance : Take(i) \/ GiveBack(i) \/ Lose(i)

Spec == Init /\ [][Next]_vars
=============================================================================
