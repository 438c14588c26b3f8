------------------------------- MODULE Errand -------------------------------
(***************************************************************************)
(* What the update dialog promises of the commands it sends to a node: each*)
(* goes out once and comes back once; the next one goes out when none is   *)
(* out; and one that is out is on the screen until it is back, unless the  *)
(* user has left.  A dialog that lost track of one is pardoned the last    *)
(* two, from then on.                                                      *)
(***************************************************************************)
CONSTANT Command

VARIABLES
  errand,    \* [command -> "none", "out", "back"]
  shown,     \* whether the screen says that one is running
  left,      \* whether the user has gone away
  pardoned   \* whether the dialog may have lost track of one

vars == <<errand, shown, left, pardoned>>

Out == {c \in Command : errand[c] = "out"}

\* What is out need not be alone, or need not be shown.
Lax == pardoned \/ Out = {}

Init ==
  /\ errand = [c \in Command |-> "none"]
  /\ shown = FALSE /\ left = FALSE /\ pardoned = FALSE

Send(c) ==
  /\ ~left /\ Lax
  /\ errand[c] = "none"
  /\ errand' = [errand EXCEPT ![c] = "out"]
  /\ shown' = TRUE
  /\ UNCHANGED <<left, pardoned>>

\* The screen may go on saying so, or stop; track may be lost of how it ended.
Return(c) ==
  /\ errand[c] = "out"
  /\ errand' = [errand EXCEPT ![c] = "back"]
  /\ shown' => shown
  /\ pardoned => pardoned'
  /\ UNCHANGED left

\* The screen stops saying that something is running.
Hide ==
  /\ shown /\ ~shown'
  /\ Lax
  /\ UNCHANGED <<errand, left, pardoned>>

\* The dialog loses track of what is out.
LoseTrack ==
  /\ ~pardoned /\ pardoned'
  /\ shown' => shown
  /\ UNCHANGED <<errand, left>>

Leave ==
  /\ ~left /\ left'
  /\ ~shown'
  /\ UNCHANGED <<errand, pardoned>>

Next == Hide \/ LoseTrack \/ Leave \/ \E c \in Command : Send(c) \/ Return(c)

Spec == Init /\ [][Next]_vars
=============================================================================
