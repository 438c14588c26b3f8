------------------------------ MODULE PullDesk ------------------------------
(***************************************************************************)
(* What the backend promises of pulls: a worker pulls an image once at a   *)
(* time, however many ask it; a pull ends once and does not begin again,   *)
(* there or elsewhere; and an image is there when a pull of it ended well, *)
(* and for no other reason.                                                *)
(***************************************************************************)
CONSTANTS Image, Worker, Pull

VARIABLES
  present,   \* the images that are there
  pulling,   \* [worker -> [image -> the pulls of it that are under way]]
  ended      \* the pulls that have ended

vars == <<present, pulling, ended>>

Init ==
  /\ present \subseteq Image
  /\ pulling = [w \in Worker |-> [i \in Image |-> {}]]
  /\ ended = {}

Begin(p, w, i) ==
  /\ pulling[w][i] = {}
  /\ p \notin ended /\ \A v \in Worker, j \in Image : p \notin pulling[v][j]
  /\ pulling' = [pulling EXCEPT ![w][i] = {p}]
  /\ UNCHANGED <<present, ended>>

End(p, w, i) ==
  /\ pulling[w][i] = {p}
  /\ pulling' = [pulling EXCEPT ![w][i] = {}]
  /\ ended' = ended \cup {p}
  /\ present' = present \/ present' = present \cup {i}

\* All pulls of a worker end, and none of them well.
GiveUp(w) ==
  /\ pulling' = [pulling EXCEPT ![w] = [i \in Image |-> {}]]
  /\ ended' = ended \cup UNION {pulling[w][i] : i \in Image}
  /\ UNCHANGED present

Next ==
  \E w \in Worker :
    GiveUp(w) \/ \E p \in Pull, i \in Image : Begin(p, w, i) \/ End(p, w, i)

Spec == Init /\ [][Next]_vars
=============================================================================
