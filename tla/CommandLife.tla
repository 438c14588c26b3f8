----------------------------- MODULE CommandLife -----------------------------
(***************************************************************************)
(* The life of infra_node_command rows as the callers of the backend may   *)
(* rely on it: a command is queued, then sent, and only a command that was *)
(* sent is acked, run, ended or given up.  No row goes back to the queue.  *)
(* Of a command that was sent everything may be said in any order: an      *)
(* answer that comes late overwrites an end, and the reaper one of its     *)
(* own.                                                                    *)
(***************************************************************************)
CONSTANT Command

VARIABLE life    \* infra_node_command.status, per command

Unsent == {"unissued", "queued"}
Recordable == {"acked", "running", "succeeded", "failed"}

Init == life \in [Command -> Unsent]

Issue(c) ==
  /\ life[c] = "unissued"
  /\ life' = [life EXCEPT ![c] = "queued"]

\* Whatever is queued is sent together.
Sent(l) == [c \in Command |-> IF l[c] = "queued" THEN "dispatched" ELSE l[c]]

Send == life' = Sent(life)

\* A frame of the node is recorded, and what is queued follows it.
Record(c, s) ==
  /\ life[c] \notin Unsent
  /\ life' = Sent([life EXCEPT ![c] = s])

GiveUp(S) ==
  /\ \A c \in S : life[c] \notin Unsent
  /\ life' = [c \in Command |-> IF c \in S THEN "timed_out" ELSE life[c]]

Next ==
  \/ \E c \in Command : Issue(c)
  \/ Send
  \/ \E c \in Command, s \in Recordable : Record(c, s)
  \/ \E S \in SUBSET Command : GiveUp(S)

Spec == Init /\ [][Next]_life
=============================================================================
