--------------------------- MODULE CommandDeadline ---------------------------
(***************************************************************************)
(* The clock behind one command: which instants infra_node_command keeps,  *)
(* when _command_is_overdue holds, and when the reaper ends the command.   *)
(*                                                                         *)
(* NodeCommands lets "overdue" be chosen freely; this module says what it  *)
(* is.  In return it knows one command, and a node that is offline exactly *)
(* while it has no stream.  Instants are whole units of time; a deadline   *)
(* is met or missed at an instant, whatever the unit.                      *)
(***************************************************************************)
EXTENDS Integers

CONSTANTS
  Timeout,   \* the command's timeout_sec
  Grace,     \* _REAPER_OFFLINE_GRACE_SEC
  Period,    \* the longest time between two passes of the reaper
  MaxTime    \* bound on the clock

ASSUME DeadlineAssumption ==
  Timeout \in Nat \ {0} /\ Grace \in Nat /\ Period \in Nat \ {0} /\ MaxTime \in Nat

Unset == -1    \* an instant that is not recorded

VARIABLES
  now,          \* the clock; the command is issued at 0
  status,       \* infra_node_command.status
  dispatched,   \* dispatched_at
  acked,        \* acked_at
  started,      \* started_at
  node,         \* infra_node.status
  offlineAt,    \* history: when the node last went offline
  passAt        \* when the reaper last ran

row == <<status, dispatched, acked, started>>
vars == <<now, row, node, offlineAt, passAt>>

InFlight == {"dispatched", "acked", "running"}
Time == 0..MaxTime

TypeOK ==
  /\ now \in Time /\ offlineAt \in Time /\ passAt \in Time
  /\ status \in InFlight \cup {"queued", "succeeded", "failed", "timed_out"}
  /\ dispatched \in Time \cup {Unset}
  /\ acked \in Time \cup {Unset}
  /\ started \in Time \cup {Unset}
  /\ node \in {"healthy", "offline"}

Init ==
  /\ now = 0 /\ offlineAt = 0 /\ passAt = 0
  /\ status = "queued"
  /\ dispatched = Unset /\ acked = Unset /\ started = Unset
  /\ node \in {"healthy", "offline"}

\* The first instant that is recorded: "x or y" of the code.
Or(x, y) == IF x # Unset THEN x ELSE y

\* _command_is_overdue: where a command in flight is measured from, and how long it
\* may take.
Due ==
  IF status = "running"
  THEN [anchor |-> Or(started, acked), budget |-> 2 * Timeout]
  ELSE [anchor |-> Or(acked, Or(dispatched, 0)), budget |-> Timeout]

Overdue ==
  /\ status \in InFlight
  /\ Due.anchor # Unset
  /\ now - Due.anchor > Due.budget

\* Variant: the grace period runs from the time of issue.
GraceSinceIssue == 0

\* What reap_stale_commands measures the grace period from.
GraceAnchor == Or(started, Or(acked, Or(dispatched, 0)))

\* set_command_status: an instant is written once, at the first such status.
Dispatch ==
  /\ node = "healthy"
  /\ status = "queued"
  /\ status' = "dispatched"
  /\ dispatched' = Or(dispatched, now)
  /\ UNCHANGED <<now, acked, started, node, offlineAt, passAt>>

\* A frame of the agent is recorded, whatever the status was: it may answer a
\* copy that was sent before the command was reaped.
Ack ==
  /\ node = "healthy"
  /\ dispatched # Unset
  /\ status' = "acked"
  /\ acked' = Or(acked, now)
  /\ UNCHANGED <<now, dispatched, started, node, offlineAt, passAt>>

Progress ==
  /\ node = "healthy"
  /\ dispatched # Unset
  /\ status' = "running"
  /\ started' = Or(started, now)
  /\ UNCHANGED <<now, dispatched, acked, node, offlineAt, passAt>>

Result ==
  /\ node = "healthy"
  /\ dispatched # Unset
  /\ status' \in {"succeeded", "failed"}
  /\ UNCHANGED <<now, dispatched, acked, started, node, offlineAt, passAt>>

Disconnect ==
  /\ node = "healthy"
  /\ node' = "offline"
  /\ offlineAt' = now
  /\ UNCHANGED <<now, row, passAt>>

Reconnect ==
  /\ node = "offline"
  /\ node' = "healthy"
  /\ UNCHANGED <<now, row, offlineAt, passAt>>

\* Variant: only commands that are running are looked at.
ReapableRunning == node = "offline" /\ status = "running" /\ Overdue /\ now - GraceAnchor >= Grace

\* The reaper's test of one command.
Reapable == node = "offline" /\ Overdue /\ now - GraceAnchor >= Grace

\* A pass of the reaper loop.
ReaperPass ==
  /\ passAt' = now
  /\ status' = IF Reapable THEN "timed_out" ELSE status
  /\ UNCHANGED <<now, dispatched, acked, started, node, offlineAt>>

\* Time passes, up to the reaper's next pass.
Tick ==
  /\ now < MaxTime
  /\ now < passAt + Period
  /\ now' = now + 1
  /\ UNCHANGED <<row, node, offlineAt, passAt>>

Next ==
  \/ Dispatch
  \/ Ack
  \/ Progress
  \/ Result
  \/ Disconnect
  \/ Reconnect
  \/ ReaperPass
  \/ Tick

Spec == Init /\ [][Next]_vars

-----------------------------------------------------------------------------
(* Properties *)

Larger(x, y) == IF x >= y THEN x ELSE y

\* The first instant at which the command as it is now could be reaped.
Deadline == Larger(Due.anchor + Due.budget + 1, GraceAnchor + Grace)

\* A command in flight on a node that is and stays offline ends within a period of
\* its deadline, or of the node's going offline if that was later.
StrandedEndsInTime ==
  node = "offline" /\ status \in InFlight => now <= Larger(Deadline, offlineAt) + Period

\* The time a command waits in the queue, for a node that is away, counts neither
\* against its timeout nor against the grace period.
QueueingIsFree ==
  [][status # "timed_out" /\ status' = "timed_out"
       => now - dispatched > Timeout /\ now - dispatched >= Grace]_vars

\* The inductive invariant: the recorded instants are in order and past, and the last
\* pass left no command that was due.  StrandedEndsInTime follows from it.
InstantsAgree ==
  /\ dispatched <= now /\ acked <= now /\ started <= now /\ offlineAt <= now
  /\ acked # Unset => dispatched # Unset /\ dispatched <= acked
  /\ started # Unset => dispatched # Unset /\ dispatched <= started
  /\ status # "queued" <=> dispatched # Unset
  /\ status = "running" => started # Unset

PassIsRecent == passAt <= now /\ now <= passAt + Period

PassLeftNothingDue ==
  node = "offline" /\ status \in InFlight => passAt <= Larger(Deadline, offlineAt)

IInv ==
  /\ TypeOK
  /\ InstantsAgree
  /\ PassIsRecent
  /\ PassLeftNothingDue
=============================================================================
