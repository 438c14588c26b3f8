---------------------------- MODULE NodeCommands ----------------------------
(***************************************************************************)
(* Delivery of commands from the backend to ONE node agent: the            *)
(* infra_node_command rows, the websocket streams with their session       *)
(* rows, the agent's serial receive loop with its persisted result store,  *)
(* and the stale-command reaper.                                           *)
(*                                                                         *)
(* A backend transaction that ends in a commit is one step, but where the  *)
(* code decides from what it read some awaits before it commits: the close *)
(* of a session, the reaper's pass and the take-over of an idempotency key *)
(* are two.  A stream carries frames in order, and frames may be lost only *)
(* from its end, when it breaks.  Wall-clock time appears as two facts the code asks for: a   *)
(* command is past the agent's 300 s freshness bound (old), or past its    *)
(* timeout budget (chosen when the backend asks; CommandDeadline models    *)
(* that arithmetic).                                                       *)
(***************************************************************************)
EXTENDS Naturals, Sequences, FiniteSets

CONSTANTS
  NumCommands,   \* how many command rows are ever created
  NumStreams,    \* how many streams the agent ever opens
  Key,           \* idempotency keys callers pass to issue_command
  NoKey,         \* the key of a row that is not created, or whose key is retired
  Worker,        \* worker processes of the backend, each with a reaper of its own
  DownCap,       \* bound on commands in flight on a stream
  UpCap,         \* the agent handles a command only while fewer frames are unread
  TickCap,       \* and its timers send only while fewer than this are unread
  MaxCrash,      \* backend crashes
  LastIsStable   \* TRUE: the last stream never breaks (runs for liveness)

ASSUME ParametersAssumption ==
  /\ NumCommands \in Nat \ {0}
  /\ NumStreams \in Nat \ {0}
  /\ NoKey \notin Key
  /\ DownCap \in Nat /\ UpCap \in Nat /\ TickCap \in Nat /\ MaxCrash \in Nat
  /\ LastIsStable \in BOOLEAN

Command == 1..NumCommands      \* numbered in the order of issued_at
Stream == 1..NumStreams        \* numbered in the order they are opened
None == 0                      \* no command, or no stream

Terminal == {"succeeded", "failed", "timed_out"}
\* Variant: what still waits in the queue counts as in flight.
InFlightOrQueued == {"queued", "dispatched", "acked", "running"}
InFlight == {"dispatched", "acked", "running"}
Status == {"unissued", "queued"} \cup InFlight \cup Terminal

\* A frame from the agent; "other" is an inventory or event_batch frame.
Frame == [type : {"heartbeat", "other", "ack", "progress", "result"},
          cmd : Command \cup {None}, ok : BOOLEAN]
\* A command as it travels to the agent; re is the redispatch flag.
Item == [cmd : Command, re : BOOLEAN]

VARIABLES
  status,   \* infra_node_command.status
  key,      \* infra_node_command.idempotency_key
  node,     \* infra_node.status, as far as it decides who may reap
  row,      \* a stream's server loop and its infra_node_session row
  retiring, \* finished rows an issue_command has found holding the key it is after
  seen,     \* infra_node.status as the stream's ORM session holds it
  late,     \* history: streams opened since a closing one counted the others
  reap,     \* commands each worker's reaper has read and not yet committed
  crashes,  \* backend crashes so far
  conn,     \* the stream the agent holds
  down,     \* items sent on it that the agent has not handled
  up,       \* frames sent on each stream that the backend has not handled
  busy,     \* the command the agent is executing
  store,    \* AgentState.completed_commands: the outcome remembered
  old,      \* commands up to this one are past the agent's freshness bound
  ran       \* history: executions that ran to their end, per command

backend == <<status, key, retiring, node, row, seen, late, reap, crashes>>
agent == <<conn, busy, store, ran>>
vars == <<status, key, retiring, node, row, seen, late, reap, crashes, conn, down,
          up, busy, store, old, ran>>

TypeOK ==
  /\ status \in [Command -> Status]
  /\ key \in [Command -> Key \cup {NoKey}]
  /\ node \in {"healthy", "offline"}
  /\ retiring \in SUBSET Command
  \* "opening": no row committed yet; "closing": other rows were counted, and
  \* "closingLast": none was, the commit is to come; "orphan": the loop is gone,
  \* but disconnected_at was never written
  /\ row \in [Stream -> {"none", "opening", "open", "closing", "closingLast",
                         "closed", "orphan"}]
  /\ seen \in [Stream -> {"healthy", "offline"}]
  /\ late \in [Stream -> SUBSET Stream]
  /\ reap \in [Worker -> SUBSET Command]
  /\ crashes \in 0..MaxCrash
  /\ conn \in Stream \cup {None}
  /\ down \in Seq(Item)
  /\ up \in [Stream -> Seq(Frame)]
  /\ busy \in Command \cup {None}
  /\ store \in [Command -> {"none", "ok", "fail"}]
  /\ old \in 0..NumCommands
  /\ ran \in [Command -> Nat]

\* An enrolled, healthy node that has not opened a stream yet.
Init ==
  /\ status = [c \in Command |-> "unissued"]
  /\ key = [c \in Command |-> NoKey]
  /\ node = "healthy"
  /\ retiring = {}
  /\ row = [k \in Stream |-> "none"]
  /\ seen = [k \in Stream |-> "healthy"]
  /\ late = [k \in Stream |-> {}]
  /\ reap = [w \in Worker |-> {}]
  /\ crashes = 0
  /\ conn = None
  /\ down = <<>>
  /\ up = [k \in Stream |-> <<>>]
  /\ busy = None
  /\ store = [c \in Command |-> "none"]
  /\ old = 0
  /\ ran = [c \in Command |-> 0]

-----------------------------------------------------------------------------
(* Callers and time *)

Holders(k) == {c \in Command : key[c] = k}

\* issue_command looks its key up.  A row in flight is returned as it is (no
\* step); a finished one is to give its key up.  Bound: not once the last row of
\* the model is created.
LookUp(c) ==
  /\ key[c] # NoKey /\ status[c] \in Terminal
  /\ \E d \in Command : status[d] = "unissued"
  /\ retiring' = retiring \cup {c}
  /\ UNCHANGED <<status, key, node, row, seen, late, reap, crashes, agent, down, up, old>>

\* The insert, after awaits in which the row found may have been revived by a
\* frame, and others may have issued.  A row that was not found, or not found
\* finished, still holds the key: the unique constraint fails the insert, the
\* request is answered 500 and rolled back (no step).
IssueCommand(k) ==
  /\ Holders(k) \subseteq retiring
  /\ \E c \in Command :
       /\ status[c] = "unissued"
       /\ \A d \in Command : d < c => status[d] # "unissued"
       /\ status' = [status EXCEPT ![c] = "queued"]
       /\ key' = [d \in Command |-> IF d = c THEN k
                                    ELSE IF key[d] = k THEN NoKey ELSE key[d]]
  /\ retiring' = retiring \ Holders(k)
  /\ UNCHANGED <<node, row, seen, late, reap, crashes, agent, down, up, old>>

\* Five minutes pass since the next command was issued.
PassFreshnessBound ==
  /\ old < NumCommands
  /\ status[old + 1] # "unissued"
  /\ old' = old + 1
  /\ UNCHANGED <<backend, agent, down, up, ran>>

-----------------------------------------------------------------------------
(* Backend: dispatch *)

\* Variant: only queued rows are listed, a lost frame is not made up for.
PendingQueuedOnly(st) == {c \in Command : st[c] = "queued"}

Pending(st) == {c \in Command : st[c] \in {"queued", "dispatched"}}

\* The commands of S in the order of issued_at (there is one such sequence).
InOrder(S) == {b \in [1..Cardinality(S) -> S] :
                 \A i, j \in 1..Cardinality(S) : i < j => b[i] < b[j]}

Items(b, re) == [i \in 1..Len(b) |-> [cmd |-> b[i], re |-> re]]

\* Variant: what is listed is sent, and not marked.
DispatchedUnmarked(st) == st

\* list_commands_for_dispatch marks what was queued; what was dispatched
\* already is listed, and sent, again.
Dispatched(st) == [c \in Command |-> IF st[c] = "queued" THEN "dispatched" ELSE st[c]]

\* Session rows of the node that are committed as open, as count_active_sessions
\* sees them.
OpenRows == {k \in Stream : row[k] \in {"open", "closing", "closingLast", "orphan"}}

\* authenticate_agent: the agent connects, and the stream's ORM session reads the
\* node.  It keeps that object to the end of the stream and never reads the row
\* again.
Authenticate(k) ==
  /\ conn = None
  /\ row[k] = "none"
  /\ \A j \in Stream : j < k => row[j] # "none"
  /\ row' = [row EXCEPT ![k] = "opening"]
  /\ seen' = [seen EXCEPT ![k] = node]
  /\ UNCHANGED <<status, key, retiring, node, late, reap, crashes, agent, down, up, old>>

\* system_node_stream up to its first commit: a session row, then hello_ack
\* with everything pending and every overdue command still in flight.  The agent
\* may have given up on the stream by then.
OpenStream(k) ==
  /\ row[k] = "opening"
  /\ row' = [row EXCEPT ![k] = "open"]
  /\ late' = [j \in Stream |-> IF row[j] = "closingLast" THEN late[j] \cup {k}
                                                          ELSE late[j]]
  /\ status' = Dispatched(status)
  /\ \/ /\ conn = None
        /\ \A j \in Stream : j > k => row[j] = "none"
        /\ conn' = k
        /\ \E overdue \in SUBSET {c \in Command : status[c] \in InFlight} :
             \E fresh \in InOrder(Pending(status)), again \in InOrder(overdue) :
               down' = Items(fresh, FALSE) \o Items(again, TRUE)
     \/ ~(LastIsStable /\ k = NumStreams) /\ UNCHANGED <<conn, down>>
  /\ UNCHANGED <<key, retiring, node, seen, reap, crashes, up, busy, store, old, ran>>

\* The handshake fails before that commit: nothing is left of it.
AbortOpening(k) ==
  /\ ~(LastIsStable /\ k = NumStreams)
  /\ row[k] = "opening"
  /\ row' = [row EXCEPT ![k] = "closed"]
  /\ UNCHANGED <<status, key, retiring, node, seen, late, reap, crashes, agent, down, up,
                 old>>

-----------------------------------------------------------------------------
(* Backend: one frame of a stream, handled and committed *)

\* record_command_ack, record_command_progress and record_command_result
\* write the status whatever it was.
Recorded(f) ==
  CASE f.type = "ack" -> [status EXCEPT ![f.cmd] = "acked"]
    [] f.type = "progress" -> [status EXCEPT ![f.cmd] = "running"]
    [] f.type = "result" ->
         [status EXCEPT ![f.cmd] = IF f.ok THEN "succeeded" ELSE "failed"]
    [] OTHER -> status

\* What the loop sends after a frame; a stream the agent left loses it.
SendPending(k, st) ==
  IF conn = k
  THEN \E b \in InOrder(Pending(st)) :
         /\ down' = down \o Items(b, FALSE)
         /\ Len(down') <= DownCap
  ELSE UNCHANGED down

\* A heartbeat sets the status of the node object; the flush writes it only if
\* that changes what the object held.
ReceiveFrame(k) ==
  /\ row[k] = "open"
  /\ up[k] # <<>>
  /\ LET f == Head(up[k]) IN
       /\ status' = Dispatched(Recorded(f))
       /\ SendPending(k, Recorded(f))
       /\ node' = IF f.type = "heartbeat" /\ seen[k] = "offline" THEN "healthy" ELSE node
       /\ seen' = IF f.type = "heartbeat" THEN [seen EXCEPT ![k] = "healthy"] ELSE seen
  /\ up' = [up EXCEPT ![k] = Tail(@)]
  /\ UNCHANGED <<key, retiring, row, late, reap, crashes, conn, busy, store, old, ran>>

\* The same iteration raising after its transaction began: before or in the
\* send, or in the commit, when the items are out.  The rollback expires the
\* session row, so close_stream_session raises too and its exception is
\* swallowed: the row stays open.
FailFrame(k) ==
  /\ ~(LastIsStable /\ k = NumStreams)
  /\ row[k] = "open"
  /\ up[k] # <<>>
  /\ UNCHANGED down \/ SendPending(k, Recorded(Head(up[k])))
  /\ row' = [row EXCEPT ![k] = "orphan"]
  /\ up' = [up EXCEPT ![k] = <<>>]
  /\ UNCHANGED <<status, key, retiring, node, seen, late, reap, crashes, agent, old>>

\* Variant: the other rows are not counted.
NoneOther(k) == TRUE

Lone(k) == OpenRows \ {k} = {}

\* close_stream_session: the row is closed and the rows of the other streams are
\* counted; with none left, the node object is set offline and its runtimes are
\* demoted, over several awaits.
BeginClose(k) ==
  /\ ~(LastIsStable /\ k = NumStreams)
  /\ row[k] = "open"
  /\ up[k] = <<>>        \* a disconnect or 120 idle seconds, with nothing unread
  /\ row' = [row EXCEPT ![k] = IF Lone(k) THEN "closingLast" ELSE "closing"]
  /\ late' = [late EXCEPT ![k] = {}]
  /\ UNCHANGED <<status, key, retiring, node, seen, reap, crashes, agent, down, up, old>>

\* The commit, whatever has opened since: the node goes offline, unless this
\* session holds it as offline already.
FinishClose(k) ==
  /\ row[k] \in {"closing", "closingLast"}
  /\ row' = [row EXCEPT ![k] = "closed"]
  /\ node' = IF row[k] = "closingLast" /\ seen[k] = "healthy" THEN "offline" ELSE node
  /\ late' = [late EXCEPT ![k] = {}]
  /\ UNCHANGED <<status, key, retiring, seen, reap, crashes, agent, down, up, old>>

\* An exception in between is swallowed and all is rolled back: the row stays open.
FailClose(k) ==
  /\ row[k] \in {"closing", "closingLast"}
  /\ row' = [row EXCEPT ![k] = "orphan"]
  /\ late' = [late EXCEPT ![k] = {}]
  /\ UNCHANGED <<status, key, retiring, node, seen, reap, crashes, agent, down, up, old>>

\* Worker processes of the backend die: their loops, unread frames and reaper
\* passes go, every row they had open stays open.
BackendCrash ==
  /\ crashes < MaxCrash
  /\ crashes' = crashes + 1
  /\ \E gone \in SUBSET Stream, dead \in SUBSET Worker :
       /\ ~(LastIsStable /\ NumStreams \in gone)
       /\ row' = [k \in Stream |->
                    CASE k \in gone /\ row[k] \in {"open", "closing", "closingLast"} -> "orphan"
                      [] k \in gone /\ row[k] = "opening" -> "closed"
                      [] OTHER -> row[k]]
       /\ late' = [k \in Stream |-> IF k \in gone THEN {} ELSE late[k]]
       /\ up' = [k \in Stream |-> IF k \in gone THEN <<>> ELSE up[k]]
       /\ reap' = [w \in Worker |-> IF w \in dead THEN {} ELSE reap[w]]
  /\ UNCHANGED <<status, key, retiring, node, seen, agent, down, old>>

-----------------------------------------------------------------------------
(* Backend: reap_stale_commands of a worker, in a session of its own *)

\* It reads the node and the overdue commands in flight ...
ReapScan(w) ==
  /\ reap[w] = {}
  /\ node = "offline"
  /\ \E overdue \in SUBSET {c \in Command : status[c] \in InFlight} :
       overdue # {} /\ reap' = [reap EXCEPT ![w] = overdue]
  /\ UNCHANGED <<status, key, retiring, node, row, seen, late, crashes, agent, down, up,
                 old>>

\* ... and writes them, without looking again, when the pass commits.
ReapCommit(w) ==
  /\ reap[w] # {}
  /\ status' = [c \in Command |-> IF c \in reap[w] THEN "timed_out" ELSE status[c]]
  /\ reap' = [reap EXCEPT ![w] = {}]
  /\ UNCHANGED <<key, retiring, node, row, seen, late, crashes, agent, down, up, old>>

-----------------------------------------------------------------------------
(* The agent *)

Ack(c) == [type |-> "ack", cmd |-> c, ok |-> TRUE]
Progress(c) == [type |-> "progress", cmd |-> c, ok |-> TRUE]
\* Variant: the frame always says success.
ResultSuccess(c, ok) == [type |-> "result", cmd |-> c, ok |-> TRUE]
Result(c, ok) == [type |-> "result", cmd |-> c, ok |-> ok]

\* What the agent sends after the backend's loop is gone reaches nobody.
Send(frames) == up' = IF row[conn] = "open" THEN [up EXCEPT ![conn] = @ \o frames]
                                            ELSE up

\* The receive loop takes the next command only when the last one is done.
NextItem(i) ==
  /\ conn # None
  /\ busy = None
  /\ Len(up[conn]) < UpCap
  /\ down # <<>>
  /\ i = Head(down)
  /\ down' = Tail(down)

Expired(i) == ~i.re /\ i.cmd <= old

\* Too old and not flagged: refused before the result store is consulted.
RefuseExpired ==
  \E i \in Item :
    /\ NextItem(i)
    /\ Expired(i)
    /\ Send(<<Result(i.cmd, FALSE)>>)
    /\ UNCHANGED <<backend, agent, old>>

\* Executed before: the stored outcome is sent again.
ReplayResult ==
  \E i \in Item :
    /\ NextItem(i)
    /\ ~Expired(i)
    /\ store[i.cmd] # "none"
    /\ Send(<<Ack(i.cmd), Result(i.cmd, store[i.cmd] = "ok")>>)
    /\ UNCHANGED <<backend, agent, old>>

\* PolicyGuard.validate raises: remembered as a failure, nothing executed.
RefuseByPolicy ==
  \E i \in Item :
    /\ NextItem(i)
    /\ ~Expired(i)
    /\ store[i.cmd] = "none"
    /\ store' = [store EXCEPT ![i.cmd] = "fail"]
    /\ Send(<<Ack(i.cmd), Result(i.cmd, FALSE)>>)
    /\ UNCHANGED <<backend, conn, busy, old, ran>>

\* Variant: the result store is not consulted.
BeginUnchecked ==
  \E i \in Item :
    /\ NextItem(i)
    /\ ~Expired(i)
    /\ busy' = i.cmd
    /\ Send(<<Ack(i.cmd), Progress(i.cmd)>>)
    /\ UNCHANGED <<backend, conn, store, old, ran>>

BeginExecution ==
  \E i \in Item :
    /\ NextItem(i)
    /\ ~Expired(i)
    /\ store[i.cmd] = "none"
    /\ busy' = i.cmd
    /\ Send(<<Ack(i.cmd), Progress(i.cmd)>>)
    /\ UNCHANGED <<backend, conn, store, old, ran>>

FinishExecution ==
  /\ busy # None
  /\ \E ok \in BOOLEAN :
       /\ store' = [store EXCEPT ![busy] = IF ok THEN "ok" ELSE "fail"]
       /\ Send(<<Result(busy, ok)>>)
  /\ ran' = [ran EXCEPT ![busy] = @ + 1]
  /\ busy' = None
  /\ UNCHANGED <<backend, conn, down, old>>

\* Heartbeat, inventory and event timers, and progress of a long command.
Tick ==
  /\ conn # None
  /\ Len(up[conn]) < TickCap
  /\ \/ \E t \in {"heartbeat", "other"} :
          Send(<<[type |-> t, cmd |-> None, ok |-> TRUE]>>)
     \/ busy # None /\ Send(<<Progress(busy)>>)
  /\ UNCHANGED <<backend, agent, down, old>>

\* Variant: a command broken off after it had finished once is forgotten.
LoseStreamAndStore ==
  /\ conn # None
  /\ ~(LastIsStable /\ conn = NumStreams)
  /\ conn' = None
  /\ down' = <<>>
  /\ \E n \in 0..Len(up[conn]) : up' = [up EXCEPT ![conn] = SubSeq(@, 1, n)]
  /\ busy' = None
  /\ store' = [c \in Command |-> "none"]
  /\ UNCHANGED <<backend, old, ran>>

\* The stream fails under the agent, or the agent restarts: a suffix of what it
\* sent is lost, and all it had not handled.  The command it was executing is
\* cancelled without a trace, or ends by the send in emit_progress raising,
\* which is remembered as an internal_error.
LoseStream ==
  /\ conn # None
  /\ ~(LastIsStable /\ conn = NumStreams)
  /\ conn' = None
  /\ down' = <<>>
  /\ \E n \in 0..Len(up[conn]) : up' = [up EXCEPT ![conn] = SubSeq(@, 1, n)]
  /\ busy' = None
  /\ \/ UNCHANGED store
     \/ busy # None /\ store' = [store EXCEPT ![busy] = "fail"]
  /\ UNCHANGED <<backend, old, ran>>

-----------------------------------------------------------------------------
Next ==
  \/ \E c \in Command : LookUp(c)
  \/ \E k \in Key : IssueCommand(k)
  \/ PassFreshnessBound
  \/ \E k \in Stream : Authenticate(k)
  \/ \E k \in Stream : OpenStream(k)
  \/ \E k \in Stream : AbortOpening(k)
  \/ \E k \in Stream : ReceiveFrame(k)
  \/ \E k \in Stream : FailFrame(k)
  \/ \E k \in Stream : BeginClose(k)
  \/ \E k \in Stream : FinishClose(k)
  \/ \E k \in Stream : FailClose(k)
  \/ BackendCrash
  \/ \E w \in Worker : ReapScan(w)
  \/ \E w \in Worker : ReapCommit(w)
  \/ RefuseExpired
  \/ ReplayResult
  \/ RefuseByPolicy
  \/ BeginExecution
  \/ FinishExecution
  \/ Tick
  \/ LoseStream

Spec == Init /\ [][Next]_vars

(***************************************************************************)
(* Fairness.  The agent's loops and the backend's loops are asyncio tasks  *)
(* that run while their process does; executing a command ends, since every *)
(* external call in it has a timeout; the agent reconnects for ever        *)
(* (run_forever).  A stream whose server loop is gone is noticed by the    *)
(* agent's pings, and a close that has begun commits or fails.  Nothing    *)
(* makes a stream break, a caller issue a command, or the backend crash.                                                   *)
(***************************************************************************)
Heartbeat == /\ Tick
             /\ \E k \in Stream : /\ up'[k] # up[k]
                                  /\ up'[k][Len(up'[k])].type = "heartbeat"

FairSpec ==
  /\ Spec
  /\ \A k \in Stream : WF_vars(Authenticate(k)) /\ WF_vars(OpenStream(k))
                         /\ WF_vars(ReceiveFrame(k))
  /\ WF_vars(RefuseExpired \/ ReplayResult \/ RefuseByPolicy \/ BeginExecution)
  /\ WF_vars(FinishExecution)
  /\ WF_vars(Heartbeat)
  /\ \A k \in Stream : WF_vars(FinishClose(k) \/ FailClose(k))
  /\ WF_vars(LoseStream /\ row[conn] \in {"closed", "orphan"})

-----------------------------------------------------------------------------
(* Properties *)

\* What the backend reports is what the agent did: a succeeded command ran to
\* success on the node, a failed one failed there or came too late
\* (record_command_result believes any result frame).
OutcomeIsExplained ==
  \A c \in Command :
    /\ status[c] = "succeeded" => store[c] = "ok"
    /\ status[c] = "failed" => store[c] = "fail" \/ c <= old

\* However often a command is sent again, it runs to its end at most once
\* (CommandDispatcher.handle and its result store).
RunsToItsEndOnce == \A c \in Command : ran[c] <= 1

\* The close of one stream takes the node offline only when no other stream is
\* served: what the count in close_stream_session is for.  The code does not keep
\* it: README, section 10.
GoesOfflineOnlyUnserved ==
  [][node = "healthy" /\ node' = "offline" => \A k \in Stream : row'[k] # "open"]_vars

\* How far the code keeps it, over the overlap of a reconnect with the old
\* stream's end: a stream that is served as the node goes offline was opened after
\* the closing one had counted, and before it committed.
OfflineMissesOnlyTheLate ==
  [][node = "healthy" /\ node' = "offline"
       => \E k \in Stream : \A j \in Stream : row'[j] = "open" => j \in late[k]]_vars

\* A queued command does not wait for ever, and one whose frame was lost is sent
\* again: once streams stay up, the agent takes up everything that is pending.
PendingIsTakenUp ==
  \A c \in Command : status[c] \in {"queued", "dispatched"}
                      ~> status[c] \notin {"queued", "dispatched"}

\* The promise of CommandOutcome, kept across every loss, repeat and restart.
OutcomeOf(c) == IF busy = c THEN "executing" ELSE store[c]

Promise == INSTANCE CommandOutcome
             WITH outcome <- [c \in Command |-> OutcomeOf(c)],
                  reported <- {c \in Command : status[c] = "succeeded"}

OutcomePromise == Promise!Spec

\* The life of the rows that CommandLife allows: nothing is recorded of, or done
\* to, a command that waits in the queue, though its frame may be out when the
\* transaction that sent it is rolled back.
Life == INSTANCE CommandLife WITH life <- status

LifePromise == Life!Spec

\* The inductive invariant behind these.  A frame under way is about a command
\* that was sent, and a result says what the agent has stored, or refuses what is
\* too old; the command being executed is undecided, and what is undecided has not
\* run to its end.
WasSent(c) == status[c] \notin {"unissued", "queued"}

Agrees(f) ==
  /\ f.type \in {"ack", "progress", "result"} => f.cmd \in Command /\ WasSent(f.cmd)
  /\ f.type = "result" => /\ f.ok => store[f.cmd] = "ok"
                          /\ ~f.ok => store[f.cmd] = "fail" \/ f.cmd <= old

FramesAgree == \A k \in Stream : \A i \in 1..Len(up[k]) : Agrees(up[k][i])
BusyIsUndecided == busy # None => store[busy] = "none"
UndecidedNeverEnded == \A c \in Command : store[c] = "none" => ran[c] = 0

\* What the agent holds of a live stream, and a reaper's pass, were sent; a stream
\* whose transaction was rolled back after the send is not live.
ConnectionAgrees ==
  /\ conn = None => busy = None
  /\ conn # None => row[conn] \notin {"none", "opening"}

Live == conn # None /\ row[conn] = "open"

LiveWasSent ==
  Live => /\ busy # None => WasSent(busy)
          /\ \A i \in 1..Len(down) : WasSent(down[i].cmd)

ReapWasSent == \A w \in Worker : \A c \in reap[w] : WasSent(c)

\* What is served while a stream counted as the last one closes came after it.
LateAgrees ==
  \A k, j \in Stream : row[k] = "closingLast" /\ row[j] = "open" => j \in late[k]

\* Nothing is unread on a stream without a loop, and on a live one what says that
\* a command has begun is followed by its result, unless the agent is still at it.
UnservedIsSilent == \A k \in Stream : row[k] # "open" => up[k] = <<>>

Followed(frames, i, doing) ==
  LET c == frames[i].cmd IN
  c # None /\ frames[i].type # "result"
    => \/ doing = c
       \/ \E j \in 1..Len(frames) : /\ j > i
                                    /\ frames[j].cmd = c /\ frames[j].type = "result"

BegunIsFollowed == Live => \A i \in 1..Len(up[conn]) : Followed(up[conn], i, busy)

IInv ==
  /\ TypeOK
  /\ ConnectionAgrees
  /\ LiveWasSent
  /\ ReapWasSent
  /\ FramesAgree
  /\ OutcomeIsExplained
  /\ BusyIsUndecided
  /\ UndecidedNeverEnded
  /\ RunsToItsEndOnce
  /\ LateAgrees
  /\ UnservedIsSilent
  /\ BegunIsFollowed

\* What list_dispatchable_commands says of re-sending: "Safe to re-send because
\* the agent deduplicates: an already-executed command is replayed from its
\* persisted result store."
SuccessIsNotReportedFailed ==
  \A c \in Command : store[c] = "ok" => status[c] # "failed"

\* How far the code keeps it: within the agent's freshness bound.
OnlyTheOldIsMisreported ==
  \A c \in Command : store[c] = "ok" /\ status[c] = "failed" => c <= old

\* What the comment on _REAPER_OFFLINE_GRACE_SEC says: a reconnect re-dispatches
\* the command "so a node that was briefly unreachable loses no work".  Some
\* party of a live stream must still hold a command that is acked or running.
\* The code does not keep it: README, section 10.
HeldSomewhere(c) ==
  \/ busy = c
  \/ \E i \in DOMAIN down : down[i].cmd = c
  \/ \E k \in Stream : row[k] = "open" /\ \E i \in DOMAIN up[k] : up[k][i].cmd = c

Adrift(c) == Live /\ status[c] \in {"acked", "running"} /\ ~HeldSomewhere(c)

BrieflyUnreachableLosesNoWork == \A c \in Command : ~Adrift(c)

\* How far the code keeps it: work is lost when a stream opens, or when a frame
\* is read, or dropped, that the agent sent on a stream it has left.  The stream
\* that is live loses none, whatever it carries.
Reconnecting ==
  \/ \E k \in Stream : row[k] = "opening" /\ row'[k] = "open"
  \/ \E k \in Stream \ {conn} : up'[k] # up[k]

OnlyReconnectsLoseWork ==
  [][\A c \in Command : Adrift(c)' => Adrift(c) \/ Reconnecting]_vars

\* What close_stream_session says: "Mark the node offline when its only stream
\* disconnects."  The code does not keep it: README, section 10.
OfflineWhenLastStreamEnds ==
  (\E k \in Stream : row[k] # "none") /\ (\A k \in Stream : row[k] # "open")
    => node = "offline"

\* What reap_stale_commands says: "Only OFFLINE nodes are reaped: a command on a
\* connected node past its timeout may be legitimately long".  The code does not
\* keep it: README, section 10.
ConnectedNodeIsNotReaped ==
  [][\A c \in Command :
       status[c] # "timed_out" /\ status'[c] = "timed_out"
         => \A k \in Stream : row[k] # "open"]_vars
=============================================================================
