-------------------------- MODULE NodeCommandsProofs --------------------------
(***************************************************************************)
(* Machine-checked facts about NodeCommands, for any number of commands,   *)
(* streams, keys and crashes, and for channels of any length: the          *)
(* invariants, how far two claims of the source that fail are kept, and    *)
(* that NodeCommands implements CommandOutcome and CommandLife.            *)
(***************************************************************************)
EXTENDS NodeCommands, FiniteSetTheorems, SequenceTheorems, TLAPS

-----------------------------------------------------------------------------
(* Operators *)

\* A batch of commands in order of issue is a sequence of items.
LEMMA BatchIsSequence ==
  ASSUME NEW S \in SUBSET Command, NEW b \in InOrder(S), NEW re \in BOOLEAN
  PROVE  Items(b, re) \in Seq(Item)
<1>1. NumCommands \in Nat
  BY ParametersAssumption
<1>2. IsFiniteSet(1..NumCommands)
  BY <1>1, FS_Interval
<1>3. IsFiniteSet(S)
  BY <1>2, FS_Subset DEF Command
<1>4. Cardinality(S) \in Nat
  BY <1>3, FS_CardinalityType
<1>5. b \in [1..Cardinality(S) -> S]
  BY DEF InOrder
<1>6. Len(b) = Cardinality(S)
  BY <1>4, <1>5
<1>7. \A i \in 1..Len(b) : [cmd |-> b[i], re |-> re] \in Item
  BY <1>5, <1>6 DEF Item
<1> QED
  BY <1>4, <1>6, <1>7 DEF Items

\* An element of a concatenation comes from one of its parts.
LEMMA ConcatElement ==
  ASSUME NEW s \in Seq(Item), NEW t \in Seq(Item), NEW i \in 1..Len(s \o t)
  PROVE  \/ i \in 1..Len(s) /\ (s \o t)[i] = s[i]
         \/ i - Len(s) \in 1..Len(t) /\ (s \o t)[i] = t[i - Len(s)]
<1>1. Len(s) \in Nat /\ Len(t) \in Nat /\ Len(s \o t) = Len(s) + Len(t)
  OBVIOUS
<1>2. CASE i <= Len(s)
  BY <1>1, <1>2
<1>3. CASE i > Len(s)
  BY <1>1, <1>3
<1> QED
  BY <1>1, <1>2, <1>3

\* The items of a batch are about its commands.
LEMMA BatchItems ==
  ASSUME NEW S \in SUBSET Command, NEW b \in InOrder(S), NEW re \in BOOLEAN,
         NEW i \in 1..Len(Items(b, re))
  PROVE  Items(b, re)[i].cmd \in S
<1>1. NumCommands \in Nat
  BY ParametersAssumption
<1>2. IsFiniteSet(S)
  <2>1. IsFiniteSet(1..NumCommands)
    BY <1>1, FS_Interval
  <2> QED
    BY <2>1, FS_Subset DEF Command
<1>3. Cardinality(S) \in Nat
  BY <1>2, FS_CardinalityType
<1>4. b \in [1..Cardinality(S) -> S] /\ Len(b) = Cardinality(S)
  BY <1>3 DEF InOrder
<1>5. Len(Items(b, re)) = Len(b)
  BY <1>3, <1>4 DEF Items
<1>6. Items(b, re)[i] = [cmd |-> b[i], re |-> re]
  BY <1>5 DEF Items
<1> QED
  BY <1>4, <1>5, <1>6

\* Recording a frame, and dispatching what is pending, leaves a status map.
LEMMA RecordedType ==
  ASSUME TypeOK, NEW f \in Frame
  PROVE  /\ Recorded(f) \in [Command -> Status]
         /\ Dispatched(Recorded(f)) \in [Command -> Status]
         /\ Pending(Recorded(f)) \in SUBSET Command
<1>1. status \in [Command -> Status]
  BY DEF TypeOK
<1>2. Recorded(f) \in [Command -> Status]
  BY <1>1 DEF Recorded, Status, InFlight, Terminal
<1> QED
  BY <1>2 DEF Dispatched, Pending, Status, InFlight

\* What a loop sends after a frame keeps the channel a sequence of items.
LEMMA SendPendingType ==
  ASSUME TypeOK, NEW k \in Stream, NEW st, Pending(st) \in SUBSET Command,
         SendPending(k, st)
  PROVE  down' \in Seq(Item)
<1>1. CASE conn = k
  <2>1. PICK b \in InOrder(Pending(st)) : down' = down \o Items(b, FALSE)
    BY <1>1 DEF SendPending
  <2>2. Items(b, FALSE) \in Seq(Item)
    BY BatchIsSequence
  <2>3. down \in Seq(Item)
    BY DEF TypeOK
  <2>4. down \o Items(b, FALSE) \in Seq(Item)
    BY <2>2, <2>3, ConcatProperties
  <2> QED
    BY <2>1, <2>4
<1>2. CASE conn # k
  BY <1>2 DEF SendPending, TypeOK
<1> QED
  BY <1>1, <1>2

\* The agent's sends keep every channel a sequence of frames.
LEMMA SendType ==
  ASSUME TypeOK, NEW fs \in Seq(Frame), Send(fs)
  PROVE  up' \in [Stream -> Seq(Frame)]
<1>1. CASE conn \in Stream
  <2>1. up[conn] \o fs \in Seq(Frame)
    BY <1>1 DEF TypeOK
  <2> QED
    BY <2>1 DEF Send, TypeOK
<1>2. CASE conn \notin Stream
  BY <1>2 DEF Send, TypeOK
<1> QED
  BY <1>1, <1>2

LEMMA FrameTypes ==
  ASSUME NEW c \in Command, NEW ok \in BOOLEAN
  PROVE  /\ Ack(c) \in Frame /\ Progress(c) \in Frame /\ Result(c, ok) \in Frame
         /\ <<Result(c, ok)>> \in Seq(Frame)
         /\ <<Progress(c)>> \in Seq(Frame)
         /\ <<Ack(c), Result(c, ok)>> \in Seq(Frame)
         /\ <<Ack(c), Progress(c)>> \in Seq(Frame)
<1>1. Ack(c) \in Frame /\ Progress(c) \in Frame /\ Result(c, ok) \in Frame
  BY DEF Ack, Progress, Result, Frame
<1> QED
  BY <1>1

\* The agent's next item is an item of a command, and the rest stays a sequence.
LEMMA NextItemType ==
  ASSUME TypeOK, NEW i, NextItem(i)
  PROVE  /\ i \in Item /\ i.cmd \in Command
         /\ conn \in Stream /\ busy = None
         /\ down' \in Seq(Item)
<1>1. down \in Seq(Item) /\ down # <<>> /\ i = Head(down) /\ down' = Tail(down)
  BY DEF NextItem, TypeOK
<1>2. i \in Item /\ down' \in Seq(Item)
  BY <1>1
<1> QED
  BY <1>2 DEF Item, NextItem, TypeOK

-----------------------------------------------------------------------------
(* Type correctness *)

LEMMA TypeInit == Init => TypeOK
<1> SUFFICES ASSUME Init PROVE TypeOK
  OBVIOUS
<1>1. NumCommands \in Nat \ {0} /\ MaxCrash \in Nat
  BY ParametersAssumption
<1> QED
  BY <1>1 DEF Init, TypeOK, Command, Stream, None, Status

\* An agent that takes an item and sends frames keeps the channels' types.
LEMMA HandleType ==
  ASSUME TypeOK, NEW i, NextItem(i), NEW fs \in Seq(Frame), Send(fs)
  PROVE  down' \in Seq(Item) /\ up' \in [Stream -> Seq(Frame)]
BY NextItemType, SendType

LEMMA TypeStep == TypeOK /\ [Next]_vars => TypeOK'
<1> SUFFICES ASSUME TypeOK, [Next]_vars PROVE TypeOK'
  OBVIOUS
<1>1. ASSUME NEW k \in Key, IssueCommand(k) PROVE TypeOK'
  BY <1>1 DEF IssueCommand, agent, TypeOK, Status
<1>2. CASE PassFreshnessBound
  BY <1>2, ParametersAssumption DEF PassFreshnessBound, backend, agent, TypeOK
<1>3. ASSUME NEW k \in Stream, OpenStream(k) PROVE TypeOK'
  <2>1. ASSUME down' # down PROVE down' \in Seq(Item)
    <3>1. PICK overdue \in SUBSET Command :
             \E fresh \in InOrder(Pending(status)), again \in InOrder(overdue) :
               down' = Items(fresh, FALSE) \o Items(again, TRUE)
      BY <1>3, <2>1 DEF OpenStream
    <3>2. PICK fresh \in InOrder(Pending(status)), again \in InOrder(overdue) :
             down' = Items(fresh, FALSE) \o Items(again, TRUE)
      BY <3>1
    <3>3. Items(fresh, FALSE) \in Seq(Item) /\ Items(again, TRUE) \in Seq(Item)
      BY BatchIsSequence DEF Pending
    <3> QED
      BY <3>2, <3>3, ConcatProperties
  <2>2. status' \in [Command -> Status]
    BY <1>3 DEF OpenStream, Dispatched, TypeOK, Status, InFlight
  <2> QED
    BY <1>3, <2>1, <2>2 DEF OpenStream, TypeOK
<1>4. ASSUME NEW k \in Stream, ReceiveFrame(k) PROVE TypeOK'
  <2>1. Head(up[k]) \in Frame /\ Tail(up[k]) \in Seq(Frame)
    BY <1>4 DEF ReceiveFrame, TypeOK
  <2>2. status' \in [Command -> Status]
    BY <1>4, <2>1, RecordedType DEF ReceiveFrame
  <2>3. down' \in Seq(Item)
    BY <1>4, <2>1, RecordedType, SendPendingType DEF ReceiveFrame
  <2>4. up' \in [Stream -> Seq(Frame)]
    BY <1>4, <2>1 DEF ReceiveFrame, TypeOK
  <2> QED
    BY <1>4, <2>2, <2>3, <2>4 DEF ReceiveFrame, TypeOK
<1>5. ASSUME NEW k \in Stream, FailFrame(k) PROVE TypeOK'
  <2>1. Head(up[k]) \in Frame
    BY <1>5 DEF FailFrame, TypeOK
  <2>2. down' \in Seq(Item)
    BY <1>5, <2>1, RecordedType, SendPendingType DEF FailFrame, TypeOK
  <2> QED
    BY <1>5, <2>2 DEF FailFrame, agent, TypeOK
<1>6. ASSUME NEW k \in Stream, BeginClose(k) \/ FinishClose(k) \/ FailClose(k)
      PROVE  TypeOK'
  BY <1>6 DEF BeginClose, FinishClose, FailClose, agent, TypeOK
<1>7. CASE BackendCrash
  <2>1. PICK gone \in SUBSET Stream, dead \in SUBSET Worker :
          /\ row' = [k \in Stream |->
                CASE k \in gone /\ row[k] \in {"open", "closing", "closingLast"} -> "orphan"
                  [] k \in gone /\ row[k] = "opening" -> "closed"
                  [] OTHER -> row[k]]
          /\ late' = [k \in Stream |-> IF k \in gone THEN {} ELSE late[k]]
          /\ up' = [k \in Stream |-> IF k \in gone THEN <<>> ELSE up[k]]
          /\ reap' = [w \in Worker |-> IF w \in dead THEN {} ELSE reap[w]]
    BY <1>7 DEF BackendCrash
  <2>2. late' \in [Stream -> SUBSET Stream] /\ up' \in [Stream -> Seq(Frame)]
        /\ reap' \in [Worker -> SUBSET Command]
    BY <2>1 DEF TypeOK
  <2>3. row' \in [Stream -> {"none", "opening", "open", "closing", "closingLast",
                              "closed", "orphan"}]
    BY <2>1 DEF TypeOK
  <2>4. crashes' \in 0..MaxCrash
    BY <1>7, ParametersAssumption DEF BackendCrash, TypeOK
  <2> QED
    BY <1>7, <2>2, <2>3, <2>4 DEF BackendCrash, agent, TypeOK
<1>8. ASSUME NEW w \in Worker, ReapScan(w) PROVE TypeOK'
  BY <1>8 DEF ReapScan, agent, TypeOK
<1>9. ASSUME NEW w \in Worker, ReapCommit(w) PROVE TypeOK'
  BY <1>9 DEF ReapCommit, agent, TypeOK, Status, Terminal
<1>10. CASE RefuseExpired
  <2>1. down' \in Seq(Item) /\ up' \in [Stream -> Seq(Frame)]
    <3>1. PICK i \in Item : NextItem(i) /\ Send(<<Result(i.cmd, FALSE)>>)
      BY <1>10 DEF RefuseExpired
    <3>2. <<Result(i.cmd, FALSE)>> \in Seq(Frame)
      BY <3>1, NextItemType, FrameTypes
    <3> QED
      BY <3>1, <3>2, HandleType
  <2> QED
    BY <1>10, <2>1 DEF RefuseExpired, backend, agent, TypeOK
<1>11. CASE ReplayResult
  <2>1. down' \in Seq(Item) /\ up' \in [Stream -> Seq(Frame)]
    <3>1. PICK i \in Item : NextItem(i) /\ Send(<<Ack(i.cmd), Result(i.cmd, store[i.cmd] = "ok")>>)
      BY <1>11 DEF ReplayResult
    <3>2. <<Ack(i.cmd), Result(i.cmd, store[i.cmd] = "ok")>> \in Seq(Frame)
      BY <3>1, NextItemType, FrameTypes
    <3> QED
      BY <3>1, <3>2, HandleType
  <2> QED
    BY <1>11, <2>1 DEF ReplayResult, backend, agent, TypeOK
<1>12. CASE RefuseByPolicy
  <2>1. down' \in Seq(Item) /\ up' \in [Stream -> Seq(Frame)]
    <3>1. PICK i \in Item : NextItem(i) /\ Send(<<Ack(i.cmd), Result(i.cmd, FALSE)>>)
      BY <1>12 DEF RefuseByPolicy
    <3>2. <<Ack(i.cmd), Result(i.cmd, FALSE)>> \in Seq(Frame)
      BY <3>1, NextItemType, FrameTypes
    <3> QED
      BY <3>1, <3>2, HandleType
  <2>2. PICK i \in Item : store' = [store EXCEPT ![i.cmd] = "fail"]
    BY <1>12 DEF RefuseByPolicy
  <2>3. store' \in [Command -> {"none", "ok", "fail"}]
    BY <2>2 DEF TypeOK
  <2> QED
    BY <1>12, <2>1, <2>3 DEF RefuseByPolicy, backend, TypeOK
<1>13. CASE BeginExecution
  <2>1. down' \in Seq(Item) /\ up' \in [Stream -> Seq(Frame)]
    <3>1. PICK i \in Item : NextItem(i) /\ Send(<<Ack(i.cmd), Progress(i.cmd)>>)
      BY <1>13 DEF BeginExecution
    <3>2. <<Ack(i.cmd), Progress(i.cmd)>> \in Seq(Frame)
      BY <3>1, NextItemType, FrameTypes
    <3> QED
      BY <3>1, <3>2, HandleType
  <2>2. busy' \in Command
    BY <1>13, NextItemType DEF BeginExecution
  <2> QED
    BY <1>13, <2>1, <2>2 DEF BeginExecution, backend, TypeOK
<1>14. CASE FinishExecution
  <2>1. PICK ok \in BOOLEAN :
          /\ store' = [store EXCEPT ![busy] = IF ok THEN "ok" ELSE "fail"]
          /\ Send(<<Result(busy, ok)>>)
    BY <1>14 DEF FinishExecution
  <2>2. busy \in Command
    BY <1>14 DEF FinishExecution, TypeOK
  <2>3. up' \in [Stream -> Seq(Frame)]
    BY <2>1, <2>2, FrameTypes, SendType
  <2>4. store' \in [Command -> {"none", "ok", "fail"}]
    BY <2>1 DEF TypeOK
  <2>5. ran' \in [Command -> Nat] /\ busy' \in Command \cup {None}
    BY <1>14, <2>2 DEF FinishExecution, TypeOK
  <2> QED
    BY <1>14, <2>3, <2>4, <2>5 DEF FinishExecution, backend, TypeOK
<1>15. CASE Tick
  <2>1. PICK f \in Frame : Send(<<f>>)
    <3>1. ASSUME NEW t \in {"heartbeat", "other"}
          PROVE  [type |-> t, cmd |-> None, ok |-> TRUE] \in Frame
      BY DEF Frame
    <3>2. busy # None => Progress(busy) \in Frame
      BY FrameTypes DEF TypeOK
    <3> QED
      BY <1>15, <3>1, <3>2 DEF Tick
  <2>2. <<f>> \in Seq(Frame)
    BY <2>1
  <2>3. up' \in [Stream -> Seq(Frame)]
    BY <2>1, <2>2, SendType
  <2> QED
    BY <1>15, <2>3 DEF Tick, backend, agent, TypeOK
<1>16. CASE LoseStream
  <2>1. PICK n \in 0..Len(up[conn]) : up' = [up EXCEPT ![conn] = SubSeq(@, 1, n)]
    BY <1>16 DEF LoseStream
  <2>2. up[conn] \in Seq(Frame)
    BY <1>16 DEF LoseStream, TypeOK
  <2>3. SubSeq(up[conn], 1, n) \in Seq(Frame)
    BY <2>2
  <2>4. up' \in [Stream -> Seq(Frame)]
    BY <2>1, <2>3 DEF TypeOK
  <2>5. store' \in [Command -> {"none", "ok", "fail"}]
    BY <1>16 DEF LoseStream, TypeOK
  <2> QED
    BY <1>16, <2>4, <2>5 DEF LoseStream, backend, TypeOK
<1>17. CASE UNCHANGED vars
  BY <1>17 DEF vars, TypeOK
<1>18. ASSUME NEW k \in Stream, Authenticate(k) PROVE TypeOK'
  BY <1>18 DEF Authenticate, agent, TypeOK
<1>19. ASSUME NEW k \in Stream, AbortOpening(k) PROVE TypeOK'
  BY <1>19 DEF AbortOpening, agent, TypeOK
<1>20. ASSUME NEW c \in Command, LookUp(c) PROVE TypeOK'
  BY <1>20 DEF LookUp, agent, TypeOK
<1> QED
  BY <1>20, <1>1, <1>2, <1>3, <1>4, <1>5, <1>6, <1>7, <1>8, <1>9, <1>10, <1>11, <1>12,
     <1>13, <1>14, <1>15, <1>16, <1>17, <1>18, <1>19 DEF Next

-----------------------------------------------------------------------------
(* Preservation of the inductive invariant *)

\* A decided outcome stays, time only passes, and what is being executed is
\* undecided.
Decided == /\ \A c \in Command : store[c] # "none" => store'[c] = store[c]
           /\ \A c \in Command : c <= old => c <= old'

LEMMA StoreStep ==
  TypeOK /\ BusyIsUndecided /\ [Next]_vars => Decided /\ BusyIsUndecided'
<1> SUFFICES ASSUME TypeOK, BusyIsUndecided, [Next]_vars
             PROVE  Decided /\ BusyIsUndecided'
  OBVIOUS
<1> USE DEF Decided, BusyIsUndecided
<1>1. CASE UNCHANGED <<busy, store, old>>
  BY <1>1
<1>2. CASE PassFreshnessBound
  <2>1. UNCHANGED <<busy, store>> /\ old' = old + 1
    BY <1>2 DEF PassFreshnessBound, agent
  <2>2. \A c \in Command : c <= old => c <= old'
    BY <2>1, ParametersAssumption DEF TypeOK, Command
  <2> QED
    BY <2>1, <2>2
<1>3. CASE RefuseByPolicy
  <2>1. PICK i \in Item : NextItem(i) /\ store[i.cmd] = "none"
                          /\ store' = [store EXCEPT ![i.cmd] = "fail"]
                          /\ UNCHANGED <<busy, old>>
    BY <1>3 DEF RefuseByPolicy
  <2>2. busy = None
    BY <2>1 DEF NextItem
  <2> QED
    BY <2>1, <2>2 DEF TypeOK
<1>4. CASE BeginExecution
  <2>1. PICK i \in Item : store[i.cmd] = "none" /\ busy' = i.cmd
                          /\ UNCHANGED <<store, old>>
    BY <1>4 DEF BeginExecution
  <2> QED
    BY <2>1
<1>5. CASE FinishExecution
  <2>1. PICK o \in {"ok", "fail"} : store' = [store EXCEPT ![busy] = o]
    BY <1>5 DEF FinishExecution
  <2>2. busy # None /\ busy' = None /\ old' = old
    BY <1>5 DEF FinishExecution
  <2> QED
    BY <2>1, <2>2 DEF TypeOK
<1>6. CASE LoseStream
  <2>1. busy' = None /\ old' = old
    BY <1>6 DEF LoseStream
  <2>2. \/ store' = store
        \/ busy # None /\ store' = [store EXCEPT ![busy] = "fail"]
    BY <1>6 DEF LoseStream
  <2> QED
    BY <2>1, <2>2 DEF TypeOK
<1> QED
  BY <1>1, <1>2, <1>3, <1>4, <1>5, <1>6
     DEF Next, vars, backend, agent, LookUp, IssueCommand, Authenticate, OpenStream,
         AbortOpening, ReceiveFrame, FailFrame, BeginClose, FinishClose, FailClose,
         BackendCrash, ReapScan, ReapCommit, RefuseExpired, ReplayResult, Tick

\* No step makes an execution end twice, or before its outcome is stored.
LEMMA RanStep ==
  TypeOK /\ BusyIsUndecided /\ UndecidedNeverEnded /\ RunsToItsEndOnce /\ [Next]_vars
    => UndecidedNeverEnded' /\ RunsToItsEndOnce'
<1> SUFFICES ASSUME TypeOK, BusyIsUndecided, UndecidedNeverEnded, RunsToItsEndOnce,
                    [Next]_vars
             PROVE  UndecidedNeverEnded' /\ RunsToItsEndOnce'
  OBVIOUS
<1>1. Decided
  BY StoreStep
<1>2. CASE ran' = ran
  <2>1. \A c \in Command : store'[c] = "none" => store[c] = "none"
    BY <1>1 DEF Decided
  <2> QED
    BY <1>2, <2>1 DEF UndecidedNeverEnded, RunsToItsEndOnce
<1>3. CASE FinishExecution
  <2>1. PICK o \in {"ok", "fail"} : store' = [store EXCEPT ![busy] = o]
    BY <1>3 DEF FinishExecution
  <2>2. busy \in Command /\ ran' = [ran EXCEPT ![busy] = @ + 1]
    BY <1>3 DEF FinishExecution, TypeOK
  <2>3. ran[busy] = 0
    BY <2>2 DEF BusyIsUndecided, UndecidedNeverEnded, Command, None
  <2> QED
    BY <2>1, <2>2, <2>3 DEF UndecidedNeverEnded, RunsToItsEndOnce, TypeOK
<1> QED
  BY <1>2, <1>3
     DEF Next, vars, backend, agent, LookUp, IssueCommand, PassFreshnessBound,
         Authenticate, OpenStream, AbortOpening, ReceiveFrame, FailFrame, BeginClose,
         FinishClose, FailClose, BackendCrash, ReapScan, ReapCommit, RefuseExpired,
         ReplayResult, RefuseByPolicy, BeginExecution, Tick, LoseStream

\* Dispatching and recording put nothing back into the queue.
LEMMA DispatchedWasSent ==
  ASSUME NEW st \in [Command -> Status], NEW c \in Command
  PROVE  /\ Dispatched(st)[c] # "queued"
         /\ Dispatched(st)[c] = "unissued" => st[c] = "unissued"
         /\ st[c] \notin {"unissued", "queued"} => Dispatched(st)[c] = st[c]
BY DEF Dispatched

LEMMA RecordedWasSent ==
  ASSUME TypeOK, NEW f \in Frame, NEW c \in Command, WasSent(c)
  PROVE  Recorded(f)[c] \notin {"unissued", "queued"}
<1>1. Recorded(f)[c] \in {"acked", "running", "succeeded", "failed", status[c]}
  BY DEF Recorded, TypeOK, Frame
<1> QED
  BY <1>1 DEF WasSent

\* No step puts a row back into the queue.
LEMMA SentStays ==
  ASSUME TypeOK, [Next]_vars, NEW c \in Command, WasSent(c)
  PROVE  WasSent(c)'
<1> USE DEF WasSent
<1>0. status \in [Command -> Status]
  BY DEF TypeOK
<1>1. CASE UNCHANGED status
  BY <1>1
<1>2. ASSUME NEW k \in Key, IssueCommand(k) PROVE WasSent(c)'
  BY <1>0, <1>2 DEF IssueCommand
<1>3. ASSUME NEW k \in Stream, OpenStream(k) PROVE WasSent(c)'
  BY <1>0, <1>3, DispatchedWasSent DEF OpenStream
<1>4. ASSUME NEW k \in Stream, ReceiveFrame(k) PROVE WasSent(c)'
  <2>1. Head(up[k]) \in Frame
    BY <1>4 DEF ReceiveFrame, TypeOK
  <2> QED
    BY <1>4, <2>1, RecordedWasSent, RecordedType, DispatchedWasSent DEF ReceiveFrame
<1>5. ASSUME NEW w \in Worker, ReapCommit(w) PROVE WasSent(c)'
  BY <1>5 DEF ReapCommit
<1> QED
  BY <1>1, <1>2, <1>3, <1>4, <1>5
     DEF Next, vars, backend, LookUp, PassFreshnessBound, Authenticate, AbortOpening,
         FailFrame, BeginClose, FinishClose, FailClose, BackendCrash, ReapScan,
         RefuseExpired, ReplayResult, RefuseByPolicy, BeginExecution, FinishExecution,
         Tick, LoseStream

\* What was agreed before a step is agreed after it.
LEMMA AgreesStep ==
  ASSUME TypeOK, BusyIsUndecided, [Next]_vars, NEW f, Agrees(f)
  PROVE  Agrees(f)'
<1>1. Decided
  BY StoreStep
<1>2. f.cmd \in Command /\ WasSent(f.cmd) => WasSent(f.cmd)'
  BY SentStays
<1> QED
  BY <1>1, <1>2 DEF Agrees, Decided

\* A step that only takes or loses frames keeps the agreement, and so does one
\* that adds frames that agree.
LEMMA FramesKept ==
  ASSUME TypeOK, BusyIsUndecided, FramesAgree, [Next]_vars,
         \A k \in Stream : \A i \in 1..Len(up'[k]) :
           \/ \E j \in 1..Len(up[k]) : up'[k][i] = up[k][j]
           \/ Agrees(up[k][i])'
  PROVE  FramesAgree'
<1> SUFFICES ASSUME NEW k \in Stream, NEW i \in 1..Len(up'[k]),
                    NEW j \in 1..Len(up[k]), up'[k][i] = up[k][j]
             PROVE  Agrees(up[k][i])'
  BY DEF FramesAgree
<1>1. PICK f : f = up[k][j]
  OBVIOUS
<1>2. Agrees(f)
  BY <1>1 DEF FramesAgree
<1>3. Agrees(f)'
  BY <1>2, AgreesStep
<1>4. up'[k][i] = f
  BY <1>1
<1> QED
  BY <1>3, <1>4 DEF Agrees

LEMMA SendKeeps ==
  ASSUME TypeOK, BusyIsUndecided, FramesAgree, [Next]_vars,
         NEW fs \in Seq(Frame), Send(fs),
         row[conn] = "open" => \A i \in 1..Len(fs) : Agrees(fs[i])'
  PROVE  FramesAgree'
<1> SUFFICES ASSUME NEW k \in Stream, NEW i \in 1..Len(up'[k])
             PROVE  \/ \E j \in 1..Len(up[k]) : up'[k][i] = up[k][j]
                    \/ Agrees(up[k][i])'
  BY FramesKept
<1>1. up[k] \in Seq(Frame)
  BY DEF TypeOK
<1>2. CASE up'[k] = up[k]
  BY <1>2
<1>3. CASE row[conn] = "open" /\ up'[k] = up[k] \o fs
  <2>1. Len(up'[k]) = Len(up[k]) + Len(fs)
    BY <1>1, <1>3
  <2>2. CASE i <= Len(up[k])
    BY <1>1, <1>3, <2>2
  <2>3. CASE i > Len(up[k])
    <3>1. i - Len(up[k]) \in 1..Len(fs) /\ up'[k][i] = fs[i - Len(up[k])]
      BY <1>1, <1>3, <2>1, <2>3
    <3>2. PICK f : f = fs[i - Len(up[k])]
      OBVIOUS
    <3>3. Agrees(f)'
      BY <1>3, <3>1, <3>2 DEF Agrees
    <3> QED
      BY <3>1, <3>2, <3>3 DEF Agrees
  <2> QED
    BY <2>2, <2>3, <1>1
<1> QED
  BY <1>2, <1>3 DEF Send, TypeOK

LEMMA SendOneKeeps ==
  ASSUME TypeOK, BusyIsUndecided, FramesAgree, [Next]_vars,
         NEW f \in Frame, Send(<<f>>), row[conn] = "open" => Agrees(f)'
  PROVE  FramesAgree'
<1>1. <<f>> \in Seq(Frame) /\ Len(<<f>>) = 1 /\ <<f>>[1] = f
  OBVIOUS
<1>2. row[conn] = "open" => \A i \in 1..Len(<<f>>) : Agrees(<<f>>[i])'
  BY <1>1 DEF Agrees
<1> QED
  BY <1>1, <1>2, SendKeeps

LEMMA SendTwoKeeps ==
  ASSUME TypeOK, BusyIsUndecided, FramesAgree, [Next]_vars,
         NEW f \in Frame, NEW g \in Frame, Send(<<f, g>>),
         row[conn] = "open" => Agrees(f)' /\ Agrees(g)'
  PROVE  FramesAgree'
<1>1. /\ <<f, g>> \in Seq(Frame) /\ Len(<<f, g>>) = 2
      /\ <<f, g>>[1] = f /\ <<f, g>>[2] = g
  OBVIOUS
<1>2. row[conn] = "open" => \A i \in 1..Len(<<f, g>>) : Agrees(<<f, g>>[i])'
  BY <1>1 DEF Agrees
<1> QED
  BY <1>1, <1>2, SendKeeps

\* On a live stream the agent's next item is of a command that was sent.
LEMMA NextItemWasSent ==
  ASSUME TypeOK, LiveWasSent, NEW i, NextItem(i), row[conn] = "open", UNCHANGED status
  PROVE  WasSent(i.cmd)'
<1>1. down \in Seq(Item) /\ down # <<>> /\ i = Head(down) /\ conn # None
  BY DEF NextItem, TypeOK
<1>2. 1 \in 1..Len(down) /\ i = down[1]
  BY <1>1
<1>3. WasSent(i.cmd)
  BY <1>1, <1>2 DEF LiveWasSent, Live
<1> QED
  BY <1>3 DEF WasSent

LEMMA BusyWasSent ==
  ASSUME LiveWasSent, ConnectionAgrees, NEW c, c = busy, c # None, row[conn] = "open",
         UNCHANGED status
  PROVE  WasSent(c)'
BY DEF LiveWasSent, ConnectionAgrees, Live, WasSent

LEMMA ConnectionStep ==
  TypeOK /\ ConnectionAgrees /\ [Next]_vars => ConnectionAgrees'
<1> SUFFICES ASSUME TypeOK, ConnectionAgrees, [Next]_vars
             PROVE  ConnectionAgrees'
  OBVIOUS
<1> USE DEF ConnectionAgrees
<1>1. CASE UNCHANGED <<conn, busy, row>>
  BY <1>1
<1>2. ASSUME UNCHANGED <<conn, busy>>,
             NEW k \in Stream,
             NEW r, row' = [row EXCEPT ![k] = r],
             r \notin {"none", "opening"} \/ conn = None
      PROVE  ConnectionAgrees'
  BY <1>2 DEF TypeOK
<1>3. ASSUME NEW k \in Stream, OpenStream(k) PROVE ConnectionAgrees'
  <2>1. CASE UNCHANGED conn
    BY <1>2, <1>3, <2>1 DEF OpenStream
  <2>2. CASE conn = None /\ conn' = k
    BY <1>3, <2>2 DEF OpenStream, TypeOK, Stream, None
  <2> QED
    BY <1>3, <2>1, <2>2 DEF OpenStream
<1>4. CASE BackendCrash
  BY <1>4 DEF BackendCrash, agent, TypeOK
<1>5. CASE RefuseByPolicy
  BY <1>5 DEF RefuseByPolicy, NextItem, backend
<1>6. CASE BeginExecution
  BY <1>6 DEF BeginExecution, NextItem, backend
<1>7. CASE FinishExecution
  BY <1>7 DEF FinishExecution, backend
<1>8. CASE LoseStream
  BY <1>8 DEF LoseStream
<1>9. \A k \in Stream : Authenticate(k) => ConnectionAgrees'
  BY <1>2 DEF Authenticate, agent
<1>10. \A k \in Stream : AbortOpening(k) => ConnectionAgrees'
  BY <1>2 DEF AbortOpening, agent
<1>11. \A k \in Stream : FailFrame(k) => ConnectionAgrees'
  BY <1>2 DEF FailFrame, agent
<1>12. ASSUME NEW k \in Stream, BeginClose(k) \/ FinishClose(k) \/ FailClose(k)
       PROVE  ConnectionAgrees'
  <2>1. UNCHANGED <<conn, busy>>
    BY <1>12 DEF BeginClose, FinishClose, FailClose, agent
  <2>2. PICK q \in {"closing", "closingLast", "closed", "orphan"} :
          row' = [row EXCEPT ![k] = q]
    BY <1>12 DEF BeginClose, FinishClose, FailClose
  <2> QED
    BY <1>2, <2>1, <2>2
<1> QED
  BY <1>1, <1>3, <1>4, <1>5, <1>6, <1>7, <1>8, <1>9, <1>10, <1>11, <1>12
     DEF Next, vars, backend, agent, LookUp, IssueCommand, PassFreshnessBound,
         ReceiveFrame, ReapScan, ReapCommit, RefuseExpired, ReplayResult, Tick

\* What a loop sends after a frame is dispatched in the same transaction.
LEMMA SendPendingWasSent ==
  ASSUME TypeOK, LiveWasSent, [Next]_vars, NEW k \in Stream, ReceiveFrame(k), Live
  PROVE  \A i \in 1..Len(down') : WasSent(down[i].cmd)'
<1> DEFINE f == Head(up[k])
<1>1. f \in Frame /\ status' = Dispatched(Recorded(f)) /\ SendPending(k, Recorded(f))
  BY DEF ReceiveFrame, TypeOK
<1>2. down \in Seq(Item)
  BY DEF TypeOK
<1>3. \A j \in 1..Len(down) : /\ down[j].cmd \in Command
                               /\ status'[down[j].cmd] \notin {"unissued", "queued"}
  <2> SUFFICES ASSUME NEW j \in 1..Len(down)
               PROVE  /\ down[j].cmd \in Command
                      /\ status'[down[j].cmd] \notin {"unissued", "queued"}
    OBVIOUS
  <2>1. PICK c \in Command : c = down[j].cmd
    <3>1. down[j] \in Item
      BY <1>2
    <3> QED
      BY <3>1 DEF Item
  <2>2. WasSent(c)'
    BY <2>1, SentStays DEF LiveWasSent
  <2> QED
    BY <2>1, <2>2 DEF WasSent
<1>4. CASE conn = k
  <2>1. PICK b \in InOrder(Pending(Recorded(f))) : down' = down \o Items(b, FALSE)
    BY <1>1, <1>4 DEF SendPending
  <2>2. Pending(Recorded(f)) \in SUBSET Command /\ Recorded(f) \in [Command -> Status]
    BY <1>1, RecordedType
  <2>3. Items(b, FALSE) \in Seq(Item)
    BY <2>2, BatchIsSequence
  <2>4. ASSUME NEW i \in 1..Len(Items(b, FALSE))
        PROVE  status'[Items(b, FALSE)[i].cmd] = "dispatched"
    BY <1>1, <2>2, <2>4, BatchItems DEF Pending, Dispatched
  <2>5. ASSUME NEW i \in 1..Len(down')
        PROVE  status'[down'[i].cmd] \notin {"unissued", "queued"}
    <3>1. \/ i \in 1..Len(down) /\ down'[i] = down[i]
          \/ \E j \in 1..Len(Items(b, FALSE)) : down'[i] = Items(b, FALSE)[j]
      <4>1. PICK t \in Seq(Item) : t = Items(b, FALSE)
        BY <2>3
      <4>2. down' = down \o t
        BY <2>1, <4>1
      <4> QED
        BY <1>2, <4>1, <4>2, ConcatElement
    <3> QED
      BY <1>3, <2>4, <3>1
  <2> QED
    BY <2>5 DEF WasSent
<1>5. CASE conn # k
  BY <1>1, <1>3, <1>5 DEF SendPending, WasSent
<1> QED
  BY <1>4, <1>5

\* hello_ack carries what its transaction dispatches and what is in flight.
LEMMA HelloWasSent ==
  ASSUME TypeOK, NEW k \in Stream, OpenStream(k), conn' # conn
  PROVE  \A i \in 1..Len(down') : WasSent(down[i].cmd)'
<1>1. PICK overdue \in SUBSET {c \in Command : status[c] \in InFlight} :
        \E fresh \in InOrder(Pending(status)), again \in InOrder(overdue) :
          down' = Items(fresh, FALSE) \o Items(again, TRUE)
  BY DEF OpenStream
<1>2. PICK fresh \in InOrder(Pending(status)), again \in InOrder(overdue) :
        down' = Items(fresh, FALSE) \o Items(again, TRUE)
  BY <1>1
<1>3. overdue \in SUBSET Command /\ Pending(status) \in SUBSET Command
  BY DEF Pending
<1>4. Items(fresh, FALSE) \in Seq(Item) /\ Items(again, TRUE) \in Seq(Item)
  BY <1>3, BatchIsSequence
<1>5. \A c \in Pending(status) \cup overdue : status'[c] \notin {"unissued", "queued"}
  BY <1>3 DEF OpenStream, Dispatched, Pending, InFlight
<1>6. \A i \in 1..Len(Items(fresh, FALSE)) : Items(fresh, FALSE)[i].cmd \in Pending(status)
  BY <1>3, BatchItems
<1>7. \A i \in 1..Len(Items(again, TRUE)) : Items(again, TRUE)[i].cmd \in overdue
  BY <1>3, BatchItems
<1>8. ASSUME NEW i \in 1..Len(down')
      PROVE  down'[i].cmd \in Pending(status) \cup overdue
  <2>1. \/ \E j \in 1..Len(Items(fresh, FALSE)) : down'[i] = Items(fresh, FALSE)[j]
        \/ \E j \in 1..Len(Items(again, TRUE)) : down'[i] = Items(again, TRUE)[j]
    <3>1. PICK s \in Seq(Item), t \in Seq(Item) :
            s = Items(fresh, FALSE) /\ t = Items(again, TRUE)
      BY <1>4
    <3>2. down' = s \o t
      BY <1>2, <3>1
    <3> QED
      BY <3>1, <3>2, ConcatElement
  <2> QED
    BY <1>6, <1>7, <2>1
<1> QED
  BY <1>5, <1>8 DEF WasSent

\* What the agent of a live stream holds goes on being about what was sent.
LEMMA HeldWasSent ==
  ASSUME TypeOK, LiveWasSent, Live, [Next]_vars
  PROVE  /\ busy # None => status'[busy] \notin {"unissued", "queued"}
         /\ \A i \in 1..Len(down) : status'[down[i].cmd] \notin {"unissued", "queued"}
<1>1. ASSUME NEW c \in Command, WasSent(c)
      PROVE  status'[c] \notin {"unissued", "queued"}
  BY <1>1, SentStays DEF WasSent
<1>2. busy # None => busy \in Command /\ WasSent(busy)
  BY DEF LiveWasSent, TypeOK
<1>3. ASSUME NEW i \in 1..Len(down)
      PROVE  down[i].cmd \in Command /\ WasSent(down[i].cmd)
  <2>1. down[i] \in Item
    BY DEF TypeOK
  <2> QED
    BY <2>1 DEF LiveWasSent, Item
<1> QED
  BY <1>1, <1>2, <1>3

LEMMA LiveStep ==
  TypeOK /\ ConnectionAgrees /\ LiveWasSent /\ [Next]_vars => LiveWasSent'
<1> SUFFICES ASSUME TypeOK, ConnectionAgrees, LiveWasSent, [Next]_vars, Live'
             PROVE  /\ busy' # None => status'[busy'] \notin {"unissued", "queued"}
                    /\ \A i \in 1..Len(down') :
                         status'[down'[i].cmd] \notin {"unissued", "queued"}
  BY DEF LiveWasSent, WasSent
<1> DEFINE Goal == /\ busy' # None => status'[busy'] \notin {"unissued", "queued"}
                   /\ \A i \in 1..Len(down') :
                        status'[down'[i].cmd] \notin {"unissued", "queued"}
<1>1. ASSUME Live, busy' \in {busy, None},
             down' = down \/ (down # <<>> /\ down' = Tail(down))
      PROVE  Goal
  <2>1. down \in Seq(Item)
    BY DEF TypeOK
  <2>2. \A i \in 1..Len(down') : \E j \in 1..Len(down) : down'[i] = down[j]
    BY <1>1, <2>1
  <2> QED
    BY <1>1, <2>2, HeldWasSent
<1>2. ASSUME NEW k \in Stream, OpenStream(k) PROVE Goal
  <2>1. CASE conn' = conn
    <3>1. Live /\ down' = down /\ busy' = busy
      BY <1>2, <2>1 DEF OpenStream, Live, ConnectionAgrees, TypeOK, Stream, None
    <3> QED
      BY <1>1, <3>1
  <2>2. CASE conn' # conn
    <3>1. busy' = None
      BY <1>2, <2>2 DEF OpenStream, ConnectionAgrees
    <3>2. \A i \in 1..Len(down') : status'[down'[i].cmd] \notin {"unissued", "queued"}
      BY <1>2, <2>2, HelloWasSent DEF WasSent
    <3> QED
      BY <3>1, <3>2
  <2> QED
    BY <2>1, <2>2
<1>3. ASSUME NEW k \in Stream, ReceiveFrame(k) PROVE Goal
  <2>1. Live /\ busy' = busy
    BY <1>3 DEF ReceiveFrame, Live
  <2>2. \A i \in 1..Len(down') : status'[down'[i].cmd] \notin {"unissued", "queued"}
    BY <1>3, <2>1, SendPendingWasSent DEF WasSent
  <2> QED
    BY <2>1, <2>2, HeldWasSent
<1>4. ASSUME NEW k \in Stream, FailFrame(k) PROVE Goal
  <2>1. conn' = conn /\ row' = [row EXCEPT ![k] = "orphan"] /\ busy' = busy
    BY <1>4 DEF FailFrame, agent
  <2>2. Live /\ conn # k
    BY <2>1 DEF Live, TypeOK
  <2>3. down' = down
    BY <1>4, <2>2 DEF FailFrame, SendPending
  <2> QED
    BY <1>1, <2>1, <2>2, <2>3
<1>5. ASSUME UNCHANGED <<conn, busy, down>>,
             \A l \in Stream : row'[l] = "open" => row[l] = "open"
      PROVE  Goal
  BY <1>1, <1>5 DEF Live, TypeOK
<1>6. ASSUME NEW i, NextItem(i), UNCHANGED <<row, conn>>, busy' \in {busy, i.cmd},
             UNCHANGED status
      PROVE  Goal
  <2>1. down \in Seq(Item) /\ down # <<>> /\ i = Head(down) /\ down' = Tail(down)
    BY <1>6 DEF NextItem, TypeOK
  <2>2. Live
    BY <1>6 DEF Live
  <2>3. 1 \in 1..Len(down) /\ i = down[1]
    BY <2>1
  <2>4. status'[i.cmd] \notin {"unissued", "queued"}
    BY <2>2, <2>3, HeldWasSent
  <2>5. \A j \in 1..Len(down') : \E l \in 1..Len(down) : down'[j] = down[l]
    BY <2>1
  <2> QED
    BY <1>6, <2>2, <2>4, <2>5, HeldWasSent
<1>7. RefuseExpired => Goal
  BY <1>6 DEF RefuseExpired, backend, agent
<1>8. ReplayResult => Goal
  BY <1>6 DEF ReplayResult, backend, agent
<1>9. RefuseByPolicy => Goal
  BY <1>6 DEF RefuseByPolicy, backend
<1>10. BeginExecution => Goal
  BY <1>6 DEF BeginExecution, backend
<1>11. CASE FinishExecution
  BY <1>1, <1>11 DEF FinishExecution, backend, Live
<1>12. ~LoseStream
  BY DEF LoseStream, Live
<1>13. \A k \in Stream : Authenticate(k) => Goal
  BY <1>5 DEF Authenticate, agent, TypeOK
<1>14. \A k \in Stream : AbortOpening(k) => Goal
  BY <1>5 DEF AbortOpening, agent, TypeOK
<1>15. \A k \in Stream : BeginClose(k) \/ FinishClose(k) \/ FailClose(k) => Goal
  BY <1>5 DEF BeginClose, FinishClose, FailClose, agent, TypeOK
<1>16. BackendCrash => Goal
  BY <1>5 DEF BackendCrash, agent
<1>17. UNCHANGED <<conn, busy, down, row>> => Goal
  BY <1>5
<1> QED
  BY <1>2, <1>3, <1>4, <1>7, <1>8, <1>9, <1>10, <1>11, <1>12, <1>13, <1>14, <1>15,
     <1>16, <1>17
     DEF Next, vars, backend, agent, LookUp, IssueCommand, PassFreshnessBound, ReapScan,
         ReapCommit, Tick

\* A pass reads commands in flight, and what was sent stays sent.
LEMMA ReapStep == TypeOK /\ ReapWasSent /\ [Next]_vars => ReapWasSent'
<1> SUFFICES ASSUME TypeOK, ReapWasSent, [Next]_vars, NEW w \in Worker, NEW c \in reap'[w]
             PROVE  WasSent(c)'
  BY DEF ReapWasSent
<1>1. CASE c \in reap[w]
  BY <1>1, SentStays DEF ReapWasSent, TypeOK
<1>2. ASSUME NEW v \in Worker, ReapScan(v), c \notin reap[w] PROVE WasSent(c)'
  BY <1>2 DEF ReapScan, InFlight, WasSent, TypeOK
<1>3. ASSUME BackendCrash PROVE reap'[w] \subseteq reap[w]
  BY <1>3 DEF BackendCrash
<1>4. \A v \in Worker : ReapCommit(v) => reap'[w] \subseteq reap[w]
  BY DEF ReapCommit, TypeOK
<1> QED
  BY <1>1, <1>2, <1>3, <1>4
     DEF Next, vars, backend, LookUp, IssueCommand, PassFreshnessBound, Authenticate,
         OpenStream, AbortOpening, ReceiveFrame, FailFrame, BeginClose, FinishClose,
         FailClose, RefuseExpired, ReplayResult, RefuseByPolicy, BeginExecution,
         FinishExecution, Tick, LoseStream

LEMMA FramesStep ==
  TypeOK /\ ConnectionAgrees /\ LiveWasSent /\ BusyIsUndecided /\ FramesAgree
    /\ [Next]_vars => FramesAgree'
<1> SUFFICES ASSUME TypeOK, ConnectionAgrees, LiveWasSent, BusyIsUndecided, FramesAgree,
                    [Next]_vars
             PROVE  FramesAgree'
  OBVIOUS
<1>1. CASE UNCHANGED up
  BY <1>1, FramesKept
<1>2. ASSUME NEW k \in Stream, up[k] # <<>>, up' = [up EXCEPT ![k] = Tail(@)]
      PROVE  FramesAgree'
  <2>1. up[k] \in Seq(Frame)
    BY DEF TypeOK
  <2>2. up'[k] = Tail(up[k]) /\ \A l \in Stream \ {k} : up'[l] = up[l]
    BY <1>2 DEF TypeOK
  <2>3. \A i \in 1..Len(Tail(up[k])) : i + 1 \in 1..Len(up[k]) /\ Tail(up[k])[i] = up[k][i + 1]
    BY <1>2, <2>1
  <2> QED
    BY <2>2, <2>3, FramesKept
<1>3. ASSUME \A k \in Stream : up'[k] = <<>> \/ up'[k] = up[k]
      PROVE  FramesAgree'
  BY <1>3, FramesKept
<1>4. CASE RefuseExpired
  <2>1. PICK x \in Item : NextItem(x) /\ Expired(x) /\ Send(<<Result(x.cmd, FALSE)>>)
                          /\ UNCHANGED <<old, status>>
    BY <1>4 DEF RefuseExpired, backend
  <2>2. x.cmd \in Command /\ x.cmd <= old'
    BY <2>1 DEF Expired, Item
  <2>3. row[conn] = "open" => Agrees(Result(x.cmd, FALSE))'
    BY <2>1, <2>2, NextItemWasSent DEF Agrees, Result
  <2> QED
    BY <2>1, <2>2, <2>3, FrameTypes, SendOneKeeps
<1>5. CASE ReplayResult
  <2>1. PICK x \in Item, o \in BOOLEAN :
          /\ NextItem(x)
          /\ Send(<<Ack(x.cmd), Result(x.cmd, o)>>)
          /\ o = (store[x.cmd] = "ok")
          /\ store[x.cmd] # "none"
          /\ UNCHANGED <<store, status>>
    BY <1>5 DEF ReplayResult, agent, backend
  <2>2. x.cmd \in Command
    BY DEF Item
  <2>3. store[x.cmd] \in {"ok", "fail"}
    BY <2>1, <2>2 DEF TypeOK
  <2>4. row[conn] = "open" => Agrees(Ack(x.cmd))' /\ Agrees(Result(x.cmd, o))'
    BY <2>1, <2>2, <2>3, NextItemWasSent DEF Agrees, Ack, Result
  <2> QED
    BY <2>1, <2>2, <2>4, FrameTypes, SendTwoKeeps
<1>6. CASE RefuseByPolicy
  <2>1. PICK x \in Item : /\ NextItem(x)
                          /\ Send(<<Ack(x.cmd), Result(x.cmd, FALSE)>>)
                          /\ store' = [store EXCEPT ![x.cmd] = "fail"]
                          /\ UNCHANGED status
    BY <1>6 DEF RefuseByPolicy, backend
  <2>2. x.cmd \in Command
    BY DEF Item
  <2>3. row[conn] = "open" => Agrees(Ack(x.cmd))' /\ Agrees(Result(x.cmd, FALSE))'
    BY <2>1, <2>2, NextItemWasSent DEF Agrees, Ack, Result, TypeOK
  <2> QED
    BY <2>1, <2>2, <2>3, FrameTypes, SendTwoKeeps
<1>7. CASE BeginExecution
  <2>1. PICK x \in Item : /\ NextItem(x)
                          /\ Send(<<Ack(x.cmd), Progress(x.cmd)>>)
                          /\ UNCHANGED status
    BY <1>7 DEF BeginExecution, backend
  <2>2. x.cmd \in Command
    BY DEF Item
  <2>3. row[conn] = "open" => Agrees(Ack(x.cmd))' /\ Agrees(Progress(x.cmd))'
    BY <2>1, <2>2, NextItemWasSent DEF Agrees, Ack, Progress
  <2> QED
    BY <2>1, <2>2, <2>3, FrameTypes, SendTwoKeeps
<1>8. CASE FinishExecution
  <2>1. PICK o \in BOOLEAN :
          /\ store' = [store EXCEPT ![busy] = IF o THEN "ok" ELSE "fail"]
          /\ Send(<<Result(busy, o)>>)
    BY <1>8 DEF FinishExecution
  <2>2. PICK c \in Command : c = busy
    BY <1>8 DEF FinishExecution, TypeOK
  <2>3. row[conn] = "open" => WasSent(c)'
    BY <1>8, <2>2, BusyWasSent DEF FinishExecution, backend
  <2>4. row[conn] = "open" => Agrees(Result(c, o))'
    BY <2>1, <2>2, <2>3 DEF Agrees, Result, TypeOK
  <2>5. Send(<<Result(c, o)>>)
    BY <2>1, <2>2
  <2> QED
    BY <2>2, <2>4, <2>5, FrameTypes, SendOneKeeps
<1>9. CASE Tick
  <2>1. ASSUME NEW t \in {"heartbeat", "other"},
               Send(<<[type |-> t, cmd |-> None, ok |-> TRUE]>>)
        PROVE  FramesAgree'
    <3>1. PICK f : f = [type |-> t, cmd |-> None, ok |-> TRUE]
      OBVIOUS
    <3>2. f \in Frame /\ Send(<<f>>) /\ f.type \notin {"ack", "progress", "result"}
      BY <2>1, <3>1 DEF Frame
    <3>3. Agrees(f)'
      BY <3>2 DEF Agrees
    <3> QED
      BY <3>2, <3>3, SendOneKeeps
  <2>2. ASSUME busy # None, Send(<<Progress(busy)>>) PROVE FramesAgree'
    <3>1. PICK c \in Command : c = busy
      BY <2>2 DEF TypeOK
    <3>2. row[conn] = "open" => WasSent(c)'
      BY <1>9, <2>2, <3>1, BusyWasSent DEF Tick, backend
    <3>3. row[conn] = "open" => Agrees(Progress(c))'
      BY <3>2 DEF Agrees, Progress
    <3> QED
      BY <2>2, <3>1, <3>3, FrameTypes, SendOneKeeps
  <2> QED
    BY <1>9, <2>1, <2>2 DEF Tick
<1>10. CASE LoseStream
  <2>1. PICK n \in 0..Len(up[conn]) : up' = [up EXCEPT ![conn] = SubSeq(@, 1, n)]
    BY <1>10 DEF LoseStream
  <2>2. up[conn] \in Seq(Frame) /\ conn \in Stream
    BY <1>10 DEF LoseStream, TypeOK
  <2>3. up'[conn] = SubSeq(up[conn], 1, n) /\ \A l \in Stream \ {conn} : up'[l] = up[l]
    BY <2>1, <2>2 DEF TypeOK
  <2>4. \A i \in 1..Len(up'[conn]) : i \in 1..Len(up[conn]) /\ up'[conn][i] = up[conn][i]
    BY <2>2, <2>3
  <2> QED
    BY <2>2, <2>3, <2>4, FramesKept
<1> QED
  <2>1. \A k \in Stream : ReceiveFrame(k) => up[k] # <<>> /\ up' = [up EXCEPT ![k] = Tail(@)]
    BY DEF ReceiveFrame
  <2>2. \A k \in Stream : FailFrame(k) => \A l \in Stream : up'[l] = <<>> \/ up'[l] = up[l]
    BY DEF FailFrame, TypeOK
  <2>3. BackendCrash => \A l \in Stream : up'[l] = <<>> \/ up'[l] = up[l]
    BY DEF BackendCrash
  <2> QED
    BY <1>1, <1>2, <1>3, <1>4, <1>5, <1>6, <1>7, <1>8, <1>9, <1>10, <2>1, <2>2, <2>3
       DEF Next, vars, LookUp, IssueCommand, PassFreshnessBound, Authenticate, OpenStream,
           AbortOpening, BeginClose, FinishClose, FailClose, ReapScan, ReapCommit

\* What the backend reports stays explained: a recorded result agreed, and a
\* decided outcome stays.
LEMMA ExplainedStep ==
  TypeOK /\ BusyIsUndecided /\ FramesAgree /\ OutcomeIsExplained /\ [Next]_vars
    => OutcomeIsExplained'
<1> SUFFICES ASSUME TypeOK, BusyIsUndecided, FramesAgree, OutcomeIsExplained, [Next]_vars,
                    NEW c \in Command
             PROVE  /\ status'[c] = "succeeded" => store'[c] = "ok"
                    /\ status'[c] = "failed" => store'[c] = "fail" \/ c <= old'
  BY DEF OutcomeIsExplained
<1>1. Decided
  BY StoreStep
<1>2. CASE status'[c] \in {"succeeded", "failed"} => status'[c] = status[c]
  BY <1>1, <1>2 DEF OutcomeIsExplained, Decided
<1>3. ASSUME NEW k \in Stream, ReceiveFrame(k)
      PROVE  \/ status'[c] \in {"succeeded", "failed"} => status'[c] = status[c]
             \/ /\ status'[c] = "succeeded" => store'[c] = "ok"
                /\ status'[c] = "failed" => store'[c] = "fail" \/ c <= old'
  <2> DEFINE f == Head(up[k])
  <2>1. /\ up[k] # <<>> /\ status' = Dispatched(Recorded(f))
        /\ store' = store /\ old' = old
    BY <1>3 DEF ReceiveFrame
  <2>2. up[k] \in Seq(Frame)
    BY DEF TypeOK
  <2>3. Agrees(f)
    <3>1. 1 \in 1..Len(up[k]) /\ f = up[k][1]
      BY <2>1, <2>2
    <3> QED
      BY <3>1 DEF FramesAgree
  <2>4. f \in Frame
    BY <2>1, <2>2
  <2>5. status'[c] \in {"succeeded", "failed"} => status'[c] = Recorded(f)[c]
    BY <2>1 DEF Dispatched
  <2>6. CASE f.type = "result" /\ f.cmd = c
    <3>1. Recorded(f)[c] = IF f.ok THEN "succeeded" ELSE "failed"
      BY <2>6 DEF Recorded, TypeOK
    <3> QED
      BY <2>1, <2>3, <2>5, <2>6, <3>1 DEF Agrees
  <2>7. CASE ~(f.type = "result" /\ f.cmd = c)
    <3>1. Recorded(f)[c] \in {"acked", "running", status[c]}
      BY <2>4, <2>7 DEF Recorded, TypeOK, Frame
    <3> QED
      BY <2>5, <3>1
  <2> QED
    BY <2>6, <2>7
<1>4. CASE UNCHANGED status
  BY <1>2, <1>4
<1>5. ASSUME NEW k \in Key, IssueCommand(k)
      PROVE  status'[c] \in {"succeeded", "failed"} => status'[c] = status[c]
  BY <1>5 DEF IssueCommand, TypeOK
<1>6. ASSUME NEW k \in Stream, OpenStream(k)
      PROVE  status'[c] \in {"succeeded", "failed"} => status'[c] = status[c]
  BY <1>6 DEF OpenStream, Dispatched
<1>7. \A w \in Worker :
        ReapCommit(w) => (status'[c] \in {"succeeded", "failed"} => status'[c] = status[c])
  BY DEF ReapCommit
<1> QED
  BY <1>2, <1>3, <1>4, <1>5, <1>6, <1>7
     DEF Next, vars, backend, LookUp, PassFreshnessBound, Authenticate, AbortOpening,
         FailFrame, BeginClose, FinishClose, FailClose, BackendCrash, ReapScan,
         RefuseExpired, ReplayResult, RefuseByPolicy, BeginExecution, FinishExecution,
         Tick, LoseStream

\* A stream that opens while another closes as the last one is late for it.
LEMMA LateStep == TypeOK /\ LateAgrees /\ [Next]_vars => LateAgrees'
<1> SUFFICES ASSUME TypeOK, LateAgrees, [Next]_vars, NEW k \in Stream, NEW j \in Stream,
                    row'[k] = "closingLast", row'[j] = "open"
             PROVE  j \in late'[k]
  BY DEF LateAgrees
<1> DEFINE Kept == row[k] = "closingLast" /\ row[j] = "open" /\ late'[k] = late[k]
<1>1. CASE UNCHANGED <<row, late>>
  BY <1>1 DEF LateAgrees
<1>2. Kept => j \in late'[k]
  BY DEF LateAgrees
<1>3. \A l \in Stream : Authenticate(l) \/ AbortOpening(l) \/ FailFrame(l) => Kept
  BY DEF Authenticate, AbortOpening, FailFrame, TypeOK
<1>4. \A l \in Stream : FinishClose(l) \/ FailClose(l) => Kept
  BY DEF FinishClose, FailClose, TypeOK
<1>5. BackendCrash => Kept
  BY DEF BackendCrash
<1>6. ASSUME NEW l \in Stream, OpenStream(l) PROVE j \in late'[k]
  <2>1. row[k] = "closingLast" /\ late'[k] = late[k] \cup {l}
    BY <1>6 DEF OpenStream, TypeOK
  <2>2. j = l \/ row[j] = "open"
    BY <1>6 DEF OpenStream, TypeOK
  <2> QED
    BY <2>1, <2>2 DEF LateAgrees
<1>7. ASSUME NEW l \in Stream, BeginClose(l) PROVE j \in late'[k]
  <2>1. CASE l = k
    <3>1. row[j] = "open" /\ j # k /\ Lone(k)
      BY <1>7, <2>1 DEF BeginClose, TypeOK
    <3> QED
      BY <3>1 DEF Lone, OpenRows
  <2>2. CASE l # k
    BY <1>2, <1>7, <2>2 DEF BeginClose, TypeOK
  <2> QED
    BY <2>1, <2>2
<1> QED
  BY <1>1, <1>2, <1>3, <1>4, <1>5, <1>6, <1>7
     DEF Next, vars, backend, LookUp, IssueCommand, PassFreshnessBound, ReceiveFrame,
         ReapScan, ReapCommit, RefuseExpired, ReplayResult, RefuseByPolicy,
         BeginExecution, FinishExecution, Tick, LoseStream

-----------------------------------------------------------------------------
(* What says that a command has begun is followed by its result *)

\* Frames sent after those that are followed, by an agent that is then at another
\* command, if at any: they bring the result of the one it was at.
LEMMA AppendFollowed ==
  ASSUME NEW s \in Seq(Frame), NEW fs \in Seq(Frame), NEW b, NEW d,
         \A i \in 1..Len(s) : Followed(s, i, b),
         \A i \in 1..Len(fs) : Followed(fs, i, d),
         b # None /\ b # d => \E j \in 1..Len(fs) : fs[j].cmd = b /\ fs[j].type = "result"
  PROVE  \A i \in 1..Len(s \o fs) : Followed(s \o fs, i, d)
<1> DEFINE t == s \o fs
<1>1. /\ Len(s) \in Nat /\ Len(fs) \in Nat /\ Len(t) = Len(s) + Len(fs)
      /\ \A i \in 1..Len(s) : i \in 1..Len(t) /\ t[i] = s[i]
      /\ \A i \in 1..Len(fs) : i + Len(s) \in 1..Len(t) /\ t[i + Len(s)] = fs[i]
  OBVIOUS
<1> HIDE DEF t
<1> SUFFICES ASSUME NEW i \in 1..Len(t), t[i].cmd # None, t[i].type # "result",
                    d # t[i].cmd
             PROVE  \E j \in 1..Len(t) :
                      j > i /\ t[j].cmd = t[i].cmd /\ t[j].type = "result"
  BY DEF Followed, t
<1>2. CASE i <= Len(s)
  <2>1. i \in 1..Len(s) /\ t[i] = s[i]
    BY <1>1, <1>2
  <2>2. CASE b = t[i].cmd
    <3>1. PICK j \in 1..Len(fs) : fs[j].cmd = t[i].cmd /\ fs[j].type = "result"
      BY <2>2
    <3>2. j + Len(s) \in 1..Len(t) /\ j + Len(s) > i /\ t[j + Len(s)] = fs[j]
      BY <1>1, <1>2, <3>1
    <3> QED
      BY <3>1, <3>2
  <2>3. CASE b # t[i].cmd
    <3>1. PICK j \in 1..Len(s) : j > i /\ s[j].cmd = s[i].cmd /\ s[j].type = "result"
      BY <2>1, <2>3 DEF Followed
    <3> QED
      BY <1>1, <2>1, <3>1
  <2> QED
    BY <2>2, <2>3
<1>3. CASE i > Len(s)
  <2>1. PICK l \in 1..Len(fs) : i = l + Len(s) /\ t[i] = fs[l]
    <3>1. i - Len(s) \in 1..Len(fs) /\ i = (i - Len(s)) + Len(s)
      BY <1>1, <1>3
    <3> QED
      BY <1>1, <3>1
  <2>2. PICK j \in 1..Len(fs) : j > l /\ fs[j].cmd = fs[l].cmd /\ fs[j].type = "result"
    BY <2>1 DEF Followed
  <2>3. j + Len(s) \in 1..Len(t) /\ j + Len(s) > i /\ t[j + Len(s)] = fs[j]
    BY <1>1, <2>1, <2>2
  <2> QED
    BY <2>1, <2>2, <2>3
<1> QED
  BY <1>1, <1>2, <1>3

\* The frames behind the first follow as before.
LEMMA TailFollowed ==
  ASSUME NEW s \in Seq(Frame), s # <<>>, NEW d, \A i \in 1..Len(s) : Followed(s, i, d)
  PROVE  \A i \in 1..Len(Tail(s)) : Followed(Tail(s), i, d)
<1>1. /\ Len(s) \in Nat /\ Len(Tail(s)) = Len(s) - 1
      /\ \A i \in 1..Len(Tail(s)) : i + 1 \in 1..Len(s) /\ Tail(s)[i] = s[i + 1]
      /\ \A j \in 2..Len(s) : j - 1 \in 1..Len(Tail(s)) /\ Tail(s)[j - 1] = s[j]
  OBVIOUS
<1> SUFFICES ASSUME NEW i \in 1..Len(Tail(s)), Tail(s)[i].cmd # None,
                    Tail(s)[i].type # "result", d # Tail(s)[i].cmd
             PROVE  \E j \in 1..Len(Tail(s)) : /\ j > i /\ Tail(s)[j].cmd = Tail(s)[i].cmd
                                               /\ Tail(s)[j].type = "result"
  BY DEF Followed
<1>2. PICK j \in 1..Len(s) : j > i + 1 /\ s[j].cmd = s[i + 1].cmd /\ s[j].type = "result"
  BY <1>1 DEF Followed
<1>3. j - 1 \in 1..Len(Tail(s)) /\ j - 1 > i /\ Tail(s)[j - 1] = s[j]
  BY <1>1, <1>2
<1> QED
  BY <1>1, <1>2, <1>3

\* What the agent sends at a time is followed: one frame, or an ack and what
\* comes of it.
LEMMA SentFollowed ==
  ASSUME NEW c \in Command, NEW ok \in BOOLEAN, NEW d
  PROVE  /\ \A i \in 1..Len(<<Result(c, ok)>>) : Followed(<<Result(c, ok)>>, i, d)
         /\ \A i \in 1..Len(<<Ack(c), Result(c, ok)>>) :
              Followed(<<Ack(c), Result(c, ok)>>, i, d)
         /\ \A i \in 1..Len(<<Ack(c), Progress(c)>>) :
              Followed(<<Ack(c), Progress(c)>>, i, c)
         /\ \A i \in 1..Len(<<Progress(c)>>) : Followed(<<Progress(c)>>, i, c)
<1>1. /\ Result(c, ok).cmd = c /\ Result(c, ok).type = "result"
      /\ Ack(c).cmd = c /\ Progress(c).cmd = c
  BY DEF Result, Ack, Progress
<1>2. \A i \in 1..Len(<<Result(c, ok)>>) : Followed(<<Result(c, ok)>>, i, d)
  BY <1>1 DEF Followed
<1>3. ASSUME NEW i \in 1..Len(<<Ack(c), Result(c, ok)>>)
      PROVE  Followed(<<Ack(c), Result(c, ok)>>, i, d)
  <2> DEFINE fs == <<Ack(c), Result(c, ok)>>
  <2>1. Len(fs) = 2 /\ fs[1] = Ack(c) /\ fs[2] = Result(c, ok) /\ i \in {1, 2}
    OBVIOUS
  <2> HIDE DEF fs
  <2>2. Followed(fs, i, d)
    BY <1>1, <2>1 DEF Followed
  <2> QED
    BY <2>2 DEF fs
<1>4. \A i \in 1..Len(<<Ack(c), Progress(c)>>) : Followed(<<Ack(c), Progress(c)>>, i, c)
  BY <1>1 DEF Followed
<1>5. \A i \in 1..Len(<<Progress(c)>>) : Followed(<<Progress(c)>>, i, c)
  BY <1>1 DEF Followed
<1> QED
  BY <1>2, <1>3, <1>4, <1>5

\* A stream without a loop has nothing unread: what is sent on it reaches nobody.
LEMMA SilentStep ==
  TypeOK /\ UnservedIsSilent /\ [Next]_vars => UnservedIsSilent'
<1> SUFFICES ASSUME TypeOK, UnservedIsSilent, [Next]_vars PROVE UnservedIsSilent'
  OBVIOUS
<1> USE DEF UnservedIsSilent
<1>1. ASSUME up' = up,
             \A l \in Stream : row'[l] = row[l] \/ row'[l] = "open" \/ up[l] = <<>>
      PROVE  UnservedIsSilent'
  BY <1>1
<1>2. \A k \in Stream : Authenticate(k) \/ AbortOpening(k) => UnservedIsSilent'
  BY <1>1 DEF Authenticate, AbortOpening, TypeOK
<1>3. \A k \in Stream : OpenStream(k) => UnservedIsSilent'
  BY <1>1 DEF OpenStream, TypeOK
<1>10. \A k \in Stream : BeginClose(k) => UnservedIsSilent'
  BY <1>1 DEF BeginClose, TypeOK
<1>11. \A k \in Stream : FinishClose(k) \/ FailClose(k) => UnservedIsSilent'
  BY <1>1 DEF FinishClose, FailClose, TypeOK
<1>4. \A k \in Stream : ReceiveFrame(k) \/ FailFrame(k) => UnservedIsSilent'
  BY DEF ReceiveFrame, FailFrame, TypeOK
<1>5. BackendCrash => UnservedIsSilent'
  BY DEF BackendCrash
<1>6. ASSUME row' = row, NEW fs, Send(fs) PROVE UnservedIsSilent'
  BY <1>6 DEF Send, TypeOK
<1>7. RefuseExpired \/ ReplayResult \/ RefuseByPolicy \/ BeginExecution => UnservedIsSilent'
  BY <1>6 DEF RefuseExpired, ReplayResult, RefuseByPolicy, BeginExecution, backend
<1>8. FinishExecution \/ Tick => UnservedIsSilent'
  BY <1>6 DEF FinishExecution, Tick, backend
<1>9. ASSUME LoseStream PROVE UnservedIsSilent'
  <2>1. PICK n \in 0..Len(up[conn]) : up' = [up EXCEPT ![conn] = SubSeq(@, 1, n)]
    BY <1>9 DEF LoseStream
  <2>2. row' = row /\ conn \in Stream
    BY <1>9 DEF LoseStream, backend, TypeOK
  <2>3. row[conn] # "open" => SubSeq(up[conn], 1, n) = <<>>
    BY <2>1, <2>2
  <2> QED
    BY <2>1, <2>2, <2>3 DEF TypeOK
<1> QED
  BY <1>1, <1>2, <1>3, <1>4, <1>5, <1>7, <1>8, <1>9, <1>10, <1>11
     DEF Next, vars, backend, LookUp, IssueCommand, PassFreshnessBound, ReapScan, ReapCommit

\* An agent that sends keeps what it sent before followed.
LEMMA SendFollowed ==
  ASSUME TypeOK, BegunIsFollowed, NEW fs \in Seq(Frame), Send(fs),
         row' = row, conn' = conn,
         \A i \in 1..Len(fs) : Followed(fs, i, busy'),
         busy # None /\ busy # busy'
           => \E j \in 1..Len(fs) : fs[j].cmd = busy /\ fs[j].type = "result"
  PROVE  BegunIsFollowed'
<1> SUFFICES ASSUME Live'
             PROVE  \A i \in 1..Len(up'[conn]) : Followed(up'[conn], i, busy')
  BY DEF BegunIsFollowed
<1>1. Live /\ conn \in Stream
  BY DEF Live, TypeOK
<1>2. up'[conn] = up[conn] \o fs /\ up[conn] \in Seq(Frame)
  BY <1>1 DEF Send, Live, TypeOK
<1>3. \A i \in 1..Len(up[conn]) : Followed(up[conn], i, busy)
  BY <1>1 DEF BegunIsFollowed
<1>4. PICK b : b = busy
  OBVIOUS
<1>5. PICK d : d = busy'
  OBVIOUS
<1>6. PICK s \in Seq(Frame) : s = up[conn]
  BY <1>2
<1>7. \A i \in 1..Len(s \o fs) : Followed(s \o fs, i, d)
  BY <1>3, <1>4, <1>5, <1>6, AppendFollowed
<1>8. up'[conn] = s \o fs
  BY <1>2, <1>6
<1> QED
  BY <1>5, <1>7, <1>8

LEMMA BegunStep ==
  TypeOK /\ UnservedIsSilent /\ BegunIsFollowed /\ [Next]_vars => BegunIsFollowed'
<1> SUFFICES ASSUME TypeOK, UnservedIsSilent, BegunIsFollowed, [Next]_vars
             PROVE  BegunIsFollowed'
  OBVIOUS
<1>1. ASSUME busy' = busy, conn' = conn, row'[conn] = "open" => row[conn] = "open",
             row'[conn] = "open" => up'[conn] = up[conn]
      PROVE  BegunIsFollowed'
  BY <1>1 DEF BegunIsFollowed, Live
<1>2. ASSUME NEW k \in Stream, OpenStream(k) PROVE BegunIsFollowed'
  <2>1. CASE conn' = conn
    <3>1. row[k] = "opening" /\ up' = up /\ busy' = busy /\ row' = [row EXCEPT ![k] = "open"]
      BY <1>2 DEF OpenStream
    <3>2. up[k] = <<>>
      BY <3>1 DEF UnservedIsSilent
    <3>3. CASE conn = k
      BY <2>1, <3>1, <3>2, <3>3 DEF BegunIsFollowed
    <3>4. CASE conn # k
      BY <1>1, <2>1, <3>1, <3>4 DEF TypeOK
    <3> QED
      BY <3>3, <3>4
  <2>2. CASE conn' = k
    <3>1. up[k] = <<>> /\ up' = up
      BY <1>2 DEF OpenStream, UnservedIsSilent
    <3> QED
      BY <2>2, <3>1 DEF BegunIsFollowed
  <2> QED
    BY <1>2, <2>1, <2>2 DEF OpenStream
<1>3. ASSUME NEW k \in Stream, ReceiveFrame(k) PROVE BegunIsFollowed'
  <2>1. /\ up[k] \in Seq(Frame) /\ up[k] # <<>> /\ busy' = busy /\ conn' = conn /\ row' = row
        /\ up'[k] = Tail(up[k]) /\ \A l \in Stream \ {k} : up'[l] = up[l]
    BY <1>3 DEF ReceiveFrame, TypeOK
  <2>2. CASE conn = k
    <3>1. SUFFICES ASSUME Live
                   PROVE  \A i \in 1..Len(up'[k]) : Followed(up'[k], i, busy)
      BY <2>1, <2>2 DEF BegunIsFollowed, Live
    <3>2. PICK s \in Seq(Frame) : s = up[k]
      BY <2>1
    <3>3. PICK d : d = busy
      OBVIOUS
    <3>4. \A i \in 1..Len(Tail(s)) : Followed(Tail(s), i, d)
      BY <2>1, <2>2, <3>1, <3>2, <3>3, TailFollowed DEF BegunIsFollowed
    <3>5. up'[k] = Tail(s)
      BY <2>1, <3>2
    <3> QED
      BY <3>3, <3>4, <3>5
  <2>3. CASE conn # k
    BY <1>1, <2>1, <2>3 DEF TypeOK, BegunIsFollowed, Live
  <2> QED
    BY <2>2, <2>3
<1>4. ASSUME NEW k \in Stream, FailFrame(k) PROVE BegunIsFollowed'
  <2>1. /\ busy' = busy /\ conn' = conn /\ row'[k] = "orphan"
        /\ \A l \in Stream \ {k} : up'[l] = up[l] /\ row'[l] = row[l]
    BY <1>4 DEF FailFrame, agent, TypeOK
  <2> QED
    BY <2>1 DEF TypeOK, BegunIsFollowed, Live
<1>5. CASE BackendCrash
  <2>1. conn' = conn /\ busy' = busy
    BY <1>5 DEF BackendCrash, agent
  <2>2. ASSUME conn \in Stream, row'[conn] = "open"
        PROVE  row[conn] = "open" /\ (up'[conn] = up[conn] \/ up'[conn] = <<>>)
    BY <1>5, <2>2 DEF BackendCrash
  <2> QED
    BY <2>1, <2>2 DEF TypeOK, BegunIsFollowed, Live
<1>6. CASE LoseStream
  BY <1>6 DEF LoseStream, BegunIsFollowed, Live
<1>7. CASE RefuseExpired
  <2>1. PICK x \in Item : NextItem(x) /\ Send(<<Result(x.cmd, FALSE)>>)
    BY <1>7 DEF RefuseExpired
  <2>2. x.cmd \in Command /\ busy = None /\ row' = row /\ conn' = conn /\ busy' = busy
    BY <1>7, <2>1 DEF RefuseExpired, NextItem, backend, agent, Item
  <2> QED
    BY <2>1, <2>2, SentFollowed, FrameTypes, SendFollowed
<1>8. CASE ReplayResult
  <2>1. PICK x \in Item, o \in BOOLEAN :
          NextItem(x) /\ Send(<<Ack(x.cmd), Result(x.cmd, o)>>)
    BY <1>8 DEF ReplayResult
  <2>2. x.cmd \in Command /\ busy = None /\ row' = row /\ conn' = conn /\ busy' = busy
    BY <1>8, <2>1 DEF ReplayResult, NextItem, backend, agent, Item
  <2> QED
    BY <2>1, <2>2, SentFollowed, FrameTypes, SendFollowed
<1>9. CASE RefuseByPolicy
  <2>1. PICK x \in Item : NextItem(x) /\ Send(<<Ack(x.cmd), Result(x.cmd, FALSE)>>)
    BY <1>9 DEF RefuseByPolicy
  <2>2. x.cmd \in Command /\ busy = None /\ row' = row /\ conn' = conn /\ busy' = busy
    BY <1>9, <2>1 DEF RefuseByPolicy, NextItem, backend, Item
  <2> QED
    BY <2>1, <2>2, SentFollowed, FrameTypes, SendFollowed
<1>10. CASE BeginExecution
  <2>1. PICK x \in Item : /\ NextItem(x) /\ Send(<<Ack(x.cmd), Progress(x.cmd)>>)
                          /\ busy' = x.cmd
    BY <1>10 DEF BeginExecution
  <2>2. x.cmd \in Command /\ busy = None /\ row' = row /\ conn' = conn
    BY <1>10, <2>1 DEF BeginExecution, NextItem, backend, Item
  <2>3. \A i \in 1..Len(<<Ack(x.cmd), Progress(x.cmd)>>) :
          Followed(<<Ack(x.cmd), Progress(x.cmd)>>, i, busy')
    BY <2>1, <2>2, SentFollowed
  <2> QED
    BY <2>1, <2>2, <2>3, FrameTypes, SendFollowed
<1>11. CASE FinishExecution
  <2>1. PICK o \in BOOLEAN : Send(<<Result(busy, o)>>)
    BY <1>11 DEF FinishExecution
  <2>2. PICK c \in Command : c = busy
    BY <1>11 DEF FinishExecution, TypeOK
  <2>3. row' = row /\ conn' = conn /\ busy' = None
    BY <1>11 DEF FinishExecution, backend
  <2>4. \A i \in 1..Len(<<Result(c, o)>>) : Followed(<<Result(c, o)>>, i, busy')
    BY <2>3, SentFollowed
  <2>5. \E j \in 1..Len(<<Result(c, o)>>) :
          <<Result(c, o)>>[j].cmd = busy /\ <<Result(c, o)>>[j].type = "result"
    BY <2>2 DEF Result
  <2>6. Send(<<Result(c, o)>>) /\ <<Result(c, o)>> \in Seq(Frame)
    BY <2>1, <2>2, FrameTypes
  <2> QED
    BY <2>3, <2>4, <2>5, <2>6, SendFollowed
<1>12. CASE Tick
  <2>1. row' = row /\ conn' = conn /\ busy' = busy
    BY <1>12 DEF Tick, backend, agent
  <2>2. ASSUME NEW t \in {"heartbeat", "other"},
               Send(<<[type |-> t, cmd |-> None, ok |-> TRUE]>>)
        PROVE  BegunIsFollowed'
    <3>1. PICK f \in Frame : f = [type |-> t, cmd |-> None, ok |-> TRUE]
      BY DEF Frame
    <3>2. \A i \in 1..Len(<<f>>) : Followed(<<f>>, i, busy')
      BY <3>1 DEF Followed
    <3>3. Send(<<f>>) /\ <<f>> \in Seq(Frame)
      BY <2>2, <3>1
    <3> QED
      BY <2>1, <3>2, <3>3, SendFollowed
  <2>3. ASSUME busy # None, Send(<<Progress(busy)>>) PROVE BegunIsFollowed'
    <3>1. PICK c \in Command : c = busy
      BY <2>3 DEF TypeOK
    <3>2. \A i \in 1..Len(<<Progress(c)>>) : Followed(<<Progress(c)>>, i, busy')
      BY <2>1, <3>1, SentFollowed
    <3>3. Send(<<Progress(c)>>) /\ <<Progress(c)>> \in Seq(Frame)
      BY <2>3, <3>1, FrameTypes
    <3> QED
      BY <2>1, <3>2, <3>3, SendFollowed
  <2> QED
    BY <1>12, <2>2, <2>3 DEF Tick
<1>13. \A k \in Stream : \/ Authenticate(k) \/ AbortOpening(k)
                          \/ BeginClose(k) \/ FinishClose(k) \/ FailClose(k)
                           => BegunIsFollowed'
  BY <1>1 DEF Authenticate, AbortOpening, BeginClose, FinishClose, FailClose, agent,
       TypeOK, BegunIsFollowed, Live
<1> QED
  BY <1>1, <1>2, <1>3, <1>4, <1>5, <1>6, <1>7, <1>8, <1>9, <1>10, <1>11, <1>12, <1>13
     DEF Next, vars, backend, agent, LookUp, IssueCommand, PassFreshnessBound, ReapScan,
         ReapCommit

-----------------------------------------------------------------------------
(* Theorems *)

LEMMA InvInit == Init => IInv
<1> SUFFICES ASSUME Init PROVE IInv
  OBVIOUS
<1>1. TypeOK
  BY TypeInit
<1>2. FramesAgree
  BY DEF Init, FramesAgree
<1>3. OutcomeIsExplained /\ BusyIsUndecided /\ UndecidedNeverEnded /\ RunsToItsEndOnce
  BY DEF Init, OutcomeIsExplained, BusyIsUndecided, UndecidedNeverEnded, RunsToItsEndOnce
<1>4. LateAgrees
  BY DEF Init, LateAgrees
<1>5. ConnectionAgrees /\ LiveWasSent /\ ReapWasSent
  BY DEF Init, ConnectionAgrees, LiveWasSent, Live, ReapWasSent
<1>6. UnservedIsSilent /\ BegunIsFollowed
  BY DEF Init, UnservedIsSilent, BegunIsFollowed, Live
<1> QED
  BY <1>1, <1>2, <1>3, <1>4, <1>5, <1>6 DEF IInv

LEMMA InvStep == IInv /\ [Next]_vars => IInv'
BY TypeStep, ConnectionStep, LiveStep, ReapStep, StoreStep, RanStep, FramesStep,
   ExplainedStep, LateStep, SilentStep, BegunStep DEF IInv

\* The inductive invariant holds in every reachable state: what agent, channel
\* and backend say of a command agree.
THEOREM Invariance == Spec => []IInv
BY InvInit, InvStep, PTL DEF Spec

\* Every variable keeps its type, so no row, frame or item of an unknown command
\* is ever made.
THEOREM TypeCorrect == Spec => []TypeOK
<1>1. IInv => TypeOK
  BY DEF IInv
<1> QED
  BY <1>1, Invariance, PTL

\* A command reported as succeeded did succeed on the node; one reported as
\* failed failed there or was refused as too old.
THEOREM OutcomeExplained == Spec => []OutcomeIsExplained
<1>1. IInv => OutcomeIsExplained
  BY DEF IInv
<1> QED
  BY <1>1, Invariance, PTL

\* However often it is sent, a command runs to its end at most once.
THEOREM AtMostOnce == Spec => []RunsToItsEndOnce
<1>1. IInv => RunsToItsEndOnce
  BY DEF IInv
<1> QED
  BY <1>1, Invariance, PTL

\* The close of a stream takes the node offline under a served stream only if that
\* one was opened between the count of close_stream_session and its commit.
THEOREM OnlyTheLateAreMissed == Spec => OfflineMissesOnlyTheLate
<1>1. ASSUME IInv, [Next]_vars, node = "healthy", node' = "offline"
      PROVE  \E k \in Stream : \A j \in Stream : row'[j] = "open" => j \in late[k]
  <2>1. PICK k \in Stream : FinishClose(k)
    BY <1>1 DEF Next, vars, backend, LookUp, IssueCommand, PassFreshnessBound,
         Authenticate, OpenStream, AbortOpening, ReceiveFrame, FailFrame, BackendCrash,
         ReapScan, ReapCommit, RefuseExpired, ReplayResult, RefuseByPolicy,
         BeginExecution, FinishExecution, Tick, LoseStream, BeginClose, FailClose
  <2>2. row[k] = "closingLast" /\ row' = [row EXCEPT ![k] = "closed"]
    BY <1>1, <2>1 DEF FinishClose
  <2>3. \A j \in Stream : row'[j] = "open" => row[j] = "open"
    BY <1>1, <2>2 DEF IInv, TypeOK
  <2> QED
    BY <1>1, <2>2, <2>3 DEF IInv, LateAgrees
<1>2. IInv /\ [Next]_vars
        => [node = "healthy" /\ node' = "offline"
              => \E k \in Stream : \A j \in Stream : row'[j] = "open" => j \in late[k]]_vars
  BY <1>1
<1> QED
  BY <1>2, Invariance, PTL DEF Spec, OfflineMissesOnlyTheLate

\* An outcome that is lost in a refusal is that of a command past the bound.
THEOREM OldMisreported == Spec => []OnlyTheOldIsMisreported
<1>1. IInv => OnlyTheOldIsMisreported
  BY DEF IInv, OutcomeIsExplained, OnlyTheOldIsMisreported, TypeOK
<1> QED
  BY <1>1, Invariance, PTL

\* The sends of a loop only add to what is under way to the agent.
LEMMA SendPendingExtends ==
  ASSUME TypeOK, NEW k \in Stream, NEW st, Pending(st) \in SUBSET Command,
         SendPending(k, st)
  PROVE  \A i \in DOMAIN down : i \in DOMAIN down' /\ down'[i] = down[i]
<1>1. CASE conn = k
  <2>1. PICK b \in InOrder(Pending(st)) : down' = down \o Items(b, FALSE)
    BY <1>1 DEF SendPending
  <2>2. PICK more \in Seq(Item), s \in Seq(Item) : more = Items(b, FALSE) /\ s = down
    BY BatchIsSequence DEF TypeOK
  <2>3. \A i \in DOMAIN s : i \in DOMAIN (s \o more) /\ (s \o more)[i] = s[i]
    OBVIOUS
  <2> QED
    BY <2>1, <2>2, <2>3
<1>2. CASE conn # k
  BY <1>2 DEF SendPending
<1> QED
  BY <1>1, <1>2

\* The first of one frame, and of two.
LEMMA FirstOfFrames ==
  ASSUME NEW f, NEW g
  PROVE  /\ 1 \in DOMAIN <<f>> /\ <<f>>[1] = f
         /\ 1 \in DOMAIN <<f, g>> /\ <<f, g>>[1] = f
OBVIOUS

\* The agent answers an item with frames about its command, so a live stream still
\* holds what it held.
LEMMA HandledIsHeld ==
  ASSUME TypeOK, Live, NEW x, NextItem(x), row' = row, busy' = busy \/ busy = None,
         NEW fs \in Seq(Frame), Send(fs), 1 \in DOMAIN fs, fs[1].cmd = x.cmd,
         NEW c \in Command, HeldSomewhere(c)
  PROVE  HeldSomewhere(c)'
<1>1. /\ conn \in Stream /\ row'[conn] = "open" /\ up[conn] \in Seq(Frame)
      /\ up'[conn] = up[conn] \o fs /\ \A l \in Stream \ {conn} : up'[l] = up[l]
  BY DEF Live, Send, TypeOK
<1>2. /\ Len(up[conn]) + 1 \in DOMAIN up'[conn]
      /\ up'[conn][Len(up[conn]) + 1] = fs[1]
      /\ \A i \in DOMAIN up[conn] : i \in DOMAIN up'[conn] /\ up'[conn][i] = up[conn][i]
  BY <1>1
<1>3. CASE \E i \in DOMAIN down : down[i].cmd = c
  <2>1. PICK i \in DOMAIN down : down[i].cmd = c
    BY <1>3
  <2>2. /\ down \in Seq(Item) /\ down # <<>> /\ x = Head(down) /\ down' = Tail(down)
    BY DEF NextItem, TypeOK
  <2>3. CASE i = 1
    <3>1. fs[1].cmd = c
      BY <2>1, <2>2, <2>3
    <3> QED
      BY <1>1, <1>2, <3>1 DEF HeldSomewhere
  <2>4. CASE i # 1
    <3>1. i - 1 \in DOMAIN down' /\ down'[i - 1] = down[i]
      BY <2>1, <2>2, <2>4
    <3> QED
      BY <2>1, <3>1 DEF HeldSomewhere
  <2> QED
    BY <2>3, <2>4
<1>4. CASE \E k \in Stream : row[k] = "open" /\ \E i \in DOMAIN up[k] : up[k][i].cmd = c
  <2>1. PICK k \in Stream : row[k] = "open" /\ \E i \in DOMAIN up[k] : up[k][i].cmd = c
    BY <1>4
  <2>2. PICK i \in DOMAIN up[k] : up[k][i].cmd = c
    BY <2>1
  <2>3. i \in DOMAIN up'[k] /\ up'[k][i] = up[k][i]
    BY <1>1, <1>2, <2>2
  <2> QED
    BY <2>1, <2>2, <2>3 DEF HeldSomewhere
<1>5. busy # c
  BY DEF NextItem, Command, None
<1> QED
  BY <1>3, <1>4, <1>5 DEF HeldSomewhere

\* A frame that the live stream reads takes a command out of hand only if it is
\* the result, which decides the command.
LEMMA ReadIsHeld ==
  ASSUME IInv, Live, NEW k \in Stream, k = conn, ReceiveFrame(k), NEW c \in Command,
         HeldSomewhere(c) \/ status'[c] # status[c],
         status'[c] \in {"acked", "running"}
  PROVE  HeldSomewhere(c)'
<1>1. /\ up[k] \in Seq(Frame) /\ up[k] # <<>> /\ busy' = busy /\ row' = row /\ row[k] = "open"
      /\ up'[k] = Tail(up[k]) /\ \A l \in Stream \ {k} : up'[l] = up[l]
      /\ status' = Dispatched(Recorded(Head(up[k])))
      /\ SendPending(k, Recorded(Head(up[k])))
  BY DEF ReceiveFrame, IInv, TypeOK
<1>2. PICK f \in Frame : f = Head(up[k])
  BY <1>1
<1>3. \A i \in DOMAIN down : i \in DOMAIN down' /\ down'[i] = down[i]
  BY <1>1, <1>2, SendPendingExtends, RecordedType DEF IInv
<1>4. \A i \in DOMAIN up[k] : i = 1 \/ (i - 1 \in DOMAIN up'[k] /\ up'[k][i - 1] = up[k][i])
  BY <1>1
<1>5. CASE f.cmd = c
  <2>1. status \in [Command -> Status] /\ f.type # "result"
    <3>1. status \in [Command -> Status]
      BY DEF IInv, TypeOK
    <3>2. f.type = "result" => status'[c] \in {"succeeded", "failed"}
      BY <1>1, <1>2, <1>5, <3>1 DEF Recorded, Dispatched
    <3> QED
      BY <3>1, <3>2
  <2>2. Followed(up[k], 1, busy) /\ 1 \in 1..Len(up[k]) /\ up[k][1] = f
    BY <1>1, <1>2 DEF IInv, BegunIsFollowed
  <2>3. CASE busy = c
    BY <1>1, <2>3 DEF HeldSomewhere
  <2>4. CASE busy # c
    <3>1. c # None
      BY DEF Command, None
    <3>2. PICK j \in 1..Len(up[k]) : j > 1 /\ up[k][j].cmd = c
      BY <1>5, <2>1, <2>2, <2>4, <3>1 DEF Followed
    <3>3. j - 1 \in DOMAIN up'[k] /\ up'[k][j - 1].cmd = c
      BY <1>1, <1>4, <3>2
    <3> QED
      BY <1>1, <3>3 DEF HeldSomewhere
  <2> QED
    BY <2>3, <2>4
<1>6. CASE f.cmd # c
  <2>1. status'[c] = status[c]
    <3>1. status \in [Command -> Status]
      BY DEF IInv, TypeOK
    <3>2. Recorded(f)[c] = status[c]
      BY <1>6, <3>1 DEF Recorded
    <3>3. status'[c] = IF status[c] = "queued" THEN "dispatched" ELSE status[c]
      BY <1>1, <1>2, <3>2 DEF Dispatched
    <3> QED
      BY <3>3
  <2>2. HeldSomewhere(c)
    BY <2>1
  <2>3. CASE busy = c \/ \E i \in DOMAIN down : down[i].cmd = c
    BY <1>1, <1>3, <2>3 DEF HeldSomewhere
  <2>4. CASE \E l \in Stream : row[l] = "open" /\ \E i \in DOMAIN up[l] : up[l][i].cmd = c
    <3>1. PICK l \in Stream : row[l] = "open" /\ \E i \in DOMAIN up[l] : up[l][i].cmd = c
      BY <2>4
    <3>2. PICK i \in DOMAIN up[l] : up[l][i].cmd = c
      BY <3>1
    <3>3. CASE l = k
      <4>1. i # 1
        BY <1>1, <1>2, <1>6, <3>2, <3>3
      <4> QED
        BY <1>1, <1>4, <3>2, <3>3, <4>1 DEF HeldSomewhere
    <3>4. CASE l # k
      BY <1>1, <3>1, <3>2, <3>4 DEF HeldSomewhere
    <3> QED
      BY <3>3, <3>4
  <2> QED
    BY <2>2, <2>3, <2>4 DEF HeldSomewhere
<1> QED
  BY <1>5, <1>6

\* The steps of one live stream lose no work: it stays with the agent or under way
\* until its result is recorded.
LEMMA LiveStreamHolds ==
  ASSUME IInv, [Next]_vars, ~Reconnecting, NEW c \in Command, Adrift(c)'
  PROVE  Adrift(c)
<1> SUFFICES ASSUME ~Adrift(c) PROVE FALSE
  OBVIOUS
<1>1. TypeOK /\ Live' /\ status'[c] \in {"acked", "running"} /\ ~HeldSomewhere(c)'
  BY DEF Adrift, IInv
<1>2. /\ \A k \in Stream : ~(row[k] = "opening" /\ row'[k] = "open")
      /\ \A k \in Stream : k # conn => up'[k] = up[k]
  BY DEF Reconnecting
<1>3. ~LoseStream /\ \A k \in Stream : ~OpenStream(k)
  BY <1>1, <1>2 DEF LoseStream, Live, OpenStream, TypeOK
<1>4. conn' = conn /\ conn \in Stream
  <2>1. conn' = conn
    BY <1>3 DEF Next, vars, backend, agent, LookUp, IssueCommand, PassFreshnessBound,
         Authenticate, AbortOpening, ReceiveFrame, FailFrame, BeginClose, FinishClose,
         FailClose, BackendCrash, ReapScan, ReapCommit, RefuseExpired, ReplayResult,
         RefuseByPolicy, BeginExecution, FinishExecution, Tick
  <2> QED
    BY <1>1, <2>1 DEF Live, TypeOK
<1>5. Live
  <2>1. CASE row' = row
    BY <1>1, <1>4, <2>1 DEF Live
  <2>2. ASSUME NEW k \in Stream,
               \/ Authenticate(k) \/ AbortOpening(k) \/ FailFrame(k)
               \/ BeginClose(k) \/ FinishClose(k) \/ FailClose(k)
        PROVE  row'[conn] = "open" => row[conn] = "open"
    BY <1>1, <1>4, <2>2 DEF Authenticate, AbortOpening, FailFrame, BeginClose,
         FinishClose, FailClose, TypeOK
  <2>3. ASSUME BackendCrash PROVE row'[conn] = "open" => row[conn] = "open"
    BY <1>4, <2>3 DEF BackendCrash
  <2>4. \/ row' = row
        \/ \E k \in Stream : \/ Authenticate(k) \/ AbortOpening(k) \/ FailFrame(k)
                             \/ BeginClose(k) \/ FinishClose(k) \/ FailClose(k)
        \/ BackendCrash
    BY <1>3 DEF Next, vars, backend, LookUp, IssueCommand, PassFreshnessBound,
         ReceiveFrame, ReapScan, ReapCommit, RefuseExpired, ReplayResult, RefuseByPolicy,
         BeginExecution, FinishExecution, Tick
  <2> QED
    BY <1>1, <1>4, <2>1, <2>2, <2>3, <2>4 DEF Live
<1>6. \A k \in Stream : FailFrame(k) => k # conn
  BY <1>1, <1>4 DEF FailFrame, Live, TypeOK
<1>7. \A k \in Stream : ~FailFrame(k)
  <2>1. ASSUME NEW k \in Stream, FailFrame(k) PROVE up'[k] # up[k]
    <3>1. up[k] # <<>> /\ up' = [up EXCEPT ![k] = <<>>]
      BY <2>1 DEF FailFrame
    <3>2. up \in [Stream -> Seq(Frame)]
      BY <1>1 DEF TypeOK
    <3>3. up'[k] = <<>>
      BY <3>1, <3>2, Zenon
    <3> QED
      BY <3>1, <3>3, Zenon
  <2> QED
    BY <1>2, <1>6, <2>1, Zenon
<1>8. \A k \in Stream : ReceiveFrame(k) => k = conn
  <2>1. ASSUME NEW k \in Stream, ReceiveFrame(k) PROVE up'[k] # up[k]
    <3>1. up[k] \in Seq(Frame) /\ up[k] # <<>> /\ up'[k] = Tail(up[k])
      BY <2>1 DEF ReceiveFrame, TypeOK, IInv
    <3>2. PICK s \in Seq(Frame) : s = up[k]
      BY <3>1
    <3>3. Len(Tail(s)) = Len(s) - 1 /\ Len(s) \in Nat
      BY <3>1, <3>2
    <3>4. ASSUME NEW t, t = Tail(s) PROVE t # s
      <4>1. PICK n \in Nat : n = Len(s)
        BY <3>3
      <4>2. Len(t) = n - 1
        BY <3>3, <3>4, <4>1
      <4>3. n - 1 # n
        BY <4>1
      <4> QED
        BY <4>1, <4>2, <4>3, Zenon
    <3> QED
      BY <3>1, <3>2, <3>4
  <2> QED
    BY <1>2, <2>1
<1>9. \A k \in Stream : ~ReceiveFrame(k)
  <2>1. ASSUME NEW k \in Stream, ReceiveFrame(k) PROVE FALSE
    <3>1. HeldSomewhere(c) \/ status'[c] # status[c]
      BY <1>1, <1>5 DEF Adrift
    <3> QED
      BY <1>1, <1>5, <1>8, <2>1, <3>1, ReadIsHeld
  <2> QED
    BY <2>1
<1>10. HeldSomewhere(c)
  <2>1. ASSUME NEW w \in Worker, ReapCommit(w)
        PROVE  status'[c] \in {"acked", "running"} => status[c] = status'[c]
    BY <2>1 DEF ReapCommit
  <2>2. ASSUME NEW k \in Key, IssueCommand(k)
        PROVE  status'[c] \in {"acked", "running"} => status[c] = status'[c]
    BY <1>1, <2>2 DEF IssueCommand, TypeOK
  <2>3. \/ UNCHANGED status
        \/ \E w \in Worker : ReapCommit(w)
        \/ \E k \in Key : IssueCommand(k)
    BY <1>3, <1>7, <1>9 DEF Next, vars, backend, LookUp, PassFreshnessBound, Authenticate,
         AbortOpening, BeginClose, FinishClose, FailClose, BackendCrash, ReapScan,
         RefuseExpired, ReplayResult, RefuseByPolicy, BeginExecution, FinishExecution, Tick
  <2> QED
    BY <1>1, <1>5, <2>1, <2>2, <2>3 DEF Adrift
<1>11. ASSUME UNCHANGED <<busy, down, up>>, \A k \in Stream : row'[k] = row[k] \/ row[k] # "open"
       PROVE  FALSE
  BY <1>1, <1>10, <1>11 DEF HeldSomewhere
<1>12. ASSUME NEW k \in Stream, BeginClose(k) PROVE FALSE
  <2>1. /\ UNCHANGED <<busy, down, up>> /\ up[k] = <<>>
        /\ \A l \in Stream \ {k} : row'[l] = row[l]
    BY <1>1, <1>12 DEF BeginClose, agent, TypeOK
  <2>2. ~\E i \in DOMAIN up[k] : up[k][i].cmd = c
    BY <2>1
  <2> QED
    BY <1>1, <1>10, <2>1, <2>2 DEF HeldSomewhere
<1>13. ASSUME RefuseExpired PROVE FALSE
  <2>1. PICK x \in Item : NextItem(x) /\ Send(<<Result(x.cmd, FALSE)>>)
    BY <1>13 DEF RefuseExpired
  <2>2. /\ <<Result(x.cmd, FALSE)>> \in Seq(Frame)
        /\ 1 \in DOMAIN <<Result(x.cmd, FALSE)>>
        /\ <<Result(x.cmd, FALSE)>>[1].cmd = x.cmd
    <3>1. x.cmd \in Command
      BY DEF Item
    <3>2. <<Result(x.cmd, FALSE)>> \in Seq(Frame)
      BY <3>1, FrameTypes
    <3>3. Result(x.cmd, FALSE).cmd = x.cmd
      BY DEF Result
    <3> QED
      BY <3>2, <3>3, FirstOfFrames
  <2>3. row' = row /\ busy' = busy
    BY <1>13 DEF RefuseExpired, backend, agent
  <2> QED
    BY <1>1, <1>5, <1>10, <2>1, <2>2, <2>3, HandledIsHeld
<1>14. ASSUME ReplayResult PROVE FALSE
  <2>1. PICK x \in Item, o \in BOOLEAN :
          NextItem(x) /\ Send(<<Ack(x.cmd), Result(x.cmd, o)>>)
    BY <1>14 DEF ReplayResult
  <2>2. /\ <<Ack(x.cmd), Result(x.cmd, o)>> \in Seq(Frame)
        /\ 1 \in DOMAIN <<Ack(x.cmd), Result(x.cmd, o)>>
        /\ <<Ack(x.cmd), Result(x.cmd, o)>>[1].cmd = x.cmd
    <3>1. x.cmd \in Command
      BY DEF Item
    <3>2. <<Ack(x.cmd), Result(x.cmd, o)>> \in Seq(Frame)
      BY <3>1, FrameTypes
    <3>3. Ack(x.cmd).cmd = x.cmd
      BY DEF Ack
    <3> QED
      BY <3>2, <3>3, FirstOfFrames
  <2>3. row' = row /\ busy' = busy
    BY <1>14 DEF ReplayResult, backend, agent
  <2> QED
    BY <1>1, <1>5, <1>10, <2>1, <2>2, <2>3, HandledIsHeld
<1>15. ASSUME RefuseByPolicy PROVE FALSE
  <2>1. PICK x \in Item : NextItem(x) /\ Send(<<Ack(x.cmd), Result(x.cmd, FALSE)>>)
    BY <1>15 DEF RefuseByPolicy
  <2>2. /\ <<Ack(x.cmd), Result(x.cmd, FALSE)>> \in Seq(Frame)
        /\ 1 \in DOMAIN <<Ack(x.cmd), Result(x.cmd, FALSE)>>
        /\ <<Ack(x.cmd), Result(x.cmd, FALSE)>>[1].cmd = x.cmd
    <3>1. x.cmd \in Command
      BY DEF Item
    <3>2. <<Ack(x.cmd), Result(x.cmd, FALSE)>> \in Seq(Frame)
      BY <3>1, FrameTypes
    <3>3. Ack(x.cmd).cmd = x.cmd
      BY DEF Ack
    <3> QED
      BY <3>2, <3>3, FirstOfFrames
  <2>3. row' = row /\ busy' = busy
    BY <1>15 DEF RefuseByPolicy, backend
  <2> QED
    BY <1>1, <1>5, <1>10, <2>1, <2>2, <2>3, HandledIsHeld
<1>16. ASSUME BeginExecution PROVE FALSE
  <2>1. PICK x \in Item : NextItem(x) /\ Send(<<Ack(x.cmd), Progress(x.cmd)>>)
    BY <1>16 DEF BeginExecution
  <2>2. /\ <<Ack(x.cmd), Progress(x.cmd)>> \in Seq(Frame)
        /\ 1 \in DOMAIN <<Ack(x.cmd), Progress(x.cmd)>>
        /\ <<Ack(x.cmd), Progress(x.cmd)>>[1].cmd = x.cmd
    <3>1. x.cmd \in Command
      BY DEF Item
    <3>2. <<Ack(x.cmd), Progress(x.cmd)>> \in Seq(Frame)
      BY <3>1, FrameTypes
    <3>3. Ack(x.cmd).cmd = x.cmd
      BY DEF Ack
    <3> QED
      BY <3>2, <3>3, FirstOfFrames
  <2>3. row' = row /\ busy = None
    BY <1>16, <2>1 DEF BeginExecution, NextItem, backend
  <2> QED
    BY <1>1, <1>5, <1>10, <2>1, <2>2, <2>3, HandledIsHeld
<1>17. ASSUME FinishExecution \/ Tick PROVE FALSE
  <2>1. PICK f \in Frame : Send(<<f>>) /\ (busy' = busy \/ f.cmd = busy)
    <3>1. ASSUME FinishExecution, NEW o \in BOOLEAN, Send(<<Result(busy, o)>>)
          PROVE  \E f \in Frame : Send(<<f>>) /\ f.cmd = busy
      <4>1. Result(busy, o) \in Frame /\ Result(busy, o).cmd = busy
        BY <1>1, <3>1, FrameTypes DEF FinishExecution, TypeOK, Result
      <4> QED
        BY <3>1, <4>1
    <3>2. ASSUME Tick PROVE \E f \in Frame : Send(<<f>>) /\ busy' = busy
      <4>1. busy # None => Progress(busy) \in Frame
        BY <1>1, FrameTypes DEF TypeOK
      <4>2. \A t \in {"heartbeat", "other"} : [type |-> t, cmd |-> None, ok |-> TRUE] \in Frame
        BY DEF Frame
      <4> QED
        BY <3>2, <4>1, <4>2 DEF Tick, agent
    <3> QED
      BY <1>17, <3>1, <3>2 DEF FinishExecution
  <2>2. /\ row' = row /\ down' = down
    BY <1>17 DEF FinishExecution, Tick, backend
  <2>3. /\ up[conn] \in Seq(Frame) /\ up'[conn] = up[conn] \o <<f>>
        /\ \A l \in Stream \ {conn} : up'[l] = up[l]
    BY <1>1, <1>4, <1>5, <2>1 DEF Live, Send, TypeOK
  <2>4. /\ Len(up[conn]) + 1 \in DOMAIN up'[conn] /\ up'[conn][Len(up[conn]) + 1] = f
        /\ \A i \in DOMAIN up[conn] : i \in DOMAIN up'[conn] /\ up'[conn][i] = up[conn][i]
    BY <2>1, <2>3
  <2>5. CASE busy = c
    <3>1. busy' = c \/ f.cmd = c
      BY <2>1, <2>5
    <3>2. row'[conn] = "open"
      BY <1>5, <2>2 DEF Live
    <3> QED
      BY <1>1, <1>4, <2>4, <3>1, <3>2 DEF HeldSomewhere
  <2>6. CASE \E i \in DOMAIN down : down[i].cmd = c
    BY <1>1, <2>2, <2>6 DEF HeldSomewhere
  <2>7. CASE \E l \in Stream : row[l] = "open" /\ \E i \in DOMAIN up[l] : up[l][i].cmd = c
    <3>1. PICK l \in Stream : row[l] = "open" /\ \E i \in DOMAIN up[l] : up[l][i].cmd = c
      BY <2>7
    <3>2. PICK i \in DOMAIN up[l] : up[l][i].cmd = c
      BY <3>1
    <3>3. i \in DOMAIN up'[l] /\ up'[l][i] = up[l][i]
      BY <2>3, <2>4, <3>2
    <3> QED
      BY <1>1, <2>2, <3>1, <3>2, <3>3 DEF HeldSomewhere
  <2> QED
    BY <1>10, <2>5, <2>6, <2>7 DEF HeldSomewhere
<1>18. ASSUME NEW k \in Stream,
              Authenticate(k) \/ AbortOpening(k) \/ FinishClose(k) \/ FailClose(k)
       PROVE  FALSE
  BY <1>1, <1>11, <1>18 DEF Authenticate, AbortOpening, FinishClose, FailClose, agent,
       TypeOK
<1>19. ASSUME BackendCrash PROVE FALSE
  <2>0. PICK gone \in SUBSET Stream :
          /\ row' = [k \in Stream |->
                CASE k \in gone /\ row[k] \in {"open", "closing", "closingLast"} -> "orphan"
                  [] k \in gone /\ row[k] = "opening" -> "closed"
                  [] OTHER -> row[k]]
          /\ up' = [k \in Stream |-> IF k \in gone THEN <<>> ELSE up[k]]
    BY <1>19 DEF BackendCrash
  <2>1. /\ up' = [k \in Stream |-> IF k \in gone THEN <<>> ELSE up[k]]
        /\ \A k \in Stream \ gone : row'[k] = row[k]
        /\ \A k \in gone : row'[k] # "open"
    BY <2>0
  <2>2. busy' = busy /\ down' = down
    BY <1>19 DEF BackendCrash, agent
  <2>3. conn \notin gone
    BY <1>1, <1>4, <2>1 DEF Live
  <2>4. \A k \in Stream : up'[k] = up[k]
    BY <1>2, <2>1, <2>3
  <2>5. \A k \in gone : up[k] = <<>>
    BY <2>1, <2>4
  <2>6. CASE \E l \in Stream : row[l] = "open" /\ \E i \in DOMAIN up[l] : up[l][i].cmd = c
    <3>1. PICK l \in Stream : row[l] = "open" /\ \E i \in DOMAIN up[l] : up[l][i].cmd = c
      BY <2>6
    <3>2. l \notin gone
      BY <2>5, <3>1
    <3>3. row'[l] = "open" /\ up'[l] = up[l]
      BY <2>1, <2>4, <3>1, <3>2
    <3> QED
      BY <1>1, <3>1, <3>3 DEF HeldSomewhere
  <2> QED
    BY <1>1, <1>10, <2>2, <2>6 DEF HeldSomewhere
<1> QED
  BY <1>19, <1>3, <1>6, <1>7, <1>9, <1>11, <1>12, <1>13, <1>14, <1>15, <1>16, <1>17, <1>18
     DEF Next, vars, backend, agent, LookUp, IssueCommand, PassFreshnessBound, ReapScan,
         ReapCommit

\* A node whose stream stays up loses no work: a command that is acked or running
\* gets out of hand only when a stream opens, or when frames of a stream that the
\* agent has left are read or dropped.
THEOREM LostByReconnects == Spec => OnlyReconnectsLoseWork
<1>1. IInv /\ [Next]_vars
        => [\A c \in Command : Adrift(c)' => Adrift(c) \/ Reconnecting]_vars
  BY LiveStreamHolds
<1> QED
  BY <1>1, Invariance, PTL DEF Spec, OnlyReconnectsLoseWork

-----------------------------------------------------------------------------
(* NodeCommands implements CommandOutcome *)

LEMMA PromiseInit == Init => Promise!Init
BY DEF Init, Promise!Init, OutcomeOf, None, Command

\* A step of the backend leaves the outcomes alone, and what it then reports as
\* succeeded is a success of the agent.
LEMMA BackendReports ==
  ASSUME IInv, IInv', UNCHANGED <<busy, store>>
  PROVE  Promise!Report
<1>1. \A c \in Command : OutcomeOf(c)' = OutcomeOf(c)
  BY DEF OutcomeOf
<1>2. \A c \in Command : status'[c] = "succeeded" => OutcomeOf(c) = "ok"
  BY DEF IInv, OutcomeIsExplained, BusyIsUndecided, OutcomeOf, None, Command
<1> QED
  BY <1>1, <1>2 DEF Promise!Report

\* The outcomes after a step that changes one of them.
LEMMA OneOutcome ==
  ASSUME NEW c \in Command, NEW o, OutcomeOf(c)' = o,
         \A d \in Command \ {c} : OutcomeOf(d)' = OutcomeOf(d)
  PROVE  [d \in Command |-> OutcomeOf(d)]' = [[d \in Command |-> OutcomeOf(d)] EXCEPT ![c] = o]
OBVIOUS

LEMMA PromiseStep ==
  IInv /\ IInv' /\ [Next]_vars => [Promise!Next]_(Promise!vars)
<1> SUFFICES ASSUME IInv, IInv', [Next]_vars
             PROVE  [Promise!Next]_(Promise!vars)
  OBVIOUS
<1> DEFINE outcome == [c \in Command |-> OutcomeOf(c)]
           reported == {c \in Command : status[c] = "succeeded"}
<1>0. TypeOK /\ BusyIsUndecided
  BY DEF IInv
<1>1. CASE UNCHANGED <<busy, store>>
  BY <1>1, BackendReports DEF Promise!Next
<1>2. CASE RefuseByPolicy
  <2>1. PICK i \in Item : NextItem(i) /\ store[i.cmd] = "none"
                          /\ store' = [store EXCEPT ![i.cmd] = "fail"]
                          /\ UNCHANGED <<busy, status>>
    BY <1>2 DEF RefuseByPolicy, backend
  <2>2. i.cmd \in Command /\ busy = None
    BY <2>1 DEF NextItem, Item
  <2>3. outcome[i.cmd] = "none" /\ outcome' = [outcome EXCEPT ![i.cmd] = "fail"]
    <3>1. \A d \in Command : OutcomeOf(d) = store[d] /\ OutcomeOf(d)' = store'[d]
      BY <2>1, <2>2 DEF OutcomeOf, None, Command
    <3>2. store'[i.cmd] = "fail" /\ \A d \in Command \ {i.cmd} : store'[d] = store[d]
      BY <1>0, <2>1, <2>2 DEF TypeOK
    <3> QED
      BY <2>1, <2>2, <3>1, <3>2, OneOutcome
  <2>4. UNCHANGED reported
    BY <2>1
  <2>5. Promise!Decide(i.cmd, "fail")
    BY <2>3, <2>4 DEF Promise!Decide
  <2> QED
    BY <2>2, <2>5 DEF Promise!Next
<1>3. CASE BeginExecution
  <2>1. PICK i \in Item : NextItem(i) /\ store[i.cmd] = "none" /\ busy' = i.cmd
                          /\ UNCHANGED <<store, status>>
    BY <1>3 DEF BeginExecution, backend
  <2>2. i.cmd \in Command /\ busy = None
    BY <2>1 DEF NextItem, Item
  <2>3. \A d \in Command : OutcomeOf(d) = store[d] /\ outcome[d] # "executing"
    <3>1. \A d \in Command : OutcomeOf(d) = store[d]
      BY <2>2 DEF OutcomeOf, None, Command
    <3>2. \A d \in Command : store[d] # "executing"
      BY <1>0 DEF TypeOK
    <3> QED
      BY <3>1, <3>2
  <2>4. outcome[i.cmd] = "none" /\ outcome' = [outcome EXCEPT ![i.cmd] = "executing"]
    <3>1. \A d \in Command : OutcomeOf(d)' = IF i.cmd = d THEN "executing" ELSE store[d]
      BY <2>1 DEF OutcomeOf
    <3> QED
      BY <2>1, <2>2, <2>3, <3>1, OneOutcome
  <2>5. UNCHANGED reported
    BY <2>1
  <2>6. Promise!Start(i.cmd)
    BY <2>3, <2>4, <2>5 DEF Promise!Start
  <2> QED
    BY <2>2, <2>6 DEF Promise!Next
<1>4. ASSUME NEW o \in {"ok", "fail"}, busy # None, busy' = None, status' = status,
             store' = [store EXCEPT ![busy] = o]
      PROVE  Promise!Next
  <2>1. PICK c \in Command : c = busy
    BY <1>0, <1>4 DEF TypeOK
  <2>2. outcome[c] = "executing" /\ outcome' = [outcome EXCEPT ![c] = o]
    <3>1. OutcomeOf(c) = "executing" /\ \A d \in Command \ {c} : OutcomeOf(d) = store[d]
      BY <2>1 DEF OutcomeOf
    <3>2. \A d \in Command : OutcomeOf(d)' = store'[d]
      BY <1>4 DEF OutcomeOf, None, Command
    <3>3. store'[c] = o /\ \A d \in Command \ {c} : store'[d] = store[d]
      BY <1>0, <1>4, <2>1 DEF TypeOK
    <3> QED
      BY <3>1, <3>2, <3>3, OneOutcome
  <2>3. UNCHANGED reported
    BY <1>4
  <2>4. Promise!Decide(c, o)
    BY <2>2, <2>3 DEF Promise!Decide
  <2> QED
    BY <2>4 DEF Promise!Next
<1>5. CASE FinishExecution
  <2>1. \E o \in {"ok", "fail"} : store' = [store EXCEPT ![busy] = o]
    BY <1>5 DEF FinishExecution
  <2>2. busy # None /\ busy' = None /\ status' = status
    BY <1>5 DEF FinishExecution, backend
  <2> QED
    BY <1>4, <2>1, <2>2
<1>6. CASE LoseStream
  <2>1. busy' = None /\ status' = status
    BY <1>6 DEF LoseStream, backend
  <2>2. CASE busy = None /\ store' = store
    BY <1>1, <2>1, <2>2
  <2>3. CASE busy # None /\ store' = store
    <3>1. PICK c \in Command : c = busy
      BY <1>0, <2>3 DEF TypeOK
    <3>2. outcome[c] = "executing" /\ outcome' = [outcome EXCEPT ![c] = "none"]
      <4>1. OutcomeOf(c) = "executing" /\ \A d \in Command \ {c} : OutcomeOf(d) = store[d]
        BY <3>1 DEF OutcomeOf
      <4>2. \A d \in Command : OutcomeOf(d)' = store[d]
        BY <2>1, <2>3 DEF OutcomeOf, None, Command
      <4>3. store[c] = "none"
        BY <1>0, <2>3, <3>1 DEF BusyIsUndecided
      <4> QED
        BY <4>1, <4>2, <4>3, OneOutcome
    <3>3. UNCHANGED reported
      BY <2>1
    <3>4. Promise!BreakOff(c)
      BY <3>2, <3>3 DEF Promise!BreakOff
    <3> QED
      BY <3>4 DEF Promise!Next
  <2>4. CASE busy # None /\ store' = [store EXCEPT ![busy] = "fail"]
    BY <1>4, <2>1, <2>4
  <2> QED
    BY <1>6, <2>2, <2>3, <2>4 DEF LoseStream
<1> QED
  BY <1>1, <1>2, <1>3, <1>5, <1>6
     DEF Next, vars, agent, LookUp, IssueCommand, PassFreshnessBound, Authenticate,
         OpenStream, AbortOpening, ReceiveFrame, FailFrame, BeginClose, FinishClose,
         FailClose, BackendCrash, ReapScan, ReapCommit, RefuseExpired, ReplayResult, Tick

\* NodeCommands implements CommandOutcome: across resends, lost frames, broken
\* executions and crashes the outcome of a command is decided once.
THEOREM OutcomeKept == Spec => OutcomePromise
BY PromiseInit, PromiseStep, Invariance, PTL DEF Spec, OutcomePromise, Promise!Spec

-----------------------------------------------------------------------------
(* NodeCommands implements CommandLife *)

LEMMA LifeInit == Init => Life!Init
BY DEF Init, Life!Init, Life!Unsent

\* The backend's dispatch is the sending of the abstract life.
LEMMA DispatchedIsSent ==
  ASSUME NEW st
  PROVE  Dispatched(st) = Life!Sent(st)
BY DEF Dispatched, Life!Sent

\* The frame a loop has read is about a command that was sent, or changes no row.
LEMMA RecordIsAllowed ==
  ASSUME TypeOK, FramesAgree, NEW k \in Stream, ReceiveFrame(k)
  PROVE  Life!Next
<1> DEFINE f == Head(up[k])
<1>1. up[k] \in Seq(Frame) /\ up[k] # <<>> /\ status' = Dispatched(Recorded(f))
  BY DEF ReceiveFrame, TypeOK
<1>2. 1 \in 1..Len(up[k]) /\ f = up[k][1]
  BY <1>1
<1>3. Agrees(f)
  BY <1>2 DEF FramesAgree
<1>4. CASE f.type \notin {"ack", "progress", "result"}
  <2>1. Recorded(f) = status
    BY <1>4 DEF Recorded
  <2>2. Life!Send
    BY <1>1, <2>1, DispatchedIsSent DEF Life!Send
  <2> QED
    BY <2>2 DEF Life!Next
<1>5. CASE f.type \in {"ack", "progress", "result"}
  <2>1. f.cmd \in Command /\ WasSent(f.cmd)
    BY <1>3, <1>5 DEF Agrees
  <2>2. PICK s \in Life!Recordable : Recorded(f) = [status EXCEPT ![f.cmd] = s]
    BY <1>5 DEF Recorded, Life!Recordable
  <2>3. Life!Record(f.cmd, s)
    BY <1>1, <2>1, <2>2, DispatchedIsSent DEF Life!Record, Life!Unsent, WasSent
  <2> QED
    BY <2>1, <2>3 DEF Life!Next
<1> QED
  BY <1>4, <1>5

LEMMA LifeStep == IInv /\ [Next]_vars => [Life!Next]_status
<1> SUFFICES ASSUME IInv, [Next]_vars, status' # status
             PROVE  Life!Next
  OBVIOUS
<1>0. TypeOK /\ FramesAgree /\ ReapWasSent
  BY DEF IInv
<1>1. ASSUME NEW k \in Key, IssueCommand(k) PROVE Life!Next
  <2>1. PICK c \in Command : /\ status[c] = "unissued"
                             /\ status' = [status EXCEPT ![c] = "queued"]
    BY <1>1 DEF IssueCommand
  <2> QED
    BY <2>1 DEF Life!Next, Life!Issue
<1>2. ASSUME NEW k \in Stream, OpenStream(k) PROVE Life!Next
  BY <1>2, DispatchedIsSent DEF OpenStream, Life!Next, Life!Send
<1>3. ASSUME NEW k \in Stream, ReceiveFrame(k) PROVE Life!Next
  BY <1>0, <1>3, RecordIsAllowed
<1>4. ASSUME NEW w \in Worker, ReapCommit(w) PROVE Life!Next
  <2>1. Life!GiveUp(reap[w])
    BY <1>0, <1>4 DEF ReapCommit, ReapWasSent, WasSent, Life!GiveUp, Life!Unsent
  <2>2. reap[w] \in SUBSET Command
    BY <1>0 DEF TypeOK
  <2> QED
    BY <2>1, <2>2 DEF Life!Next
<1> QED
  BY <1>1, <1>2, <1>3, <1>4
     DEF Next, vars, backend, LookUp, PassFreshnessBound, Authenticate, AbortOpening,
         FailFrame, BeginClose, FinishClose, FailClose, BackendCrash, ReapScan,
         RefuseExpired, ReplayResult, RefuseByPolicy, BeginExecution, FinishExecution,
         Tick, LoseStream

\* NodeCommands implements CommandLife: no row goes back to the queue, and nothing is
\* recorded of, or given up on, a command whose dispatch was not committed, though
\* its frame may be out when the transaction is rolled back.
THEOREM LifeKept == Spec => LifePromise
BY LifeInit, LifeStep, Invariance, PTL DEF Spec, LifePromise, Life!Spec
=============================================================================
