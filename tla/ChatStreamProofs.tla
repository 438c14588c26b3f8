-------------------------- MODULE ChatStreamProofs --------------------------
(***************************************************************************)
(* ChatStream's inductive invariant, what follows from it, and that the    *)
(* chat implements Conversation, for any tabs, texts, requests and chunks. *)
(***************************************************************************)
EXTENDS ChatStream, SequenceTheorems, TLAPS

USE ChatAssumption DEF Request, EndMark, NoAbort, Resumed

-----------------------------------------------------------------------------
(* Types *)

\* The initial state has the types.
LEMMA TypeInit == Init => TypeOK
  BY DEF Init, TypeOK, GatewayType, WireType, UiType, LoadType, NoEntry, Stage

\* The history is a sequence of messages.
LEMMA LogType ==
  ASSUME GatewayType
  PROVE  /\ log \in Seq(Messages)
         /\ Len(log) \in Nat
         /\ log # << >> => Len(log) \in 1..Len(log)
         /\ \A i \in 1..Len(log) : /\ log[i].role \in {"user", "assistant"}
                                 /\ log[i].req \in Request
<1>1. log \in Seq(Messages)
  BY DEF GatewayType
<1>2. log # << >> => Len(log) \in 1..Len(log)
  BY <1>1, EmptySeq
<1>3. ASSUME NEW i \in 1..Len(log)
      PROVE  log[i].role \in {"user", "assistant"} /\ log[i].req \in Request
  <2>1. log[i] \in Messages
    BY <1>1, <1>3, ElementOfSeq
  <2> QED
    BY <2>1 DEF Messages
<1> QED
  BY <1>1, <1>2, <1>3, LenProperties

\* What several actions share keeps the types.
LEMMA MishapType == ASSUME TypeOK, Mishap PROVE mishaps' \in 0..Mishaps
  BY DEF TypeOK, Mishap

LEMMA LeaveLoadingType ==
  ASSUME LoadType, NEW t \in Tab, LeaveLoading(t)
  PROVE  LoadType'
  BY DEF LoadType, LeaveLoading

LEMMA OfferRetryType ==
  ASSUME UiType, LoadType, NEW t \in Tab, OfferRetry(t)
  PROVE  err' \in [Tab -> BOOLEAN] /\ last' \in [Tab -> Text \cup {NoText}]
<1>1. CASE offer[t] # NoText
  <2>1. err' \in [Tab -> BOOLEAN]
    BY <1>1 DEF UiType, OfferRetry
  <2>2. last' \in [Tab -> Text \cup {NoText}]
    BY <1>1 DEF UiType, LoadType, OfferRetry
  <2> QED
    BY <2>1, <2>2
<1>2. CASE offer[t] = NoText
  BY <1>2 DEF UiType, OfferRetry
<1> QED
  BY <1>1, <1>2

LEMMA HangupType ==
  ASSUME WireType, NEW R, Hangup(R)
  PROVE  cli' \in [Request -> {"none", "reading", "open", "ended"}]
         /\ from' \in [Request -> Tab \cup {NoText}]
  BY DEF WireType, Hangup

LEMMA SettleType ==
  ASSUME UiType, NEW r \in Request, from[r] \in Tab, NEW failed \in BOOLEAN,
         Settle(r, failed)
  PROVE  UiType'
<1>1. busy' \in [Tab -> BOOLEAN] /\ abort' \in [Tab -> 0..Resumed]
  BY DEF UiType, Settle
<1>2. err' \in [Tab -> BOOLEAN]
  BY DEF UiType, Settle
<1> QED
  BY <1>1, <1>2 DEF UiType, Settle

LEMMA EndAsType ==
  ASSUME GatewayType, WireType, NEW r \in Request, NEW s \in Gone, EndAs(r, s)
  PROVE  st' \in [Request -> Stage] /\ WireType'
<1>1. st' \in [Request -> Stage]
  BY DEF GatewayType, EndAs, Stage, Gone
<1>2. CASE cli[r] = "reading"
  BY <1>1, <1>2 DEF WireType, EndAs
<1>3. CASE cli[r] # "reading"
  <2>1. Hangup({r}) /\ text' = text
    BY <1>3 DEF EndAs
  <2> QED
    BY <1>1, <2>1, HangupType DEF WireType
<1> QED
  BY <1>2, <1>3

LEMMA AppendLogType ==
  ASSUME GatewayType, NEW role \in {"user", "assistant"}, NEW r \in Request,
         NEW n \in 0..Chunks, log' = Append(log, C!Message(role, r, n))
  PROVE  log' \in Seq(Messages)
<1>1. C!Message(role, r, n) \in Messages
  BY DEF C!Message, Messages
<1> QED
  BY <1>1, AppendProperties DEF GatewayType

LEMMA WakeType ==
  ASSUME LoadType, Wake
  PROVE  waits' \in [Tab -> 0..Requests]
  BY DEF LoadType, Wake

LEMMA StartSendType ==
  ASSUME TypeOK, NEW t \in Tab, NEW r \in Request, NEW m \in Text,
         StartSend(t, r, m)
  PROVE  GatewayType' /\ WireType' /\ UiType' /\ LoadType' /\ mishaps' \in 0..Mishaps
<1>. USE DEF TypeOK, StartSend, loading
<1>1. GatewayType'
  BY DEF GatewayType, Stage
<1>2. WireType'
  BY DEF WireType
<1>3. UiType'
  <2>1. busy' \in [Tab -> BOOLEAN] /\ err' \in [Tab -> BOOLEAN]
    BY DEF UiType
  <2>2. last' \in [Tab -> Text \cup {NoText}] /\ abort' \in [Tab -> 0..Resumed]
    BY DEF UiType
  <2> QED
    BY <2>1, <2>2 DEF UiType
<1>4. LoadType'
  BY DEF LoadType
<1> QED
  BY <1>1, <1>2, <1>3, <1>4

LEMMA MountType ==
  ASSUME TypeOK, NEW t \in Tab, Mount(t)
  PROVE  /\ UiType' /\ LoadType'
         /\ retries' \in [Tab -> Text \cup {NoText}]
         /\ mishaps' \in 0..Mishaps
<1>. USE DEF TypeOK, Mount
<1>1. UiType'
  <2>1. busy' \in [Tab -> BOOLEAN] /\ err' \in [Tab -> BOOLEAN]
    BY DEF UiType
  <2>2. last' \in [Tab -> Text \cup {NoText}] /\ abort' \in [Tab -> 0..Resumed]
    BY DEF UiType
  <2> QED
    BY <2>1, <2>2 DEF UiType
<1>2. LoadType'
  BY DEF LoadType
<1> QED
  BY <1>1, <1>2, MishapType

\* Every step of a tab keeps the types.
LEMMA TabTypes ==
  ASSUME TypeOK, TabInv, StopReachesTheStream, NEW t \in Tab, TabStep(t)
  PROVE  TypeOK'
<1>. USE DEF TypeOK
<1>1. ASSUME NEW r \in Request, NEW m \in Text, Send(t, r, m) PROVE TypeOK'
  BY <1>1, StartSendType DEF Send
<1>2. CASE Retry(t)
  <2>1. GatewayType' /\ WireType' /\ LoadType'
    BY <1>2 DEF Retry, gateway, wire, loading, GatewayType, WireType, LoadType
  <2>2. UiType'
    BY <1>2 DEF Retry, UiType
  <2>3. retries' \in [Tab -> Text \cup {NoText}]
    BY <1>2 DEF Retry, UiType
  <2> QED
    BY <1>2, <2>1, <2>2, <2>3 DEF Retry
<1>3. ASSUME NEW r \in Request, Resend(t, r) PROVE TypeOK'
  <2>1. retries[t] \in Text
    BY <1>3 DEF Resend
  <2>2. retries' \in [Tab -> Text \cup {NoText}]
    BY <1>3 DEF Resend
  <2> QED
    BY <1>3, <2>1, <2>2, StartSendType DEF Resend
<1>4. CASE UNCHANGED <<gateway, wire, retries>>
           /\ (UNCHANGED mishaps \/ Mishap)
           /\ UiType' /\ LoadType'
  BY <1>4, MishapType DEF gateway, wire, GatewayType, WireType
<1>5. CASE ListMessages(t)
  <2>1. LoadType'
    <3>1. log # << >> => log[Len(log)].req \in Request
      BY LogType
    <3>. DEFINE o == IF log # << >> /\ log[Len(log)].role = "user"
                     THEN text[log[Len(log)].req] ELSE NoText
    <3>3. o \in Text \cup {NoText}
      BY <3>1 DEF WireType
    <3>4. offer' = [offer EXCEPT ![t] = o]
      BY <1>5 DEF ListMessages
    <3>. HIDE DEF o
    <3>2. offer' \in [Tab -> Text \cup {NoText}]
      BY <3>3, <3>4 DEF LoadType
    <3> QED
      BY <1>5, <3>2 DEF ListMessages, LoadType
  <2> QED
    BY <1>4, <1>5, <2>1 DEF ListMessages, ui, UiType
<1>6. CASE ListFails(t)
  <2>1. UiType'
    BY <1>6 DEF ListFails, UiType
  <2> QED
    BY <1>4, <1>6, <2>1, LeaveLoadingType DEF ListFails
<1>7. CASE StatusActive(t)
  <2>1. UiType'
    BY <1>7 DEF StatusActive, UiType
  <2>2. LoadType'
    BY <1>7 DEF StatusActive, LoadType
  <2> QED
    BY <1>4, <1>7, <2>1, <2>2 DEF StatusActive
<1>8. CASE StatusInactive(t)
  <2>1. UiType'
    BY <1>8, OfferRetryType DEF StatusInactive, UiType
  <2> QED
    BY <1>4, <1>8, <2>1, LeaveLoadingType DEF StatusInactive
<1>9. CASE Subscribe(t)
  <2>1. LoadType'
    BY <1>9 DEF Subscribe, LoadType, GatewayType
  <2> QED
    BY <1>4, <1>9, <2>1 DEF Subscribe, ui, UiType
<1>10. ASSUME EndResume(t) PROVE TypeOK'
  <2>1. UiType'
    BY <1>10 DEF EndResume, UiType
  <2> QED
    BY <1>4, <1>10, <2>1, LeaveLoadingType DEF EndResume
<1>11. CASE NothingToResume(t) \/ ResumeEnds(t)
  BY <1>10, <1>11 DEF NothingToResume, ResumeEnds
<1>12. CASE ResumeChunk(t)
  <2>1. buf.chunks[cursor[t] + 1] \in Chunk
    BY <1>12 DEF ResumeChunk, Caught, LoadType, GatewayType
  <2>2. Append(acc[t], buf.chunks[cursor[t] + 1]) \in Seq(Chunk)
    BY <2>1, AppendProperties DEF LoadType
  <2>3. LoadType'
    BY <1>12, <2>2 DEF ResumeChunk, LoadType
  <2> QED
    BY <1>4, <1>12, <2>3 DEF ResumeChunk, ui, UiType
<1>13. CASE ResumeWaits(t)
  <2>1. LoadType'
    BY <1>13 DEF ResumeWaits, LoadType, GatewayType
  <2> QED
    BY <1>4, <1>13, <2>1 DEF ResumeWaits, ui, UiType
<1>14. CASE LoseResume(t)
  <2>1. UiType'
    BY <1>14, OfferRetryType DEF LoseResume, UiType
  <2> QED
    BY <1>4, <1>14, <2>1, LeaveLoadingType DEF LoseResume
<1>15. CASE StopSend(t)
  <2>1. UiType'
    BY <1>15 DEF StopSend, UiType
  <2>2. WireType'
    BY <1>15, HangupType DEF StopSend, WireType
  <2> QED
    BY <1>15, <2>1, <2>2 DEF StopSend, gateway, loading, GatewayType, LoadType
<1>16. CASE StopResume(t)
  <2>1. err' \in [Tab -> BOOLEAN] /\ last' \in [Tab -> Text \cup {NoText}]
    <3>1. CASE load[t] \in {"subscribing", "resuming"}
      BY <1>16, <3>1, OfferRetryType DEF StopResume
    <3>2. CASE load[t] \notin {"subscribing", "resuming"}
      BY <1>16, <3>2 DEF StopResume, UiType
    <3> QED
      BY <3>1, <3>2
  <2>2. UiType'
    <3>1. busy' \in [Tab -> BOOLEAN] /\ abort' \in [Tab -> 0..Resumed]
      BY <1>16 DEF StopResume, UiType
    <3> QED
      BY <2>1, <3>1 DEF UiType
  <2>3. LoadType'
    BY <1>16, LeaveLoadingType DEF StopResume, loading, LoadType
  <2> QED
    BY <1>4, <1>16, <2>2, <2>3 DEF StopResume
<1>17. CASE Return(t)
  <2>1. WireType'
    BY <1>17 DEF Return, WireType
  <2> QED
    BY <1>17, <2>1, MountType DEF Return, gateway, GatewayType
<1>18. CASE Reload(t)
  <2>1. WireType'
    BY <1>18, HangupType DEF Reload, WireType
  <2> QED
    BY <1>18, <2>1, MountType DEF Reload, gateway, GatewayType
<1> QED
  BY <1>1, <1>2, <1>3, <1>5, <1>6, <1>7, <1>8, <1>9, <1>11, <1>12, <1>13, <1>14,
     <1>15, <1>16, <1>17, <1>18 DEF TabStep, Resuming

\* Every step of a request keeps the types.
LEMMA RequestTypes ==
  ASSUME TypeOK, TabInv, NEW r \in Request, RequestStep(r)
  PROVE  TypeOK'
<1>. USE DEF TypeOK
<1>1. ASSUME UiType', LoadType', WireType', UNCHANGED <<gateway, retries>>,
             UNCHANGED mishaps \/ Mishap
      PROVE  TypeOK'
  BY <1>1, MishapType DEF gateway, GatewayType
<1>2. CASE ReadEnd(r)
  <2>1. UiType'
    BY <1>2, SettleType DEF ReadEnd, TabInv
  <2>2. WireType'
    <3>1. CASE st[r] \in Gone
      BY <1>2, <3>1, HangupType DEF ReadEnd, Settle, WireType
    <3>2. CASE st[r] \notin Gone
      BY <1>2, <3>2 DEF ReadEnd, Settle, WireType
    <3> QED
      BY <3>1, <3>2
  <2> QED
    BY <1>1, <1>2, <2>1, <2>2 DEF ReadEnd, loading, LoadType
<1>3. CASE LoseConnection(r)
  <2>1. text' = text
    BY <1>3 DEF LoseConnection, Settle
  <2>2. WireType'
    BY <1>3, <2>1, HangupType DEF LoseConnection, WireType
  <2>3. UiType'
    BY <1>3, SettleType DEF LoseConnection, TabInv, ui, UiType
  <2> QED
    BY <1>1, <1>3, <2>2, <2>3 DEF LoseConnection, loading, LoadType
<1>4. ASSUME GatewayType', UNCHANGED client, UNCHANGED mishaps \/ Mishap
      PROVE  TypeOK'
  BY <1>4, MishapType DEF client, wire, ui, loading, WireType, UiType, LoadType
<1>5. ASSUME GatewayType', UNCHANGED <<wire, ui, load, offer, acc, cursor, sub,
                                       retries, mishaps>>,
             Wake \/ UNCHANGED waits
      PROVE  TypeOK'
  <2>1. LoadType'
    BY <1>5, WakeType DEF LoadType
  <2> QED
    BY <1>5, <2>1 DEF wire, ui, WireType, UiType
<1>6. CASE ReadLast(r)
  <2>1. GatewayType'
    BY <1>6 DEF ReadLast, GatewayType, Stage
  <2> QED
    BY <1>4, <1>6, <2>1 DEF ReadLast
<1>7. CASE StorePrompt(r)
  <2>1. log' \in Seq(Messages)
    <3>1. CASE known[r]
      BY <1>7, <3>1 DEF StorePrompt, GatewayType
    <3>2. CASE ~known[r]
      <4>1. 0 \in 0..Chunks
        OBVIOUS
      <4> QED
        BY <1>7, <3>2, <4>1, AppendLogType DEF StorePrompt
    <3> QED
      BY <3>1, <3>2
  <2>2. known' \in [Request -> BOOLEAN]
    BY <1>7 DEF StorePrompt, GatewayType
  <2>3. GatewayType'
    BY <1>7, <2>1, <2>2 DEF StorePrompt, GatewayType, Stage
  <2> QED
    BY <1>4, <1>7, <2>3 DEF StorePrompt
<1>8. CASE StartStream(r)
  <2>1. GatewayType'
    BY <1>8 DEF StartStream, GatewayType, Stage
  <2> QED
    BY <1>4, <1>8, <2>1 DEF StartStream
<1>9. CASE Push(r)
  <2>2. GatewayType'
    <3>1. st' \in [Request -> Stage]
      BY <1>9 DEF Push, GatewayType, Stage, Finishing
    <3>2. sent[r] + 1 \in 1..EndMark /\ sent' \in [Request -> 0..EndMark]
      <4>1. sent[r] <= Chunks
        BY <1>9 DEF TabInv, Push, GatewayType
      <4> QED
        BY <1>9, <4>1, SMTT(30) DEF Push, GatewayType
    <3>3. CASE IsActive
      <4>1. Append(buf.chunks, <<r, sent[r] + 1>>) \in Seq(Chunk)
        BY <3>2, AppendProperties DEF GatewayType, Chunk
      <4> QED
        BY <1>9, <3>1, <3>2, <3>3, <4>1 DEF Push, GatewayType
    <3>4. CASE ~IsActive
      BY <1>9, <3>1, <3>2, <3>4 DEF Push, GatewayType
    <3> QED
      BY <3>3, <3>4
  <2> QED
    BY <1>5, <1>9, <2>2 DEF Push
<1>10. CASE Persist(r)
  <2>1. Stored(r) \in 0..Chunks
    BY DEF Stored, GatewayType
  <2>2. GatewayType'
    BY <1>10, <2>1, AppendLogType DEF Persist, GatewayType, Stage, Finishing
  <2> QED
    BY <1>4, <1>10, <2>2 DEF Persist
<1>11. CASE Finish(r)
  <2>1. st' \in [Request -> Stage] /\ WireType'
    BY <1>11, EndAsType DEF Finish, Gone
  <2>2. GatewayType'
    BY <1>11, <2>1 DEF Finish, GatewayType
  <2>3. LoadType'
    BY <1>11, WakeType DEF Finish, LoadType
  <2> QED
    BY <1>11, <2>1, <2>2, <2>3 DEF Finish, ui, UiType
<1>12. CASE LeaveLoop(r)
  <2>1. GatewayType'
    BY <1>12 DEF LeaveLoop, GatewayType, Stage, Finishing
  <2> QED
    BY <1>4, <1>12, <2>1 DEF LeaveLoop
<1>13. ASSUME EndAs(r, "cut"), UNCHANGED <<log, buf, sent, ui, loading, retries>>,
              known' \in [Request -> BOOLEAN], UNCHANGED mishaps \/ Mishap
       PROVE  TypeOK'
  <2>1. st' \in [Request -> Stage] /\ WireType'
    BY <1>13, EndAsType DEF Gone
  <2>2. GatewayType'
    BY <1>13, <2>1 DEF GatewayType
  <2> QED
    BY <1>13, <2>1, <2>2, MishapType DEF ui, loading, UiType, LoadType
<1>14. CASE Fail(r)
  <2>1. known' \in [Request -> BOOLEAN]
    BY <1>14 DEF Fail, GatewayType
  <2> QED
    BY <1>13, <1>14, <2>1 DEF Fail
<1>15. CASE PersistFails(r)
  <2>1. GatewayType'
    BY <1>15 DEF PersistFails, GatewayType, Stage, Finishing
  <2> QED
    BY <1>4, <1>15, <2>1 DEF PersistFails
<1>16. CASE Cut(r)
  BY <1>13, <1>16 DEF Cut, GatewayType
<1> QED
  BY <1>2, <1>3, <1>6, <1>7, <1>8, <1>9, <1>10, <1>11, <1>12, <1>14, <1>15, <1>16
     DEF RequestStep, Generator

-----------------------------------------------------------------------------
(* The history *)

\* One message more: nothing kept before is lost, and only it is new.
LEMMA HistoryGrows ==
  ASSUME GatewayType, NEW r \in Request, NEW role \in {"user", "assistant"},
         NEW n \in 0..Chunks, log' = Append(log, C!Message(role, r, n)),
         text' = text
  PROVE  /\ \A q \in Request : C!Prompted(q) => C!Prompted(q)'
         /\ \A q \in Request, k \in {"user", "assistant"} :
              C!Kept(k, q)' <=> C!Kept(k, q) \/ (k = role /\ q = r)
         /\ role = "user" => C!Prompted(r)'
         /\ \A i \in 1..Len(log)' : \/ i \in 1..Len(log) /\ log'[i] = log[i]
                                    \/ i = Len(log) + 1 /\ log'[i] = C!Message(role, r, n)
<1>1. /\ Len(log) \in Nat
      /\ Len(log') = Len(log) + 1
      /\ \A i \in 1..Len(log) : log'[i] = log[i]
      /\ log'[Len(log) + 1] = C!Message(role, r, n)
  <2>1. C!Message(role, r, n) \in Messages
    BY DEF C!Message, Messages
  <2>2. log \in Seq(Messages)
    BY LogType
  <2> QED
    BY <2>1, <2>2, AppendProperties, LenProperties
<1>2. \A i \in 1..Len(log)' : \/ i \in 1..Len(log) /\ log'[i] = log[i]
                              \/ i = Len(log) + 1 /\ log'[i] = C!Message(role, r, n)
  BY <1>1
<1>3. Len(log) + 1 \in 1..Len(log)' /\ 1..Len(log) \subseteq 1..Len(log)'
  BY <1>1
<1>4. /\ C!Message(role, r, n).role = role
      /\ C!Message(role, r, n).req = r
  BY DEF C!Message
<1>5. \A q \in Request : C!Prompted(q) => C!Prompted(q)'
  BY <1>1, <1>3 DEF C!Prompted
<1>6. \A q \in Request, k \in {"user", "assistant"} :
        C!Kept(k, q)' <=> C!Kept(k, q) \/ (k = role /\ q = r)
  BY <1>1, <1>2, <1>3, <1>4 DEF C!Kept
<1>7. role = "user" => C!Prompted(r)'
  BY <1>1, <1>3, <1>4 DEF C!Prompted
<1> QED
  BY <1>2, <1>5, <1>6, <1>7

\* A request moves on, and the history stays.
LEMMA HistoryStays ==
  ASSUME TypeOK, LogInv, UNCHANGED <<log, text>>,
         NEW r \in Request, st[r] # "unused",
         NEW s \in Stage \ {"unused", "sent"}, st' = [st EXCEPT ![r] = s],
         \A q \in Request \ {r} : known'[q] = known[q],
         s = "read" => st[r] = "sent",
         s = "read" /\ known'[r] => C!Prompted(r),
         s \in {"stored", "streaming"} \cup Finishing => C!Prompted(r),
         C!Kept("assistant", r) => s \in {"persisted"} \cup Gone
  PROVE  LogInv'
<1>1. \A q \in Request : st'[q] = IF q = r THEN s ELSE st[q]
  BY DEF TypeOK, GatewayType
<1>2. \A q \in Request, k \in {"user", "assistant"} : C!Kept(k, q)' <=> C!Kept(k, q)
  BY DEF C!Kept
<1>3. \A q \in Request : C!Prompted(q)' <=> C!Prompted(q)
  BY DEF C!Prompted
<1>4. /\ \A q \in Request : text'[q] = NoText <=> st'[q] = "unused"
      /\ \A i \in 1..Len(log)' : /\ log'[i].role \in {"user", "assistant"}
                                 /\ log'[i].req \in Request
                                 /\ st'[log'[i].req] # "unused"
  BY <1>1 DEF LogInv
<1>5. ASSUME NEW q \in Request
      PROVE  /\ C!Kept("user", q)' => st'[q] \notin {"sent", "read"}
             /\ C!Kept("assistant", q)' => st'[q] \in {"persisted"} \cup Gone
             /\ st'[q] = "read" /\ known'[q] => C!Prompted(q)'
             /\ st'[q] \in {"stored", "streaming"} \cup Finishing => C!Prompted(q)'
  BY <1>1, <1>2, <1>3 DEF LogInv
<1> QED
  BY <1>4, <1>5 DEF LogInv

\* A request starts.
LEMMA HistoryStarts ==
  ASSUME TypeOK, LogInv, UNCHANGED <<log, known>>,
         NEW r \in Request, st[r] = "unused", st' = [st EXCEPT ![r] = "sent"],
         NEW m \in Text, text' = [text EXCEPT ![r] = m]
  PROVE  LogInv'
<1>1. \A q \in Request : /\ st'[q] = IF q = r THEN "sent" ELSE st[q]
                         /\ text'[q] = IF q = r THEN m ELSE text[q]
  BY DEF TypeOK, GatewayType, WireType
<1>2. \A i \in 1..Len(log) : log[i].req \in Request \ {r}
  BY DEF LogInv
<1>3. \A q \in Request, k \in {"user", "assistant"} : C!Kept(k, q)' <=> C!Kept(k, q)
  BY DEF C!Kept
<1>4. \A q \in Request \ {r} : C!Prompted(q)' <=> C!Prompted(q)
  BY <1>1, <1>2 DEF C!Prompted
<1>5. ~C!Kept("user", r) /\ ~C!Kept("assistant", r)
  BY <1>2 DEF C!Kept
<1>6. /\ \A q \in Request : text'[q] = NoText <=> st'[q] = "unused"
      /\ \A i \in 1..Len(log)' : /\ log'[i].role \in {"user", "assistant"}
                                 /\ log'[i].req \in Request
                                 /\ st'[log'[i].req] # "unused"
  BY <1>1 DEF LogInv
<1>7. ASSUME NEW q \in Request
      PROVE  /\ C!Kept("user", q)' => st'[q] \notin {"sent", "read"}
             /\ C!Kept("assistant", q)' => st'[q] \in {"persisted"} \cup Gone
             /\ st'[q] = "read" /\ known'[q] => C!Prompted(q)'
             /\ st'[q] \in {"stored", "streaming"} \cup Finishing => C!Prompted(q)'
  BY <1>1, <1>3, <1>4, <1>5 DEF LogInv, Finishing, Gone
<1> QED
  BY <1>6, <1>7 DEF LogInv

\* A message is kept for a request that moves on.
LEMMA HistoryRecords ==
  ASSUME TypeOK, LogInv, NEW r \in Request, NEW role \in {"user", "assistant"},
         NEW n \in 0..Chunks, log' = Append(log, C!Message(role, r, n)),
         UNCHANGED text,
         NEW s \in {"stored", "persisted"}, st' = [st EXCEPT ![r] = s],
         st[r] \notin {"unused", "sent"},
         role = "user" => s = "stored" /\ ~C!Kept("assistant", r),
         role = "assistant" => s = "persisted" /\ C!Prompted(r),
         \A q \in Request \ {r} : known'[q] = known[q]
  PROVE  LogInv'
<1>1. \A q \in Request : st'[q] = IF q = r THEN s ELSE st[q]
  BY DEF TypeOK, GatewayType
<1>. USE DEF TypeOK
<1>2. /\ \A q \in Request : text'[q] = NoText <=> st'[q] = "unused"
      /\ \A i \in 1..Len(log)' : /\ log'[i].role \in {"user", "assistant"}
                                 /\ log'[i].req \in Request
                                 /\ st'[log'[i].req] # "unused"
  <2>1. C!Message(role, r, n).role = role /\ C!Message(role, r, n).req = r
    BY DEF C!Message
  <2> QED
    BY <1>1, <2>1, HistoryGrows DEF LogInv
<1>3. ASSUME NEW q \in Request
      PROVE  /\ C!Kept("user", q)' => st'[q] \notin {"sent", "read"}
             /\ C!Kept("assistant", q)' => st'[q] \in {"persisted"} \cup Gone
             /\ st'[q] = "read" /\ known'[q] => C!Prompted(q)'
             /\ st'[q] \in {"stored", "streaming"} \cup Finishing => C!Prompted(q)'
  <2>1. C!Prompted(q) => C!Prompted(q)'
    BY HistoryGrows
  <2>2. /\ C!Kept("user", q)' <=> C!Kept("user", q) \/ (role = "user" /\ q = r)
        /\ C!Kept("assistant", q)' <=> C!Kept("assistant", q) \/ (role = "assistant" /\ q = r)
    BY HistoryGrows
  <2>3. CASE q = r
    <3>1. C!Prompted(r)'
      BY <2>1, <2>3, HistoryGrows
    <3> QED
      BY <1>1, <2>2, <2>3, <3>1 DEF LogInv
  <2>4. CASE q # r
    BY <1>1, <2>1, <2>2, <2>4 DEF LogInv
  <2> QED
    BY <2>3, <2>4
<1> QED
  BY <1>2, <1>3 DEF LogInv

\* Every step of the chat keeps what is known of the history.
LEMMA TabHistory ==
  ASSUME TypeOK, LogInv, NEW t \in Tab, TabStep(t)
  PROVE  LogInv'
<1>1. ASSUME UNCHANGED <<log, st, text, known>> PROVE LogInv'
  BY <1>1 DEF LogInv, C!Kept, C!Prompted
<1>2. ASSUME NEW r \in Request, NEW m \in Text, StartSend(t, r, m) PROVE LogInv'
  BY <1>2, HistoryStarts DEF StartSend, Fresh
<1>3. ASSUME NEW r \in Request, NEW m \in Text, Send(t, r, m) PROVE LogInv'
  BY <1>2, <1>3 DEF Send
<1>4. ASSUME NEW r \in Request, Resend(t, r) PROVE LogInv'
  <2>1. retries[t] \in Text
    BY <1>4 DEF Resend, TypeOK
  <2> QED
    BY <1>2, <1>4, <2>1 DEF Resend
<1>. USE <1>1 DEF gateway, wire
<1>5. CASE Retry(t)
  BY <1>5 DEF Retry
<1>6. CASE ListMessages(t) \/ ListFails(t) \/ StatusActive(t) \/ StatusInactive(t)
  BY <1>6 DEF ListMessages, ListFails, StatusActive, StatusInactive
<1>7. CASE Subscribe(t) \/ NothingToResume(t) \/ ResumeChunk(t) \/ ResumeEnds(t)
  BY <1>7 DEF Subscribe, NothingToResume, ResumeChunk, ResumeEnds, EndResume
<1>8. CASE ResumeWaits(t) \/ LoseResume(t) \/ StopSend(t) \/ StopResume(t)
  BY <1>8 DEF ResumeWaits, LoseResume, StopSend, StopResume
<1>9. CASE Return(t) \/ Reload(t)
  BY <1>9 DEF Return, Reload
<1> QED
  BY <1>3, <1>4, <1>5, <1>6, <1>7, <1>8, <1>9 DEF TabStep, Resuming

LEMMA RequestHistory ==
  ASSUME TypeOK, LogInv, NEW r \in Request, RequestStep(r)
  PROVE  LogInv'
<1>. USE DEF client, wire, gateway, Stage, Finishing, Gone
<1>1. ASSUME UNCHANGED <<log, st, text, known>> PROVE LogInv'
  BY <1>1 DEF LogInv, C!Kept, C!Prompted
<1>2. CASE ReadEnd(r)
  BY <1>1, <1>2 DEF ReadEnd, Settle
<1>3. CASE LoseConnection(r)
  BY <1>1, <1>3 DEF LoseConnection, Settle
<1>4. CASE ReadLast(r)
  <2>1. known'[r] => C!Prompted(r)
    <3>1. log # << >> => Len(log) \in 1..Len(log)
      BY LogType DEF TypeOK
    <3> QED
      BY <1>4, <3>1 DEF ReadLast, C!Prompted, TypeOK, GatewayType
  <2>2. \A q \in Request \ {r} : known'[q] = known[q]
    BY <1>4 DEF ReadLast, TypeOK, GatewayType
  <2>3. ~C!Kept("assistant", r)
    BY <1>4 DEF ReadLast, LogInv
  <2> QED
    BY <1>4, <2>1, <2>2, <2>3, HistoryStays DEF ReadLast
<1>5. CASE StorePrompt(r)
  <2>1. \A q \in Request \ {r} : known'[q] = known[q]
    BY <1>5 DEF StorePrompt, TypeOK, GatewayType
  <2>2. ~C!Kept("assistant", r)
    BY <1>5 DEF StorePrompt, LogInv
  <2>3. CASE known[r]
    <3>1. C!Prompted(r)
      BY <1>5, <2>3 DEF StorePrompt, LogInv
    <3> QED
      BY <1>5, <2>1, <2>2, <2>3, <3>1, HistoryStays DEF StorePrompt
  <2>4. CASE ~known[r]
    <3>1. 0 \in 0..Chunks
      OBVIOUS
    <3> QED
      BY <1>5, <2>1, <2>2, <2>4, <3>1, HistoryRecords DEF StorePrompt
  <2> QED
    BY <2>3, <2>4
<1>6. CASE StartStream(r)
  <2>1. C!Prompted(r) /\ ~C!Kept("assistant", r)
    BY <1>6 DEF StartStream, LogInv
  <2> QED
    BY <1>6, <2>1, HistoryStays DEF StartStream
<1>7. ASSUME NEW s \in {"streaming", "closing"}, st[r] = "streaming",
             st' = [st EXCEPT ![r] = s], UNCHANGED <<log, text, known>>
      PROVE  LogInv'
  <2>1. C!Prompted(r) /\ ~C!Kept("assistant", r)
    BY <1>7 DEF LogInv
  <2> QED
    BY <1>7, <2>1, HistoryStays
<1>8. CASE Push(r)
  <2>1. st = [st EXCEPT ![r] = st[r]]
    BY DEF TypeOK, GatewayType
  <2> QED
    BY <1>7, <1>8, <2>1 DEF Push
<1>9. CASE LeaveLoop(r)
  BY <1>7, <1>9 DEF LeaveLoop
<1>10. CASE Persist(r) \/ PersistFails(r)
  <2>1. C!Prompted(r)
    BY <1>10 DEF Persist, PersistFails, LogInv
  <2>2. CASE log' = log
    BY <1>10, <2>1, <2>2, HistoryStays DEF Persist, PersistFails
  <2>3. CASE log' # log
    <3>1. Stored(r) \in 0..Chunks
      BY DEF Stored, TypeOK, GatewayType
    <3>2. log' = Append(log, C!Message("assistant", r, Stored(r)))
      BY <1>10, <2>3 DEF Persist, PersistFails
    <3> QED
      BY <1>10, <2>1, <3>1, <3>2, HistoryRecords DEF Persist, PersistFails
  <2> QED
    BY <2>2, <2>3
<1>11. ASSUME NEW s \in Gone, EndAs(r, s), st[r] # "unused", log' = log,
              \A q \in Request \ {r} : known'[q] = known[q]
       PROVE  LogInv'
  BY <1>11, HistoryStays DEF EndAs
<1>12. CASE Finish(r)
  BY <1>11, <1>12 DEF Finish
<1>13. CASE Fail(r)
  <2>1. \A q \in Request \ {r} : known'[q] = known[q]
    BY <1>13 DEF Fail, TypeOK, GatewayType
  <2> QED
    BY <1>11, <1>13, <2>1 DEF Fail
<1>14. CASE Cut(r)
  BY <1>11, <1>14 DEF Cut
<1> QED
  BY <1>2, <1>3, <1>4, <1>5, <1>6, <1>8, <1>9, <1>10, <1>12, <1>13, <1>14
     DEF RequestStep, Generator

-----------------------------------------------------------------------------
(* Connections, tabs and the entry *)

\* The steps of a tab that start no request touch connections and tabs only.
LEMMA TabConnections ==
  ASSUME TypeOK, TabInv, UNCHANGED <<st, sent, buf>>,
         \A r \in Request :
           \/ cli'[r] = cli[r] /\ from'[r] = from[r]
           \/ st[r] # "unused" /\ cli'[r] = "ended"
           \/ st[r] # "unused" /\ cli'[r] = "open",
         \A t \in Tab : load'[t] = "resuming" =>
           \/ load[t] = "resuming" /\ sub'[t] = sub[t]
           \/ buf.by # 0 /\ sub'[t] = buf.by
  PROVE  TabInv'
<1>1. ASSUME NEW r \in Request
      PROVE  /\ st'[r] = "unused" => cli'[r] = "none" /\ from'[r] = NoText
             /\ cli'[r] = "reading" => from'[r] \in Tab
  BY DEF TabInv
<1>2. ASSUME NEW t \in Tab, load'[t] = "resuming"
      PROVE  sub'[t] # 0 /\ st'[sub'[t]] \in Started
  BY <1>2 DEF TabInv
<1> QED
  BY <1>1, <1>2 DEF TabInv

LEMMA TabTabInv ==
  ASSUME TypeOK, TabInv, StopReachesTheStream, NEW t \in Tab, TabStep(t)
  PROVE  TabInv'
<1>. USE DEF gateway, wire, ui, loading
<1>1. ASSUME NEW r \in Request, NEW m \in Text, StartSend(t, r, m) PROVE TabInv'
  <2>1. \A q \in Request : /\ st'[q] = IF q = r THEN "sent" ELSE st[q]
                           /\ cli'[q] = IF q = r THEN "reading" ELSE cli[q]
                           /\ from'[q] = IF q = r THEN t ELSE from[q]
    BY <1>1 DEF StartSend, TypeOK, GatewayType, WireType
  <2>2. st[r] = "unused" /\ UNCHANGED <<buf, sent, load, sub>>
    BY <1>1 DEF StartSend, Fresh
  <2>3. buf.by \in 0..Requests /\ \A u \in Tab : sub[u] \in 0..Requests
    BY DEF TypeOK, GatewayType, LoadType
  <2>4. \A q \in Request :
          /\ st'[q] = "unused" => cli'[q] = "none" /\ from'[q] = NoText
          /\ st'[q] \in {"unused", "sent", "read", "stored"} => sent'[q] = 0
          /\ st'[q] = "streaming" => sent'[q] <= Chunks
          /\ cli'[q] = "reading" => from'[q] \in Tab
    BY <2>1, <2>2 DEF TabInv
  <2>5. /\ buf.by # 0 => st'[buf.by] \in Started
        /\ \A u \in Tab : load[u] = "resuming" => sub[u] # 0 /\ st'[sub[u]] \in Started
    BY <2>1, <2>2, <2>3 DEF TabInv, Started, Finishing, Gone
  <2> QED
    BY <2>2, <2>4, <2>5 DEF TabInv
<1>2. ASSUME NEW r \in Request, NEW m \in Text, Send(t, r, m) PROVE TabInv'
  BY <1>1, <1>2 DEF Send
<1>3. ASSUME NEW r \in Request, Resend(t, r) PROVE TabInv'
  <2>1. retries[t] \in Text
    BY <1>3 DEF Resend, TypeOK
  <2> QED
    BY <1>1, <1>3, <2>1 DEF Resend
<1>4. CASE Retry(t)
  BY <1>4, TabConnections DEF Retry
<1>5. ASSUME UNCHANGED <<st, sent, buf, cli, from, sub>>,
             \A u \in Tab : load'[u] = "resuming" => load[u] = "resuming"
      PROVE  TabInv'
  BY <1>5, TabConnections
<1>6. ASSUME UNCHANGED <<st, sent, buf, cli, from>>, LeaveLoading(t)
      PROVE  TabInv'
  BY <1>6, TabConnections DEF LeaveLoading, TypeOK, LoadType
<1>7. CASE ListMessages(t) \/ StatusActive(t)
  BY <1>5, <1>7 DEF ListMessages, StatusActive, TypeOK, LoadType
<1>8. CASE ListFails(t) \/ StatusInactive(t) \/ LoseResume(t)
  BY <1>6, <1>8 DEF ListFails, StatusInactive, LoseResume
<1>9. CASE Subscribe(t)
  BY <1>9, TabConnections DEF Subscribe, TypeOK, LoadType
<1>10. CASE NothingToResume(t) \/ ResumeEnds(t)
  BY <1>6, <1>10 DEF NothingToResume, ResumeEnds, EndResume
<1>11. CASE ResumeChunk(t) \/ ResumeWaits(t)
  BY <1>5, <1>11 DEF ResumeChunk, ResumeWaits
<1>12. CASE StopSend(t)
  BY <1>12, TabConnections
     DEF StopSend, Hangup, StopReachesTheStream, TabInv
<1>13. CASE StopResume(t)
  BY <1>5, <1>6, <1>13 DEF StopResume
<1>14. ASSUME Mount(t) PROVE \A u \in Tab : load'[u] = "resuming" =>
                               load[u] = "resuming" /\ sub'[u] = sub[u]
  BY <1>14 DEF Mount, TypeOK, LoadType
<1>15. \A r \in Of(t) : st[r] # "unused"
  BY ChatAssumption DEF Of, TabInv
<1>16. CASE Return(t)
  BY <1>14, <1>15, <1>16, TabConnections DEF Return, Of
<1>17. CASE Reload(t)
  BY <1>14, <1>15, <1>17, TabConnections DEF Reload, Hangup
<1> QED
  BY <1>2, <1>3, <1>4, <1>7, <1>8, <1>9, <1>10, <1>11, <1>12, <1>13, <1>16, <1>17
     DEF TabStep, Resuming

LEMMA RequestTabInv ==
  ASSUME TypeOK, TabInv, NEW r \in Request, RequestStep(r)
  PROVE  TabInv'
<1>. USE DEF gateway, wire, ui, loading, client
<1>1. ASSUME UNCHANGED <<load, sub>>, st[r] # "unused",
             \A q \in Request \ {r} : /\ st'[q] = st[q] /\ sent'[q] = sent[q]
                                      /\ cli'[q] = cli[q] /\ from'[q] = from[q],
             st'[r] \in Stage \ {"unused"},
             st'[r] \in {"sent", "read", "stored"} => sent'[r] = 0,
             st'[r] = "streaming" => sent'[r] <= Chunks,
             st[r] \in Started => st'[r] \in Started,
             cli'[r] = "reading" => from'[r] \in Tab,
             buf'.by \in {0, buf.by, r},
             buf'.by = r => st'[r] \in Started,
             buf'.by = 0 => buf'.chunks = << >>
      PROVE  TabInv'
  <2>1. ASSUME NEW q \in Request
        PROVE  /\ st'[q] = "unused" => cli'[q] = "none" /\ from'[q] = NoText
               /\ st'[q] \in {"unused", "sent", "read", "stored"} => sent'[q] = 0
               /\ st'[q] = "streaming" => sent'[q] <= Chunks
               /\ cli'[q] = "reading" => from'[q] \in Tab
    BY <1>1 DEF TabInv
  <2>2. ASSUME buf'.by # 0 PROVE st'[buf'.by] \in Started
    <3>1. CASE buf'.by = r
      BY <1>1, <3>1
    <3>2. CASE buf'.by # r
      <4>1. buf.by \in Request \ {r} /\ buf'.by = buf.by
        BY <1>1, <2>2, <3>2 DEF TypeOK, GatewayType
      <4> QED
        BY <1>1, <4>1 DEF TabInv
    <3> QED
      BY <3>1, <3>2
  <2>3. ASSUME NEW t \in Tab, load'[t] = "resuming"
        PROVE  sub'[t] # 0 /\ st'[sub'[t]] \in Started
    <3>1. sub'[t] = sub[t] /\ sub[t] \in Request /\ st[sub[t]] \in Started
      BY <1>1, <2>3 DEF TabInv, TypeOK, LoadType
    <3>2. CASE sub[t] = r
      BY <1>1, <3>1, <3>2
    <3>3. CASE sub[t] # r
      BY <1>1, <3>1, <3>3
    <3> QED
      BY <3>2, <3>3
  <2> QED
    BY <1>1, <2>1, <2>2, <2>3 DEF TabInv
<1>2. ASSUME UNCHANGED <<load, sub, buf, st, sent>>, st[r] # "unused",
             \A q \in Request \ {r} : cli'[q] = cli[q] /\ from'[q] = from[q],
             cli'[r] # "reading"
      PROVE  TabInv'
  BY <1>1, <1>2 DEF TabInv, TypeOK, GatewayType
<1>3. CASE ReadEnd(r)
  <2>1. st[r] # "unused"
    BY <1>3 DEF ReadEnd, Finishing, Gone
  <2>2. /\ \A q \in Request \ {r} : cli'[q] = cli[q] /\ from'[q] = from[q]
        /\ cli'[r] # "reading"
    BY <1>3 DEF ReadEnd, Hangup, TypeOK, WireType
  <2> QED
    BY <1>2, <1>3, <2>1, <2>2 DEF ReadEnd
<1>4. CASE LoseConnection(r)
  <2>1. st[r] # "unused"
    BY <1>4 DEF LoseConnection, TabInv
  <2>2. /\ \A q \in Request \ {r} : cli'[q] = cli[q] /\ from'[q] = from[q]
        /\ cli'[r] # "reading"
    BY <1>4 DEF LoseConnection, Hangup
  <2> QED
    BY <1>2, <1>4, <2>1, <2>2 DEF LoseConnection
<1>. USE DEF TypeOK, GatewayType, Stage, Started, Finishing, Gone
<1>5. CASE ReadLast(r)
  BY <1>1, <1>5 DEF ReadLast, TabInv
<1>6. CASE StorePrompt(r)
  BY <1>1, <1>6 DEF StorePrompt, TabInv
<1>7. CASE StartStream(r)
  BY <1>1, <1>7 DEF StartStream, TabInv
<1>8. CASE Push(r)
  <2>1. sent[r] <= Chunks /\ sent'[r] = sent[r] + 1
    BY <1>8 DEF Push, TabInv
  <2>2. st'[r] = IF sent[r] = Chunks THEN "closing" ELSE "streaming"
    BY <1>8 DEF Push
  <2>3. \A q \in Request \ {r} : st'[q] = st[q] /\ sent'[q] = sent[q]
    BY <1>8 DEF Push
  <2>4. buf'.by = buf.by /\ (buf.by = 0 => buf' = buf)
    BY <1>8 DEF Push, IsActive
  <2>5. st[r] = "streaming" /\ UNCHANGED <<cli, from, load, sub>>
    BY <1>8 DEF Push
  <2>6. st'[r] = "streaming" => sent'[r] <= Chunks
    BY <2>1, <2>2
  <2>7. st'[r] \in Started /\ st'[r] \notin {"unused", "sent", "read", "stored"}
    BY <2>2
  <2>8. cli'[r] = "reading" => from'[r] \in Tab
    BY <2>5 DEF TabInv
  <2>9. buf'.by \in {0, buf.by, r} /\ (buf'.by = 0 => buf'.chunks = << >>)
    BY <2>4 DEF TabInv
  <2>10. st[r] # "unused" /\ st'[r] \in Stage \ {"unused"}
    BY <2>2, <2>5
  <2> QED
    BY <1>1, <2>3, <2>5, <2>6, <2>7, <2>8, <2>9, <2>10
<1>9. CASE Persist(r) \/ PersistFails(r) \/ LeaveLoop(r)
  <2>1. PICK s \in Finishing : st' = [st EXCEPT ![r] = s]
    BY <1>9 DEF Persist, PersistFails, LeaveLoop
  <2>2. \A q \in Request : st'[q] = IF q = r THEN s ELSE st[q]
    BY <2>1
  <2>3. UNCHANGED <<buf, sent, cli, from, load, sub>> /\ st[r] \in Started
    BY <1>9 DEF Persist, PersistFails, LeaveLoop
  <2> QED
    BY <1>1, <2>2, <2>3 DEF TabInv
<1>10. ASSUME NEW s \in Gone, EndAs(r, s), UNCHANGED <<load, sub, sent>>,
              st[r] # "unused", buf'.by = buf.by, buf'.chunks = buf.chunks
       PROVE  TabInv'
  <2>1. \A q \in Request : st'[q] = IF q = r THEN s ELSE st[q]
    BY <1>10 DEF EndAs
  <2>2. /\ \A q \in Request \ {r} : cli'[q] = cli[q] /\ from'[q] = from[q]
        /\ cli'[r] = "reading" => cli[r] = "reading" /\ from'[r] = from[r]
    BY <1>10 DEF EndAs, Hangup, WireType
  <2>3. s \in Started /\ s \notin {"unused", "sent", "read", "stored", "streaming"}
    BY <1>10 DEF Gone, Started
  <2>4. st'[r] = s /\ \A q \in Request \ {r} : st'[q] = st[q]
    BY <2>1
  <2>5. st'[r] \in Stage \ {"unused"}
    BY <2>3, <2>4 DEF Started, Stage
  <2>6. cli'[r] = "reading" => from'[r] \in Tab
    BY <2>2 DEF TabInv
  <2>7. buf'.by = 0 => buf'.chunks = << >>
    BY <1>10 DEF TabInv
  <2>8. sent' = sent /\ buf'.by = buf.by
    BY <1>10
  <2>9. buf'.by = r => st'[r] \in Started
    BY <2>3, <2>4
  <2> QED
    BY <1>1, <1>10, <2>2, <2>3, <2>4, <2>5, <2>6, <2>7, <2>8, <2>9
<1>11. CASE Finish(r)
  BY <1>10, <1>11 DEF Finish
<1>12. CASE Fail(r) \/ Cut(r)
  BY <1>10, <1>12 DEF Fail, Cut
<1> QED
  BY <1>3, <1>4, <1>5, <1>6, <1>7, <1>8, <1>9, <1>11, <1>12
     DEF RequestStep, Generator

\* What a tab aborts is what it reads: no step of a tab changes that.
LEMMA TabStop ==
  ASSUME TypeOK, TabInv, StopReachesTheStream, NEW t \in Tab, TabStep(t)
  PROVE  StopReachesTheStream'
<1>. USE DEF gateway, wire, ui, loading
<1>1. ASSUME NEW r \in Request, NEW m \in Text, StartSend(t, r, m)
      PROVE  StopReachesTheStream'
  <2>1. cli[r] # "reading"
    BY <1>1 DEF StartSend, Fresh, TabInv
  <2>2. /\ abort'[t] = r
        /\ \A u \in Tab \ {t} : busy'[u] = busy[u] /\ abort'[u] = abort[u]
    BY <1>1 DEF StartSend, TypeOK, UiType
  <2>3. \A q \in Request : /\ cli'[q] = IF q = r THEN "reading" ELSE cli[q]
                           /\ from'[q] = IF q = r THEN t ELSE from[q]
    BY <1>1 DEF StartSend, TypeOK, WireType
  <2>4. ASSUME NEW u \in Tab
        PROVE  /\ busy'[u] => abort'[u] # NoAbort
               /\ abort'[u] \in Request =>
                    cli'[abort'[u]] = "reading" /\ from'[abort'[u]] = u
    <3>1. CASE u = t
      BY <2>2, <2>3, <3>1
    <3>2. CASE u # t
      <4>1. busy'[u] => abort'[u] # NoAbort
        BY <2>2, <3>2 DEF StopReachesTheStream
      <4>2. abort'[u] \in Request =>
              cli'[abort'[u]] = "reading" /\ from'[abort'[u]] = u
        BY <2>1, <2>2, <2>3, <3>2 DEF StopReachesTheStream
      <4> QED
        BY <4>1, <4>2
    <3> QED
      BY <3>1, <3>2
  <2> QED
    BY <2>4 DEF StopReachesTheStream
<1>2. ASSUME NEW r \in Request, NEW m \in Text, Send(t, r, m)
      PROVE  StopReachesTheStream'
  BY <1>1, <1>2 DEF Send
<1>3. ASSUME NEW r \in Request, Resend(t, r) PROVE StopReachesTheStream'
  <2>1. retries[t] \in Text
    BY <1>3 DEF Resend, TypeOK
  <2> QED
    BY <1>1, <1>3, <2>1 DEF Resend
\* The tab's own abort is set to none or to the resumed stream's, and only
\* connections it holds itself are touched.
<1>4. ASSUME \A u \in Tab \ {t} : busy'[u] = busy[u] /\ abort'[u] = abort[u],
             \/ abort'[t] = abort[t] /\ busy'[t] = busy[t]
             \/ abort'[t] = NoAbort /\ ~busy'[t]
             \/ abort'[t] = Resumed,
             \A r \in Request : \/ cli'[r] = cli[r] /\ from'[r] = from[r]
                                \/ from[r] = t /\ abort'[t] = NoAbort
      PROVE  StopReachesTheStream'
  BY <1>4 DEF StopReachesTheStream
<1>5. CASE Retry(t)
  BY <1>5 DEF Retry, StopReachesTheStream
<1>6. CASE ListMessages(t) \/ ListFails(t) \/ StatusInactive(t) \/ Subscribe(t)
  BY <1>6 DEF ListMessages, ListFails, StatusInactive, Subscribe, StopReachesTheStream
<1>7. CASE ResumeChunk(t) \/ ResumeWaits(t) \/ LoseResume(t)
  BY <1>7 DEF ResumeChunk, ResumeWaits, LoseResume, StopReachesTheStream
<1>. USE DEF TypeOK, UiType
<1>8. CASE StatusActive(t)
  BY <1>4, <1>8 DEF StatusActive
<1>9. CASE NothingToResume(t) \/ ResumeEnds(t)
  BY <1>4, <1>9 DEF NothingToResume, ResumeEnds, EndResume
<1>10. CASE StopSend(t)
  BY <1>4, <1>10 DEF StopSend, Hangup, WireType, StopReachesTheStream
<1>11. CASE StopResume(t)
  BY <1>4, <1>11 DEF StopResume
<1>12. CASE Return(t)
  BY <1>4, <1>12 DEF Return, Mount, Of, WireType
<1>13. CASE Reload(t)
  BY <1>4, <1>13 DEF Reload, Mount, Of, Hangup, WireType
<1> QED
  BY <1>2, <1>3, <1>5, <1>6, <1>7, <1>8, <1>9, <1>10, <1>11, <1>12, <1>13
     DEF TabStep, Resuming

LEMMA RequestStop ==
  ASSUME TypeOK, TabInv, StopReachesTheStream, NEW r \in Request, RequestStep(r)
  PROVE  StopReachesTheStream'
<1>. USE DEF gateway, wire, ui, loading, client, TypeOK
\* Either nothing the property reads changes, or send() is left.
<1>1. ASSUME cli[r] = "reading", NEW failed \in BOOLEAN, Settle(r, failed),
             \A q \in Request \ {r} : cli'[q] = cli[q] /\ from'[q] = from[q]
      PROVE  StopReachesTheStream'
  <2>1. from[r] \in Tab
    BY <1>1 DEF TabInv
  <2>2. \A u \in Tab : IF u = from[r] THEN ~busy'[u] /\ abort'[u] = NoAbort
                       ELSE busy'[u] = busy[u] /\ abort'[u] = abort[u]
    BY <1>1 DEF Settle, UiType
  <2> QED
    BY <1>1, <2>1, <2>2 DEF StopReachesTheStream
<1>2. ASSUME UNCHANGED <<busy, abort>>,
             \A q \in Request : (q = r /\ cli[r] # "reading")
                                  \/ (cli'[q] = cli[q] /\ from'[q] = from[q])
      PROVE  StopReachesTheStream'
  BY <1>2 DEF StopReachesTheStream
<1>3. ASSUME NEW R \in SUBSET {r}, Hangup(R)
      PROVE  \A q \in Request \ {r} : cli'[q] = cli[q] /\ from'[q] = from[q]
  BY <1>3 DEF Hangup
<1>4. CASE ReadEnd(r)
  <2>1. \A q \in Request \ {r} : cli'[q] = cli[q] /\ from'[q] = from[q]
    BY <1>3, <1>4 DEF ReadEnd, WireType
  <2> QED
    BY <1>1, <1>4, <2>1 DEF ReadEnd
<1>5. CASE LoseConnection(r)
  BY <1>1, <1>2, <1>3, <1>5 DEF LoseConnection
<1>6. ASSUME NEW s, EndAs(r, s), UNCHANGED ui PROVE StopReachesTheStream'
  BY <1>2, <1>3, <1>6 DEF EndAs
<1>7. CASE Finish(r) \/ Fail(r) \/ Cut(r)
  BY <1>6, <1>7 DEF Finish, Fail, Cut
<1>8. CASE ReadLast(r) \/ StorePrompt(r) \/ StartStream(r) \/ Push(r)
  BY <1>8, <1>2 DEF ReadLast, StorePrompt, StartStream, Push
<1>9. CASE Persist(r) \/ PersistFails(r) \/ LeaveLoop(r)
  BY <1>9, <1>2 DEF Persist, PersistFails, LeaveLoop
<1> QED
  BY <1>4, <1>5, <1>7, <1>8, <1>9 DEF RequestStep, Generator

-----------------------------------------------------------------------------
(* The buffer *)

\* What a step of a tab does to the gateway: at most a request is sent.
LEMMA TabGateway ==
  ASSUME TypeOK, NEW t \in Tab, TabStep(t)
  PROVE  /\ UNCHANGED <<buf, sent, log>>
         /\ \A r \in Request : st'[r] = st[r] \/ (st[r] = "unused" /\ st'[r] = "sent")
<1>. USE DEF gateway
<1>1. ASSUME NEW r \in Request, NEW m, StartSend(t, r, m)
      PROVE  /\ UNCHANGED <<buf, sent, log>>
             /\ \A q \in Request : st'[q] = st[q] \/ (st[q] = "unused" /\ st'[q] = "sent")
  BY <1>1 DEF StartSend, Fresh, TypeOK, GatewayType
<1>2. CASE \E r \in Request : Resend(t, r) \/ \E m \in Text : Send(t, r, m)
  BY <1>1, <1>2 DEF Send, Resend
<1>3. CASE Resuming(t)
  BY <1>3 DEF Resuming, ListMessages, StatusActive, StatusInactive, Subscribe,
              NothingToResume, ResumeChunk, ResumeEnds, ResumeWaits, EndResume
<1>4. CASE Retry(t) \/ ListFails(t) \/ StatusInactive(t) \/ LoseResume(t)
  BY <1>4 DEF Retry, ListFails, StatusInactive, LoseResume
<1>5. CASE StopSend(t) \/ StopResume(t) \/ Return(t) \/ Reload(t)
  BY <1>5 DEF StopSend, StopResume, Return, Reload
<1> QED
  BY <1>2, <1>3, <1>4, <1>5 DEF TabStep

\* A chunk is a request and a position.
LEMMA ChunkType ==
  /\ \A c \in Chunk : c[1] \in Request /\ c[2] \in 1..EndMark
  /\ \A r \in Request, n \in 1..EndMark : <<r, n>> \in Chunk
  BY DEF Chunk

LEMMA BufferType ==
  ASSUME GatewayType
  PROVE  /\ buf.chunks \in Seq(Chunk)
         /\ Len(buf.chunks) \in Nat
         /\ \A i \in 1..Len(buf.chunks) :
              /\ buf.chunks[i] \in Chunk
              /\ buf.chunks[i][1] \in Request
              /\ buf.chunks[i][2] \in Nat
<1>1. buf.chunks \in Seq(Chunk)
  BY DEF GatewayType
<1>2. \A i \in 1..Len(buf.chunks) : buf.chunks[i] \in Chunk
  BY <1>1, ElementOfSeq
<1>3. 1..EndMark \subseteq Nat
  OBVIOUS
<1> QED
  BY <1>1, <1>2, <1>3, ChunkType, LenProperties

LEMMA TabBuffer ==
  ASSUME TypeOK, TabInv, ActiveMeansProducer, EntryHoldsItsStream,
         NEW t \in Tab, TabStep(t)
  PROVE  ActiveMeansProducer' /\ EntryHoldsItsStream'
<1>1. buf' = buf /\ sent' = sent
  BY TabGateway
<1>2. buf.by # 0 => st'[buf.by] = st[buf.by]
  BY TabGateway DEF TabInv, TypeOK, GatewayType, Started, Finishing, Gone
<1> QED
  BY <1>1, <1>2 DEF ActiveMeansProducer, EntryHoldsItsStream, IsActive

LEMMA RequestBuffer ==
  ASSUME TypeOK, TabInv, ActiveMeansProducer, EntryHoldsItsStream,
         NEW r \in Request, RequestStep(r)
  PROVE  ActiveMeansProducer' /\ EntryHoldsItsStream'
<1>. USE DEF gateway
\* The entry is left alone, and its request goes on or is cut.
<1>1. ASSUME UNCHANGED <<buf, sent>>,
             \A q \in Request \ {r} : st'[q] = st[q],
             \/ st'[r] = st[r]
             \/ st'[r] \in {"streaming", "cut"} \cup Finishing
             \/ st[r] \in {"sent", "read", "stored"}
      PROVE  ActiveMeansProducer' /\ EntryHoldsItsStream'
  <2>1. IsActive => buf.by \in Request
    BY DEF IsActive, TypeOK, GatewayType
  <2>2. IsActive => st'[buf.by] \in {"streaming", "cut"} \cup Finishing
    BY <1>1, <2>1 DEF ActiveMeansProducer, Finishing
  <2> QED
    BY <1>1, <2>2 DEF ActiveMeansProducer, EntryHoldsItsStream, IsActive
<1>2. CASE ReadEnd(r) \/ LoseConnection(r)
  BY <1>1, <1>2 DEF ReadEnd, LoseConnection
<1>. USE DEF TypeOK, GatewayType
<1>3. CASE ReadLast(r) \/ StorePrompt(r)
  BY <1>1, <1>3 DEF ReadLast, StorePrompt
<1>4. CASE Persist(r) \/ PersistFails(r) \/ LeaveLoop(r)
  BY <1>1, <1>4 DEF Persist, PersistFails, LeaveLoop, Finishing
<1>5. CASE Fail(r) \/ Cut(r)
  BY <1>1, <1>5 DEF Fail, Cut, EndAs
<1>6. CASE StartStream(r)
  <2>1. /\ buf' = [by |-> r, chunks |-> << >>, done |-> FALSE]
        /\ st'[r] = "streaming"
        /\ sent'[r] = 0
    BY <1>6 DEF StartStream, TabInv
  <2> QED
    BY <2>1 DEF ActiveMeansProducer, EntryHoldsItsStream, IsActive
<1>7. CASE Finish(r)
  <2>1. ~IsActive'
    BY <1>7 DEF Finish, IsActive
  <2> QED
    BY <2>1 DEF ActiveMeansProducer, EntryHoldsItsStream
<1>8. CASE Push(r)
  <2>1. CASE ~IsActive
    <3>1. ~IsActive'
      BY <1>8, <2>1 DEF Push, IsActive
    <3> QED
      BY <3>1 DEF ActiveMeansProducer, EntryHoldsItsStream
  <2>2. CASE IsActive
    <3>. DEFINE c == <<r, sent[r] + 1>>
                n == Len(buf.chunks)
    <3>1. /\ buf'.by = buf.by
          /\ buf'.chunks = Append(buf.chunks, c)
          /\ \A q \in Request : sent'[q] = IF q = r THEN sent[q] + 1 ELSE sent[q]
      BY <1>8, <2>2 DEF Push
    <3>2. /\ n \in Nat
          /\ Len(buf'.chunks) = n + 1
          /\ \A i \in 1..n : buf'.chunks[i] = buf.chunks[i]
          /\ buf'.chunks[n + 1] = c
      <4>1. buf.chunks \in Seq(Chunk)
        OBVIOUS
      <4>2. sent[r] + 1 \in 1..EndMark
        BY <1>8 DEF Push, TabInv
      <4>3. c \in Chunk
        BY <4>2, ChunkType
      <4> QED
        BY <3>1, <4>1, <4>3, AppendProperties, LenProperties
    <3>3. buf.by \in Request
      BY <2>2 DEF IsActive
    <3>4. st'[buf.by] \in {"streaming", "cut"} \cup Finishing
      BY <1>8, <2>2, <3>3 DEF Push, ActiveMeansProducer, Finishing
    <3>5. c[1] = r /\ c[2] = sent[r] + 1
      OBVIOUS
    <3>9. /\ \A i \in 1..n : buf.chunks[i][2] \in Nat
          /\ sent[buf.by] \in Nat
      BY <3>3, BufferType
    <3>10. \A i \in 1..n : /\ buf'.chunks[i][1] = buf.chunks[i][1]
                           /\ buf'.chunks[i][2] = buf.chunks[i][2]
      BY <3>2
    <3>11. buf'.chunks[n + 1][1] = r /\ buf'.chunks[n + 1][2] = sent[r] + 1
      BY <3>2, <3>5
    <3>12. \A i : i \in 1..Len(buf'.chunks) <=> i \in 1..n \/ i = n + 1
      BY <3>2
    <3>13. /\ sent'[buf'.by] = IF buf.by = r THEN sent[buf.by] + 1 ELSE sent[buf.by]
          /\ sent[r] \in Nat
      BY <3>1, <3>3
    <3>14. /\ \A i \in 1..n : buf.chunks[i][1] = buf.by =>
                               buf.chunks[i][2] <= sent[buf.by]
          /\ \A k \in 1..sent[buf.by] :
               \E i \in 1..n : buf.chunks[i][1] = buf.by /\ buf.chunks[i][2] = k
      BY <2>2 DEF EntryHoldsItsStream
    <3>15. \A i, j \in 1..n :
             (buf.chunks[i][1] = buf.by /\ buf.chunks[j][1] = buf.by /\ i < j)
               => buf.chunks[i][2] < buf.chunks[j][2]
      BY <2>2 DEF EntryHoldsItsStream
    <3>. HIDE DEF c, n
    <3>6. ASSUME NEW i, i \in 1..Len(buf'.chunks), buf'.chunks[i][1] = buf'.by
          PROVE  buf'.chunks[i][2] <= sent'[buf'.by]
      <4>1. CASE i = n + 1
        <5>1. buf'.chunks[i][1] = r /\ buf'.chunks[i][2] = sent[r] + 1
          BY <3>11, <4>1
        <5>2. buf.by = r
          BY <3>1, <3>6, <5>1
        <5> QED
          BY <3>13, <5>1, <5>2
      <4>2. CASE i \in 1..n
        <5>1. buf.chunks[i][1] = buf.by
          BY <3>1, <3>6, <3>10, <4>2
        <5>2. buf'.chunks[i][2] <= sent[buf.by] /\ buf'.chunks[i][2] \in Nat
          BY <3>9, <3>10, <3>14, <4>2, <5>1
        <5> QED
          BY <3>9, <3>13, <5>2
      <4> QED
        BY <3>6, <3>12, <4>1, <4>2
    <3>7. ASSUME NEW k \in 1..sent'[buf'.by]
          PROVE  \E i \in 1..Len(buf'.chunks) :
                   buf'.chunks[i][1] = buf'.by /\ buf'.chunks[i][2] = k
      <4>1. CASE k \in 1..sent[buf.by]
        <5>1. PICK i \in 1..n : buf.chunks[i][1] = buf.by /\ buf.chunks[i][2] = k
          BY <3>14, <4>1
        <5> QED
          BY <3>1, <3>10, <3>12, <5>1
      <4>2. CASE k \notin 1..sent[buf.by]
        <5>1. buf.by = r /\ k = sent[r] + 1
          BY <3>9, <3>13, <3>7, <4>2
        <5> QED
          BY <3>1, <3>11, <3>12, <5>1
      <4> QED
        BY <4>1, <4>2
    <3>8. ASSUME NEW i, i \in 1..Len(buf'.chunks), buf'.chunks[i][1] = buf'.by,
                 NEW j, j \in 1..Len(buf'.chunks), buf'.chunks[j][1] = buf'.by, i < j
          PROVE  buf'.chunks[i][2] < buf'.chunks[j][2]
      <4>1. i \in 1..n
        BY <3>2, <3>8
      <4>2. buf.chunks[i][1] = buf.by /\ buf'.chunks[i][2] = buf.chunks[i][2]
        BY <3>1, <3>8, <3>10, <4>1
      <4>3. CASE j = n + 1
        <5>1. buf'.chunks[j][1] = r /\ buf'.chunks[j][2] = sent[r] + 1
          BY <3>11, <4>3
        <5>2. buf.by = r
          BY <3>1, <3>8, <5>1
        <5>3. buf.chunks[i][2] <= sent[r] /\ buf.chunks[i][2] \in Nat
          BY <3>9, <3>14, <4>1, <4>2, <5>2
        <5> QED
          BY <3>13, <4>2, <5>1, <5>3
      <4>4. CASE j \in 1..n
        <5>1. buf.chunks[j][1] = buf.by /\ buf'.chunks[j][2] = buf.chunks[j][2]
          BY <3>1, <3>8, <3>10, <4>4
        <5>2. buf.chunks[i][2] < buf.chunks[j][2]
          <6>1. i < j
            BY <3>8
          <6> QED
            BY <3>15, <4>1, <4>2, <4>4, <5>1, <6>1
        <5> QED
          BY <4>2, <5>1, <5>2
      <4> QED
        BY <3>8, <3>12, <4>3, <4>4
    <3> QED
      BY <3>1, <3>4, <3>6, <3>7, <3>8 DEF ActiveMeansProducer, EntryHoldsItsStream
  <2> QED
    BY <2>1, <2>2
<1> QED
  BY <1>2, <1>3, <1>4, <1>5, <1>6, <1>7, <1>8 DEF RequestStep, Generator

-----------------------------------------------------------------------------
(* The resumed stream *)

\* A tab's loading goes on as it was, or is left.
LEMMA LoadingKept ==
  ASSUME LoadInv, ResumeReadsTheBuffer, buf' = buf,
         \A t \in Tab :
           \/ /\ load'[t] = load[t] /\ sub'[t] = sub[t]
              /\ acc'[t] = acc[t] /\ cursor'[t] = cursor[t]
           \/ load'[t] # "resuming" /\ acc'[t] = << >> /\ cursor'[t] = 0
  PROVE  LoadInv' /\ ResumeReadsTheBuffer'
  BY DEF LoadInv, ResumeReadsTheBuffer

LEMMA TabResume ==
  ASSUME TypeOK, LoadInv, ResumeReadsTheBuffer, NEW t \in Tab, TabStep(t)
  PROVE  LoadInv' /\ ResumeReadsTheBuffer'
<1>. DEFINE Kept(u) == /\ load'[u] = load[u] /\ sub'[u] = sub[u]
                       /\ acc'[u] = acc[u] /\ cursor'[u] = cursor[u]
            Left(u) == load'[u] # "resuming" /\ acc'[u] = << >> /\ cursor'[u] = 0
            Fine == \A u \in Tab : Kept(u) \/ Left(u)
<1>1. buf' = buf
  BY TabGateway
<1>2. ASSUME Fine PROVE LoadInv' /\ ResumeReadsTheBuffer'
  BY <1>1, <1>2, LoadingKept
<1>3. UNCHANGED loading => Fine
  BY DEF loading
<1>4. LeaveLoading(t) => Fine
  BY DEF LeaveLoading, TypeOK, LoadType
<1>5. Mount(t) => Fine
  BY DEF Mount, TypeOK, LoadType
<1>6. CASE \E r \in Request : Resend(t, r) \/ \E m \in Text : Send(t, r, m)
  BY <1>2, <1>3, <1>6 DEF Resend, Send, StartSend
<1>7. CASE Retry(t) \/ StopSend(t) \/ StopResume(t)
  BY <1>2, <1>3, <1>4, <1>7 DEF Retry, StopSend, StopResume
<1>8. CASE ListFails(t) \/ StatusInactive(t) \/ LoseResume(t)
  BY <1>2, <1>4, <1>8 DEF ListFails, StatusInactive, LoseResume
<1>9. CASE NothingToResume(t) \/ ResumeEnds(t)
  BY <1>2, <1>4, <1>9 DEF NothingToResume, ResumeEnds, EndResume
<1>10. CASE Return(t) \/ Reload(t)
  BY <1>2, <1>5, <1>10 DEF Return, Reload
<1>11. CASE ListMessages(t) \/ StatusActive(t)
  <2>1. load'[t] # "resuming" /\ load[t] # "resuming" /\ UNCHANGED <<acc, cursor, sub>>
    BY <1>11 DEF ListMessages, StatusActive, TypeOK, LoadType
  <2>2. \A u \in Tab \ {t} : load'[u] = load[u]
    BY <1>11 DEF ListMessages, StatusActive, TypeOK, LoadType
  <2> QED
    BY <1>2, <2>1, <2>2 DEF LoadInv
<1>12. CASE ResumeWaits(t)
  BY <1>2, <1>12 DEF ResumeWaits
<1>13. CASE Subscribe(t)
  <2>1. acc[t] = << >> /\ cursor[t] = 0 /\ UNCHANGED <<acc, cursor>>
    BY <1>13 DEF Subscribe, LoadInv
  <2>2. /\ load'[t] = "resuming"
        /\ \A u \in Tab \ {t} : load'[u] = load[u] /\ sub'[u] = sub[u]
    BY <1>13 DEF Subscribe, TypeOK, LoadType
  <2>3. Len(buf.chunks) \in Nat
    BY BufferType DEF TypeOK
  <2>4. LoadInv'
    BY <2>1, <2>2 DEF LoadInv
  <2>5. ASSUME NEW u \in Tab, load'[u] = "resuming", sub'[u] = buf.by
        PROVE  /\ Len(acc[u]) = cursor[u]
               /\ cursor[u] <= Len(buf.chunks)
               /\ \A i \in 1..cursor[u] : acc[u][i] = buf.chunks[i]
    BY <2>1, <2>2, <2>3, <2>5 DEF ResumeReadsTheBuffer
  <2> QED
    BY <1>1, <2>1, <2>4, <2>5 DEF ResumeReadsTheBuffer
<1>14. CASE ResumeChunk(t)
  <2>. DEFINE c == buf.chunks[cursor[t] + 1]
  <2>1. /\ load[t] = "resuming" /\ UNCHANGED <<load, sub>>
        /\ ~(cursor[t] >= Len(buf.chunks))
        /\ cursor'[t] = cursor[t] + 1 /\ acc'[t] = Append(acc[t], c)
        /\ \A u \in Tab \ {t} : acc'[u] = acc[u] /\ cursor'[u] = cursor[u]
    BY <1>14 DEF ResumeChunk, Caught, TypeOK, LoadType
  <2>2. cursor[t] \in Nat /\ Len(buf.chunks) \in Nat /\ acc[t] \in Seq(Chunk)
    BY BufferType DEF TypeOK, LoadType
  <2>3. cursor[t] + 1 \in 1..Len(buf.chunks)
    BY <2>1, <2>2
  <2>4. c \in Chunk
    BY <2>3, BufferType DEF TypeOK
  <2>5. LoadInv'
    BY <2>1 DEF LoadInv
  <2>6. ASSUME NEW u \in Tab, load[u] = "resuming", sub[u] = buf.by
        PROVE  /\ Len(acc'[u]) = cursor'[u]
               /\ cursor'[u] <= Len(buf.chunks)
               /\ \A i \in 1..cursor'[u] : acc'[u][i] = buf.chunks[i]
    <3>1. /\ Len(acc[u]) = cursor[u]
          /\ cursor[u] <= Len(buf.chunks)
          /\ \A i \in 1..cursor[u] : acc[u][i] = buf.chunks[i]
      BY <2>6 DEF ResumeReadsTheBuffer
    <3>2. CASE u # t
      BY <2>1, <3>1, <3>2
    <3>3. CASE u = t
      <4>. HIDE DEF c
      <4>1. /\ Len(acc'[t]) = cursor[t] + 1
            /\ \A i \in 1..cursor[t] : acc'[t][i] = acc[t][i]
            /\ acc'[t][cursor[t] + 1] = c
        BY <2>1, <2>2, <2>4, <3>1, <3>3, AppendProperties, LenProperties
      <4>2. \A i \in 1..(cursor[t] + 1) : i \in 1..cursor[t] \/ i = cursor[t] + 1
        BY <2>2
      <4>3. \A i \in 1..(cursor[t] + 1) : acc'[t][i] = buf.chunks[i]
        BY <3>1, <3>3, <4>1, <4>2 DEF c
      <4> QED
        BY <2>1, <2>2, <2>3, <3>3, <4>1, <4>3, SMTT(30)
    <3> QED
      BY <3>2, <3>3
  <2> QED
    BY <1>1, <2>1, <2>5, <2>6 DEF ResumeReadsTheBuffer
<1> QED
  BY <1>6, <1>7, <1>8, <1>9, <1>10, <1>11, <1>12, <1>13, <1>14
     DEF TabStep, Resuming

LEMMA RequestResume ==
  ASSUME TypeOK, TabInv, LoadInv, ResumeReadsTheBuffer,
         NEW r \in Request, RequestStep(r)
  PROVE  LoadInv' /\ ResumeReadsTheBuffer'
<1>. USE DEF gateway, client, loading
<1>1. UNCHANGED <<load, sub, acc, cursor>>
  BY DEF RequestStep, Generator, ReadEnd, LoseConnection, ReadLast, StorePrompt,
         StartStream, Push, Persist, Finish, LeaveLoop, Fail, PersistFails, Cut
<1>2. LoadInv'
  BY <1>1 DEF LoadInv
<1>. SUFFICES ResumeReadsTheBuffer'
  BY <1>2
<1>3. ASSUME buf'.by = buf.by, buf'.chunks = buf.chunks PROVE ResumeReadsTheBuffer'
  BY <1>1, <1>3 DEF ResumeReadsTheBuffer
<1>4. CASE ReadEnd(r) \/ LoseConnection(r) \/ ReadLast(r) \/ StorePrompt(r)
  BY <1>3, <1>4 DEF ReadEnd, LoseConnection, ReadLast, StorePrompt
<1>5. CASE Persist(r) \/ PersistFails(r) \/ LeaveLoop(r) \/ Fail(r) \/ Cut(r)
  BY <1>3, <1>5 DEF Persist, PersistFails, LeaveLoop, Fail, Cut
<1>6. CASE Finish(r)
  BY <1>3, <1>6 DEF Finish, TypeOK, GatewayType
<1>7. CASE StartStream(r)
  <2>1. buf'.by = r /\ st[r] = "stored"
    BY <1>7 DEF StartStream
  <2>2. \A t \in Tab : load[t] = "resuming" => sub[t] # r
    BY <2>1 DEF TabInv, Started, Finishing, Gone
  <2> QED
    BY <1>1, <2>1, <2>2 DEF ResumeReadsTheBuffer
<1>8. CASE Push(r)
  <2>1. CASE ~IsActive
    BY <1>3, <1>8, <2>1 DEF Push
  <2>2. CASE IsActive
    <3>. DEFINE c == <<r, sent[r] + 1>>
    <3>1. buf'.by = buf.by /\ buf'.chunks = Append(buf.chunks, c)
      BY <1>8, <2>2 DEF Push, TypeOK, GatewayType
    <3>2. sent[r] + 1 \in 1..EndMark
      BY <1>8 DEF Push, TabInv, TypeOK, GatewayType
    <3>3. c \in Chunk
      BY <3>2, ChunkType
    <3>. HIDE DEF c
    <3>4. buf.chunks \in Seq(Chunk) /\ Len(buf.chunks) \in Nat
      BY BufferType DEF TypeOK
    <3>5. /\ Len(buf'.chunks) = Len(buf.chunks) + 1
          /\ \A i \in 1..Len(buf.chunks) : buf'.chunks[i] = buf.chunks[i]
      BY <3>1, <3>3, <3>4, AppendProperties
    <3>6. ASSUME NEW t \in Tab, load[t] = "resuming", sub[t] = buf.by
          PROVE  /\ Len(acc[t]) = cursor[t]
                 /\ cursor[t] <= Len(buf'.chunks)
                 /\ \A i \in 1..cursor[t] : acc[t][i] = buf'.chunks[i]
      <4>1. /\ Len(acc[t]) = cursor[t]
            /\ cursor[t] <= Len(buf.chunks)
            /\ \A i \in 1..cursor[t] : acc[t][i] = buf.chunks[i]
        BY <3>6 DEF ResumeReadsTheBuffer
      <4>2. cursor[t] \in Nat
        BY DEF TypeOK, LoadType
      <4>3. \A i \in 1..cursor[t] : i \in 1..Len(buf.chunks)
        BY <3>4, <4>1, <4>2
      <4>4. cursor[t] <= Len(buf'.chunks)
        BY <3>4, <3>5, <4>1, <4>2
      <4>5. \A i \in 1..cursor[t] : acc[t][i] = buf'.chunks[i]
        BY <3>5, <4>1, <4>3
      <4> QED
        BY <4>1, <4>4, <4>5
    <3> QED
      BY <1>1, <3>1, <3>6 DEF ResumeReadsTheBuffer
  <2> QED
    BY <2>1, <2>2
<1> QED
  BY <1>4, <1>5, <1>6, <1>7, <1>8 DEF RequestStep, Generator

-----------------------------------------------------------------------------
(* The inductive invariant *)

LEMMA InitInv == Init => IInv
<1>. SUFFICES ASSUME Init PROVE IInv
  OBVIOUS
<1>1. TypeOK
  BY TypeInit
<1>2. Len(log) = 0
  BY DEF Init
<1>3. LogInv
  BY <1>2, ChatAssumption DEF Init, LogInv, C!Kept, C!Prompted, Finishing, Gone
<1>4. TabInv /\ LoadInv
  BY DEF Init, TabInv, LoadInv, NoEntry
<1>5. StopReachesTheStream
  BY DEF Init, StopReachesTheStream
<1>6. ActiveMeansProducer /\ EntryHoldsItsStream /\ ResumeReadsTheBuffer
  BY DEF Init, ActiveMeansProducer, EntryHoldsItsStream, ResumeReadsTheBuffer,
         IsActive, NoEntry
<1> QED
  BY <1>1, <1>3, <1>4, <1>5, <1>6 DEF IInv

\* The entry expires: nobody resumes "no entry".
LEMMA ExpireInv == ASSUME IInv, Expire PROVE IInv'
<1>. USE DEF IInv, Expire, client, wire, ui, loading
<1>1. TypeOK'
  BY DEF TypeOK, GatewayType, WireType, UiType, LoadType, NoEntry
<1>2. LogInv'
  BY DEF LogInv, C!Kept, C!Prompted
<1>3. TabInv'
  BY DEF TabInv, NoEntry
<1>4. LoadInv' /\ StopReachesTheStream'
  BY DEF LoadInv, StopReachesTheStream
<1>5. ActiveMeansProducer' /\ EntryHoldsItsStream'
  BY DEF ActiveMeansProducer, EntryHoldsItsStream, IsActive, NoEntry
<1>6. ResumeReadsTheBuffer'
  BY DEF ResumeReadsTheBuffer, TabInv, NoEntry
<1> QED
  BY <1>1, <1>2, <1>3, <1>4, <1>5, <1>6

LEMMA StutterInv == ASSUME IInv, UNCHANGED vars PROVE IInv'
<1>. USE DEF IInv, vars, gateway, wire, ui, loading
<1>1. TypeOK'
  BY DEF TypeOK, GatewayType, WireType, UiType, LoadType
<1>2. LogInv' /\ TabInv'
  BY DEF LogInv, TabInv, C!Kept, C!Prompted
<1>3. LoadInv' /\ StopReachesTheStream'
  BY DEF LoadInv, StopReachesTheStream
<1>4. ActiveMeansProducer' /\ EntryHoldsItsStream' /\ ResumeReadsTheBuffer'
  BY DEF ActiveMeansProducer, EntryHoldsItsStream, ResumeReadsTheBuffer, IsActive
<1> QED
  BY <1>1, <1>2, <1>3, <1>4

LEMMA InvStep == ASSUME IInv, [Next]_vars PROVE IInv'
<1>1. ASSUME NEW t \in Tab, TabStep(t) PROVE IInv'
  BY <1>1, TabTypes, TabHistory, TabTabInv, TabStop, TabBuffer, TabResume DEF IInv
<1>2. ASSUME NEW r \in Request, RequestStep(r) PROVE IInv'
  BY <1>2, RequestTypes, RequestHistory, RequestTabInv, RequestStop, RequestBuffer,
     RequestResume DEF IInv
<1> QED
  BY <1>1, <1>2, ExpireInv, StutterInv DEF Next

-----------------------------------------------------------------------------
(* Theorems *)

\* IInv holds in every reachable state: tabs, connections, generators, the buffer and
\* the history agree (useChatStream.ts, stream_buffer.py, service.py).
THEOREM Invariance == Spec => []IInv
  BY InitInv, InvStep, PTL DEF Spec

\* Every variable of the chat keeps its type.
THEOREM TypeCorrect == Spec => []TypeOK
<1>1. IInv => TypeOK
  BY DEF IInv
<1> QED
  BY Invariance, <1>1, PTL

\* Whatever reloads, returns, retries and lost connections happen, the stop button
\* aborts the stream its tab waits for (useChatStream.ts stop).
THEOREM StopWorks == Spec => []StopReachesTheStream
<1>1. IInv => StopReachesTheStream
  BY DEF IInv
<1> QED
  BY Invariance, <1>1, PTL

\* A stream the gateway reports as active is one whose generator did not run to its
\* end (stream_buffer.py is_active, finish).
THEOREM ActiveIsProduced == Spec => []ActiveMeansProducer
<1>1. IInv => ActiveMeansProducer
  BY DEF IInv
<1> QED
  BY Invariance, <1>1, PTL

\* An active entry holds its whole stream so far, whatever older generators push to
\* it (stream_buffer.py push).
THEOREM EntryIsComplete == Spec => []EntryHoldsItsStream
<1>1. IInv => EntryHoldsItsStream
  BY DEF IInv
<1> QED
  BY Invariance, <1>1, PTL

\* What a resumed stream has brought is the beginning of the entry it subscribed to
\* (stream_buffer.py __anext__).
THEOREM ResumeIsFaithful == Spec => []ResumeReadsTheBuffer
<1>1. IInv => ResumeReadsTheBuffer
  BY DEF IInv
<1> QED
  BY Invariance, <1>1, PTL

-----------------------------------------------------------------------------
(* Refinement *)

LEMMA TabConverses ==
  ASSUME IInv, NEW t \in Tab, TabStep(t)
  PROVE  [C!Next]_<<text, log>>
<1>. USE DEF IInv, TypeOK, gateway, wire
<1>1. ASSUME NEW r \in Request, NEW m \in Text, StartSend(t, r, m)
      PROVE  C!Next
  <2>1. C!Say(r, m)
    BY <1>1 DEF StartSend, Fresh, C!Say, LogInv
  <2> QED
    BY <2>1 DEF C!Next
<1>2. CASE \E r \in Request, m \in Text : Send(t, r, m)
  BY <1>1, <1>2 DEF Send
<1>3. CASE \E r \in Request : Resend(t, r)
  BY <1>1, <1>3 DEF Resend
<1>4. CASE Resuming(t)
  BY <1>4 DEF Resuming, ListMessages, StatusActive, StatusInactive, Subscribe,
              NothingToResume, ResumeChunk, ResumeEnds, ResumeWaits, EndResume
<1>5. CASE Retry(t) \/ ListFails(t) \/ StatusInactive(t) \/ LoseResume(t)
  BY <1>5 DEF Retry, ListFails, StatusInactive, LoseResume
<1>6. CASE StopSend(t) \/ StopResume(t) \/ Return(t) \/ Reload(t)
  BY <1>6 DEF StopSend, StopResume, Return, Reload
<1> QED
  BY <1>2, <1>3, <1>4, <1>5, <1>6 DEF TabStep

LEMMA RequestConverses ==
  ASSUME IInv, NEW r \in Request, RequestStep(r)
  PROVE  [C!Next]_<<text, log>>
<1>. USE DEF IInv, client, wire
<1>1. CASE ReadEnd(r) \/ LoseConnection(r)
  BY <1>1 DEF ReadEnd, LoseConnection, Settle, gateway
<1>2. CASE ReadLast(r) \/ StartStream(r) \/ Push(r) \/ LeaveLoop(r) \/ PersistFails(r)
  BY <1>2 DEF ReadLast, StartStream, Push, LeaveLoop, PersistFails
<1>3. CASE Finish(r) \/ Fail(r) \/ Cut(r)
  BY <1>3 DEF Finish, Fail, Cut, EndAs
<1>4. CASE StorePrompt(r)
  <2>1. text[r] # NoText /\ ~C!Kept("user", r) /\ ~C!Kept("assistant", r)
    BY <1>4 DEF StorePrompt, LogInv, Gone
  <2>2. C!KeepPrompt(r) \/ UNCHANGED <<text, log>>
    BY <1>4, <2>1 DEF StorePrompt, C!KeepPrompt
  <2> QED
    BY <2>2 DEF C!Next
<1>5. CASE Persist(r)
  <2>1. text[r] # NoText /\ C!Prompted(r) /\ ~C!Kept("assistant", r)
    BY <1>5 DEF Persist, LogInv, Finishing, Gone
  <2>2. CASE sent[r] = 0
    BY <1>5, <2>2 DEF Persist
  <2>3. CASE sent[r] # 0
    <3>1. Stored(r) \in 1..Chunks
      BY <2>3, ChatAssumption DEF Stored, TypeOK, GatewayType
    <3>2. C!KeepAnswer(r, Stored(r))
      BY <1>5, <2>1, <2>3 DEF Persist, C!KeepAnswer
    <3> QED
      BY <3>1, <3>2 DEF C!Next
  <2> QED
    BY <2>2, <2>3
<1> QED
  BY <1>1, <1>2, <1>3, <1>4, <1>5 DEF RequestStep, Generator

\* The chat implements Conversation: however requests overlap, a prompt and an answer
\* are kept at most once and an answer only after a prompt with its text
\* (_inject_session_context, _persist_stream_assistant_response).
THEOREM ConversationKept == Spec => ConversationPromise
<1>1. Init => C!Init
  BY DEF Init, C!Init
<1>2. IInv /\ [Next]_vars => [C!Next]_<<text, log>>
  <2>1. Expire => UNCHANGED <<text, log>>
    BY DEF Expire, client, wire
  <2>2. UNCHANGED vars => UNCHANGED <<text, log>>
    BY DEF vars, gateway, wire
  <2> QED
    BY <2>1, <2>2, TabConverses, RequestConverses DEF Next
<1> QED
  BY Invariance, <1>1, <1>2, PTL DEF Spec, ConversationPromise, C!Spec
=============================================================================
