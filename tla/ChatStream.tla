----------------------------- MODULE ChatStream -----------------------------
(***************************************************************************)
(* One chat session: the browser's tabs (useChatStream.ts, chatClient.ts), *)
(* the gateway's streamed completions (route_stream_chat) and the buffer   *)
(* from which a tab resumes a stream (stream_buffer.py).                   *)
(*                                                                         *)
(* A tab's functions are asynchronous: between an await and its result the *)
(* user, the other tabs and the gateway move.  The gateway's generator is  *)
(* driven by the browser's connection: when that goes away the generator   *)
(* is cancelled at an await, which also cuts its finally, or closed by the *)
(* garbage collector, which runs the finally to its end.                   *)
(*                                                                         *)
(* The buffer is a variable of a gateway process.  There is one process    *)
(* here: the requests of a session that reach another one (the gateway     *)
(* runs up to four, settings.py and __main__.py) find no entry there and   *)
(* make one of their own.  README, section 12.                             *)
(*                                                                         *)
(* An answer is its chunks 1..Chunks and the end marker Chunks + 1.  The   *)
(* message list of a tab is left out: it decides nothing the code does.    *)
(***************************************************************************)
EXTENDS Naturals, Sequences, FiniteSets

CONSTANTS
  Tab,      \* browser tabs with the session open
  Text,     \* what the user may say
  NoText,
  Requests, \* completions asked for, over the session's life
  Chunks,   \* content chunks of a whole answer
  Mishaps   \* reloads, returns to the session, broken connections and failures

ASSUME ChatAssumption ==
  /\ NoText \notin Text \cup Tab
  /\ Requests \in Nat
  /\ Chunks \in Nat \ {0}
  /\ Mishaps \in Nat

Request == 1..Requests
EndMark == Chunks + 1
NoAbort == 0             \* abortRef.current is null
Resumed == Requests + 1  \* abortRef.current aborts the resumed stream

VARIABLES
  \* the gateway
  log,      \* the session's messages, oldest first
  buf,      \* the buffer's entry: who started it (0: no entry), chunks, done
  st,       \* where each request is
  text,     \* what it says
  known,    \* the last message it read was its own text
  sent,     \* chunks it has sent
  \* the connections
  cli,      \* its connection: a send() reads it, it is open, it has ended
  from,     \* the tab whose connection it is
  \* the tabs
  busy,     \* isStreaming
  err,      \* the error alert with its retry button is shown
  last,     \* lastSendRef.current
  abort,    \* abortRef.current
  load,     \* where loadHistory is
  offer,    \* the last message it listed, when that is a prompt
  acc,      \* what the resumed stream has brought
  cursor,   \* how much of the buffer it has read
  sub,      \* the request whose entry it was given first
  waits,    \* the entry (its request, or 0) on whose event it waits
  retries,  \* the text that retry() is about to send again
  mishaps

gateway == <<log, buf, st, known, sent>>
wire == <<text, cli, from>>
ui == <<busy, err, last, abort>>
loading == <<load, offer, acc, cursor, sub, waits>>
vars == <<gateway, wire, ui, loading, retries, mishaps>>

C == INSTANCE Conversation

Chunk == Request \X (1..EndMark)
NoEntry == [by |-> 0, chunks |-> << >>, done |-> TRUE]

\* The generator has left its loop and runs its finally, or has run it.
Finishing == {"closing", "persisted"}
Gone == {"over", "cut"}
Stage == {"unused", "sent", "read", "stored", "streaming"} \cup Finishing \cup Gone

Messages == [role : {"user", "assistant"}, req : Request, len : 0..Chunks]

GatewayType ==
  /\ log \in Seq(Messages)
  /\ buf \in [by : 0..Requests, chunks : Seq(Chunk), done : BOOLEAN]
  /\ st \in [Request -> Stage]
  /\ known \in [Request -> BOOLEAN]
  /\ sent \in [Request -> 0..EndMark]

WireType ==
  /\ text \in [Request -> Text \cup {NoText}]
  /\ cli \in [Request -> {"none", "reading", "open", "ended"}]
  /\ from \in [Request -> Tab \cup {NoText}]

UiType ==
  /\ busy \in [Tab -> BOOLEAN]
  /\ err \in [Tab -> BOOLEAN]
  /\ last \in [Tab -> Text \cup {NoText}]
  /\ abort \in [Tab -> 0..Resumed]

LoadType ==
  /\ load \in [Tab -> {"idle", "listing", "asking", "subscribing", "resuming"}]
  /\ offer \in [Tab -> Text \cup {NoText}]
  /\ acc \in [Tab -> Seq(Chunk)]
  /\ cursor \in [Tab -> Nat]
  /\ sub \in [Tab -> 0..Requests]
  /\ waits \in [Tab -> 0..Requests]

TypeOK ==
  /\ GatewayType
  /\ WireType
  /\ UiType
  /\ LoadType
  /\ retries \in [Tab -> Text \cup {NoText}]
  /\ mishaps \in 0..Mishaps

Init ==
  /\ log = << >>
  /\ buf = NoEntry
  /\ st = [r \in Request |-> "unused"]
  /\ text = [r \in Request |-> NoText]
  /\ known = [r \in Request |-> FALSE]
  /\ sent = [r \in Request |-> 0]
  /\ cli = [r \in Request |-> "none"]
  /\ from = [r \in Request |-> NoText]
  /\ busy = [t \in Tab |-> FALSE]
  /\ err = [t \in Tab |-> FALSE]
  /\ last = [t \in Tab |-> NoText]
  /\ abort = [t \in Tab |-> NoAbort]
  /\ load = [t \in Tab |-> "listing"]
  /\ offer = [t \in Tab |-> NoText]
  /\ acc = [t \in Tab |-> << >>]
  /\ cursor = [t \in Tab |-> 0]
  /\ sub = [t \in Tab |-> 0]
  /\ waits = [t \in Tab |-> 0]
  /\ retries = [t \in Tab |-> NoText]
  /\ mishaps = 0

Mishap ==
  /\ mishaps < Mishaps
  /\ mishaps' = mishaps + 1

-----------------------------------------------------------------------------
(* The tab: sending and reading the stream of a send.                      *)

Fresh(r) == st[r] = "unused" /\ \A q \in 1..(r - 1) : st[q] # "unused"

\* send(): the optimistic message, the spinner, the request.
StartSend(t, r, m) ==
  /\ Fresh(r)
  /\ st' = [st EXCEPT ![r] = "sent"]
  /\ text' = [text EXCEPT ![r] = m]
  /\ from' = [from EXCEPT ![r] = t]
  /\ cli' = [cli EXCEPT ![r] = "reading"]
  /\ busy' = [busy EXCEPT ![t] = TRUE]
  /\ err' = [err EXCEPT ![t] = FALSE]
  /\ last' = [last EXCEPT ![t] = m]
  /\ abort' = [abort EXCEPT ![t] = r]
  /\ UNCHANGED <<log, buf, known, sent, loading, mishaps>>

\* The input sends only when the tab shows no stream.
Send(t, r, m) == ~busy[t] /\ StartSend(t, r, m) /\ UNCHANGED retries

\* retry() lists the messages anew before it sends.
Retry(t) ==
  /\ err[t]
  /\ last[t] # NoText
  /\ retries[t] = NoText
  /\ retries' = [retries EXCEPT ![t] = last[t]]
  /\ err' = [err EXCEPT ![t] = FALSE]
  /\ UNCHANGED <<gateway, wire, busy, last, abort, loading, mishaps>>

Resend(t, r) ==
  /\ retries[t] # NoText
  /\ StartSend(t, r, retries[t])
  /\ retries' = [retries EXCEPT ![t] = NoText]

\* Variant: abortRef is not cleared.
SettleKeepingAbort(r, failed) ==
  /\ busy' = [busy EXCEPT ![from[r]] = FALSE]
  /\ err' = [err EXCEPT ![from[r]] = @ \/ failed]
  /\ UNCHANGED <<text, last, abort>>

\* send() is left, with the error alert or without.
Settle(r, failed) ==
  /\ busy' = [busy EXCEPT ![from[r]] = FALSE]
  /\ abort' = [abort EXCEPT ![from[r]] = NoAbort]
  /\ err' = [err EXCEPT ![from[r]] = @ \/ failed]
  /\ UNCHANGED <<text, last>>

Hangup(R) ==
  /\ cli' = [r \in Request |-> IF r \in R THEN "ended" ELSE cli[r]]
  /\ from' = [r \in Request |-> IF r \in R THEN NoText ELSE from[r]]

\* The end marker, which the generator sends too when the model fails, or an
\* error in place of the stream.  An answer is shown, none is an error.  The
\* connection is left to end by itself.
ReadEnd(r) ==
  /\ cli[r] = "reading"
  /\ st[r] \in Finishing \cup Gone
  /\ IF st[r] \in Gone THEN Hangup({r})
     ELSE cli' = [cli EXCEPT ![r] = "open"] /\ UNCHANGED from
  /\ Settle(r, sent[r] = 0)
  /\ UNCHANGED <<gateway, loading, retries, mishaps>>

\* The network drops the connection, or the browser does that is done with it.
LoseConnection(r) ==
  /\ cli[r] \in {"reading", "open"}
  /\ Mishap
  /\ Hangup({r})
  /\ IF cli[r] = "reading" THEN Settle(r, TRUE) ELSE UNCHANGED <<text, ui>>
  /\ UNCHANGED <<gateway, loading, retries>>

-----------------------------------------------------------------------------
(* The tab: loadHistory and the resumed stream.                            *)

ListMessages(t) ==
  /\ load[t] = "listing"
  /\ load' = [load EXCEPT ![t] = "asking"]
  /\ offer' = [offer EXCEPT ![t] =
       IF log # << >> /\ log[Len(log)].role = "user"
       THEN text[log[Len(log)].req] ELSE NoText]
  /\ UNCHANGED <<gateway, wire, ui, acc, cursor, sub, waits, retries, mishaps>>

\* loadHistory is left: its local variables are gone.
LeaveLoading(t) ==
  /\ load' = [load EXCEPT ![t] = "idle"]
  /\ offer' = [offer EXCEPT ![t] = NoText]
  /\ acc' = [acc EXCEPT ![t] = << >>]
  /\ cursor' = [cursor EXCEPT ![t] = 0]
  /\ sub' = [sub EXCEPT ![t] = 0]
  /\ waits' = [waits EXCEPT ![t] = 0]

ListFails(t) ==
  /\ load[t] = "listing"
  /\ Mishap
  /\ LeaveLoading(t)
  /\ err' = [err EXCEPT ![t] = TRUE]
  /\ UNCHANGED <<gateway, wire, busy, last, abort, retries>>

IsActive == buf.by # 0 /\ ~buf.done

StatusActive(t) ==
  /\ load[t] = "asking"
  /\ IsActive
  /\ load' = [load EXCEPT ![t] = "subscribing"]
  /\ busy' = [busy EXCEPT ![t] = TRUE]
  /\ abort' = [abort EXCEPT ![t] = Resumed]
  /\ UNCHANGED <<gateway, wire, err, last, offer, acc, cursor, sub, waits, retries,
                 mishaps>>

\* The listing ended with a prompt nobody answered: offer to retry it.
OfferRetry(t) ==
  IF offer[t] # NoText
  THEN /\ err' = [err EXCEPT ![t] = TRUE]
       /\ last' = [last EXCEPT ![t] = offer[t]]
  ELSE UNCHANGED <<err, last>>

\* No stream is under way, or its status cannot be had.
StatusInactive(t) ==
  /\ load[t] = "asking"
  /\ IF IsActive THEN Mishap ELSE UNCHANGED mishaps
  /\ LeaveLoading(t)
  /\ OfferRetry(t)
  /\ UNCHANGED <<gateway, wire, busy, abort, retries>>

\* The resumed stream is over: its answer is shown.
EndResume(t) ==
  /\ LeaveLoading(t)
  /\ busy' = [busy EXCEPT ![t] = FALSE]
  /\ abort' = [abort EXCEPT ![t] = NoAbort]
  /\ UNCHANGED <<gateway, wire, err, last, retries, mishaps>>

\* stream_resume: a subscriber that starts at the entry's first chunk.
Subscribe(t) ==
  /\ load[t] = "subscribing"
  /\ buf.by # 0
  /\ load' = [load EXCEPT ![t] = "resuming"]
  /\ sub' = [sub EXCEPT ![t] = buf.by]
  /\ UNCHANGED <<gateway, wire, ui, offer, acc, cursor, waits, retries, mishaps>>

NothingToResume(t) ==
  /\ load[t] = "subscribing"
  /\ buf.by = 0
  /\ EndResume(t)

\* AsyncSSEIterator.__anext__: the entry is looked up anew, the cursor kept.
Caught(t) == cursor[t] >= Len(buf.chunks)

\* Variant: a subscriber starts at the newest chunk.
ResumeLatest(t) ==
  /\ load[t] = "resuming"
  /\ waits[t] = 0
  /\ ~Caught(t)
  /\ buf.chunks[Len(buf.chunks)][2] # EndMark
  /\ cursor' = [cursor EXCEPT ![t] = Len(buf.chunks)]
  /\ acc' = [acc EXCEPT ![t] = Append(@, buf.chunks[Len(buf.chunks)])]
  /\ UNCHANGED <<gateway, wire, ui, load, offer, sub, waits, retries, mishaps>>

ResumeChunk(t) ==
  /\ load[t] = "resuming"
  /\ waits[t] = 0
  /\ ~Caught(t)
  /\ buf.chunks[cursor[t] + 1][2] # EndMark
  /\ cursor' = [cursor EXCEPT ![t] = @ + 1]
  /\ acc' = [acc EXCEPT ![t] = Append(@, buf.chunks[cursor[t] + 1])]
  /\ UNCHANGED <<gateway, wire, ui, load, offer, sub, waits, retries, mishaps>>

\* The end marker, or an entry that is done, or gone.
ResumeEnds(t) ==
  /\ load[t] = "resuming"
  /\ waits[t] = 0
  /\ IF Caught(t) THEN buf.by = 0 \/ buf.done
                  ELSE buf.chunks[cursor[t] + 1][2] = EndMark
  /\ EndResume(t)

\* Everything is read: wait for the event of this entry.
ResumeWaits(t) ==
  /\ load[t] = "resuming"
  /\ waits[t] = 0
  /\ Caught(t)
  /\ IsActive
  /\ waits' = [waits EXCEPT ![t] = buf.by]
  /\ UNCHANGED <<gateway, wire, ui, load, offer, acc, cursor, sub, retries, mishaps>>

\* The resumed connection breaks: the inner catch swallows it, and nothing
\* takes the spinner away.
LoseResume(t) ==
  /\ load[t] \in {"subscribing", "resuming"}
  /\ Mishap
  /\ LeaveLoading(t)
  /\ OfferRetry(t)
  /\ UNCHANGED <<gateway, wire, busy, abort, retries>>

-----------------------------------------------------------------------------
(* The tab: stop, reload, leave and return.                                *)

\* The stop button: aborts what abortRef holds, if anything.
StopSend(t) ==
  /\ busy[t]
  /\ abort[t] \in Request
  /\ Hangup({abort[t]})
  /\ busy' = [busy EXCEPT ![t] = FALSE]
  /\ abort' = [abort EXCEPT ![t] = NoAbort]
  /\ UNCHANGED <<gateway, text, err, last, loading, retries, mishaps>>

StopResume(t) ==
  /\ busy[t]
  /\ abort[t] = Resumed
  /\ busy' = [busy EXCEPT ![t] = FALSE]
  /\ abort' = [abort EXCEPT ![t] = NoAbort]
  /\ IF load[t] \in {"subscribing", "resuming"}
     THEN LeaveLoading(t) /\ OfferRetry(t)
     ELSE UNCHANGED <<loading, err, last>>
  /\ UNCHANGED <<gateway, wire, retries, mishaps>>

\* A new mount of the chat window: every ref and state starts over.
Mount(t) ==
  /\ Mishap
  /\ busy' = [busy EXCEPT ![t] = FALSE]
  /\ err' = [err EXCEPT ![t] = FALSE]
  /\ last' = [last EXCEPT ![t] = NoText]
  /\ abort' = [abort EXCEPT ![t] = NoAbort]
  /\ load' = [load EXCEPT ![t] = "listing"]
  /\ offer' = [offer EXCEPT ![t] = NoText]
  /\ acc' = [acc EXCEPT ![t] = << >>]
  /\ cursor' = [cursor EXCEPT ![t] = 0]
  /\ sub' = [sub EXCEPT ![t] = 0]
  /\ waits' = [waits EXCEPT ![t] = 0]
  /\ retries' = [retries EXCEPT ![t] = NoText]

Of(t) == {r \in Request : from[r] = t}

\* To another session and back: the old send() reads on, unseen.
Return(t) ==
  /\ Mount(t)
  /\ cli' = [r \in Request |-> IF r \in Of(t) THEN "open" ELSE cli[r]]
  /\ UNCHANGED <<gateway, text, from>>

\* The browser reloads the page and drops the connections it has open.
Reload(t) ==
  /\ Mount(t)
  /\ Hangup(Of(t))
  /\ UNCHANGED <<gateway, text>>

-----------------------------------------------------------------------------
(* The gateway.                                                            *)

client == <<wire, ui, loading, retries>>

\* The last message is read: is this the same prompt again?
ReadLast(r) ==
  /\ st[r] = "sent"
  /\ st' = [st EXCEPT ![r] = "read"]
  /\ known' = [known EXCEPT ![r] =
       /\ log # << >>
       /\ log[Len(log)].role = "user"
       /\ text[log[Len(log)].req] = text[r]]
  /\ UNCHANGED <<log, buf, sent, client, mishaps>>

\* A prompt that is new is stored and committed.
StorePrompt(r) ==
  /\ st[r] = "read"
  /\ st' = [st EXCEPT ![r] = "stored"]
  /\ known' = [known EXCEPT ![r] = FALSE]
  /\ log' = IF known[r] THEN log ELSE Append(log, C!Message("user", r, 0))
  /\ UNCHANGED <<buf, sent, client, mishaps>>

\* The generator is gone, and with it a connection nobody reads.
EndAs(r, stage) ==
  /\ st' = [st EXCEPT ![r] = stage]
  /\ IF cli[r] = "reading" THEN UNCHANGED <<cli, from>> ELSE Hangup({r})
  /\ UNCHANGED text

\* A limit, no capacity, the model's error before the first chunk, or a
\* request that was dropped before it was answered.
Fail(r) ==
  /\ st[r] \in {"sent", "read", "stored"}
  /\ IF cli[r] # "ended" THEN Mishap ELSE UNCHANGED mishaps
  /\ EndAs(r, "cut")
  /\ known' = [known EXCEPT ![r] = FALSE]
  /\ UNCHANGED <<log, buf, sent, ui, loading, retries>>

\* StreamBuffer.start: the entry of the session is replaced.
StartStream(r) ==
  /\ st[r] = "stored"
  /\ st' = [st EXCEPT ![r] = "streaming"]
  /\ buf' = [by |-> r, chunks |-> << >>, done |-> FALSE]
  /\ UNCHANGED <<log, known, sent, client, mishaps>>

\* The event of the entry the session has now is set.
Wake == waits' = [t \in Tab |-> IF waits[t] = buf.by THEN 0 ELSE waits[t]]

\* Variant: chunks are buffered only while somebody waits for them.
PushWatched(r) ==
  /\ st[r] = "streaming"
  /\ st' = IF sent[r] = Chunks THEN [st EXCEPT ![r] = "closing"] ELSE st
  /\ sent' = [sent EXCEPT ![r] = @ + 1]
  /\ IF IsActive /\ \E t \in Tab : waits[t] = buf.by
     THEN /\ buf' = [buf EXCEPT !.chunks = Append(@, <<r, sent[r] + 1>>)]
          /\ Wake
     ELSE UNCHANGED <<buf, waits>>
  /\ UNCHANGED <<log, known, wire, ui, load, offer, acc, cursor, sub, retries,
                 mishaps>>

\* StreamBuffer.push: to the session's entry, whoever started it.  Then the
\* chunk goes out, the last one as the loop ends.
Push(r) ==
  /\ st[r] = "streaming"
  /\ st' = IF sent[r] = Chunks THEN [st EXCEPT ![r] = "closing"] ELSE st
  /\ sent' = [sent EXCEPT ![r] = @ + 1]
  /\ IF IsActive
     THEN /\ buf' = [buf EXCEPT !.chunks = Append(@, <<r, sent[r] + 1>>)]
          /\ Wake
     ELSE UNCHANGED <<buf, waits>>
  /\ UNCHANGED <<log, known, wire, ui, load, offer, acc, cursor, sub, retries,
                 mishaps>>

\* The model fails on the way, or the generator is closed.
LeaveLoop(r) ==
  /\ st[r] = "streaming"
  /\ IF cli[r] # "ended" THEN Mishap ELSE UNCHANGED mishaps
  /\ st' = [st EXCEPT ![r] = "closing"]
  /\ UNCHANGED <<log, buf, known, sent, client>>

Stored(r) == IF sent[r] > Chunks THEN Chunks ELSE sent[r]

\* Variant: the finally may be run again.
PersistAgain(r) ==
  /\ st[r] = "closing"
  /\ st' \in {st, [st EXCEPT ![r] = "persisted"]}
  /\ log' = IF sent[r] = 0 THEN log
            ELSE Append(log, C!Message("assistant", r, Stored(r)))
  /\ UNCHANGED <<buf, known, sent, client, mishaps>>

\* The finally: the answer is stored, if there is one.
Persist(r) ==
  /\ st[r] = "closing"
  /\ st' = [st EXCEPT ![r] = "persisted"]
  /\ log' = IF sent[r] = 0 THEN log
            ELSE Append(log, C!Message("assistant", r, Stored(r)))
  /\ UNCHANGED <<buf, known, sent, client, mishaps>>

\* A failure to store it is swallowed.
PersistFails(r) ==
  /\ st[r] = "closing"
  /\ sent[r] > 0
  /\ Mishap
  /\ st' = [st EXCEPT ![r] = "persisted"]
  /\ UNCHANGED <<log, buf, known, sent, client>>

\* Variant: only the stream's own subscribers are told.
FinishUnmarked(r) ==
  /\ st[r] = "persisted"
  /\ EndAs(r, "over")
  /\ Wake
  /\ UNCHANGED <<log, buf, known, sent, ui, load, offer, acc, cursor, sub, retries,
                 mishaps>>

\* StreamBuffer.finish: the entry of the session, whoever started it.
Finish(r) ==
  /\ st[r] = "persisted"
  /\ EndAs(r, "over")
  /\ buf' = [buf EXCEPT !.done = TRUE]
  /\ Wake
  /\ UNCHANGED <<log, known, sent, ui, load, offer, acc, cursor, sub, retries,
                 mishaps>>

\* The connection is gone: the generator is cancelled at an await, in its
\* loop or in its finally.  Or its release or its audit fails.
Cut(r) ==
  /\ st[r] \in {"streaming"} \cup Finishing
  /\ IF cli[r] # "ended" THEN st[r] = "persisted" /\ Mishap ELSE UNCHANGED mishaps
  /\ EndAs(r, "cut")
  /\ UNCHANGED <<log, buf, known, sent, ui, loading, retries>>

\* The cleanup loop removes an entry that has been done for ttl_sec.
Expire ==
  /\ buf.by # 0
  /\ buf.done
  /\ buf' = NoEntry
  /\ UNCHANGED <<log, st, known, sent, client, mishaps>>

-----------------------------------------------------------------------------
Generator(r) ==
  \/ ReadLast(r) \/ StorePrompt(r) \/ StartStream(r) \/ Push(r)
  \/ Persist(r) \/ Finish(r)

Resuming(t) ==
  \/ ListMessages(t) \/ StatusActive(t) \/ (~IsActive /\ StatusInactive(t))
  \/ Subscribe(t) \/ NothingToResume(t)
  \/ ResumeChunk(t) \/ ResumeEnds(t) \/ ResumeWaits(t)

TabStep(t) ==
  \/ \E r \in Request, m \in Text : Send(t, r, m)
  \/ \E r \in Request : Resend(t, r)
  \/ Retry(t)
  \/ Resuming(t)
  \/ ListFails(t) \/ StatusInactive(t) \/ LoseResume(t)
  \/ StopSend(t) \/ StopResume(t)
  \/ Return(t) \/ Reload(t)

RequestStep(r) ==
  \/ ReadEnd(r) \/ LoseConnection(r)
  \/ Generator(r) \/ LeaveLoop(r) \/ Fail(r) \/ PersistFails(r) \/ Cut(r)

Next ==
  \/ \E t \in Tab : TabStep(t)
  \/ \E r \in Request : RequestStep(r)
  \/ Expire

Spec == Init /\ [][Next]_vars

\* The gateway and the browser's event loop keep going.
Fairness ==
  /\ \A r \in Request : WF_vars(Generator(r)) /\ WF_vars(ReadEnd(r))
  /\ \A t \in Tab : WF_vars(Resuming(t))

FairSpec == Spec /\ Fairness
-----------------------------------------------------------------------------
(* Properties.                                                             *)

\* What the stop button aborts (useChatStream.ts stop) is the stream the tab
\* waits for: while the spinner turns abortRef holds an abort, and the abort of
\* a send holds only as long as that very send reads, in that very tab.
StopReachesTheStream ==
  \A t \in Tab :
    /\ busy[t] => abort[t] # NoAbort
    /\ abort[t] \in Request => cli[abort[t]] = "reading" /\ from[abort[t]] = t

\* The status the gateway reports as active (stream_buffer.py is_active) comes
\* from a generator that has not run to its end: however often entries are
\* replaced, finished by a stranger or expired, one that ends leaves no active
\* entry of its own.
ActiveMeansProducer ==
  IsActive => st[buf.by] \in {"streaming", "cut"} \cup Finishing

\* An active entry (stream_buffer.py push) holds all its stream has sent, in
\* order, whatever an older generator pushed in between.
EntryHoldsItsStream ==
  IsActive =>
    LET own == {i \in 1..Len(buf.chunks) : buf.chunks[i][1] = buf.by} IN
      /\ \A i \in own : buf.chunks[i][2] <= sent[buf.by]
      /\ \A n \in 1..sent[buf.by] : \E i \in own : buf.chunks[i][2] = n
      /\ \A i, j \in own : i < j => buf.chunks[i][2] < buf.chunks[j][2]

\* A resumed stream (AsyncSSEIterator.__anext__) whose entry was not replaced
\* has brought exactly the first chunks of that entry.
ResumeReadsTheBuffer ==
  \A t \in Tab :
    load[t] = "resuming" /\ sub[t] = buf.by =>
      /\ Len(acc[t]) = cursor[t]
      /\ cursor[t] <= Len(buf.chunks)
      /\ \A i \in 1..cursor[t] : acc[t][i] = buf.chunks[i]

\* The session's history is a conversation: prompts and answers are kept at
\* most once, an answer only after a prompt with its text, and none is lost
\* again (_inject_session_context, _persist_stream_assistant_response).
ConversationPromise == C!Spec

\* Where a request that streams, or has, may be.
Started == {"streaming"} \cup Finishing \cup Gone

\* What is kept, and of whom.
LogInv ==
  /\ \A r \in Request : text[r] = NoText <=> st[r] = "unused"
  /\ \A i \in 1..Len(log) : log[i].role \in {"user", "assistant"}
                          /\ log[i].req \in Request
                          /\ st[log[i].req] # "unused"
  /\ \A r \in Request :
       /\ C!Kept("user", r) => st[r] \notin {"sent", "read"}
       /\ C!Kept("assistant", r) => st[r] \in {"persisted"} \cup Gone
       /\ st[r] = "read" /\ known[r] => C!Prompted(r)
       /\ st[r] \in {"stored", "streaming"} \cup Finishing => C!Prompted(r)

\* Connections, tabs and the buffer's entry.
TabInv ==
  /\ \A r \in Request :
       /\ st[r] = "unused" => cli[r] = "none" /\ from[r] = NoText
       /\ st[r] \in {"unused", "sent", "read", "stored"} => sent[r] = 0
       /\ st[r] = "streaming" => sent[r] <= Chunks
       /\ cli[r] = "reading" => from[r] \in Tab
  /\ buf.by # 0 => st[buf.by] \in Started
  /\ buf.by = 0 => buf.chunks = << >>
  /\ \A t \in Tab : load[t] = "resuming" => sub[t] # 0 /\ st[sub[t]] \in Started

\* A tab that resumes no stream has nothing of one.
LoadInv == \A t \in Tab : load[t] # "resuming" => acc[t] = << >> /\ cursor[t] = 0

\* The inductive invariant: it holds of every reachable state, and implies
\* what the tabs, the buffer and the history promise (useChatStream.ts,
\* stream_buffer.py, service.py route_stream_chat).
IInv ==
  /\ TypeOK
  /\ LogInv
  /\ TabInv
  /\ LoadInv
  /\ StopReachesTheStream
  /\ ActiveMeansProducer
  /\ EntryHoldsItsStream
  /\ ResumeReadsTheBuffer

\* "a client that reloads mid-stream can reconnect and receive the full
\* response" (stream_buffer.py:3-4): a resumed stream comes to an end.  The code
\* does not keep it: README, section 10.
ResumedStreamEnds ==
  \A t \in Tab : load[t] = "resuming" ~> load[t] # "resuming"
=============================================================================
