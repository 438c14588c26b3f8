# llm-port in TLA+

This directory is a verification development for llm-port: TLA+ modules that
model its core, TLC configurations that check them on small instances, and
TLAPS proofs of what holds for every instance. Source paths are relative to the
repository root; `backend/` stands for
`src/llm_port_backend/llm_port_backend/`, `agent/` for
`src/llm_port_node_agent/llm_port_node_agent/`, `api/` for
`src/llm_port_api/llm_port_api/` and `app/` for `src/llm_port_frontend/app/`.

## 1. Inventory

llm-port is a self-hosted LLM platform: a control plane (*backend*) that drives
containers on many machines through *node agents*, an OpenAI-compatible
*gateway* that routes requests to them, and services around these.

| Component | State it keeps | Operations | Talks to |
|---|---|---|---|
| Command delivery, backend (`backend/services/nodes/service.py`, `db/dao/node_control_dao.py`, stream loop in `web/api/admin/system/views.py`) | rows of commands, sessions, nodes, credentials, events | issue, dispatch, ack, progress, result, heartbeat, open and close of a stream | agent (websocket), PostgreSQL |
| Stale-command reaper (`backend/web/lifespan.py`) | none of its own | a pass every 60 s | the same rows, in a session of its own |
| Agent stream client (`agent/stream_client.py`) | the websocket, a sequence number, the signing key | receive loop, heartbeat, inventory, event and rotation timers | backend |
| Agent dispatcher and result store (`agent/dispatcher.py`, `state_store.py`, `policy_guard.py`) | tasks in flight; 500 remembered results, on disk | handle a command: replay, refuse or execute | runtime manager |
| Agent reconnect and enrolment (`agent/service.py`) | credential, failure streak, backoff | enrol, connect, clear the credential | backend HTTP |
| Agent runtime manager and health supervisor (`agent/runtime_manager.py`, `health_supervisor.py`) | workloads on disk; last known status per container | deploy, start, stop, restart, remove; health events | docker |
| LLM providers and runtimes (`backend/services/llm/service.py`, `gateway_sync.py`, `web/api/llm/*`) | provider and runtime rows, containers, workload assignments, the gateway's instances, memberships and aliases | create with rollback, publish, unpublish, cascading delete, start, stop, reconcile | docker, command delivery, gateway database |
| Image pulls (`backend/services/docker/pull_tracker.py`, `web/api/admin/images`) | jobs in the memory of each worker, one active pull per image there | check, start, subscribe, forget after five minutes | docker, event streams |
| Gateway routing and leases (`api/services/gateway/routing.py`, `lease.py`, `service.py`, `ratelimit.py`, `api/services/cache/redis.py`) | leases and counters in Redis | pick an instance, lease it, release it; count requests and tokens | Redis, the instances |
| Chat sessions and stream buffer (`api/services/gateway/stream_buffer.py`, `service.py`, `session_dao.py`) | messages, one buffered stream per session | store a prompt, stream and buffer an answer, store it, resume, forget | browser, model instances |
| Gateway tools, memory, PII (`api/services/gateway/*`) | client websockets, pending calls, summaries | tool loops, client tool calls, prompt assembly | MCP, PII and skills services |
| Chat client (`app/pages/chat/hooks/useChatStream.ts`, `app/api/chatClient.ts`) | what a tab shows, the aborts it holds | send, retry, stop, load and resume | gateway |
| Node page and update dialog (`app/pages/admin/nodes/*`) | the dialog's stage, its interval | check for updates, apply, reboot, poll; load the page | backend |
| Provider wizard (`app/components/ProviderWizardDialog.tsx`) | the form, busy, the image's status, an EventSource | set a provider up, undo it, check and pull an image | backend |
| Downloads, notifications, RAG lite, settings (`backend/services/*`) | job rows, queues, files | background work | docker, Hugging Face, RabbitMQ |
| MCP, skills and PII services, other pages, CLI | rows, UI state | CRUD, proxying, analysis | the above |

What is hard in it: the agent and the backend share a command over a connection
that breaks, so frames are lost and commands are sent again; several stream
loops, HTTP requests and the reaper write the same rows from ORM sessions that
cache them; executions are cancelled by a reconnect; the gateway's counters in
Redis outlive the requests that hold them; a generator is cancelled with the
connection that drives it; and the frontend's functions run on over awaits while
the component they belong to is reset, replaced or gone, and requests they gave up
go on in the backend. Backend and gateway run as up to four uvicorn workers each
(`settings.py`, `workers_count`), so that what is kept in memory is kept once for each of
them; and the backend's `get_db_session` commits after the response is sent
(`backend/db/dependencies.py:32-36`, with the FastAPI of `uv.lock`), so that a caller may
act on an answer before, or although it never will be, committed.

What makes each part correct:

* command delivery: a command runs to its end at most once, its reported status
  is what happened on the node, everything issued is taken up or ends, and a
  node goes offline when it has no stream;
* reaper: it ends what is stranded and touches nothing that is connected;
* agent reconnect: a blip does not cost the credential; it reconnects for ever;
* providers: a setup is complete or leaves nothing, a runtime has a provider, an
  alias with members is enabled;
* image pulls: one at a time per image and worker, its outcome is heard, and "ready" is true
  of the image that is chosen;
* gateway: no instance gets more than its limit, and no slot is lost;
* chat: what is kept is a conversation, stop stops what is shown, and a resumed
  stream is the stream;
* update dialog: one command at a time, every interval ends, and the dialog does
  not stay locked.

## 2. Plan

Most important first; each module has the proofs named:

1. `NodeCommands`, the delivery of commands, with the abstract `CommandOutcome`
   and `CommandLife` it implements, and `NodeCommandsProofs`;
2. `CommandDeadline`, the clock behind "overdue" and the reaper's grace period, and
   `CommandDeadlineProofs`;
3. `GatewayLease`, the gateway's concurrency slots, with the abstract `SlotPool`
   it implements, and `GatewayLeaseProofs`;
4. `ChatStream`, a chat session from the browser's tab through the gateway's
   generator and buffer to the kept messages, with the abstract `Conversation` it
   implements, and `ChatStreamProofs`;
5. `UpdateDialog`, the dialog that drives a node's commands from the browser, with
   the abstract `Errand` it implements, and `UpdateDialogProofs`;
6. `ProviderSetup`, the wizard's setup over browser, backend and gateway database,
   with the abstract `Provisioning` it implements, and `ProviderSetupProofs`;
7. `ImagePull`, the pull tracker and the wizard's image step, with the abstract
   `PullDesk` the tracker implements, and `ImagePullProofs`.

What would come next: start, stop and restart of runtimes against their
idempotency keys; runtime status under node events and reconciliation; requests and
tokens per minute (`ratelimit.py`); the tool broker.

Every module that is proved about is free of recursion; the MC modules only give
constants their values. Modules meet where their parts do: `NodeCommands` and
`CommandDeadline` look at the same rows without and with a clock; what becomes of a
command in `UpdateDialog`, and of a deploy command in `ProviderSetup`, is the subject
of `NodeCommands`; `ImagePull` and `ProviderSetup` are two parts of one dialog, the
second beginning where the first lets it.

## 3. NodeCommands

`NodeCommands` is the core: the life of commands for **one** node, from
`issue_command` to a terminal status, over streams that overlap and break.
Nodes do not interact (every query filters by `node_id`).

### State

| Variable | Code |
|---|---|
| `status`, `key` | `infra_node_command.status` and `.idempotency_key` ("unissued": no row yet) |
| `node` | `infra_node.status`: "offline", or anything a heartbeat reports |
| `row` | a stream: its server loop and its `infra_node_session` row. "opening": authenticated, nothing committed; "open": served, `disconnected_at` null; "closing", "closingLast": the other open rows were counted (none, in the second case) and nothing is committed yet; "closed"; "orphan": the loop is gone and `disconnected_at` stays null |
| `seen` | `status` of the node object in the stream's ORM session, read once by `authenticate_agent` and kept (`expire_on_commit` is off and the handler holds the object) |
| `retiring` | finished commands a caller of `issue_command` has found under its key |
| `reap` | what the reaper pass of each worker has read and will write |
| `late` | history: the streams that opened since a closing one counted |
| `conn`, `down`, `up` | the agent's websocket; items and frames in flight, in order |
| `busy`, `store` | the command the receive loop is executing; `AgentState.completed_commands` |
| `old` | commands up to this one were issued more than 300 s ago |
| `crashes`, `ran` | a bound's counter and a history variable |

### Steps

A backend transaction that ends in a commit is one step: its reads and writes
touch rows that only the reaper and another stream's loop also write, and the
interleavings that matter are kept as separate steps, namely the
reading and the writing half of a reaper pass (`ReapScan`, `ReapCommit`), the
authentication and first commit of a stream (`Authenticate`, `OpenStream`), the
count and the commit of its end (`BeginClose`, `FinishClose`), and the lookup and the
insert of a caller (`LookUp`, `IssueCommand`).

| Action | Code |
|---|---|
| `LookUp`, `IssueCommand` | `issue_command`: look the key up; create the row, retiring the finished one. A row that the lookup did not find finished holds the key: the unique constraint fails the insert and nothing is committed |
| `Authenticate`, `OpenStream`, `AbortOpening` | `system_node_stream` up to `hello_ack`: pending commands, then overdue ones with the redispatch flag |
| `ReceiveFrame` | one iteration of the loop: record the frame, list and send what is pending, commit |
| `FailFrame` | the same iteration raising; `close_stream_session` then raises as well |
| `BeginClose`, `FinishClose`, `FailClose` | `close_stream_session` on a clean session (disconnect or idle timeout): the count; the commit after the demotion of the runtimes; an exception in between, which leaves the row open |
| `BackendCrash` | one or more workers die |
| `ReapScan`, `ReapCommit` | `reap_stale_commands` |
| `RefuseExpired`, `ReplayResult`, `RefuseByPolicy`, `BeginExecution`, `FinishExecution` | `_handle_command` and `CommandDispatcher.handle`, in the order of their checks |
| `Tick` | the heartbeat, inventory and event timers, and progress frames |
| `LoseStream` | the stream breaks or the agent restarts; the execution is cancelled |
| `PassFreshnessBound` | five minutes pass for the oldest fresh command |

Abstractions: "overdue" is a free choice over commands in flight, so every
property holds whatever the timeouts are (`CommandDeadline` says what it is); commands are numbered in the order of
`issued_at`; an ack and what follows it at once are sent in one step; payloads,
results and events of the timeline are left out; the sequence-number test of
`update_stream_offset` is left out, since numbers rise within a stream and the
offset is the session row's own.

### Properties

Checked and true:

* `OutcomeIsExplained`: a succeeded command succeeded on the node, a failed one
  failed there or was refused as too old.
* `RunsToItsEndOnce`: at most one execution of a command runs to its end.
* `IInv`, the inductive invariant.
* `OfflineMissesOnlyTheLate`: the end of one of several overlapping streams takes the
  node offline only if the others are closed or opened in between its count and its
  commit. That this is not excluded is in section 10 (`GoesOfflineOnlyUnserved`).
* `PendingIsTakenUp`: liveness, see below.
* `OutcomePromise`: the module implements `CommandOutcome`, in which the outcome
  of a command is decided once, executions are serial, and success is reported
  only of a success. The mapping reads a command's outcome from `store`, or
  "executing" when it is `busy`, and the report from `status`.
* `LifePromise`: the module implements `CommandLife`, the life of a row as the
  callers of the backend may rely on it. A command is queued, then sent; nothing is
  recorded of one that was not sent, the reaper gives up none that waits, and no row goes back
  to the queue. The code never looks at the status when it records a frame, so
  this rests on where frames come from.

Checked and false, a disagreement of code and text (see "findings" in
`PROJECT.json` for the lines):

* `SuccessIsNotReportedFailed`: a re-sent copy older than 300 s is refused before
  the result store is asked, and the refusal overwrites the success.

Four more are in section 10. How far the code keeps this one and
`BrieflyUnreachableLosesNoWork` is stated, and proved, too:

* `OnlyTheOldIsMisreported`: a success is reported as a failure only of a command past
  the freshness bound. This follows from `OutcomeIsExplained` at once.
* `OnlyReconnectsLoseWork`: a command that is acked or running on a live stream gets out
  of everybody's hands (`Adrift`) only by a step that opens a stream, or that reads or drops
  frames of a stream the agent has left. As long as the node stays on its stream the agent
  executes the command, its item is on its way, or frames about it are unread, whatever else
  the stream carries and however often commands repeat.

### Runs

| Run | Configuration | Shows |
|---|---|---|
| `commands` | 2 commands, 2 streams, 2 keys, 1 worker | the inductive invariant, safety, `CommandLife`; a re-sent command meets another one, a key is used again |
| `commands_crash` | 1 command, 2 streams, 2 workers, longer channels, 1 backend crash | `CommandOutcome`, overlap of streams (`OfflineMissesOnlyTheLate`), of reaper passes |
| `commands_live` | fair, the last stream stays up | `PendingIsTakenUp` |
| `commands_resend` | 1 command, 1 stream | the disagreement |

Bounds. Two commands are enough for every interaction of commands there is: one
waits behind the other on the stream, in the agent and for the key. Two
streams give one overlap, which is what a reconnect is; a third adds only a
second one. A worker is a reaper and what dies in a crash; two of them are in one run,
and any number in the theorems. `DownCap`, `UpCap` and `TickCap` bound the channels: two copies of a
command, or two commands, in flight, and as many frames unread as one command
makes plus a timer's. They only stop *new* traffic (a loop that cannot
send waits, an agent with enough unread frames takes no further item). Two
freshness steps let both commands become too old. States that cannot go on
(`CHECK_DEADLOCK FALSE`) are those in which all commands, streams and caps are
used up. Keys are symmetric; symmetry is used in runs without liveness only.

Fairness. `FairSpec` makes the loops on both sides, the agent's reconnecting and
the end of an execution weakly fair: these are asyncio tasks of a live process,
the agent reconnects for ever, pings end a stream whose peer is gone, and every
external call of an execution has a timeout. Nothing is assumed of callers,
breaks or crashes, except that the last stream stays up (`LastIsStable`):
without that no command would ever have to be taken up. What the
reaper owes a stranded command is stated with its time in `CommandDeadline`.

### Proofs

`NodeCommandsProofs` proves, for any number of commands, streams, keys and
crashes and any caps, from `ParametersAssumption` alone:

* `Invariance`: `IInv` is an invariant. `OutcomeIsExplained` is not
  inductive: a result frame under way could say anything. `IInv` adds
  `FramesAgree` (a result frame agrees with the agent's store, or refuses a
  command that is too old), which in turn needs `BusyIsUndecided` (an outcome
  once stored is not overwritten), and `UndecidedNeverEnded`, from which
  `RunsToItsEndOnce` follows.
* `TypeCorrect`, `OutcomeExplained`, `AtMostOnce`: its parts.
* `OnlyTheLateAreMissed`: `OfflineMissesOnlyTheLate`, from what `IInv` says of a stream
  that has counted no other: every open one is in its `late`.
* `OutcomeKept`: the refinement, one case per action; `StoreStep` (a decided
  outcome stays) carries it.
* `LifeKept`: the other refinement. Its mapping is the identity, and yet it needs the
  channels: a frame that is recorded must be about a command that was sent, so
  what the agent executes, what is on its way to the agent and what the reaper
  has read must be too (`WasSent` in `IInv`), and must stay so through every step
  (`SentStays`). `DispatchedIsSent` and `RecordIsAllowed` then show
  that a send, a recorded frame or both in one transaction are what `CommandLife`
  allows.
* `OldMisreported` and `LostByReconnects`, the two delimiting properties above. The
  second is no consequence of the other invariants: when the backend reads an ack or a
  progress frame, that frame is gone, and the command must still be held by someone. So `IInv`
  has `BegunIsFollowed`: on a live stream every frame that says a command has begun is
  followed by that command's result, unless the agent is executing it. A replayed or refused
  command sends both at once; a begun one is `busy` until its result is sent behind all of its
  frames; reading takes from the front (`TailFollowed`), sending adds at the end
  (`AppendFollowed`). It also needs `UnservedIsSilent` (no unread frames without a loop), since a
  stream may not become live with old frames in it.

The invariant's proof has one lemma per conjunct, each with a case per action that can
disturb it. Liveness is model-checked only.

### Not modelled of command delivery

Runtime side effects of results and reaping, profiles, maintenance and draining,
signatures and credential rotation; the result store's bound of 500 and its
write failures; docker processes that survive a cancelled execution; commit
failures while a stream opens. That a key has one row is the database's doing (a unique
constraint) and no property here.

## 4. CommandDeadline

One command against the clock. `NodeCommands` leaves open which commands are
overdue; here the instants of `infra_node_command` decide it. In return there is
one command, and the node is taken to be offline exactly while it has no stream
(`NodeCommands` shows where that fails).

| Variable | Code |
|---|---|
| `now` | the clock; the command is issued at 0 |
| `status`, `dispatched`, `acked`, `started` | the row's `status`, `dispatched_at`, `acked_at`, `started_at` (`Unset`: null) |
| `node` | `infra_node.status`, offline or not |
| `passAt` | when the reaper loop last ran |
| `offlineAt` | history: when the node last went offline |

| Action | Code |
|---|---|
| `Dispatch`, `Ack`, `Progress`, `Result` | `list_commands_for_dispatch` and the three `record_command_*`, with the instant `set_command_status` writes once |
| `Disconnect`, `Reconnect` | the last stream closes; the first heartbeat |
| `ReaperPass` | `reap_stale_commands`: `Overdue` is `_command_is_overdue`, `GraceAnchor` what the grace is measured from |
| `Tick` | time passes, at most `Period` between two passes |

The reaper is that of one worker. Every worker runs one; more of them only pass more
often, and what two stale readings do to each other is in `NodeCommands`.

A frame may arrive in any status, terminal ones included, since the code does not
look at the status either and an agent may still answer a copy that was sent
before the command was reaped.

Properties. `StrandedEndsInTime`: a
command in flight on an offline node ends within a reaper period of its
deadline, which is the later of timeout and grace, each from its own anchor.
`QueueingIsFree`: a command that waited for its node is given its full timeout
and grace from its dispatch.

The comment above the reaper's grace (`services/nodes/service.py:396`) speaks of a
node that is briefly unreachable; the code has no bound in terms of the node's
absence. The grace runs from the command's instants, so an old command has none
left when its node goes away.

| Run | Shows |
|---|---|
| `command_deadline` | the inductive invariant, both properties |

Bounds. Only the order of instants and the comparisons with `Timeout`,
`2 * Timeout` and `Grace` matter. `Timeout = 2`, `Grace = 5`, `Period = 2` put the
grace above both budgets, so that now the grace and now, through its own anchor,
the timeout is what a command waits for; the theorems cover every other order
(by default the timeout is 900 s and the grace 600 s).
`MaxTime = 16` leaves room for a queueing time, every deadline, a
reconnect and a second outage. `Period` stands for the loop's 60 s and the time
a pass takes; that passes do occur is what the guard of `Tick` assumes. No state is
stuck: the reaper and the node go on at `MaxTime`.

Proofs (`CommandDeadlineProofs`, from `DeadlineAssumption`). `IInv` adds to the
types that the recorded instants are in order (`InstantsAgree`), that the clock
waits for the reaper (`PassIsRecent`) and that the last pass left nothing that
was due (`PassLeftNothingDue`), which is the inductive form of
`StrandedEndsInTime`: time may pass without it, and only up to `Period`. The
lemma `DeadlineIsDue` ties the two anchors together: once the later deadline has
come, `Reapable` holds. `Invariance`, `StrandedInTime` and
`QueueingCostsNothing` hold for every timeout, grace and period.

## 5. GatewayLease

The gateway lets an instance serve at most `max_concurrency` requests at once. The
count is in Redis, shared by all gateway processes: `llm:active:<instance>`, a
counter without a time to live, and `llm:lease:<request id>`, a key with one,
written and deleted by two Lua scripts, each of which is one step.

### State

| Variable | Code |
|---|---|
| `limit` | `max_concurrency` of an instance's row, as `resolve_candidates` reads it: at least 1 |
| `active`, `lease` | the two kinds of Redis keys; a lease key's value is not used |
| `at`, `hold` | where a request's handler is; the instance it holds a slot of |
| `cand`, `todo` | the candidates with the limits the handler read; those still to try, in the order of the loads it read |
| `fell`, `vanished` | history: who asked for the fallback; how many requests ended with no release |

### Steps

| Action | Code |
|---|---|
| `Reconfigure` | the administrator changes the limit, at any time, to 0 as well |
| `ExpireLease` | a lease's `lease_ttl_sec` ends, whatever its request does |
| `Resolve`, `Rank` | `resolve_alias`; `_active_counts` and the sort by load |
| `Acquire`, `Refuse` | `_ACQUIRE_LUA` for the next candidate, granted or not; 503 after the last |
| `FallBack` | `_fallback_to_local_candidate`: release, then rank and try the local candidates, or 503 |
| `Finish` | the `finally` of `route_non_stream` and `_stream_with_finalize`: `_RELEASE_LUA` |
| `Vanish` | the process dies, the returned stream is never started, Redis fails in the release: nothing is given back |

Weights and the order of equally loaded candidates are a free choice; what is
sent to the instance, PII text, tools and audit rows are left out; `Finish` stands
for every way in which a handler ends after it was granted a slot.

### Properties

* `HoldersAreCounted`: the requests that hold a slot of an instance never exceed
  its counter, whatever expires, vanishes or shares an id.
* `GrantsWithinLimit`: a slot is granted only while fewer requests than the limit
  the request read hold one, although load and limit were read long before.
* `FallbackStaysLocal`: a request that fell back for privacy never holds a
  remote instance again.
* `PoolPromise`: the module implements `SlotPool`, in which a slot is taken,
  given back, or lost, and a lost one never comes back. Request ids and
  expiry are invisible there: `used` is the number of holders, `lost` what the
  counter has above it.
* `NoSlotIsLost`, `SlotsDrain`: with distinct ids, no expiry and no lost handler
  (`Exact`), counters equal holders and every instance gets idle again.

What documentation and docstring say of a release is false; see section 10.

### Runs

| Run | Configuration | Shows |
|---|---|---|
| `gateway_leases` | 3 requests, 2 of one id; a remote and a local instance; limits up to 2 | safety, refinement |
| `gateway_exact` | distinct ids, no expiry, no lost handler, fair | exact counters, draining |

Bounds. A limit of 2 with three requests gives an instance that is idle, partly
used, full and refusing; two instances give a candidate order, a second attempt
and a fallback; two requests that share an id beside one that does not give
every way in which a lease can be another's. The two are symmetric. Requests end
(`CHECK_DEADLOCK FALSE`); a new request is a new id, so three requests are three
that overlap. Fairness (`FairSpec`) is for a handler's own steps: it is an asyncio
task of a live process whose every upstream call has a timeout. Nothing is
assumed of expiry, administrators or crashes.

### Proofs

`GatewayLeaseProofs` proves, for any instances, requests, ids and limits:

* `Invariance`: `IInv`. `HoldersAreCounted` needs to know that a counter is
  only decremented by somebody who held, which `HandlersAgree` says (a handler
  holds exactly in the phases that release), that the cardinalities are of finite
  sets, and `FallenHaveLocals` for the fallback. It is kept because of
  `SlotStep`: every step changes holders and counter of one instance in one of four
  ways (none, both up, both down, the holders only).
* `TypeCorrect`, `HoldersCounted`, `FallbackIsLocal`, `GrantsAreLimited`.
* `PoolKept`: the refinement, from the same four cases.
* `CountsAreExact`: under `Exact` every holder's lease exists (`HoldersAreLeased`),
  so the last of the four ways never occurs.
* `ReleasesGiveBack`, `AllReleased`: what section 10 says the code does not keep, under
  the conditions that keep it. A release gives its slot back when ids are distinct and
  leases outlive their requests (`OwnLeases`), vanished requests or not; and when none
  vanishes, an instance that nobody uses has all its slots.

`SlotsDrain` is model-checked only.

Not modelled of the gateway's routing: rate limits, a Redis that loses its keys,
the cache that stands in when Redis is not configured and admits everything, tools.

## 6. ChatStream

One chat session. A tab asks for a completion over a connection; the gateway stores
the prompt, streams the answer chunk by chunk into the connection and into the
session's entry of the stream buffer, and stores the answer in the generator's
`finally`. A tab that loads the session lists its messages, asks whether a stream is
active, and resumes it from the buffer.

| Variable | Code |
|---|---|
| `log` | the session's messages, in the order of their commits |
| `buf` | the session's entry in `StreamBuffer`: who started it, its chunks, `done` |
| `st`, `known`, `sent` | where a request is in `route_stream_chat` and `_stream_with_finalize`; whether the last message it read was its own text; the chunks it sent |
| `text`, `cli`, `from` | what a request says; its connection and the tab that reads it |
| `busy`, `err`, `last`, `abort` | `isStreaming`, the alert with its retry button, `lastSendRef`, `abortRef` |
| `load`, `offer` | where `loadHistory` is and the prompt it would offer to retry |
| `acc`, `cursor`, `sub`, `waits` | a resumed stream: what it brought, the iterator's cursor, the entry it subscribed to, the entry on whose event it waits |
| `retries`, `mishaps` | `retry()` between its two awaits; a bound's counter |

| Action | Code |
|---|---|
| `Send`, `Retry`, `Resend`, `ReadEnd`, `LoseConnection`, `StopSend`, `StopResume` | `send`, `retry` and `stop` of `useChatStream.ts`, `chatClient.ts` |
| `ListMessages`, `ListFails`, `StatusActive`, `StatusInactive`, `OfferRetry` (in the latter), `Subscribe`, `NothingToResume`, `ResumeChunk`, `ResumeWaits`, `ResumeEnds`, `LoseResume` | `loadHistory`, `stream_resume` and `AsyncSSEIterator` |
| `Return`, `Reload` | the session is left and entered again, the page is reloaded |
| `ReadLast`, `StorePrompt`, `Fail`, `StartStream`, `Push`, `LeaveLoop`, `Persist`, `PersistFails`, `Finish`, `Cut`, `Expire` | a request in the gateway, its generator, the buffer's cleanup |

The buffer is a variable of the gateway process, and the model has **one** process.
With more (the gateway runs `min(cpu, 4)` workers by default, `api/settings.py:37`,
`api/__main__.py:92`) a resume that another worker serves finds no entry and is told that
there is nothing to resume, and two requests of a session in two workers have an entry
each; what is said of an entry below is then said of the entry of one worker. `log` is
shared in either case.

A generator whose connection is gone is either closed by the garbage collector,
which runs its `finally`, or cancelled with the response's task group, which cuts
the `finally` at its first await (`Cut`). Both outcomes occur, so the model has both.

Properties. `StopReachesTheStream`: while a tab shows a stream, `abortRef` holds an
abort, and the abort of a send is that of a send this tab still reads.
`ActiveMeansProducer`, `EntryHoldsItsStream`: an active entry is that of a generator
that did not run to its end, and holds what it has sent, in order, although older
generators push to and finish the entry of the session, not their own.
`ResumeReadsTheBuffer`: a resumed stream has brought the first chunks of the entry
it subscribed to, no more and no fewer. `ConversationPromise`: the module
implements `Conversation`, with the identity as refinement mapping: a prompt and an
answer are kept at most once, an answer only after a prompt with its text, and
nothing is lost.

| Run | Configuration | Shows |
|---|---|---|
| `chat` | one tab, one text, 2 requests, answers of one chunk, one mishap | the inductive invariant and its parts, the refinement |

Bounds. Two requests are one after the other, overlapping, or one the retry of the
other. One tab is enough to overlap them: `Return` leaves the `send()` of the old
mount running, and a reload leaves the old generator. One text makes the test for a
retry bite; with a chunk and the end marker a stream can be at its beginning, in
its middle and at its end. A mishap is a reload, a return, a failure or a lost
connection. The theorems are for any number of each. The user may stop, so
states without a successor are no error.

Abstractions: the message list a tab shows; attachments; the session made at the
first send; a connection that brings several chunks in one read. A restart of the
gateway, which empties the buffer, and other gateway workers are not modelled.

Proofs (`ChatStreamProofs`, from `ChatAssumption`). `IInv` adds to the properties who
may be kept (`LogInv`), which requests may stream and own the entry (`TabInv`), and
that a tab which resumes nothing has read nothing (`LoadInv`). `Invariance`,
`StopWorks`, `ActiveIsProduced`, `EntryIsComplete`, `ResumeIsFaithful`;
`ConversationKept` is the refinement, where only four actions are more than a
stutter.

## 7. UpdateDialog

The update dialog of a node's page, and as much of the page as decides whether the
dialog exists. `load()` replaces the page by a spinner, which unmounts the dialog; a
new one is mounted afterwards, and calls and polls of the old one return to a
component that is gone.

| Variable | Code |
|---|---|
| `page`, `loads`, `started`, `acting` | what `NodeDetailPage` renders; `load()` and `runAction()` calls under way |
| `mount`, `open`, `stage`, `checkResult`, `rebootDue` | the latest mount of `SystemUpdateDialog`, `updateDialogOpen`, `UpdateStage`, the results shown |
| `pollRef`, `live`, `polls` | `pollRef.current` of each mount; intervals nobody has cleared; unanswered polls |
| `issued`, `call`, `by`, `type`, `status`, `finding` | the calls of `issueCommand` and the commands they create |
| `excused` | history: why two commands may be in flight |

Actions follow the handlers: `CheckUpdates`, `ApplyUpdates`, `Reboot`, `Create`,
`CallFails`, `Respond` (`pollTimeline` begins), `Tick`, `Answer` and `PollPasses` (the
interval and its answers), `Open`, `Close`, `Act`, `ActionDone`, `ActionFails`,
`Refresh`, `LoadEnds`, `Leave` (the page), `CommandEnds` (the node, or the reaper).

Properties. `ErrandPromise`: the dialog implements `Errand`, the dialog as its user has
it. A command is out from the press of the button until its call has returned and it is
over; each goes out once and comes back once, and none goes out from a page that was
left. The next one goes out when none is out, and the dialog shows that one is running
until it is back or the user leaves, unless one
of three things that the code does not exclude occurred: an answer of a poll whose
interval was already cleared ("late"; polls overlap when an answer takes longer
than the interval), a lost answer of `issueCommand` ("lost"), a load of the page
underneath a running command ("forgotten"). `OneAtATime` says the part about two commands
in the dialog's own terms. `EveryIntervalEnds`: an interval whose command is over does
not live for ever, those of dialogs that are gone included, although no cleanup reaches
them. `RunningEnds`: the dialog, which cannot be closed while it shows a command as
running, shows one for no longer than it polls a command that is not over
(`WaitsForNode`); behind it is `RunningIsWatched`, part of `IInv`.

How long that is, nobody promises. A command that was issued to an offline node, which
the page's button allows (`NodeDetailPage.tsx:619-629`), is queued, and no reaper ends
what is queued; one that was acked and then lost in a reconnect is not ended while the
node is connected (sections 3 and 10). For that time the interval polls and the dialog
stays locked. So nothing is assumed of `CommandEnds`, and the properties say what
the dialog itself owes.

| Run | Configuration | Shows |
|---|---|---|
| `update_dialog` | 2 commands, 2 unanswered polls each, 3 loads | the inductive invariant, the refinement, both liveness properties |

Bounds. A behaviour starts with the page being opened (`Opened`) or with a dialog
that has done an update and asks for a reboot (`Updated`), the commands of which are
over. Two commands are then the check and the update, two checks, or the reboot and
what follows it; two polls overlap; the first load is the page's, the second an action's that unmounts a
dialog, the third one more on top. The theorems are for any number.
Fairness: a call settles, since the browser or a proxy ends it; an interval fires; and
of polls repeated for ever one is answered, once the command is over (strong fairness of
`Answer`). `FairSpec` says so with the guards of the actions written out
(`CallReturns`, `IntervalRuns`). Commands need not end.

Proofs (`UpdateDialogProofs`, from `BoundsAssumption`): `Invariance`, `AtMostOneCommand`,
`RunningWatched`. `LastIsShown` is the inductive form of `OneAtATime`: without an
excuse what is in flight is the last command, and the dialog shows it. `ErrandKept` is
the refinement, from two lemmas: a step that leaves the commands as they are can hide
one only if none is out or track of it is lost (`KeptHides`), and one that ends what is
out brings back that command alone (`BackReturns`). An answer hides the right command
because `IntervalIsHeld` says whose the interval in `pollRef` is.

Two theorems are about liveness (section 11 says how far that goes). `IntervalsEnd`:
under `FairSpec` the interval of a command that is over is cleared. An interval that lives
polls; then polls are asked for and taken back for ever unless one is answered, which
strong fairness of `Answer` gives.
`CalmRunningEnds`: `RunningEnds` in every behaviour without an excuse, where the last
command is the one that the dialog shows: its call returns; then either the dialog waits
for the node, or the command is over, its interval is cleared, and the step that clears it
ends what is shown. With excuses the interval of
one command may be taken over by another as often as there are commands, and the
argument is an induction over their number, which stays with TLC.

## 8. ProviderSetup

`handleFinish()` of the wizard makes up to four requests in a row and, when a later
one fails, deletes the provider. Each request is a chain of transactions in two
databases with Docker calls between them, and goes on when the browser has given up.
What a request has not committed itself is committed by `get_db_session` after the
response was sent (`backend/db/dependencies.py:32-36`; the comment at
`web/api/llm/providers.py:329-332` says so and commits the provider early for that
reason). The browser may thus be ahead of the commit, and that commit may fail.

| Variable | Code |
|---|---|
| `open`, `busy`, `begun`, `kind` | the dialog, its busy flag, the setups begun and what they set up |
| `pc` | where `handleFinish()` of a setup is |
| `creating`, `starting`, `deleting` | POST /providers, POST /runtimes and DELETE /providers of a setup in the backend; "replied": the response is sent and the commit is to come, "answered": it is done, "undone": it failed |
| `provider`, `runtime`, `work` | the rows and the container |
| `listed`, `counted` | what the delete has read: the runtime (with a container or "bare"), the alias's members |
| `routed`, `enabled` | members and `enabled` of the gateway's alias, which the setups share |
| `excused`, `dismissed`, `raced` | history, see below |

| Action | Code |
|---|---|
| `Open`, `Close`, `Finish` | the dialog; Escape closes it while it is busy, and resets busy |
| `ProviderKnown`, `PricingEnds`, `DownloadStarted`, `DownloadFails`, `RuntimeKnown`, `ProviderUnknown`, `RuntimeUnknown`, `RollbackEnds` | `handleFinish()` after each await |
| `RefuseProvider`, `CommitProvider`, `ProvisionRemote`, `ReplyRemote`, `CommitRemote`, `RemoteFails` | `create_provider`; a remote provider gets its runtime there |
| `RefuseRuntime`, `CommitRuntime`, `ContainerUp`, `ContainerFails`, `AnswerFails`, `ReplyRuntime`, `CommitAnswer`, `UndoAnswer` | `create_runtime`, here and on a node. A container that fails may have been created before it could not be started (`services/docker/client.py:248-251`) |
| `ListRuntimes`, `Teardown`, `Unpublish`, `ReplyDelete`, `CommitDelete`, `UndoDelete`, `DeleteFails` | `delete_provider` |

Properties. `FailureLeavesNothing`: once its requests have ended, a setup that failed
leaves neither rows, container nor route. The code does not promise it always, and
`excused` says which of the three may be left and where: all of them when
`providers.create()` failed in the browser only, or the delete failed, or its commit
failed after the 204; a container that Docker did not remove, or that no row knows,
because it was created and not started or its id could not be committed; a route whose
unpublishing failed, which is only logged; container and route when the runtime was still
starting as the delete read it.
`ProvisioningPromise`: the module implements `Provisioning`. Its variables are what the
administrator can see of a setup: its outcome, its rows, its container, and whether a
runtime that was answered for is `owed` or `lost` with its commit. The provider's row
comes before the runtime's, they go together and do not come back; a container is
started once, for a runtime that is or was there; a setup ends once, ends well only when
it is complete or its runtime was answered for, and what ended well is touched by no other
setup and by no request that comes late, but by the commit it is owed. `SuccessIsComplete`
and `RuntimeHasProvider` say parts of this in the module's own terms.
`AliasIsEnabled`: an alias with members is disabled only if the last publish came between
the count and the write of `unpublish_runtime()` (`raced`). `CreatedOnce`:
while the dialog is not closed under a setup (`dismissed`), one setup runs at a time.
`SetupEnds`: `handleFinish()` ends.

Checked and false: `FailedRuntimeIsRemoved`. `create_runtime` deletes the row of a runtime
whose container cannot be started, and raises; the request's session rolls back, that
delete included, while the row was committed before the Docker calls.

| Run | Configuration | Shows |
|---|---|---|
| `provider_setup` | 2 setups, all pairs of three kinds but two locals | the inductive invariant, safety, `Provisioning`, `SetupEnds` |
| `provider_failed` | 1 setup | the disagreement |

Bounds. Two setups share an alias, overlap in the dialog, and one's delete runs beside
the other's create; a third adds nothing that the theorems do not cover. `Plan` is the
set of plans to check: two setups on this server at a time, four times as many states as
all other pairs together, are left to the theorems, which are for every `Plan`. A runtime
on a node with a download ("hf") takes every step of one without it, so "node" is left to
the theorems as well. Fairness: the browser or a proxy ends a fetch (`FetchesSettle`, with
the guard written out). Setups are used up at the end.

Not modelled: the reconciliation that listing runtimes triggers; the model that a
download registers and the pricing entry, which the code does not undo; audit rows.

Proofs (`ProviderSetupProofs`, from `SetupAssumption`): `Invariance`, `FailureIsClean`,
`SuccessComplete`, `OneSetupAtATime`, `RuntimesHaveProviders`, `AliasStaysEnabled`. The
invariant follows the requests: `StepsAgree` and `RequestsAgree` order them, `RowsOf` says
what they have made, `DeleteOf` how far a delete has undone it. `FailureLeavesNothing`
is not inductive: a delete reads the runtime, then removes the container, the route and
the rows in three steps, and each must still be right about what was read, beside
a create that goes on. `CountsAgree` does the same for the alias.

`ProvisioningKept` is the refinement: one lemma for each step that commits rows, moves the
container, the outcome or the debt (`ChangeOf`, `OneRow`, `OneOutcome`), a stutter for
the others. The hard cases are a create that commits beside a delete, a late
`ContainerUp` for a setup that was rolled back, and a commit that comes when the setup has
ended well. `SetupsEnd` proves `SetupEnds` from
`FairSpec`: the fetches of `handleFinish()` only go forward
(`WizardGoesForward`), so fairness of its own steps is enough, whatever the backend, the
user and other setups do.

## 9. ImagePull

`PullTracker` keeps a job for each pull and the active one for each image, in the memory
of a worker process; the backend runs `min(cpu, 4)` of them by default
(`backend/settings.py:56`, `backend/__main__.py:48`), each with a tracker of its own
(`pull_tracker.py:274`), and any of them may take a request (`Worker`). The wizard's image
step checks whether the chosen image is there, follows a pull under way, or starts one,
over an EventSource.

| Variable | Code |
|---|---|
| `present` | the images Docker has |
| `asked`, `image`, `post`, `pull` | requests for a pull and their answers |
| `state`, `home`, `active` | a pull's state, the worker in whose `_jobs` it is, the `_active` of each worker |
| `watched`, `source` | the wizard's EventSource |
| `open`, `onStep`, `choice`, `status` | the wizard, the chosen image, `imageStatus` |
| `check`, `saw`, `found` | GET /images/check, which lists the images and then asks the tracker |
| `crossed` | history: "pulled" came from another image |

Actions: `Open`, `Close`, `ShowStep`, `LeaveStep`, `Choose`, `ChooseNode` (the dialog);
`CheckLists`, `CheckAsksTracker`, `CheckAnswered`, `CheckFails` (the check); `PressPull`,
`Serve`, `OthersPull`, `Answered`, `AskFails` (a request); `PullEnds`, `Cleanup`, `Find`,
`Report`, `Restart` (the tracker); `Complete`, `Fail`, `LoseConnection` (the EventSource).

Properties. `PullPromise`: the trackers implement `PullDesk`, in which a worker pulls an
image once at a time, a pull ends once and does not begin again, there or elsewhere, and an
image is there only by a pull of it, although the cleanup of an old pull runs five minutes
later, beside a new one, and a restart gives all pulls of a worker up. That two workers pull
one image at a time is not excluded (section 10). `OnePullPerImage` says the first of these
in the tracker's own terms. `ReadyMeansPresent`:
the setup may begin only with an image that is there, but for a "pulled" that came from
the pull of another image. `OutcomeIsHeard`: a pull that has ended is not followed for
ever, after a restart or a cleanup neither, nor when another worker is asked for it.

| Run | Configuration | Shows |
|---|---|---|
| `image_pull` | 2 images, one there at first, 2 requests, 2 workers | the inductive invariant, `PullDesk`, safety, liveness |

Bounds. Two images give a choice that changes under a check, a pull or a request; two
requests give one that joins, follows or repeats the other; two workers take them together or apart. The cleanup that meets a
third request is in the inductive invariant, which the run checks too, and in the
theorems. Fairness: the wizard's event stream is served and read (`WF_vars(Stream)`);
subscribers look at their pull every second at the latest, so that the event which
wakes them sooner is left out; nothing is assumed of pulls or of lost connections.

Abstractions: an open stream whose pull was just cleaned up outlives a restart of its
worker, as if it had brought the outcome before; the answer to others' requests is one step; progress; images are not
removed; the page that holds the wizard stays.

Proofs (`ImagePullProofs`, from `PullAssumption`): `Invariance`, `PulledOnceAtATime`,
`ReadyIsPresent`. `Tracker` says that the `_active` of a worker has every pull under way there, `Check` what an
answer on its way saw, `Source` what the EventSource can have read. `PullKept` is the
refinement: a pull that is begun is new (`Requests`) and alone in its worker (`Tracker`), and a cleanup or an
answered request is a stutter.

## 10. Further disagreements

These were found while modelling. The modules state what the text says; a
configuration as given makes TLC show the behaviour. For the first one
`OnlyReconnectsLoseWork` says how far the code keeps it (section 3).

| Property | Text | What the code does | Configuration |
|---|---|---|---|
| `BrieflyUnreachableLosesNoWork` (`NodeCommands`, invariant) | `services/nodes/service.py:53`: "a node that was briefly unreachable loses no work" | a command that was acked or running when the stream broke is not sent again on a reconnect before its timeout, and nobody holds it | `NodeCommandsResend.cfg` with `NumStreams = 2` |
| `ConnectedNodeIsNotReaped` (`NodeCommands`, property) | `services/nodes/service.py:394`: "Only OFFLINE nodes are reaped" | opening a stream does not end "offline", the first heartbeat does; the reaper's reading may be older still | the same |
| `OfflineWhenLastStreamEnds` (`NodeCommands`, invariant) | `services/nodes/service.py:182`: "Mark the node offline when its only stream disconnects." | a loop that raises rolls back, and its cleanup fails on expired objects: the session row stays open | `NodeCommandsResend.cfg` |
| `GoesOfflineOnlyUnserved` (`NodeCommands`, property) | `services/nodes/service.py:182`: "when its only stream disconnects" | `close_stream_session` counts the other streams and commits after several awaits; a stream that opens in between is served by a node that is offline. Its session holds the node as it read it, so its heartbeats see no change and do not correct it, and the reaper works on the node meanwhile | `NodeCommandsResend.cfg` with `NumStreams = 2` |
| `ReleasedInFinally` (`GatewayLease`, invariant) | `api/docs/gateway-architecture.md:22` (in `src/llm_port_api/docs/`): "Release lease in `finally`." | a lease that expired under a long request is not given back, and the counter has no time to live | `GatewayLeaseExact.cfg` with `LeasesExpire = TRUE`, `Spec` |
| `ReleaseGivesBack` (`GatewayLease`, property) | `lease.py:84`: "Release a previously-acquired lease." | two requests with one `x-request-id` share a lease key; the second release finds none | `GatewayLeaseExact.cfg` with `IdOf <- SharedId`, `Spec` |
| `ResumedStreamEnds` (`ChatStream`, property) | `stream_buffer.py:3`: "a client that reloads mid-stream can reconnect and receive the full response" | the reload cancels the generator with its `finally`; the entry is never finished, and who resumes it waits for ever | `ChatStream.cfg` with `Requests = 1`, `FairSpec` |
| `OnePullAtAll` (`ImagePull`, invariant) | `services/docker/pull_tracker.py:5`: "concurrent pulls of the same image reuse the same task" | each worker has its own tracker: two requests that different workers take both pull, and the progress of a pull that another worker is asked for is "not found" | `ImagePull.cfg` with `Spec` |
| `ImageIsLocal` (`ImagePull`, invariant) | `ProviderWizardDialog.tsx:486`: "Local: image must be available locally." | the EventSource of the image chosen before stays open, and its "complete" makes the new choice "pulled" | `ImagePull.cfg` with `Spec` |

Three more are stated by no text, and are the excuses and conditions of the properties:
the update dialog is locked for as long as a command waits for its node (`WaitsForNode`,
section 7); the wizard reports a setup on a node as done, and the delete of its rollback
answers 204, before the commit or although it fails (`Owed`, `excused`, section 8); and a
container that Docker created but could not start is known to no row and stays (section 8).

## 11. What is proved and what is only checked

Theorems are for every value of the constants; their only assumptions are the
ones named in the modules (`ParametersAssumption`, `DeadlineAssumption`,
`PoolAssumption`, `ChatAssumption`, `BoundsAssumption`, `SetupAssumption`,
`PullAssumption`), which TLC evaluates in every run, and `Exact` or
`OwnLeases` for `CountsAreExact`, `AllReleased` and `ReleasesGiveBack`. All safety
properties of the passing runs are proved, and so are the seven refinements:

| Detailed | Abstract | Theorem | Carried by |
|---|---|---|---|
| `NodeCommands` | `CommandOutcome` | `OutcomeKept` | what the agent stored stays (`StoreStep`) |
| `NodeCommands` | `CommandLife` | `LifeKept` | what is under way was sent (`WasSent`) |
| `GatewayLease` | `SlotPool` | `PoolKept` | holders and counter of one instance move together |
| `ChatStream` | `Conversation` | `ConversationKept` | who may be kept (`LogInv`) |
| `UpdateDialog` | `Errand` | `ErrandKept` | what is in flight is shown (`LastIsShown`) |
| `ProviderSetup` | `Provisioning` | `ProvisioningKept` | what requests have made (`RowsOf`, `DeleteOf`) |
| `ImagePull` | `PullDesk` | `PullKept` | the `_active` of a worker has every pull under way there |

Three theorems delimit a disagreement: `OldMisreported` that of
`SuccessIsNotReportedFailed`, `LostByReconnects` that of `BrieflyUnreachableLosesNoWork`,
`OnlyTheLateAreMissed` that of `GoesOfflineOnlyUnserved`. They say in which situations
alone the text fails; no run repeats the first two as they are proved.

Liveness. The prover has temporal logic, and neither `ENABLED` nor induction over data.
What can be proved with that is proved: `SetupsEnd`, `IntervalsEnd` and `CalmRunningEnds`
derive a leads-to from `[][Next]_vars`, the inductive invariant and the stated fairness,
by a chain of stages that actions leave in one direction only. `WF` and `SF` speak of
`ENABLED`; so `UpdateDialog` and `ProviderSetup` state their fairness with the guard
written out, as "again and again not ready, or taken again and again"
(`[]<>~Guard \/ []<><<A>>_vars`; `<>[]~Guard` for strong fairness). Each guard is all
that its action, or one disjunct of it, waits for, so that this is what `WF` and `SF`
would say; at each active `pc` of a setup, for example, the disjunct of `Wizard` in which
the fetch fails is guarded by `pc` alone. TLC checks the same formulas. `CalmRunningEnds`
assumes `[]Fairness` where `FairSpec` says `Fairness`; such formulas hold of a behaviour
exactly when they hold of its suffixes, so the two are the same.

TLC alone checks: `PendingIsTakenUp` (frames ahead in a channel must be worked off one by
one), `SlotsDrain` (as many steps as there are requests), `OutcomeIsHeard` (a pull that
ended may be followed again by as many answers as are under way) and `RunningEnds` beside
excuses, all of which are inductions over a number; and the
disagreements, which are single behaviours.

## 12. Not modelled

Of the modelled parts: see the end of each section; in particular, more than one gateway
process (`ChatStream`; the counters of `GatewayLease` are in Redis and shared by all). Of the rest, in `PROJECT.json`
component by component: start, stop, restart and reconciliation of runtimes, and what
the agent's runtime manager and health supervisor do with containers; rate limits;
tool loops and client tools; prompt assembly, memory and attachments; downloads,
notifications and RAG ingestion, which are background jobs over external services;
users, roles and settings, MCP and skills registries, which are CRUD; the analysis of
text in the PII service; pages of the frontend that show one request's answer; the CLI.
The vendored and generated files (API documentation bundles, translations) have no
logic of this program.
