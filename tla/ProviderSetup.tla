---------------------------- MODULE ProviderSetup ----------------------------
(***************************************************************************)
(* Creating a provider from the wizard: handleFinish() of                  *)
(* ProviderWizardDialog.tsx, and the requests it makes of the backend      *)
(* (POST /providers, POST /models/download, POST /runtimes,                *)
(* DELETE /providers), with the gateway's routing records.                 *)
(*                                                                         *)
(* The browser takes one step after the other and undoes the first when a  *)
(* later one fails.  But a call that fails in the browser (a proxy's       *)
(* timeout, a lost connection) does not stop the request: the backend goes *)
(* on, in several transactions, while the browser already rolls back.  Nor *)
(* is an answer the end of a request: get_db_session() commits after the   *)
(* response was sent, and the browser may go on before the commit, or      *)
(* though it fails.                                                        *)
(*                                                                         *)
(* Setups are numbered in the order the wizard's button is pressed.  They  *)
(* deploy the same model, so that their runtimes share one gateway alias.  *)
(* What the node does with a deploy command is NodeCommands' subject.      *)
(***************************************************************************)
EXTENDS Naturals, FiniteSets

CONSTANTS
  NumSetups,     \* how often "create" is pressed
  Plan           \* the kinds of the setups, one after the other: a set of plans

\* A container on this server, a container on a node with the model synced or
\* downloaded there, or a remote endpoint.
Kinds == {"local", "node", "hf", "remote"}

Setup == 1..NumSetups

ASSUME SetupAssumption == NumSetups \in Nat /\ Plan \subseteq [Setup -> Kinds]

VARIABLES
  open, busy,    \* the dialog and its busy flag
  begun,         \* how many setups were begun
  kind,          \* [setup -> its kind]
  pc,            \* [setup -> where handleFinish() is]
  creating,      \* [setup -> POST /providers in the backend]
  starting,      \* [setup -> POST /runtimes in the backend]
  deleting,      \* [setup -> DELETE /providers in the backend]
  provider,      \* the setups whose provider row exists
  runtime,       \* the setups whose runtime row exists
  work,          \* [setup -> its container: "none", "running", "removed"]
  listed,        \* [setup -> the runtime DELETE found: "none", "bare", "full"]
  routed,        \* the setups whose runtime is a member of the alias's pool
  enabled,       \* whether the alias is enabled
  counted,       \* [setup -> the members unpublish found, its own included]
  excused,       \* [setup -> what it may leave behind (ghost), see Anything]
  dismissed,     \* the dialog was closed while busy (ghost)
  raced          \* a publish came between unpublish's count and its write (ghost)

uiVars == <<open, busy, begun, kind, dismissed>>
requestVars == <<creating, starting, deleting, listed, counted>>
rowVars == <<provider, runtime, work>>
routeVars == <<routed, enabled, raced>>
vars == <<uiVars, pc, requestVars, rowVars, routeVars, excused>>

\* What a setup may leave behind: rows of the database, a container, a route.
Anything == {"rows", "container", "route"}

Active(s) == pc[s] \in {"provider", "pricing", "download", "runtime", "rollback"}

\* A request over: its answer committed, or refused, or not committed in the end.
Ended == {"none", "answered", "refused", "undone"}

\* What the browser sees as success, committed or not.
Replied == {"replied", "answered", "undone"}

Quiet(s) == creating[s] \in Ended /\ starting[s] \in Ended /\ deleting[s] \in Ended

DialogTypes ==
  /\ open \in BOOLEAN /\ busy \in BOOLEAN /\ dismissed \in BOOLEAN
  /\ begun \in 0..NumSetups /\ kind \in [Setup -> Kinds]
  /\ pc \in [Setup -> {"idle", "provider", "pricing", "download", "runtime",
                       "rollback", "done", "failed"}]

RequestTypes ==
  /\ creating \in [Setup -> Ended \cup {"running", "created", "published", "replied"}]
  /\ starting \in [Setup -> Ended \cup {"running", "row", "up", "replied"}]
  /\ deleting \in [Setup -> Ended \cup {"running", "listed", "counted", "stripped", "replied"}]
  /\ listed \in [Setup -> {"none", "bare", "full"}]
  /\ counted \in [Setup -> SUBSET Setup]

RowTypes ==
  /\ provider \subseteq Setup /\ runtime \subseteq Setup /\ routed \subseteq Setup
  /\ work \in [Setup -> {"none", "running", "removed"}]
  /\ enabled \in BOOLEAN /\ raced \in BOOLEAN
  /\ excused \in [Setup -> SUBSET Anything]

TypeOK == DialogTypes /\ RequestTypes /\ RowTypes

Init ==
  /\ open = FALSE /\ busy = FALSE /\ begun = 0 /\ dismissed = FALSE
  /\ kind \in Plan
  /\ pc = [s \in Setup |-> "idle"]
  /\ creating = [s \in Setup |-> "none"]
  /\ starting = [s \in Setup |-> "none"]
  /\ deleting = [s \in Setup |-> "none"]
  /\ provider = {} /\ runtime = {}
  /\ work = [s \in Setup |-> "none"]
  /\ listed = [s \in Setup |-> "none"]
  /\ counted = [s \in Setup |-> {}]
  /\ routed = {} /\ enabled = FALSE /\ raced = FALSE
  /\ excused = [s \in Setup |-> {}]

-----------------------------------------------------------------------------
(* The wizard.                                                             *)

Open ==
  /\ ~open /\ open' = TRUE
  /\ UNCHANGED <<busy, begun, kind, dismissed, pc, requestVars, rowVars, routeVars, excused>>

\* Escape or a click beside the dialog closes it, busy or not: only the buttons
\* are disabled.  Closing resets the form, and busy with it.
Close ==
  /\ open /\ open' = FALSE /\ busy' = FALSE
  /\ dismissed' = (dismissed \/ busy)
  /\ UNCHANGED <<begun, kind, pc, requestVars, rowVars, routeVars, excused>>

\* Variant: setBusy(true) only once the provider is there.
FinishIdle ==
  /\ open /\ ~busy /\ begun < NumSetups
  /\ begun' = begun + 1
  /\ pc' = [pc EXCEPT ![begun'] = "provider"]
  /\ creating' = [creating EXCEPT ![begun'] = "running"]
  /\ UNCHANGED <<open, busy, kind, dismissed, starting, deleting, listed, counted,
                 rowVars, routeVars, excused>>

\* "Create": handleFinish() begins with providers.create().
Finish ==
  /\ open /\ ~busy /\ begun < NumSetups
  /\ begun' = begun + 1 /\ busy' = TRUE
  /\ pc' = [pc EXCEPT ![begun'] = "provider"]
  /\ creating' = [creating EXCEPT ![begun'] = "running"]
  /\ UNCHANGED <<open, kind, dismissed, starting, deleting, listed, counted,
                 rowVars, routeVars, excused>>

\* Variant: how handleFinish() ended is lost.
ReturnUnmarked(s, how) ==
  /\ pc' = [pc EXCEPT ![s] = "ended"]
  /\ open' = (how = "failed" /\ open)
  /\ busy' = FALSE

\* The end of handleFinish(): onClose() and onCreated() after success, an alert
\* after failure, and setBusy(false) in either case, whatever the dialog shows.
Return(s, how) ==
  /\ pc' = [pc EXCEPT ![s] = how]
  /\ open' = (how = "failed" /\ open)
  /\ busy' = FALSE

\* The runtime is asked for.
AskRuntime(s) ==
  /\ pc' = [pc EXCEPT ![s] = "runtime"]
  /\ starting' = [starting EXCEPT ![s] = "running"]

\* The catch block: what is known to exist is deleted.
BeginRollback(s) ==
  /\ pc' = [pc EXCEPT ![s] = "rollback"]
  /\ deleting' = [deleting EXCEPT ![s] = "running"]

\* The provider is there; what comes next depends on its kind.
ProviderKnown(s) ==
  /\ pc[s] = "provider" /\ creating[s] \in Replied
  /\ CASE kind[s] = "remote" -> pc' = [pc EXCEPT ![s] = "pricing"] /\ UNCHANGED starting
       [] kind[s] = "hf" -> pc' = [pc EXCEPT ![s] = "download"] /\ UNCHANGED starting
       [] OTHER -> AskRuntime(s)
  /\ UNCHANGED <<uiVars, creating, deleting, listed, counted, rowVars, routeVars, excused>>

\* Pricing is best effort: any end of it is the end of a remote setup.
PricingEnds(s) ==
  /\ pc[s] = "pricing"
  /\ Return(s, "done")
  /\ UNCHANGED <<begun, kind, dismissed, requestVars, rowVars, routeVars, excused>>

\* modelsApi.download() answers with the model it created.
DownloadStarted(s) ==
  /\ pc[s] = "download"
  /\ AskRuntime(s)
  /\ UNCHANGED <<uiVars, creating, deleting, listed, counted, rowVars, routeVars, excused>>

DownloadFails(s) ==
  /\ pc[s] = "download"
  /\ BeginRollback(s)
  /\ UNCHANGED <<uiVars, creating, starting, listed, counted, rowVars, routeVars, excused>>

RuntimeKnown(s) ==
  /\ pc[s] = "runtime" /\ starting[s] \in Replied
  /\ Return(s, "done")
  /\ UNCHANGED <<begun, kind, dismissed, requestVars, rowVars, routeVars, excused>>

\* providers.create() fails in the browser: there is no id to roll back, though
\* the request may have been, or still be, carried out.
ProviderUnknown(s) ==
  /\ pc[s] = "provider"
  /\ Return(s, "failed")
  /\ excused' = [excused EXCEPT ![s] = @ \cup
                   IF creating[s] = "refused" /\ s \notin provider THEN {} ELSE Anything]
  /\ UNCHANGED <<begun, kind, dismissed, requestVars, rowVars, routeVars>>

\* Variant: the catch block does not roll back.
RuntimeUnknownKept(s) ==
  /\ pc[s] = "runtime"
  /\ Return(s, "failed")
  /\ UNCHANGED <<begun, kind, dismissed, requestVars, rowVars, routeVars, excused>>

\* Variant: a runtime that fails is asked for again.
RuntimeUnknownRetried(s) ==
  /\ pc[s] = "runtime"
  /\ AskRuntime(s)
  /\ UNCHANGED <<uiVars, creating, deleting, listed, counted, rowVars, routeVars, excused>>

\* runtimes.create() fails in the browser, with the same uncertainty.
RuntimeUnknown(s) ==
  /\ pc[s] = "runtime"
  /\ BeginRollback(s)
  /\ UNCHANGED <<uiVars, creating, starting, listed, counted, rowVars, routeVars, excused>>

\* providers.delete() ends, well or not: its errors are ignored.
RollbackEnds(s) ==
  /\ pc[s] = "rollback"
  /\ Return(s, "failed")
  /\ excused' = [excused EXCEPT ![s] = @ \cup
                   IF deleting[s] \in Replied THEN {} ELSE Anything]
  /\ UNCHANGED <<begun, kind, dismissed, requestVars, rowVars, routeVars>>

-----------------------------------------------------------------------------
(* The gateway's routing records.                                          *)

\* publish_runtime(): alias, instance and membership in one transaction.  Its
\* errors are only logged.
Publish(s) ==
  \/ /\ routed' = routed \cup {s} /\ enabled' = TRUE
     /\ raced' = \E r \in Setup : deleting[r] = "counted" /\ counted[r] \subseteq {r}
  \/ UNCHANGED routeVars

-----------------------------------------------------------------------------
(* POST /providers                                                         *)

RefuseProvider(s) ==
  /\ creating[s] = "running"
  /\ creating' = [creating EXCEPT ![s] = "refused"]
  /\ UNCHANGED <<uiVars, pc, starting, deleting, listed, counted, rowVars, routeVars, excused>>

\* The row is committed at once, for the request that follows.
CommitProvider(s) ==
  /\ creating[s] = "running"
  /\ creating' = [creating EXCEPT ![s] = IF kind[s] = "remote" THEN "created" ELSE "answered"]
  /\ provider' = provider \cup {s}
  /\ UNCHANGED <<uiVars, pc, starting, deleting, listed, counted, runtime, work,
                 routeVars, excused>>

\* A remote provider gets its runtime here, and the runtime is published before
\* its row is committed.  If that fails the provider is kept without one.
ProvisionRemote(s) ==
  /\ creating[s] = "created"
  /\ \/ /\ creating' = [creating EXCEPT ![s] = "published"]
        /\ Publish(s)
     \/ /\ creating' = [creating EXCEPT ![s] = "answered"]
        /\ UNCHANGED routeVars
  /\ UNCHANGED <<uiVars, pc, starting, deleting, listed, counted, rowVars, excused>>

ReplyRemote(s) ==
  /\ creating[s] = "published"
  /\ creating' = [creating EXCEPT ![s] = "replied"]
  /\ UNCHANGED <<uiVars, pc, starting, deleting, listed, counted, rowVars, routeVars, excused>>

\* The runtime is committed after the reply, or never.
CommitRemote(s) ==
  /\ creating[s] = "replied"
  /\ \/ /\ creating' = [creating EXCEPT ![s] = "answered"]
        /\ runtime' = runtime \cup {s}
     \/ /\ creating' = [creating EXCEPT ![s] = "undone"]
        /\ UNCHANGED runtime
  /\ UNCHANGED <<uiVars, pc, starting, deleting, listed, counted, provider, work,
                 routeVars, excused>>

\* The request fails after the provider was committed.
RemoteFails(s) ==
  /\ creating[s] \in {"created", "published"}
  /\ creating' = [creating EXCEPT ![s] = "refused"]
  /\ UNCHANGED <<uiVars, pc, starting, deleting, listed, counted, rowVars, routeVars, excused>>

-----------------------------------------------------------------------------
(* POST /runtimes                                                          *)

\* The provider or the model is not there, or they do not fit.
RefuseRuntime(s) ==
  /\ starting[s] = "running"
  /\ starting' = [starting EXCEPT ![s] = "refused"]
  /\ UNCHANGED <<uiVars, pc, creating, deleting, listed, counted, rowVars, routeVars, excused>>

\* On this server the row is committed before the slow Docker calls.  A delete
\* that holds the provider's row is waited for.
CommitRuntime(s) ==
  /\ starting[s] = "running" /\ kind[s] = "local"
  /\ s \in provider /\ deleting[s] # "replied"
  /\ starting' = [starting EXCEPT ![s] = "row"]
  /\ runtime' = runtime \cup {s}
  /\ UNCHANGED <<uiVars, pc, creating, deleting, listed, counted, provider, work,
                 routeVars, excused>>

\* The container is created and published, whether or not the row still exists:
\* set_container_ref() and set_status() do nothing without one.
ContainerUp(s) ==
  /\ starting[s] = "row"
  /\ starting' = [starting EXCEPT ![s] = "up"]
  /\ work' = [work EXCEPT ![s] = "running"]
  /\ Publish(s)
  /\ UNCHANGED <<uiVars, pc, creating, deleting, listed, counted, provider, runtime, excused>>

\* Variant: the error of Docker is logged and the runtime answered.
ContainerFailsQuietly(s) ==
  /\ starting[s] = "row"
  /\ starting' = [starting EXCEPT ![s] = "answered"]
  /\ UNCHANGED <<uiVars, pc, creating, deleting, listed, counted, rowVars, routeVars, excused>>

\* Docker fails.  The row is deleted, and the exception rolls that back.  A
\* container that was created and not started, or started and not described, is
\* left, and its id with nobody.
ContainerFails(s) ==
  /\ starting[s] = "row"
  /\ starting' = [starting EXCEPT ![s] = "refused"]
  /\ \/ UNCHANGED <<work, excused>>
     \/ /\ work' = [work EXCEPT ![s] = "running"]
        /\ excused' = [excused EXCEPT ![s] = @ \cup {"container"}]
  /\ UNCHANGED <<uiVars, pc, creating, deleting, listed, counted, provider, runtime, routeVars>>

\* The container's id cannot be written; the container stays.
AnswerFails(s) ==
  /\ starting[s] = "up"
  /\ starting' = [starting EXCEPT ![s] = "refused"]
  /\ excused' = [excused EXCEPT ![s] = @ \cup {"container"}]
  /\ UNCHANGED <<uiVars, pc, creating, deleting, listed, counted, rowVars, routeVars>>

\* The reply is sent with what was written not yet committed: on this server the
\* container's id, on a node the row and the deploy command.
ReplyRuntime(s) ==
  /\ \/ starting[s] = "up"
     \/ starting[s] = "running" /\ kind[s] \in {"node", "hf"} /\ s \in provider
  /\ deleting[s] # "replied"
  /\ starting' = [starting EXCEPT ![s] = "replied"]
  /\ UNCHANGED <<uiVars, pc, creating, deleting, listed, counted, rowVars, routeVars, excused>>

CommitAnswer(s) ==
  /\ starting[s] = "replied"
  /\ starting' = [starting EXCEPT ![s] = "answered"]
  /\ IF kind[s] = "local"
       THEN UNCHANGED <<runtime, work>>
       ELSE /\ runtime' = runtime \cup {s}
            /\ work' = [work EXCEPT ![s] = "running"]
  /\ UNCHANGED <<uiVars, pc, creating, deleting, listed, counted, provider,
                 routeVars, excused>>

\* The commit fails after the reply: a container of this server stays without
\* its id, a node never hears of the runtime.
UndoAnswer(s) ==
  /\ starting[s] = "replied"
  /\ starting' = [starting EXCEPT ![s] = "undone"]
  /\ excused' = [excused EXCEPT ![s] = @ \cup
                   IF kind[s] = "local" THEN {"container"} ELSE {}]
  /\ UNCHANGED <<uiVars, pc, creating, deleting, listed, counted, rowVars, routeVars>>

-----------------------------------------------------------------------------
(* DELETE /providers                                                       *)

\* A container of this server is being started, its id not committed.
StartsLocally(s) == kind[s] = "local" /\ starting[s] \in {"row", "up", "replied"}

\* The runtimes are read, with the containers they are known to have.
ListRuntimes(s) ==
  /\ deleting[s] = "running"
  /\ IF s \in provider
       THEN /\ deleting' = [deleting EXCEPT ![s] = "listed"]
            /\ listed' = [listed EXCEPT ![s] =
                 IF s \notin runtime THEN "none"
                 ELSE IF starting[s] = "answered" THEN "full" ELSE "bare"]
       ELSE /\ deleting' = [deleting EXCEPT ![s] = "refused"]
            /\ UNCHANGED listed
  /\ excused' = [excused EXCEPT ![s] = @ \cup
                   IF StartsLocally(s) THEN {"container", "route"} ELSE {}]
  /\ UNCHANGED <<uiVars, pc, creating, starting, counted, rowVars, routeVars>>

\* A runtime that was found loses its container, if it was known to have one:
\* an error of Docker's is only logged.  unpublish_runtime() then deletes its
\* membership and counts the others.
Teardown(s) ==
  /\ deleting[s] = "listed" /\ listed[s] # "none"
  /\ deleting' = [deleting EXCEPT ![s] = "counted"]
  /\ counted' = [counted EXCEPT ![s] = routed]
  /\ \/ /\ work' = [work EXCEPT ![s] =
                      IF listed[s] = "full" /\ kind[s] = "local" THEN "removed" ELSE @]
        /\ UNCHANGED excused
     \/ /\ listed[s] = "full" /\ kind[s] = "local"
        /\ excused' = [excused EXCEPT ![s] = @ \cup {"container"}]
        /\ UNCHANGED work
  /\ UNCHANGED <<uiVars, pc, creating, starting, listed, provider, runtime, routeVars>>

\* Variant: the alias is disabled with the first member that goes.
UnpublishAlways(s) ==
  /\ deleting[s] = "counted"
  /\ deleting' = [deleting EXCEPT ![s] = "stripped"]
  /\ routed' = routed \ (counted[s] \cap {s})
  /\ enabled' = FALSE
  /\ counted' = [counted EXCEPT ![s] = {}]
  /\ UNCHANGED <<uiVars, pc, creating, starting, listed, rowVars, raced, excused>>

\* unpublish_runtime() commits, and disables the alias if the count was zero.
\* Its errors are only logged.
Unpublish(s) ==
  /\ deleting[s] = "counted"
  /\ deleting' = [deleting EXCEPT ![s] = "stripped"]
  /\ \/ /\ routed' = routed \ (counted[s] \cap {s})
        /\ enabled' = (enabled /\ ~(counted[s] \subseteq {s}))
        /\ UNCHANGED excused
     \/ /\ excused' = [excused EXCEPT ![s] = @ \cup {"route"}]
        /\ UNCHANGED <<routed, enabled>>
  /\ counted' = [counted EXCEPT ![s] = {}]
  /\ UNCHANGED <<uiVars, pc, creating, starting, listed, rowVars, raced>>

\* Provider and runtimes are deleted, and a node told to remove its container,
\* in one transaction, not yet committed when the reply is sent.  It waits for a
\* create that holds the rows, and is refused if a runtime came in between
\* (ondelete RESTRICT).
ReplyDelete(s) ==
  /\ deleting[s] = "stripped" \/ (deleting[s] = "listed" /\ listed[s] = "none")
  /\ starting[s] # "replied"
  /\ deleting' = [deleting EXCEPT ![s] =
                    IF s \in runtime => listed[s] # "none" THEN "replied" ELSE "refused"]
  /\ UNCHANGED <<uiVars, pc, creating, starting, listed, counted, rowVars, routeVars, excused>>

CommitDelete(s) ==
  /\ deleting[s] = "replied"
  /\ deleting' = [deleting EXCEPT ![s] = "answered"]
  /\ provider' = provider \ {s} /\ runtime' = runtime \ {s}
  /\ work' = [work EXCEPT ![s] =
                IF listed[s] # "none" /\ kind[s] # "local" THEN "removed" ELSE @]
  /\ listed' = [listed EXCEPT ![s] = "none"]
  /\ UNCHANGED <<uiVars, pc, creating, starting, counted, routeVars, excused>>

\* The commit fails after the reply: the rows stay, what was done outside is done.
UndoDelete(s) ==
  /\ deleting[s] = "replied"
  /\ deleting' = [deleting EXCEPT ![s] = "undone"]
  /\ excused' = [excused EXCEPT ![s] = Anything]
  /\ listed' = [listed EXCEPT ![s] = "none"]
  /\ UNCHANGED <<uiVars, pc, creating, starting, counted, rowVars, routeVars>>

\* The request fails before it replies; what it did outside stays done.
DeleteFails(s) ==
  /\ deleting[s] \in {"running", "listed", "counted", "stripped"}
  /\ deleting' = [deleting EXCEPT ![s] = "refused"]
  /\ listed' = [listed EXCEPT ![s] = "none"]
  /\ counted' = [counted EXCEPT ![s] = {}]
  /\ UNCHANGED <<uiVars, pc, creating, starting, rowVars, routeVars, excused>>

-----------------------------------------------------------------------------
Wizard(s) ==
  \/ ProviderKnown(s) \/ ProviderUnknown(s) \/ PricingEnds(s)
  \/ DownloadStarted(s) \/ DownloadFails(s)
  \/ RuntimeKnown(s) \/ RuntimeUnknown(s) \/ RollbackEnds(s)

Backend(s) ==
  \/ RefuseProvider(s) \/ CommitProvider(s) \/ ProvisionRemote(s) \/ ReplyRemote(s)
  \/ CommitRemote(s) \/ RemoteFails(s)
  \/ RefuseRuntime(s) \/ CommitRuntime(s) \/ ContainerUp(s) \/ ContainerFails(s)
  \/ AnswerFails(s) \/ ReplyRuntime(s) \/ CommitAnswer(s) \/ UndoAnswer(s)
  \/ ListRuntimes(s) \/ Teardown(s) \/ Unpublish(s)
  \/ ReplyDelete(s) \/ CommitDelete(s) \/ UndoDelete(s) \/ DeleteFails(s)

Next == Open \/ Close \/ Finish \/ \E s \in Setup : Wizard(s) \/ Backend(s)

Spec == Init /\ [][Next]_vars

\* A fetch settles: the browser or the proxy gives up at the latest.  At each await
\* a disjunct of Wizard(s) waits for nothing but that.
FetchesSettle(s) == []<>~Active(s) \/ []<><<Wizard(s)>>_vars

FairSpec == Spec /\ \A s \in Setup : FetchesSettle(s)

-----------------------------------------------------------------------------
(* Properties.                                                             *)

\* A setup that failed leaves nothing behind, as the rollback in handleFinish() is
\* for, but what is excused: anything if providers.create() failed in the browser
\* only, or the delete failed or was not committed; a container that Docker did not
\* remove or whose id create_runtime() lost; a route whose unpublishing failed; both
\* if the runtime was still starting when the delete read it.
FailureLeavesNothing ==
  \A s \in Setup :
    pc[s] = "failed" /\ Quiet(s) =>
      /\ s \in provider \cup runtime => "rows" \in excused[s]
      /\ work[s] = "running" => "container" \in excused[s]
      /\ s \in routed => "route" \in excused[s]

\* A setup that succeeded has its provider, and on this server its runtime; on a
\* node it has them unless their commit is still to come, or failed after the reply.
SuccessIsComplete ==
  \A s \in Setup :
    pc[s] = "done" =>
      /\ s \in provider
      /\ kind[s] # "remote" /\ ~(kind[s] # "local" /\ starting[s] \in {"replied", "undone"})
           => s \in runtime /\ work[s] = "running"

\* While the dialog stays open its busy flag is true exactly while a setup runs,
\* so that no second one is begun.
CreatedOnce ==
  ~dismissed => /\ busy <=> \E s \in Setup : Active(s)
                /\ \A r, s \in Setup : Active(r) /\ Active(s) => r = s
                /\ busy => open

\* A runtime has its provider, whatever create and delete do to each other.
RuntimeHasProvider == runtime \subseteq provider

\* An alias with members is enabled, unless a runtime was published between the
\* count and the write of unpublish_runtime().
AliasIsEnabled == ~raced /\ routed # {} => enabled

\* handleFinish() ends: the dialog does not stay busy.
Ends(s) == Active(s) ~> ~Active(s)
SetupEnds == \A s \in Setup : Ends(s)

\* The promise of Provisioning, kept by four requests that fail, overlap and go on
\* behind the browser's back.
OutcomeOf(s) == CASE pc[s] = "idle" -> "none"
                  [] Active(s) -> "open"
                  [] OTHER -> pc[s]

RowsNow(s) == CASE s \in provider \cap runtime -> "runtime"
                [] s \in provider \ runtime -> "provider"
                [] s \in runtime \ provider -> "dangling"
                [] OTHER -> IF deleting[s] = "answered" THEN "gone" ELSE "none"

\* What was answered before it was committed.
Owed(s) == LET phase == IF kind[s] = "remote" THEN creating[s] ELSE starting[s]
           IN  IF kind[s] = "local" THEN "none"
               ELSE IF phase = "replied" THEN "owed"
               ELSE IF phase = "undone" THEN "lost" ELSE "none"

Promise == INSTANCE Provisioning
             WITH hosted <- {s \in Setup : kind[s] # "remote"},
                  outcome <- [s \in Setup |-> OutcomeOf(s)],
                  rows <- [s \in Setup |-> RowsNow(s)],
                  container <- work,
                  debt <- [s \in Setup |-> Owed(s)]

ProvisioningPromise == Promise!Spec

\* What create_runtime says of a container that cannot be started: "Roll back:
\* remove the runtime DB record so the provider can be cleaned up without a
\* dangling reference."
FailedRuntimeIsRemoved ==
  \A s \in Setup : starting[s] = "refused" => s \notin runtime

-----------------------------------------------------------------------------
(* The inductive invariant.                                                *)

\* Where handleFinish() is says which requests were made, and how they ended.
StepOf(s) ==
  /\ pc[s] = "idle" <=> s > begun
  /\ pc[s] = "idle" <=> creating[s] = "none"
  /\ pc[s] \in {"pricing", "download", "runtime", "rollback", "done"} => creating[s] \in Replied
  /\ pc[s] \in {"runtime", "rollback", "done", "failed"} \/ starting[s] = "none"
  /\ pc[s] \in {"rollback", "failed"} \/ deleting[s] = "none"
  /\ pc[s] \in {"download", "runtime"} => kind[s] # "remote"
  /\ pc[s] = "pricing" => kind[s] = "remote"
  /\ pc[s] = "rollback" => deleting[s] # "none"
  /\ pc[s] = "done" /\ kind[s] # "remote" => starting[s] \in Replied

StepsAgree == \A s \in Setup : StepOf(s)

\* One request follows the other, and of two that hold the same rows one waits.
RequestOf(s) ==
  /\ creating[s] \in {"created", "published", "replied", "undone"} => kind[s] = "remote"
  /\ starting[s] # "none" => kind[s] # "remote" /\ creating[s] = "answered"
  /\ starting[s] \in {"row", "up"} => kind[s] = "local"
  /\ deleting[s] # "none" => kind[s] # "remote" /\ creating[s] = "answered"
  /\ deleting[s] \in {"none", "running"} => listed[s] = "none"
  /\ deleting[s] = "replied" => starting[s] # "replied"

RequestsAgree == \A s \in Setup : RequestOf(s)

\* The rows and the container that the requests so far have made, and kept.
RowsOf(s) ==
  /\ s \in provider => creating[s] \notin {"none", "running"}
  /\ creating[s] \in Replied \cup {"created", "published"} /\ deleting[s] # "answered"
       => s \in provider
  /\ deleting[s] = "answered" => s \notin provider
  /\ s \in runtime => s \in provider
  /\ starting[s] = "replied" /\ kind[s] # "local" => s \in provider
  /\ starting[s] = "answered" \/ (kind[s] = "local" /\ starting[s] \in Replied \cup {"row", "up"})
       => s \in runtime \/ deleting[s] = "answered"
  /\ s \in runtime /\ kind[s] = "local" => starting[s] \notin {"none", "running"}
  /\ s \in runtime /\ kind[s] \notin {"local", "remote"} => starting[s] = "answered"
  /\ s \in runtime /\ kind[s] = "remote" => creating[s] = "answered"
  /\ starting[s] \in {"none", "running", "row"} => work[s] = "none"
  /\ kind[s] # "local" /\ starting[s] # "answered" => work[s] = "none"
  /\ starting[s] = "answered" \/ (kind[s] = "local" /\ starting[s] \in Replied \cup {"up"})
       => work[s] = "running" \/ deleting[s] # "none"
  /\ s \in routed /\ kind[s] = "remote" => s \in provider
  /\ s \in routed /\ kind[s] # "remote"
       => /\ kind[s] = "local" /\ starting[s] \in Replied \cup {"up", "refused"}
          /\ s \in runtime \/ deleting[s] = "answered"
  /\ kind[s] = "local" /\ starting[s] \in {"refused", "undone"}
       => work[s] # "running" \/ "container" \in excused[s]

RowsAgree == \A s \in Setup : RowsOf(s)

\* How far a delete has come with the runtime it found.
DeleteOf(s) ==
  /\ listed[s] = "full" => starting[s] = "answered"
  /\ listed[s] = "bare" => kind[s] = "local" /\ starting[s] \notin {"none", "running"}
  /\ listed[s] = "bare"
       => starting[s] \in {"refused", "undone"} \/ {"container", "route"} \subseteq excused[s]
  /\ deleting[s] = "counted" /\ s \in routed => s \in counted[s] \/ "route" \in excused[s]
  /\ deleting[s] \in {"counted", "stripped"} => listed[s] # "none"
  /\ deleting[s] \in {"counted", "stripped", "replied"} /\ listed[s] = "full" /\ kind[s] = "local"
       => work[s] # "running" \/ "container" \in excused[s]
  /\ deleting[s] \in {"stripped", "replied", "answered"} /\ s \in routed => "route" \in excused[s]
  /\ deleting[s] = "replied" /\ s \in runtime => listed[s] # "none"
  /\ deleting[s] = "answered" /\ StartsLocally(s) => {"container", "route"} \subseteq excused[s]
  /\ deleting[s] = "answered" /\ work[s] = "running" => "container" \in excused[s]
  /\ deleting[s] = "undone" => excused[s] = Anything

DeletesAgree == \A s \in Setup : DeleteOf(s)

\* A setup fails with a delete that was answered, with nothing to delete, or with
\* every excuse.
FailureOf(s) ==
  pc[s] = "failed" /\ excused[s] # Anything =>
    \/ deleting[s] \in {"replied", "answered"}
    \/ deleting[s] = "none" /\ creating[s] = "refused" /\ s \notin provider

FailuresAgree == \A s \in Setup : FailureOf(s)

\* A count of no others stays right until it is used, or a publish raced it.
CountsAgree ==
  \A s \in Setup :
    ~raced /\ deleting[s] = "counted" /\ counted[s] \subseteq {s} => routed \subseteq counted[s]

\* The inductive invariant of the setup.
IInv ==
  /\ TypeOK
  /\ StepsAgree
  /\ RequestsAgree
  /\ RowsAgree
  /\ DeletesAgree
  /\ FailuresAgree
  /\ CountsAgree
  /\ CreatedOnce
  /\ AliasIsEnabled
=============================================================================
