---------------------------- MODULE UpdateDialog ----------------------------
(***************************************************************************)
(* The system-update dialog of a node's page (SystemUpdateDialog.tsx) and  *)
(* the part of the page that decides whether the dialog exists             *)
(* (NodeDetailPage.tsx).                                                   *)
(*                                                                         *)
(* The dialog issues commands to the node (check_system_updates,           *)
(* apply_system_updates) and follows each by an interval that polls its    *)
(* timeline.  Calls and polls are asynchronous: an answer is handled by    *)
(* whatever the dialog has become in the meantime.  While the page loads   *)
(* it renders a spinner instead of the dialog: the dialog is unmounted and *)
(* a fresh one is mounted afterwards, and the calls of the old one return  *)
(* to a component that is gone.                                            *)
(*                                                                         *)
(* The c-th press of a button makes call c, which creates command c.  What *)
(* becomes of a command is NodeCommands' subject.  Here it ends, or never  *)
(* does: it may wait in the queue of an offline node, or be lost by a node *)
(* that stays connected, and nothing in the backend ends it then; nor does *)
(* it end when the transaction that created it fails to commit after the   *)
(* call was answered.                                                      *)
(***************************************************************************)
EXTENDS Naturals

CONSTANTS
  NumCommands,   \* how many commands are issued
  MaxPolls,      \* polls of one command that are unanswered at a time
  MaxLoads       \* how often the page loads, the first time included

ASSUME BoundsAssumption ==
  /\ NumCommands \in Nat
  /\ MaxPolls \in Nat \ {0}
  /\ MaxLoads \in Nat \ {0}

Command == 1..NumCommands
Mount == 1..MaxLoads
None == 0

VARIABLES
  page,          \* what NodeDetailPage renders: "loading", "ready", "failed", "left"
  loads,         \* load() calls without an answer
  started,       \* load() calls so far, those that runAction will make included
  acting,        \* runAction() calls whose action has not answered
  mount,         \* which mount of the dialog is the latest, None before the first
  open,          \* updateDialogOpen
  stage,         \* UpdateStage of the latest mount
  checkResult,   \* "none", or whether there are updates: "current", "updates"
  rebootDue,     \* applyResult.reboot_required
  pollRef,       \* [mount -> the command its pollRef.current polls, or None]
  live,          \* the commands polled by an interval nobody has cleared
  polls,         \* [command -> polls without an answer]
  issued,        \* how many calls were made
  call,          \* [command -> issueCommand: "none", "sent", "created", "closed"]
  by,            \* [command -> the mount that issued it]
  type,          \* [command -> "check" or "apply"]
  status,        \* [command -> "none", "running", "succeeded", "failed"]
  finding,       \* [command -> its result reports updates, or a reboot]
  excused        \* why two commands may be in flight (ghost): see Excuse

pageVars == <<page, loads, started, acting>>
commandVars == <<issued, call, by, type, status, finding>>
dialogVars == <<mount, open, stage, checkResult, rebootDue>>
pollVars == <<pollRef, live, polls>>
vars == <<pageVars, commandVars, dialogVars, pollVars, excused>>

Stage == {"idle", "checking", "checked", "applying", "done", "error"}
Excuse == {"late", "lost", "forgotten"}

PageTypes ==
  /\ page \in {"loading", "ready", "failed", "left"}
  /\ loads \in 0..MaxLoads /\ started \in 1..MaxLoads /\ acting \in 0..MaxLoads
  /\ excused \subseteq Excuse

DialogTypes ==
  /\ mount \in Mount \cup {None} /\ open \in BOOLEAN /\ stage \in Stage
  /\ checkResult \in {"none", "current", "updates"} /\ rebootDue \in BOOLEAN

PollTypes ==
  /\ pollRef \in [Mount -> Command \cup {None}]
  /\ live \subseteq Command
  /\ polls \in [Command -> 0..MaxPolls]

CommandTypes ==
  /\ issued \in 0..NumCommands
  /\ call \in [Command -> {"none", "sent", "created", "closed"}]
  /\ by \in [Command -> Mount \cup {None}]
  /\ type \in [Command -> {"check", "apply"}]
  /\ status \in [Command -> {"none", "running", "succeeded", "failed"}]
  /\ finding \in [Command -> BOOLEAN]

TypeOK == PageTypes /\ DialogTypes /\ PollTypes /\ CommandTypes

Running == stage \in {"checking", "applying"}
Outstanding(c) == call[c] \in {"sent", "created"}
InFlight(c) == Outstanding(c) \/ status[c] = "running"
Over(c) == status[c] \in {"succeeded", "failed"}

\* The dialog of mount i is on the page.
Shown(i) == page = "ready" /\ i = mount

\* The page is opened: its first load() is under way.
Opened ==
  /\ page = "loading" /\ loads = 1 /\ mount = None
  /\ open = FALSE /\ stage = "idle" /\ checkResult = "none" /\ rebootDue = FALSE

\* Or an update was done before, its commands are over and it asks for a reboot.
Updated ==
  /\ page = "ready" /\ loads = 0 /\ mount = 1
  /\ open = TRUE /\ stage = "done" /\ checkResult = "updates" /\ rebootDue = TRUE

Init ==
  /\ Opened \/ Updated
  /\ started = 1 /\ acting = 0
  /\ pollRef = [i \in Mount |-> None] /\ live = {}
  /\ polls = [c \in Command |-> 0]
  /\ issued = 0
  /\ call = [c \in Command |-> "none"]
  /\ by = [c \in Command |-> None]
  /\ type = [c \in Command |-> "check"]
  /\ status = [c \in Command |-> "none"]
  /\ finding = [c \in Command |-> FALSE]
  /\ excused = {}

-----------------------------------------------------------------------------
(* The page.                                                               *)

\* stopPolling() of mount i, or of nobody.
StopPolling(i) ==
  IF i = None THEN UNCHANGED <<live, pollRef>>
  ELSE /\ live' = live \ {pollRef[i]}
       /\ pollRef' = [pollRef EXCEPT ![i] = None]

\* load() begins: setLoading(true) takes the dialog off the page, and its
\* cleanup stops its interval.  The state of the dialog is lost with it.
BeginLoad ==
  /\ page = "ready" \/ page = "loading"
  /\ page' = "loading" /\ loads' = loads + 1
  /\ IF page = "ready" THEN StopPolling(mount) ELSE UNCHANGED <<live, pollRef>>
  /\ excused' = IF page = "ready" /\ (\E c \in Command : InFlight(c))
                  THEN excused \cup {"forgotten"} ELSE excused
  /\ UNCHANGED <<dialogVars, polls, commandVars>>

\* The refresh button.  It is behind the dialog while that is open.
Refresh ==
  /\ page = "ready" /\ ~open /\ started < MaxLoads
  /\ started' = started + 1
  /\ BeginLoad
  /\ UNCHANGED acting

\* A control of the page (drain, maintenance, diagnostics): runAction() awaits
\* its action, during which the dialog can be opened ...
Act ==
  /\ page = "ready" /\ ~open /\ started < MaxLoads
  /\ started' = started + 1 /\ acting' = acting + 1
  /\ UNCHANGED <<page, loads, dialogVars, pollVars, commandVars, excused>>

\* ... and loads the page once the action is done, or not if it fails.
ActionDone ==
  /\ acting > 0 /\ acting' = acting - 1
  /\ BeginLoad
  /\ UNCHANGED started

ActionFails ==
  /\ acting > 0 /\ acting' = acting - 1
  /\ UNCHANGED <<page, loads, started, dialogVars, pollVars, commandVars, excused>>

\* The first load() to answer ends the spinner: a new dialog is mounted, open
\* if the page says so.  Without a node there is only an error to show.
LoadEnds(ok) ==
  /\ loads > 0 /\ loads' = loads - 1
  /\ IF page = "loading" /\ (ok \/ mount # None)
       THEN /\ page' = "ready" /\ mount' = mount + 1
            /\ stage' = "idle" /\ checkResult' = "none" /\ rebootDue' = FALSE
       ELSE /\ page' = IF page = "loading" THEN "failed" ELSE page
            /\ UNCHANGED <<mount, stage, checkResult, rebootDue>>
  /\ UNCHANGED <<started, acting, open, pollVars, commandVars, excused>>

\* The user goes to another page: everything on this one is unmounted.
Leave ==
  /\ page # "left" /\ page' = "left"
  /\ IF page = "ready" THEN StopPolling(mount) ELSE UNCHANGED <<live, pollRef>>
  /\ UNCHANGED <<loads, started, acting, dialogVars, polls, commandVars, excused>>

\* The dialog is opened, which resets what it shows and not what it polls.
Open ==
  /\ page = "ready" /\ ~open
  /\ open' = TRUE
  /\ stage' = "idle" /\ checkResult' = "none" /\ rebootDue' = FALSE
  /\ UNCHANGED <<pageVars, mount, pollVars, commandVars, excused>>

\* It cannot be closed while it shows a command as running.
Close ==
  /\ page = "ready" /\ open /\ ~Running
  /\ open' = FALSE
  /\ UNCHANGED <<pageVars, mount, stage, checkResult, rebootDue, pollVars,
                 commandVars, excused>>

-----------------------------------------------------------------------------
(* The dialog's buttons.                                                   *)

Press(kind, running) ==
  /\ page = "ready" /\ open /\ issued < NumCommands
  /\ issued' = issued + 1
  /\ call' = [call EXCEPT ![issued'] = "sent"]
  /\ by' = [by EXCEPT ![issued'] = mount]
  /\ type' = [type EXCEPT ![issued'] = kind]
  /\ stage' = running
  /\ UNCHANGED <<pageVars, mount, open, checkResult, rebootDue, pollVars,
                 status, finding, excused>>

\* What the dialog offers, by its stage: "check" and "retry", the updates found,
\* and the reboot that the result asks for.
CheckOffered == stage \in {"idle", "error"}
ApplyOffered == stage = "checked" /\ checkResult = "updates"
RebootOffered == stage = "done" /\ rebootDue

\* Variant: the check is started without setStage("checking").
CheckUnmarked ==
  CheckOffered /\ Press("check", stage)

CheckUpdates == CheckOffered /\ Press("check", "checking")
ApplyUpdates == ApplyOffered /\ Press("apply", "applying")
Reboot == RebootOffered /\ Press("apply", "applying")

-----------------------------------------------------------------------------
(* Calls and their commands.                                               *)

\* The backend creates the command.
Create(c) ==
  /\ call[c] = "sent"
  /\ call' = [call EXCEPT ![c] = "created"]
  /\ status' = [status EXCEPT ![c] = "running"]
  /\ UNCHANGED <<pageVars, dialogVars, pollVars, issued, by, type, finding, excused>>

\* Variant: the handlers do not catch a failed call.
CallFailsUncaught(c) ==
  /\ Outstanding(c)
  /\ call' = [call EXCEPT ![c] = "closed"]
  /\ excused' = IF call[c] = "created" THEN excused \cup {"lost"} ELSE excused
  /\ UNCHANGED <<pageVars, dialogVars, pollVars, issued, by, type, status, finding>>

\* The call fails: refused, or never arrived, or its answer is lost after the
\* command was created.  The handler cannot tell, and shows an error.
CallFails(c) ==
  /\ Outstanding(c)
  /\ call' = [call EXCEPT ![c] = "closed"]
  /\ excused' = IF call[c] = "created" THEN excused \cup {"lost"} ELSE excused
  /\ stage' = IF Shown(by[c]) THEN "error" ELSE stage
  /\ UNCHANGED <<pageVars, mount, open, checkResult, rebootDue, pollVars,
                 issued, by, type, status, finding>>

\* pollTimeline(): the interval of the mount that made the call is replaced,
\* be that mount on the page or gone.
Respond(c) ==
  /\ call[c] = "created"
  /\ call' = [call EXCEPT ![c] = "closed"]
  /\ live' = (live \ {pollRef[by[c]]}) \cup {c}
  /\ pollRef' = [pollRef EXCEPT ![by[c]] = c]
  /\ UNCHANGED <<pageVars, dialogVars, polls, issued, by, type, status,
                 finding, excused>>

\* The command reaches a terminal status.  Nothing says that it must.
CommandEnds(c) ==
  /\ status[c] = "running"
  /\ \E s \in {"succeeded", "failed"}, f \in BOOLEAN :
       /\ status' = [status EXCEPT ![c] = s]
       /\ finding' = [finding EXCEPT ![c] = f]
  /\ UNCHANGED <<pageVars, dialogVars, pollVars, issued, call, by, type, excused>>

\* Every POLL_MS the interval asks for the timeline, whether or not the
\* previous answer is in.
Tick(c) ==
  /\ c \in live /\ polls[c] < MaxPolls
  /\ polls' = [polls EXCEPT ![c] = @ + 1]
  /\ UNCHANGED <<pageVars, dialogVars, pollRef, live, commandVars, excused>>

\* Variant: a dialog that is gone ignores its polls.
AnswerIfShown(c) ==
  /\ polls[c] > 0 /\ Over(c)
  /\ polls' = [polls EXCEPT ![c] = @ - 1]
  /\ IF Shown(by[c])
       THEN StopPolling(by[c]) /\ stage' = "error"
       ELSE UNCHANGED <<live, pollRef, stage>>
  /\ UNCHANGED <<pageVars, mount, open, checkResult, rebootDue, commandVars, excused>>

\* Variant: only success stops the interval.
AnswerIfSucceeded(c) ==
  /\ polls[c] > 0 /\ Over(c)
  /\ polls' = [polls EXCEPT ![c] = @ - 1]
  /\ IF Shown(by[c]) /\ status[c] = "succeeded"
       THEN StopPolling(by[c]) /\ stage' = "done"
       ELSE UNCHANGED <<live, pollRef, stage>>
  /\ UNCHANGED <<pageVars, mount, open, checkResult, rebootDue, commandVars, excused>>

\* An answer with a terminal status stops the interval the mount has now,
\* which a newer command may own, and shows the outcome.
Answer(c) ==
  /\ polls[c] > 0 /\ Over(c)
  /\ polls' = [polls EXCEPT ![c] = @ - 1]
  /\ StopPolling(by[c])
  /\ excused' = IF Shown(by[c]) /\ Running /\ pollRef[by[c]] # c
                  THEN excused \cup {"late"} ELSE excused
  /\ IF ~Shown(by[c])
       THEN UNCHANGED <<stage, checkResult, rebootDue>>
       ELSE IF status[c] = "failed"
              THEN stage' = "error" /\ UNCHANGED <<checkResult, rebootDue>>
              ELSE IF type[c] = "check"
                     THEN /\ stage' = "checked" /\ UNCHANGED rebootDue
                          /\ checkResult' = IF finding[c] THEN "updates" ELSE "current"
                     ELSE /\ stage' = "done" /\ UNCHANGED checkResult
                          /\ rebootDue' = finding[c]
  /\ UNCHANGED <<pageVars, mount, open, commandVars>>

\* A poll fails, or its answer was read before the command ended.
PollPasses(c) ==
  /\ polls[c] > 0
  /\ polls' = [polls EXCEPT ![c] = @ - 1]
  /\ UNCHANGED <<pageVars, dialogVars, pollRef, live, commandVars, excused>>

-----------------------------------------------------------------------------
Settle(c) == CallFails(c) \/ Respond(c)

Next ==
  \/ Refresh \/ Act \/ ActionDone \/ ActionFails \/ Leave \/ Open \/ Close
  \/ \E ok \in BOOLEAN : LoadEnds(ok)
  \/ CheckUpdates \/ ApplyUpdates \/ Reboot
  \/ \E c \in Command : \/ Create(c) \/ Settle(c) \/ CommandEnds(c)
                        \/ Tick(c) \/ Answer(c) \/ PollPasses(c)

Spec == Init /\ [][Next]_vars

\* The browser keeps its intervals running and every call returns or fails; of
\* polls repeated for ever some are answered after the command is over.  That a
\* command ends is not assumed.  Each conjunct is the weak or strong fairness of an
\* action, spelled out with a guard under which the action can be taken.
CallReturns(c) == []<>~Outstanding(c) \/ []<><<Settle(c)>>_vars

Unasked(c) == c \in live /\ polls[c] = 0
Answerable(c) == polls[c] > 0 /\ Over(c)

IntervalRuns(c) ==
  /\ []<>~Unasked(c) \/ []<><<Tick(c)>>_vars
  /\ <>[]~Answerable(c) \/ []<><<Answer(c)>>_vars

Fairness == \A c \in Command : CallReturns(c) /\ IntervalRuns(c)

FairSpec == Spec /\ Fairness

-----------------------------------------------------------------------------
(* Properties.                                                             *)

\* While the dialog shows a command as running, and so cannot be closed or used,
\* something that will end this is under way: a call, or the polling interval.
RunningIsWatched ==
  page = "ready" /\ Running
    => \E c \in Command : by[c] = mount /\ (Outstanding(c) \/ c \in live)

\* The interval in pollRef is the only one of its mount that nobody has cleared,
\* so that stopPolling() can always reach it: none leaks, and no mount has two.
IntervalIsHeld ==
  /\ \A c \in live : by[c] \in Mount /\ pollRef[by[c]] = c
  /\ \A i \in Mount : pollRef[i] # None => pollRef[i] \in live /\ by[pollRef[i]] = i

\* The dialog never has two commands in flight on the node, unless the answer of
\* a poll whose interval was already cleared came in while another command was
\* shown as running, or the answer of a call that created a command was lost, or
\* the page was loaded underneath a running command.
OneAtATime ==
  excused = {} => \A c, d \in Command : InFlight(c) /\ InFlight(d) => c = d

\* What makes these inductive.  Calls, polls and commands belong to mounts that
\* exist, and there are as many of those as loads have answered.
CallsHaveMounts ==
  /\ \A c \in Command : call[c] # "none" => c <= issued /\ by[c] \in 1..mount
  /\ \A c \in Command : polls[c] > 0 \/ status[c] # "none" => call[c] # "none"
  /\ \A c \in Command : call[c] = "sent" => status[c] = "none"
  /\ \A c \in Command : call[c] = "created" \/ c \in live => status[c] # "none"
  /\ \A c \in live : call[c] = "closed"
  /\ page = "ready" => mount # None
  /\ mount + loads + acting <= started

\* Without an excuse, what is in flight or polled is the last command, and the
\* dialog shows it as running, being open, unless the user has left.
LastIsShown ==
  /\ page = "ready" /\ Running => open
  /\ excused = {} =>
       /\ \A c \in Command : InFlight(c) =>
            /\ c = issued
            /\ page = "left" \/ (page = "ready" /\ Running /\ by[c] = mount)
       /\ page = "ready" => \A c \in live : by[c] = mount => Running /\ c = issued

IInv ==
  /\ TypeOK
  /\ CallsHaveMounts
  /\ IntervalIsHeld
  /\ RunningIsWatched
  /\ LastIsShown

\* The dialog as its user has it: a command is out from the press of the button
\* until its call has returned and it is over.  What that promises is Errand.
OnErrand ==
  [c \in Command |->
     IF InFlight(c) THEN "out" ELSE IF call[c] = "none" THEN "none" ELSE "back"]

ShownRunning == page = "ready" /\ Running

Errands ==
  INSTANCE Errand WITH errand <- OnErrand, shown <- ShownRunning,
                       left <- page = "left", pardoned <- excused # {}

\* Late answers, lost ones, loads of the page and dialogs that are gone keep the
\* promise: no command comes back to life, a new one goes out only when none is
\* out, none is hidden while it is out, and none goes out from a page left.
ErrandPromise == Errands!Spec

\* The interval of a command that is over is cleared, be its dialog long gone: it
\* asks again until an answer says so.
Cleared(c) == (c \in live /\ Over(c)) ~> c \notin live
EveryIntervalEnds == \A c \in Command : Cleared(c)

\* The dialog waits for the node: for as long as that takes it cannot be closed.
WaitsForNode == \E c \in live : by[c] = mount /\ ~Over(c)

\* Only the node keeps the dialog from being closed: it shows a command as running
\* for no longer than it polls one that is not over.
RunningEnds == ShownRunning ~> ~ShownRunning \/ WaitsForNode

=============================================================================
