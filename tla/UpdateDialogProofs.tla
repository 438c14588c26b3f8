------------------------- MODULE UpdateDialogProofs -------------------------
(***************************************************************************)
(* Proofs about the update dialog, for any number of commands, unanswered  *)
(* polls and loads of the page.                                            *)
(*                                                                         *)
(* IInv is inductive as it stands in UpdateDialog.  RunningIsWatched needs *)
(* to know which mount an interval belongs to (IntervalIsHeld,             *)
(* CallsHaveMounts); OneAtATime follows from LastIsShown, which ties what  *)
(* is in flight to what the dialog shows.  So does most of ErrandKept, the *)
(* refinement of Errand.                                                   *)
(*                                                                         *)
(* The last two parts are about liveness.  IntervalsEnd follows one        *)
(* interval whose command is over: it polls, and of its polls one is       *)
(* answered.  CalmRunningEnds follows the last command, which without an   *)
(* excuse is the one that the dialog shows.  What fairness says is in      *)
(* CallReturns and IntervalRuns, of the guards of the actions; ENABLED is  *)
(* not needed.  That a command ends is not assumed.                        *)
(***************************************************************************)
EXTENDS UpdateDialog, TLAPS

\* Nothing is in flight, polled or mounted when the page is opened.
LEMMA InitInvariant == Init => IInv
<1> SUFFICES ASSUME Init PROVE IInv
  OBVIOUS
<1> USE BoundsAssumption DEF Init, Opened, Updated
<1>1. TypeOK
  <2>1. PageTypes
    BY DEF PageTypes, Excuse
  <2>2. DialogTypes
    <3>1. mount \in Mount \cup {None}
      BY DEF Mount, None
    <3>2. CASE Opened
      BY <3>1, <3>2 DEF DialogTypes, Stage
    <3>3. CASE Updated
      BY <3>1, <3>3 DEF DialogTypes, Stage
    <3> QED
      BY <3>2, <3>3
  <2>3. PollTypes
    <3>1. \A i \in Mount : pollRef[i] = None
      OBVIOUS
    <3>2. polls \in [Command -> 0..MaxPolls]
      OBVIOUS
    <3> QED
      BY <3>1, <3>2 DEF PollTypes
  <2>4. CommandTypes
    BY DEF CommandTypes, Command, None
  <2> QED
    BY <2>1, <2>2, <2>3, <2>4 DEF TypeOK
<1>2. CallsHaveMounts /\ IntervalIsHeld
  BY DEF CallsHaveMounts, IntervalIsHeld, None, Mount
<1>3. RunningIsWatched /\ LastIsShown
  BY DEF RunningIsWatched, LastIsShown, Running, InFlight, Outstanding
<1> QED
  BY <1>1, <1>2, <1>3 DEF IInv

\* stopPolling() keeps the interval and pollRef in step.
LEMMA StopPollingHolds ==
  ASSUME TypeOK, IntervalIsHeld, NEW i \in Mount \cup {None},
         StopPolling(i), by' = by
  PROVE  /\ IntervalIsHeld'
         /\ live' \subseteq live
         /\ pollRef' \in [Mount -> Command \cup {None}]
         /\ i # None => \A c \in live' : by[c] # i
         /\ \A c \in live : by[c] # i => c \in live'
<1>1. CASE i = None
  <2>1. live' = live /\ pollRef' = pollRef
    BY <1>1 DEF StopPolling
  <2> QED
    BY <1>1, <2>1 DEF TypeOK, PollTypes, CommandTypes, IntervalIsHeld
<1>2. CASE i # None
  <2>1. /\ live' = live \ {pollRef[i]}
        /\ pollRef' = [pollRef EXCEPT ![i] = None]
    BY <1>2 DEF StopPolling
  <2>2. i \in Mount
    BY <1>2
  <2> QED
    BY <1>2, <2>1, <2>2 DEF TypeOK, PollTypes, CommandTypes, IntervalIsHeld, None, Command
<1> QED
  BY <1>1, <1>2

\* The dialog leaves the page: its interval is stopped, others are kept.
LEMMA UnmountHolds ==
  ASSUME IInv, by' = by,
         IF page = "ready" THEN StopPolling(mount) ELSE UNCHANGED <<live, pollRef>>
  PROVE  /\ IntervalIsHeld'
         /\ live' \subseteq live
         /\ pollRef' \in [Mount -> Command \cup {None}]
<1>1. CASE page = "ready"
  <2>1. mount \in Mount \cup {None}
    BY DEF IInv, TypeOK, DialogTypes
  <2> QED
    BY <1>1, <2>1, StopPollingHolds DEF IInv
<1>2. CASE page # "ready"
  BY <1>2 DEF IInv, IntervalIsHeld, TypeOK, PollTypes
<1> QED
  BY <1>1, <1>2

\* The refresh button takes the dialog off the page.
LEMMA RefreshInductive == ASSUME IInv, Refresh PROVE IInv'
<1> USE BoundsAssumption DEF IInv, Refresh, BeginLoad, pageVars, dialogVars, pollVars, commandVars, None
<1>0. live' \subseteq live /\ pollRef' \in [Mount -> Command \cup {None}] /\ IntervalIsHeld'
  BY UnmountHolds
<1>1. TypeOK'
  BY <1>0 DEF TypeOK, PageTypes, DialogTypes, PollTypes, CommandTypes, Excuse, Stage, Mount, CallsHaveMounts
<1>2. CallsHaveMounts'
  BY <1>0 DEF TypeOK, PageTypes, DialogTypes, PollTypes, CommandTypes, CallsHaveMounts, Mount
<1>3. IntervalIsHeld'
  BY <1>0
<1>4. RunningIsWatched'
  BY <1>0 DEF RunningIsWatched, Running, Outstanding
<1>5. LastIsShown'
  BY <1>0 DEF LastIsShown, Running, InFlight, Outstanding, TypeOK, PageTypes, DialogTypes, PollTypes, CommandTypes, CallsHaveMounts
<1> QED
  BY <1>1, <1>2, <1>3, <1>4, <1>5

\* Starting an action of the page changes nothing the dialog depends on.
LEMMA ActInductive == ASSUME IInv, Act PROVE IInv'
<1> USE BoundsAssumption DEF IInv, Act, pageVars, dialogVars, pollVars, commandVars, None
<1>1. TypeOK'
  BY DEF TypeOK, PageTypes, DialogTypes, PollTypes, CommandTypes, Excuse, Stage, Mount, CallsHaveMounts
<1>2. CallsHaveMounts'
  BY DEF TypeOK, PageTypes, DialogTypes, PollTypes, CommandTypes, CallsHaveMounts, Mount
<1>3. IntervalIsHeld'
  BY DEF TypeOK, PageTypes, DialogTypes, PollTypes, CommandTypes, CallsHaveMounts, IntervalIsHeld, Mount
<1>4. RunningIsWatched'
  BY DEF RunningIsWatched, Running, Outstanding
<1>5. LastIsShown'
  BY DEF LastIsShown, Running, InFlight, Outstanding, TypeOK, PageTypes, DialogTypes, PollTypes, CommandTypes, CallsHaveMounts
<1> QED
  BY <1>1, <1>2, <1>3, <1>4, <1>5

\* The end of an action takes the dialog off the page, whatever it shows.
LEMMA ActionDoneInductive == ASSUME IInv, ActionDone PROVE IInv'
<1> USE BoundsAssumption DEF IInv, ActionDone, BeginLoad, pageVars, dialogVars, pollVars, commandVars, None
<1>0. live' \subseteq live /\ pollRef' \in [Mount -> Command \cup {None}] /\ IntervalIsHeld'
  BY UnmountHolds
<1>1. TypeOK'
  BY <1>0 DEF TypeOK, PageTypes, DialogTypes, PollTypes, CommandTypes, Excuse, Stage, Mount, CallsHaveMounts
<1>2. CallsHaveMounts'
  BY <1>0 DEF TypeOK, PageTypes, DialogTypes, PollTypes, CommandTypes, CallsHaveMounts, Mount
<1>3. IntervalIsHeld'
  BY <1>0
<1>4. RunningIsWatched'
  BY <1>0 DEF RunningIsWatched, Running, Outstanding
<1>5. LastIsShown'
  BY <1>0 DEF LastIsShown, Running, InFlight, Outstanding, TypeOK, PageTypes, DialogTypes, PollTypes, CommandTypes, CallsHaveMounts
<1> QED
  BY <1>1, <1>2, <1>3, <1>4, <1>5

\* An action that fails changes nothing the dialog depends on.
LEMMA ActionFailsInductive == ASSUME IInv, ActionFails PROVE IInv'
<1> USE BoundsAssumption DEF IInv, ActionFails, pageVars, dialogVars, pollVars, commandVars, None
<1>1. TypeOK'
  BY DEF TypeOK, PageTypes, DialogTypes, PollTypes, CommandTypes, Excuse, Stage, Mount, CallsHaveMounts
<1>2. CallsHaveMounts'
  BY DEF TypeOK, PageTypes, DialogTypes, PollTypes, CommandTypes, CallsHaveMounts, Mount
<1>3. IntervalIsHeld'
  BY DEF TypeOK, PageTypes, DialogTypes, PollTypes, CommandTypes, CallsHaveMounts, IntervalIsHeld, Mount
<1>4. RunningIsWatched'
  BY DEF RunningIsWatched, Running, Outstanding
<1>5. LastIsShown'
  BY DEF LastIsShown, Running, InFlight, Outstanding, TypeOK, PageTypes, DialogTypes, PollTypes, CommandTypes, CallsHaveMounts
<1> QED
  BY <1>1, <1>2, <1>3, <1>4, <1>5

\* The end of a load mounts a dialog that polls nothing.
LEMMA LoadEndsInductive ==
  ASSUME IInv, NEW ok \in BOOLEAN, LoadEnds(ok)
  PROVE  IInv'
<1> USE BoundsAssumption DEF IInv, LoadEnds, pageVars, dialogVars, pollVars, commandVars, None
<1>1. TypeOK'
  <2>1. CASE page = "loading" /\ (ok \/ mount # None)
    <3>1. mount + 1 \in Mount
      BY <2>1 DEF CallsHaveMounts, TypeOK, PageTypes, DialogTypes, Mount
    <3>2. PageTypes' /\ PollTypes' /\ CommandTypes'
      BY <2>1 DEF TypeOK, PageTypes, PollTypes, CommandTypes
    <3>3. DialogTypes'
      BY <2>1, <3>1 DEF TypeOK, DialogTypes, Stage
    <3> QED
      BY <3>2, <3>3 DEF TypeOK
  <2>2. CASE ~(page = "loading" /\ (ok \/ mount # None))
    <3>1. PageTypes' /\ PollTypes' /\ CommandTypes'
      BY <2>2 DEF TypeOK, PageTypes, PollTypes, CommandTypes
    <3>2. DialogTypes'
      BY <2>2 DEF TypeOK, DialogTypes
    <3> QED
      BY <3>1, <3>2 DEF TypeOK
  <2> QED
    BY <2>1, <2>2
<1>2. CallsHaveMounts'
  BY DEF TypeOK, PageTypes, DialogTypes, PollTypes, CommandTypes, CallsHaveMounts, Mount
<1>3. IntervalIsHeld'
  BY DEF TypeOK, PageTypes, DialogTypes, PollTypes, CommandTypes, CallsHaveMounts, IntervalIsHeld, Mount
<1>4. RunningIsWatched'
  BY DEF RunningIsWatched, Running, Outstanding
<1>5. LastIsShown'
  <2> USE DEF LastIsShown, Running, InFlight, Outstanding, TypeOK, PageTypes, DialogTypes, PollTypes, CommandTypes, CallsHaveMounts
  <2>1. CASE page = "loading" /\ (ok \/ mount # None)
    <3>1. page' = "ready" /\ ~Running'
      BY <2>1
    <3>2. \A c \in Command : InFlight(c)' <=> InFlight(c)
      OBVIOUS
    <3>3. excused' = {} => \A c \in Command : ~InFlight(c)'
      BY <2>1, <3>2
    <3>4. mount' = mount + 1 /\ mount \in Nat
      BY <2>1 DEF Mount
    <3>5. \A c \in live : c \in Command /\ by[c] \in 1..mount
      OBVIOUS
    <3>6. \A c \in live' : by'[c] # mount'
      BY <3>4, <3>5
    <3> QED
      BY <3>1, <3>3, <3>6
  <2>2. CASE ~(page = "loading" /\ (ok \/ mount # None))
    BY <2>2
  <2> QED
    BY <2>1, <2>2
<1> QED
  BY <1>1, <1>2, <1>3, <1>4, <1>5

\* Leaving the page stops the interval of the dialog on it.
LEMMA LeaveInductive == ASSUME IInv, Leave PROVE IInv'
<1> USE BoundsAssumption DEF IInv, Leave, pageVars, dialogVars, pollVars, commandVars, None
<1>0. live' \subseteq live /\ pollRef' \in [Mount -> Command \cup {None}] /\ IntervalIsHeld'
  BY UnmountHolds
<1>1. TypeOK'
  BY <1>0 DEF TypeOK, PageTypes, DialogTypes, PollTypes, CommandTypes, Excuse, Stage, Mount, CallsHaveMounts
<1>2. CallsHaveMounts'
  BY <1>0 DEF TypeOK, PageTypes, DialogTypes, PollTypes, CommandTypes, CallsHaveMounts, Mount
<1>3. IntervalIsHeld'
  BY <1>0
<1>4. RunningIsWatched'
  BY <1>0 DEF RunningIsWatched, Running, Outstanding
<1>5. LastIsShown'
  BY <1>0 DEF LastIsShown, Running, InFlight, Outstanding, TypeOK, PageTypes, DialogTypes, PollTypes, CommandTypes, CallsHaveMounts
<1> QED
  BY <1>1, <1>2, <1>3, <1>4, <1>5

\* Opening the dialog resets it; it was closed, so it showed nothing as running.
LEMMA OpenInductive == ASSUME IInv, Open PROVE IInv'
<1> USE BoundsAssumption DEF IInv, Open, pageVars, dialogVars, pollVars, commandVars, None
<1>1. TypeOK'
  BY DEF TypeOK, PageTypes, DialogTypes, PollTypes, CommandTypes, Excuse, Stage, Mount, CallsHaveMounts
<1>2. CallsHaveMounts'
  BY DEF TypeOK, PageTypes, DialogTypes, PollTypes, CommandTypes, CallsHaveMounts, Mount
<1>3. IntervalIsHeld'
  BY DEF TypeOK, PageTypes, DialogTypes, PollTypes, CommandTypes, CallsHaveMounts, IntervalIsHeld, Mount
<1>4. RunningIsWatched'
  BY DEF RunningIsWatched, Running, Outstanding
<1>5. LastIsShown'
  BY DEF LastIsShown, Running, InFlight, Outstanding, TypeOK, PageTypes, DialogTypes, PollTypes, CommandTypes, CallsHaveMounts
<1> QED
  BY <1>1, <1>2, <1>3, <1>4, <1>5

\* Only a dialog that shows nothing as running is closed.
LEMMA CloseInductive == ASSUME IInv, Close PROVE IInv'
<1> USE BoundsAssumption DEF IInv, Close, pageVars, dialogVars, pollVars, commandVars, None
<1>1. TypeOK'
  BY DEF TypeOK, PageTypes, DialogTypes, PollTypes, CommandTypes, Excuse, Stage, Mount, CallsHaveMounts
<1>2. CallsHaveMounts'
  BY DEF TypeOK, PageTypes, DialogTypes, PollTypes, CommandTypes, CallsHaveMounts, Mount
<1>3. IntervalIsHeld'
  BY DEF TypeOK, PageTypes, DialogTypes, PollTypes, CommandTypes, CallsHaveMounts, IntervalIsHeld, Mount
<1>4. RunningIsWatched'
  BY DEF RunningIsWatched, Running, Outstanding
<1>5. LastIsShown'
  BY DEF LastIsShown, Running, InFlight, Outstanding, TypeOK, PageTypes, DialogTypes, PollTypes, CommandTypes, CallsHaveMounts
<1> QED
  BY <1>1, <1>2, <1>3, <1>4, <1>5

\* A button issues the next command, nothing being shown as running.
LEMMA PressInductive ==
  ASSUME IInv, NEW kind \in {"check", "apply"},
         NEW running \in {"checking", "applying"}, ~Running, Press(kind, running)
  PROVE  IInv'
<1> USE BoundsAssumption DEF IInv, Press, Running, pageVars, dialogVars, pollVars, commandVars, None
<1>0. /\ issued' = issued + 1 /\ issued' \in Command /\ issued < issued'
      /\ \A d \in Command : /\ call'[d] = IF d = issued' THEN "sent" ELSE call[d]
                            /\ by'[d] = IF d = issued' THEN mount ELSE by[d]
      /\ call[issued'] = "none" /\ issued' \notin live
      /\ mount \in Mount
  BY DEF TypeOK, CommandTypes, DialogTypes, PollTypes, CallsHaveMounts, Command
<1>1. TypeOK'
  <2>1. PageTypes' /\ PollTypes'
    BY DEF TypeOK, PageTypes, PollTypes
  <2>2. DialogTypes'
    BY DEF TypeOK, DialogTypes, Stage
  <2>3. CommandTypes'
    BY <1>0 DEF TypeOK, CommandTypes, Command
  <2> QED
    BY <2>1, <2>2, <2>3 DEF TypeOK
<1>2. CallsHaveMounts'
  <2>1. \A d \in Command : call'[d] # "none" => d <= issued' /\ by'[d] \in 1..mount
    <3>1. mount \in 1..mount
      BY <1>0 DEF Mount
    <3>2. \A d \in Command : d \in Nat /\ issued \in Nat
      BY DEF TypeOK, CommandTypes, Command
    <3> QED
      BY <1>0, <3>1, <3>2 DEF CallsHaveMounts
  <2>2. /\ \A d \in Command : polls'[d] > 0 \/ status'[d] # "none" => call'[d] # "none"
        /\ \A d \in Command : call'[d] = "sent" => status'[d] = "none"
        /\ \A d \in Command : call'[d] = "created" \/ d \in live' => status'[d] # "none"
        /\ \A d \in live' : call'[d] = "closed"
    BY <1>0 DEF CallsHaveMounts, TypeOK, PollTypes
  <2>3. (page' = "ready" => mount' # None) /\ mount' + loads' + acting' <= started'
    BY DEF CallsHaveMounts
  <2> QED
    BY <2>1, <2>2, <2>3 DEF CallsHaveMounts
<1>3. IntervalIsHeld'
  <2>1. \A d \in live' : by'[d] \in Mount /\ pollRef'[by'[d]] = d
    BY <1>0 DEF IntervalIsHeld, TypeOK, PollTypes
  <2>2. \A i \in Mount : pollRef'[i] # None => pollRef'[i] \in live' /\ by'[pollRef'[i]] = i
    BY <1>0 DEF IntervalIsHeld, TypeOK, PollTypes
  <2> QED
    BY <2>1, <2>2 DEF IntervalIsHeld
<1>4. RunningIsWatched'
  BY <1>0 DEF RunningIsWatched, Outstanding
<1>5. LastIsShown'
  BY <1>0 DEF LastIsShown, Running, InFlight, Outstanding, TypeOK, PageTypes, DialogTypes, PollTypes, CommandTypes, CallsHaveMounts
<1> QED
  BY <1>1, <1>2, <1>3, <1>4, <1>5

\* Creating the command leaves it in flight.
LEMMA CreateInductive == ASSUME IInv, NEW c \in Command, Create(c) PROVE IInv'
<1> USE BoundsAssumption DEF IInv, Create, pageVars, dialogVars, pollVars, commandVars, None
<1>1. TypeOK'
  BY DEF TypeOK, PageTypes, DialogTypes, PollTypes, CommandTypes, Excuse, Stage, Mount, CallsHaveMounts
<1>2. CallsHaveMounts'
  BY DEF TypeOK, PageTypes, DialogTypes, PollTypes, CommandTypes, CallsHaveMounts, Mount
<1>3. IntervalIsHeld'
  BY DEF TypeOK, PageTypes, DialogTypes, PollTypes, CommandTypes, CallsHaveMounts, IntervalIsHeld, Mount
<1>4. RunningIsWatched'
  BY DEF RunningIsWatched, Running, Outstanding, TypeOK, CommandTypes
<1>5. LastIsShown'
  BY DEF LastIsShown, Running, InFlight, Outstanding, TypeOK, PageTypes, DialogTypes, PollTypes, CommandTypes, CallsHaveMounts
<1> QED
  BY <1>1, <1>2, <1>3, <1>4, <1>5

\* A failed call that created nothing leaves nothing in flight.
LEMMA CallFailsInductive ==
  ASSUME IInv, NEW c \in Command, CallFails(c)
  PROVE  IInv'
<1> USE BoundsAssumption DEF IInv, CallFails, pageVars, dialogVars, pollVars, commandVars, None
<1>0. /\ call[c] # "none"
      /\ \A d \in Command : call'[d] = IF d = c THEN "closed" ELSE call[d]
  BY DEF Outstanding, TypeOK, CommandTypes
<1>1. TypeOK'
  BY <1>0 DEF TypeOK, PageTypes, DialogTypes, PollTypes, CommandTypes, Excuse, Stage, Mount, CallsHaveMounts
<1>2. CallsHaveMounts'
  <2>1. \A d \in Command : call'[d] # "none" => d <= issued' /\ by'[d] \in 1..mount'
    BY <1>0 DEF CallsHaveMounts
  <2>2. /\ \A d \in Command : polls'[d] > 0 \/ status'[d] # "none" => call'[d] # "none"
        /\ \A d \in Command : call'[d] = "sent" => status'[d] = "none"
    BY <1>0 DEF CallsHaveMounts
  <2>3. \A d \in live' : call'[d] = "closed"
    BY <1>0 DEF CallsHaveMounts, TypeOK, PollTypes
  <2>4. (page' = "ready" => mount' # None) /\ mount' + loads' + acting' <= started'
    BY DEF CallsHaveMounts
  <2> QED
    BY <2>1, <2>2, <2>3, <2>4 DEF CallsHaveMounts
<1>3. IntervalIsHeld'
  BY <1>0 DEF TypeOK, PageTypes, DialogTypes, PollTypes, CommandTypes, CallsHaveMounts, IntervalIsHeld, Mount
<1>4. RunningIsWatched'
  BY DEF RunningIsWatched, Running, Outstanding, Shown, TypeOK, CommandTypes
<1>5. LastIsShown'
  BY <1>0 DEF LastIsShown, Running, InFlight, Outstanding, TypeOK, PageTypes, DialogTypes, PollTypes, CommandTypes, CallsHaveMounts
<1> QED
  BY <1>1, <1>2, <1>3, <1>4, <1>5

\* The answer of the call replaces the interval of its mount.
LEMMA RespondInductive == ASSUME IInv, NEW c \in Command, Respond(c) PROVE IInv'
<1> USE BoundsAssumption DEF IInv, Respond, pageVars, dialogVars, pollVars, commandVars, None
<1>0. /\ by[c] \in Mount /\ c \in live'
      /\ \A d \in Command : call'[d] = IF d = c THEN "closed" ELSE call[d]
      /\ \A d \in live : d \in live' \/ by[d] = by[c]
      /\ \A d \in live' : d \in live \/ d = c
  <2>1. by[c] \in 1..mount /\ mount \in 0..MaxLoads
    BY DEF CallsHaveMounts, TypeOK, DialogTypes, Mount
  <2>2. by[c] \in Mount
    BY <2>1 DEF Mount
  <2>3. pollRef[by[c]] # None => by[pollRef[by[c]]] = by[c]
    BY <2>2 DEF IntervalIsHeld
  <2>4. \A d \in live : d \in Command /\ d # None
    BY DEF TypeOK, PollTypes, Command
  <2> QED
    BY <2>2, <2>3, <2>4 DEF TypeOK, CommandTypes
<1>1. TypeOK'
  BY <1>0 DEF TypeOK, PageTypes, DialogTypes, PollTypes, CommandTypes, Excuse, Stage, Mount, CallsHaveMounts
<1>2. CallsHaveMounts'
  <2>1. \A d \in Command : call'[d] # "none" => d <= issued' /\ by'[d] \in 1..mount'
    BY <1>0 DEF CallsHaveMounts
  <2>2. /\ \A d \in Command : polls'[d] > 0 \/ status'[d] # "none" => call'[d] # "none"
        /\ \A d \in Command : call'[d] = "sent" => status'[d] = "none"
    BY <1>0 DEF CallsHaveMounts
  <2>3. \A d \in live' : call'[d] = "closed"
    BY <1>0 DEF CallsHaveMounts, TypeOK, PollTypes
  <2>4. (page' = "ready" => mount' # None) /\ mount' + loads' + acting' <= started'
    BY DEF CallsHaveMounts
  <2> QED
    BY <2>1, <2>2, <2>3, <2>4 DEF CallsHaveMounts
<1>3. IntervalIsHeld'
  BY <1>0 DEF TypeOK, PageTypes, DialogTypes, PollTypes, CommandTypes, CallsHaveMounts, IntervalIsHeld, Mount
<1>4. RunningIsWatched'
  <2> SUFFICES ASSUME page = "ready", Running
               PROVE  \E d \in Command : by[d] = mount /\ (Outstanding(d)' \/ d \in live')
    BY DEF RunningIsWatched, Running
  <2>1. PICK d \in Command : by[d] = mount /\ (Outstanding(d) \/ d \in live)
    BY DEF RunningIsWatched
  <2> QED
    BY <1>0, <2>1 DEF Outstanding
<1>5. LastIsShown'
  BY <1>0 DEF LastIsShown, Running, InFlight, Outstanding, TypeOK, PageTypes, DialogTypes, PollTypes, CommandTypes, CallsHaveMounts
<1> QED
  BY <1>1, <1>2, <1>3, <1>4, <1>5

\* The end of the command leaves its interval, which will notice.
LEMMA CommandEndsInductive ==
  ASSUME IInv, NEW c \in Command, CommandEnds(c)
  PROVE  IInv'
<1> USE BoundsAssumption DEF IInv, CommandEnds, pageVars, dialogVars, pollVars, commandVars, None
<1>1. TypeOK'
  BY DEF TypeOK, PageTypes, DialogTypes, PollTypes, CommandTypes, Excuse, Stage, Mount, CallsHaveMounts
<1>2. CallsHaveMounts'
  BY DEF TypeOK, PageTypes, DialogTypes, PollTypes, CommandTypes, CallsHaveMounts, Mount
<1>3. IntervalIsHeld'
  BY DEF TypeOK, PageTypes, DialogTypes, PollTypes, CommandTypes, CallsHaveMounts, IntervalIsHeld, Mount
<1>4. RunningIsWatched'
  BY DEF RunningIsWatched, Running, Outstanding
<1>5. LastIsShown'
  BY DEF LastIsShown, Running, InFlight, Outstanding, TypeOK, PageTypes, DialogTypes, PollTypes, CommandTypes, CallsHaveMounts
<1> QED
  BY <1>1, <1>2, <1>3, <1>4, <1>5

\* A poll is asked of a command that was created.
LEMMA TickInductive == ASSUME IInv, NEW c \in Command, Tick(c) PROVE IInv'
<1> USE BoundsAssumption DEF IInv, Tick, pageVars, dialogVars, pollVars, commandVars, None
<1>1. TypeOK'
  BY DEF TypeOK, PageTypes, DialogTypes, PollTypes, CommandTypes, Excuse, Stage, Mount, CallsHaveMounts
<1>2. CallsHaveMounts'
  BY DEF TypeOK, PageTypes, DialogTypes, PollTypes, CommandTypes, CallsHaveMounts, Mount
<1>3. IntervalIsHeld'
  BY DEF TypeOK, PageTypes, DialogTypes, PollTypes, CommandTypes, CallsHaveMounts, IntervalIsHeld, Mount
<1>4. RunningIsWatched'
  BY DEF RunningIsWatched, Running, Outstanding
<1>5. LastIsShown'
  BY DEF LastIsShown, Running, InFlight, Outstanding, TypeOK, PageTypes, DialogTypes, PollTypes, CommandTypes, CallsHaveMounts
<1> QED
  BY <1>1, <1>2, <1>3, <1>4, <1>5

\* A poll that says nothing new changes nothing.
LEMMA PollPassesInductive ==
  ASSUME IInv, NEW c \in Command, PollPasses(c)
  PROVE  IInv'
<1> USE BoundsAssumption DEF IInv, PollPasses, pageVars, dialogVars, pollVars, commandVars, None
<1>1. TypeOK'
  BY DEF TypeOK, PageTypes, DialogTypes, PollTypes, CommandTypes, Excuse, Stage, Mount, CallsHaveMounts
<1>2. CallsHaveMounts'
  BY DEF TypeOK, PageTypes, DialogTypes, PollTypes, CommandTypes, CallsHaveMounts, Mount
<1>3. IntervalIsHeld'
  BY DEF TypeOK, PageTypes, DialogTypes, PollTypes, CommandTypes, CallsHaveMounts, IntervalIsHeld, Mount
<1>4. RunningIsWatched'
  BY DEF RunningIsWatched, Running, Outstanding
<1>5. LastIsShown'
  BY DEF LastIsShown, Running, InFlight, Outstanding, TypeOK, PageTypes, DialogTypes, PollTypes, CommandTypes, CallsHaveMounts
<1> QED
  BY <1>1, <1>2, <1>3, <1>4, <1>5

\* A terminal answer stops the interval, and ends what the dialog shows as running.
LEMMA AnswerInductive == ASSUME IInv, NEW c \in Command, Answer(c) PROVE IInv'
<1> USE BoundsAssumption DEF IInv, Answer, pageVars, dialogVars, pollVars, commandVars, None
<1>0. /\ live' \subseteq live /\ pollRef' \in [Mount -> Command \cup {None}] /\ IntervalIsHeld'
      /\ by[c] # None => \A d \in live' : by[d] # by[c]
      /\ \A d \in live : by[d] # by[c] => d \in live'
  BY StopPollingHolds DEF TypeOK, CommandTypes
<1>0a. /\ Shown(by[c]) => ~Running'
       /\ ~Shown(by[c]) => stage' = stage
  BY DEF Running
<1>0b. call[c] # "none" /\ by[c] \in Mount
  BY DEF CallsHaveMounts, TypeOK, PollTypes, CommandTypes, DialogTypes, Mount
<1>1. TypeOK'
  BY <1>0 DEF TypeOK, PageTypes, DialogTypes, PollTypes, CommandTypes, Excuse, Stage, Mount, CallsHaveMounts
<1>2. CallsHaveMounts'
  BY <1>0 DEF TypeOK, PageTypes, DialogTypes, PollTypes, CommandTypes, CallsHaveMounts, Mount
<1>3. IntervalIsHeld'
  BY <1>0
<1>4. RunningIsWatched'
  BY <1>0, <1>0a DEF RunningIsWatched, Running, Outstanding, Shown, TypeOK, PollTypes
<1>5. LastIsShown'
  <2>1. page' = "ready" /\ Running' => open'
    BY <1>0a DEF LastIsShown, Running
  <2>2. ASSUME excused' = {}
        PROVE  /\ \A d \in Command : InFlight(d)' => d = issued'
               /\ \A d \in Command : InFlight(d)' => page' = "left" \/ (page' = "ready" /\ Running' /\ by'[d] = mount')
               /\ page' = "ready" => \A d \in live' : by'[d] = mount' => Running' /\ d = issued'
    <3>1. excused = {} /\ (Shown(by[c]) /\ Running => pollRef[by[c]] = c)
      BY <2>2
    <3>2. \A d \in Command : InFlight(d)' <=> InFlight(d)
      BY DEF InFlight, Outstanding
    <3>3. CASE Shown(by[c]) /\ Running
      <4>1. c \in live /\ call[c] = "closed" /\ status[c] # "running"
        BY <3>1, <3>3, <1>0b DEF Over, IntervalIsHeld, CallsHaveMounts, Command
      <4>2. c = issued /\ ~InFlight(c)
        BY <3>1, <3>3, <4>1 DEF LastIsShown, Shown, InFlight, Outstanding
      <4>3. \A d \in Command : ~InFlight(d)'
        BY <3>1, <3>2, <4>2 DEF LastIsShown
      <4>4. \A d \in live' : by[d] # mount
        BY <3>3, <1>0, <1>0b DEF Shown, Mount
      <4> QED
        BY <4>3, <4>4
    <3>4. CASE Shown(by[c]) /\ ~Running
      <4>1. \A d \in Command : ~InFlight(d)'
        BY <3>1, <3>2, <3>4 DEF LastIsShown, Shown
      <4>2. \A d \in live' : by[d] # mount
        BY <3>4, <1>0, <1>0b DEF Shown, Mount
      <4> QED
        BY <4>1, <4>2
    <3>5. CASE ~Shown(by[c])
      <4>1. stage' = stage
        BY <3>5, <1>0a
      <4>2. \A d \in Command : InFlight(d)' => d = issued /\ (page = "left" \/ (page = "ready" /\ Running /\ by[d] = mount))
        BY <3>1, <3>2 DEF LastIsShown
      <4>3. page = "ready" => \A d \in live' : by[d] = mount => Running /\ d = issued
        BY <3>1, <1>0 DEF LastIsShown
      <4> QED
        BY <4>1, <4>2, <4>3 DEF Running
    <3> QED
      BY <3>3, <3>4, <3>5
  <2> QED
    BY <2>1, <2>2 DEF LastIsShown
<1> QED
  BY <1>1, <1>2, <1>3, <1>4, <1>5

\* A step of nothing.
LEMMA StutterInductive == IInv /\ UNCHANGED vars => IInv'
<1> SUFFICES ASSUME IInv, UNCHANGED vars PROVE IInv'
  OBVIOUS
<1> USE DEF vars, pageVars, dialogVars, pollVars, commandVars, IInv
<1>1. TypeOK'
  BY DEF TypeOK, PageTypes, DialogTypes, PollTypes, CommandTypes
<1>2. CallsHaveMounts' /\ IntervalIsHeld'
  BY DEF CallsHaveMounts, IntervalIsHeld
<1>3. RunningIsWatched' /\ LastIsShown'
  BY DEF RunningIsWatched, LastIsShown, Running, InFlight, Outstanding
<1> QED
  BY <1>1, <1>2, <1>3

\* Every step of the page, the dialog, the calls and the commands keeps IInv.
LEMMA StepInductive == IInv /\ [Next]_vars => IInv'
<1> SUFFICES ASSUME IInv, [Next]_vars PROVE IInv'
  OBVIOUS
<1>1. CASE Refresh \/ Act \/ ActionDone \/ ActionFails
  BY <1>1, RefreshInductive, ActInductive, ActionDoneInductive, ActionFailsInductive
<1>2. CASE Leave \/ Open \/ Close
  BY <1>2, LeaveInductive, OpenInductive, CloseInductive
<1>3. CASE \E ok \in BOOLEAN : LoadEnds(ok)
  BY <1>3, LoadEndsInductive
<1>4. CASE CheckUpdates \/ ApplyUpdates \/ Reboot
  <2>1. ~Running
    BY <1>4 DEF CheckUpdates, ApplyUpdates, Reboot, CheckOffered, ApplyOffered,
                RebootOffered, Running
  <2>2. \/ Press("check", "checking")
        \/ Press("apply", "applying")
    BY <1>4 DEF CheckUpdates, ApplyUpdates, Reboot
  <2> QED
    BY <2>1, <2>2, PressInductive
<1>5. ASSUME NEW c \in Command,
             Create(c) \/ Settle(c) \/ CommandEnds(c)
      PROVE  IInv'
  BY <1>5, CreateInductive, CallFailsInductive, RespondInductive,
     CommandEndsInductive DEF Settle
<1>6. ASSUME NEW c \in Command, Tick(c) \/ Answer(c) \/ PollPasses(c)
      PROVE  IInv'
  BY <1>6, TickInductive, AnswerInductive, PollPassesInductive
<1>7. CASE UNCHANGED vars
  BY <1>7, StutterInductive
<1> QED
  BY <1>1, <1>2, <1>3, <1>4, <1>5, <1>6, <1>7 DEF Next

\* The inductive invariant holds in every reachable state: every running stage is
\* watched, and every interval is in the pollRef of its mount.
THEOREM Invariance == Spec => []IInv
BY InitInvariant, StepInductive, PTL DEF Spec

\* The dialog has at most one command in flight, unless a late poll, a lost
\* answer or a load of the page excuses it.
THEOREM AtMostOneCommand == Spec => []OneAtATime
<1>1. IInv => OneAtATime
  BY DEF IInv, LastIsShown, OneAtATime
<1> QED
  BY <1>1, Invariance, PTL

\* While the dialog shows a command as running, a call or an interval that will
\* end this is under way.
THEOREM RunningWatched == Spec => []RunningIsWatched
<1>1. IInv => RunningIsWatched
  BY DEF IInv
<1> QED
  BY <1>1, Invariance, PTL

-----------------------------------------------------------------------------
(* The promise.  Most steps leave every command out, or in, as it is:      *)
(* these can only hide one, or lose track of it.  A press sends one, and   *)
(* a failed or late call or the end of a command brings one back.          *)

\* What is out is what is in flight.
LEMMA OutIsInFlight == Errands!Out = {c \in Command : InFlight(c)}
BY DEF Errands!Out, OnErrand

\* The dialog starts with no command out, opened or found after an update.
LEMMA PromiseInit == Init => Errands!Init
BY DEF Init, Opened, Updated, Errands!Init, OnErrand, ShownRunning, InFlight, Outstanding,
   Running

\* The commands stay as they are: what is shown may be hidden, if a dialog that
\* hides it has lost track of what is out.
LEMMA KeptHides ==
  ASSUME \A c \in Command : /\ InFlight(c)' <=> InFlight(c)
                            /\ call'[c] = "none" <=> call[c] = "none",
         page' = "left" <=> page = "left",
         excused \subseteq excused',
         ShownRunning' => ShownRunning,
         ShownRunning /\ ~ShownRunning' /\ excused' = {} => \A c \in Command : ~InFlight(c)
  PROVE  [Errands!Next]_(Errands!vars)
<1>1. OnErrand' = OnErrand
  <2>1. OnErrand' = [c \in Command |-> IF InFlight(c)' THEN "out"
                                       ELSE IF call'[c] = "none" THEN "none" ELSE "back"]
    BY DEF OnErrand
  <2> QED
    BY <2>1, Zenon DEF OnErrand
<1>2. (page = "left")' = (page = "left")
  OBVIOUS
<1>3. CASE excused = {} /\ excused' # {}
  <2>1. Errands!LoseTrack
    BY <1>1, <1>2, <1>3 DEF Errands!LoseTrack
  <2> QED
    BY <2>1 DEF Errands!Next
<1>4. CASE (excused # {} \/ excused' = {}) /\ ShownRunning /\ ~ShownRunning'
  <2>1. excused # {} \/ Errands!Out = {}
    BY <1>4, OutIsInFlight
  <2>2. Errands!Hide
    BY <1>1, <1>2, <1>4, <2>1 DEF Errands!Hide, Errands!Lax
  <2> QED
    BY <2>2 DEF Errands!Next
<1>5. CASE (excused # {} \/ excused' = {}) /\ (ShownRunning <=> ShownRunning')
  <2>1. ShownRunning' = ShownRunning
    BY <1>5 DEF ShownRunning
  <2>2. (excused # {})' = (excused # {})
    BY <1>5
  <2> QED
    BY <1>1, <1>2, <2>1, <2>2 DEF Errands!vars
<1> QED
  BY <1>3, <1>4, <1>5

\* Command c was out and is in; the others stay as they are.
LEMMA BackReturns ==
  ASSUME NEW c \in Command, InFlight(c), ~InFlight(c)', call'[c] # "none",
         \A d \in Command \ {c} : /\ InFlight(d)' <=> InFlight(d)
                                  /\ call'[d] = "none" <=> call[d] = "none",
         page' = page,
         excused \subseteq excused',
         ShownRunning' => ShownRunning
  PROVE  Errands!Return(c)
<1>1. OnErrand' = [d \in Command |-> IF d = c THEN "back" ELSE OnErrand[d]]
  <2>1. OnErrand' = [d \in Command |-> IF InFlight(d)' THEN "out"
                                       ELSE IF call'[d] = "none" THEN "none" ELSE "back"]
    BY DEF OnErrand
  <2>2. \A d \in Command :
          (IF InFlight(d)' THEN "out" ELSE IF call'[d] = "none" THEN "none" ELSE "back")
            = (IF d = c THEN "back" ELSE OnErrand[d])
    BY DEF OnErrand
  <2> QED
    BY <2>1, <2>2, Zenon
<1>2. OnErrand' = [OnErrand EXCEPT ![c] = "back"] /\ OnErrand[c] = "out"
  BY <1>1 DEF OnErrand
<1>3. (excused # {}) => (excused # {})'
  OBVIOUS
<1> QED
  BY <1>2, <1>3 DEF Errands!Return

\* The page and what it does to the dialog.
LEMMA PageStep ==
  ASSUME IInv,
         \/ Refresh \/ Act \/ ActionDone \/ ActionFails \/ Open \/ Close
         \/ \E ok \in BOOLEAN : LoadEnds(ok)
  PROVE  [Errands!Next]_(Errands!vars)
<1> USE DEF pageVars, dialogVars, commandVars
<1>1. \A c \in Command : (InFlight(c)' <=> InFlight(c)) /\ call'[c] = call[c]
  BY DEF Refresh, Act, ActionDone, ActionFails, BeginLoad, Open, Close, LoadEnds,
     InFlight, Outstanding
<1>2. (page' = "left" <=> page = "left") /\ excused \subseteq excused'
  BY DEF Refresh, Act, ActionDone, ActionFails, BeginLoad, Open, Close, LoadEnds
<1>3. ShownRunning' => ShownRunning
  BY DEF Refresh, Act, ActionDone, ActionFails, BeginLoad, Open, Close, LoadEnds,
     ShownRunning, Running
<1>4. ASSUME ShownRunning, ~ShownRunning', excused' = {}
      PROVE  \A c \in Command : ~InFlight(c)
  <2>1. page = "ready" /\ Running /\ open
    BY <1>4 DEF ShownRunning, IInv, LastIsShown
  <2>2. Refresh \/ ActionDone
    BY <1>4, <2>1 DEF Act, ActionFails, Open, Close, LoadEnds, ShownRunning, Running
  <2>3. BeginLoad
    BY <2>2 DEF Refresh, ActionDone
  <2> QED
    BY <1>4, <2>1, <2>3 DEF BeginLoad
<1> QED
  BY <1>1, <1>2, <1>3, <1>4, KeptHides

\* The user leaves, with or without a command that is out.
LEMMA LeaveStep == ASSUME Leave PROVE Errands!Leave
<1>1. OnErrand' = OnErrand
  BY DEF Leave, commandVars, OnErrand, InFlight, Outstanding
<1> QED
  BY <1>1 DEF Leave, Errands!Leave, ShownRunning

\* A button sends the next command, with none out that the dialog knows of.
LEMMA PressSends ==
  ASSUME IInv, NEW kind \in {"check", "apply"},
         NEW running \in {"checking", "applying"}, ~Running, Press(kind, running)
  PROVE  \E c \in Command : Errands!Send(c)
<1> USE DEF Press, pageVars
<1>1. PICK c : c = issued'
  OBVIOUS
<1>2. /\ c \in Command /\ call[c] = "none" /\ status[c] = "none"
      /\ \A d \in Command : call'[d] = IF d = c THEN "sent" ELSE call[d]
      /\ status' = status
  <2>1. c = issued + 1 /\ c \in Command /\ ~(c <= issued)
    BY <1>1, BoundsAssumption DEF IInv, TypeOK, CommandTypes, Command
  <2>2. call[c] = "none" /\ status[c] = "none"
    BY <2>1 DEF IInv, CallsHaveMounts
  <2> QED
    BY <1>1, <2>1, <2>2 DEF IInv, TypeOK, CommandTypes
<1>3. OnErrand' = [d \in Command |-> IF d = c THEN "out" ELSE OnErrand[d]]
  <2>1. OnErrand' = [d \in Command |-> IF InFlight(d)' THEN "out"
                                       ELSE IF call'[d] = "none" THEN "none" ELSE "back"]
    BY DEF OnErrand
  <2>2. \A d \in Command :
          (IF InFlight(d)' THEN "out" ELSE IF call'[d] = "none" THEN "none" ELSE "back")
            = (IF d = c THEN "out" ELSE OnErrand[d])
    BY <1>2 DEF OnErrand, InFlight, Outstanding
  <2> QED
    BY <2>1, <2>2, Zenon
<1>4. OnErrand' = [OnErrand EXCEPT ![c] = "out"] /\ OnErrand[c] = "none"
  BY <1>2, <1>3 DEF OnErrand, InFlight, Outstanding
<1>5. excused # {} \/ Errands!Out = {}
  BY OutIsInFlight DEF IInv, LastIsShown
<1>6. ShownRunning'
  BY DEF ShownRunning, Running
<1>7. Errands!Send(c)
  BY <1>4, <1>5, <1>6 DEF Errands!Send, Errands!Lax
<1> QED
  BY <1>2, <1>7

\* A call that returns brings its command back when that is over, or never was;
\* if it fails and the command goes on, the dialog has lost track of it.
LEMMA SettleStep ==
  ASSUME IInv, NEW c \in Command, Settle(c)
  PROVE  [Errands!Next]_(Errands!vars)
<1> USE DEF Settle, CallFails, Respond, pageVars, dialogVars
<1>1. /\ Outstanding(c) /\ status' = status /\ page' = page /\ excused \subseteq excused'
      /\ \A d \in Command : call'[d] = IF d = c THEN "closed" ELSE call[d]
  BY DEF Outstanding, IInv, TypeOK, CommandTypes
<1>2. \A d \in Command \ {c} : /\ InFlight(d)' <=> InFlight(d)
                               /\ call'[d] = "none" <=> call[d] = "none"
  BY <1>1 DEF InFlight, Outstanding
<1>3. ShownRunning' => ShownRunning
  BY DEF ShownRunning, Running
<1>4. CASE status[c] # "running"
  <2>1. InFlight(c) /\ ~InFlight(c)' /\ call'[c] # "none"
    BY <1>1, <1>4 DEF InFlight, Outstanding
  <2>2. Errands!Return(c)
    BY <1>1, <1>2, <1>3, <2>1, BackReturns
  <2> QED
    BY <2>2 DEF Errands!Next
<1>5. CASE status[c] = "running"
  <2>1. (InFlight(c)' <=> InFlight(c)) /\ (call'[c] = "none" <=> call[c] = "none")
    BY <1>1, <1>5 DEF InFlight, Outstanding
  <2>2. call[c] = "created"
    BY <1>1, <1>5 DEF Outstanding, IInv, CallsHaveMounts
  <2>3. ShownRunning /\ ~ShownRunning' => excused' # {}
    BY <2>2 DEF ShownRunning, Running
  <2> QED
    BY <1>1, <1>2, <1>3, <2>1, <2>3, KeptHides
<1> QED
  BY <1>4, <1>5

\* The backend creates the command, or it is over.
LEMMA CommandStep ==
  ASSUME IInv, NEW c \in Command, Create(c) \/ CommandEnds(c)
  PROVE  [Errands!Next]_(Errands!vars)
<1> USE DEF Create, CommandEnds, pageVars, dialogVars
<1>1. /\ page' = page /\ stage' = stage /\ excused' = excused
      /\ \A d \in Command \ {c} : call'[d] = call[d] /\ status'[d] = status[d]
      /\ call[c] # "none" /\ call'[c] # "none"
  BY DEF IInv, TypeOK, CommandTypes, CallsHaveMounts
<1>2. \A d \in Command \ {c} : /\ InFlight(d)' <=> InFlight(d)
                               /\ call'[d] = "none" <=> call[d] = "none"
  BY <1>1 DEF InFlight, Outstanding
<1>3. ShownRunning' <=> ShownRunning
  BY <1>1 DEF ShownRunning, Running
<1>4. InFlight(c)
  BY DEF InFlight, Outstanding
<1>5. CASE InFlight(c)'
  BY <1>1, <1>2, <1>3, <1>4, <1>5, KeptHides
<1>6. CASE ~InFlight(c)'
  <2>1. Errands!Return(c)
    BY <1>1, <1>2, <1>3, <1>4, <1>6, BackReturns
  <2> QED
    BY <2>1 DEF Errands!Next
<1> QED
  BY <1>5, <1>6

\* Polls and their answers leave the commands alone.  An answer that ends what is
\* shown is that of the command shown, or comes late.
LEMMA PollStep ==
  ASSUME IInv, NEW c \in Command, Tick(c) \/ Answer(c) \/ PollPasses(c)
  PROVE  [Errands!Next]_(Errands!vars)
<1> USE DEF Tick, Answer, PollPasses, pageVars, dialogVars, commandVars
<1>1. /\ page' = page /\ excused \subseteq excused'
      /\ \A d \in Command : (InFlight(d)' <=> InFlight(d)) /\ call'[d] = call[d]
  BY DEF InFlight, Outstanding
<1>2. ShownRunning' => ShownRunning
  BY DEF ShownRunning, Running
<1>3. ASSUME ShownRunning, ~ShownRunning', excused' = {}
      PROVE  \A d \in Command : ~InFlight(d)
  <2>1. Answer(c) /\ Shown(by[c]) /\ Running /\ page = "ready"
    BY <1>3 DEF ShownRunning, Running
  <2>2. pollRef[by[c]] = c /\ excused = {}
    BY <1>3, <2>1
  <2>3. by[c] \in Mount /\ c # None
    BY <2>1 DEF IInv, TypeOK, PollTypes, CommandTypes, DialogTypes, CallsHaveMounts, Mount,
       Shown, Command, None
  <2>4. c \in live /\ call[c] = "closed" /\ status[c] # "running"
    BY <2>1, <2>2, <2>3 DEF Over, IInv, IntervalIsHeld, CallsHaveMounts
  <2>5. c = issued /\ ~InFlight(c)
    BY <2>1, <2>2, <2>4 DEF IInv, LastIsShown, Shown, InFlight, Outstanding
  <2> QED
    BY <2>2, <2>5 DEF IInv, LastIsShown
<1> QED
  BY <1>1, <1>2, <1>3, KeptHides

\* Every step keeps the promise.
LEMMA PromiseStep == IInv /\ [Next]_vars => [Errands!Next]_(Errands!vars)
<1> SUFFICES ASSUME IInv, [Next]_vars PROVE [Errands!Next]_(Errands!vars)
  OBVIOUS
<1>1. CASE \/ Refresh \/ Act \/ ActionDone \/ ActionFails \/ Open \/ Close
           \/ \E ok \in BOOLEAN : LoadEnds(ok)
  BY <1>1, PageStep
<1>2. CASE Leave
  BY <1>2, LeaveStep DEF Errands!Next
<1>3. CASE CheckUpdates \/ ApplyUpdates \/ Reboot
  <2>1. ~Running
    BY <1>3 DEF CheckUpdates, ApplyUpdates, Reboot, CheckOffered, ApplyOffered,
                RebootOffered, Running
  <2>2. Press("check", "checking") \/ Press("apply", "applying")
    BY <1>3 DEF CheckUpdates, ApplyUpdates, Reboot
  <2>3. \E c \in Command : Errands!Send(c)
    BY <2>1, <2>2, PressSends
  <2> QED
    BY <2>3 DEF Errands!Next
<1>4. ASSUME NEW c \in Command, Create(c) \/ Settle(c) \/ CommandEnds(c)
      PROVE  [Errands!Next]_(Errands!vars)
  BY <1>4, SettleStep, CommandStep
<1>5. ASSUME NEW c \in Command, Tick(c) \/ Answer(c) \/ PollPasses(c)
      PROVE  [Errands!Next]_(Errands!vars)
  BY <1>5, PollStep
<1>6. CASE UNCHANGED vars
  <2>1. \A c \in Command : (InFlight(c)' <=> InFlight(c)) /\ call'[c] = call[c]
    BY <1>6 DEF vars, commandVars, InFlight, Outstanding
  <2>2. page' = page /\ excused' = excused /\ (ShownRunning' <=> ShownRunning)
    BY <1>6 DEF vars, pageVars, dialogVars, ShownRunning, Running
  <2> QED
    BY <2>1, <2>2, KeptHides
<1> QED
  BY <1>1, <1>2, <1>3, <1>4, <1>5, <1>6 DEF Next

\* The dialog keeps its promise: each command goes out and comes back once, and,
\* unless a late poll, a lost answer or a load of the page excuses it, the next one
\* goes out when none is out and what is out is shown until the user leaves.
THEOREM ErrandKept == Spec => ErrandPromise
<1>1. IInv /\ [Next]_vars => [Errands!Next]_(Errands!vars)
  BY PromiseStep
<1> QED
  BY <1>1, PromiseInit, Invariance, PTL DEF Spec, ErrandPromise, Errands!Spec

-----------------------------------------------------------------------------
(* Liveness, under the fairness of the module and nothing else.            *)

Polled(c) == c \in live
Asked(c) == polls[c] > 0

\* A command that is over stays over.
LEMMA CommandsGoForward ==
  ASSUME IInv, NEW c \in Command, [Next]_vars, Over(c)
  PROVE  Over(c)'
<1> USE DEF IInv, TypeOK, CommandTypes, Over
<1>1. CASE \E d \in Command : Create(d)
  BY <1>1 DEF Create, CallsHaveMounts
<1>2. CASE \E d \in Command : CommandEnds(d)
  BY <1>2 DEF CommandEnds
<1>3. CASE status' = status
  BY <1>3
<1>4. \/ \E d \in Command : Create(d) \/ CommandEnds(d)
      \/ status' = status
  BY DEF Next, Refresh, Act, ActionDone, ActionFails, BeginLoad, Leave, Open, Close,
     LoadEnds, CheckUpdates, ApplyUpdates, Reboot, Press, Settle, CallFails, Respond,
     Tick, Answer, PollPasses, vars, commandVars
<1> QED
  BY <1>1, <1>2, <1>3, <1>4

\* The interval's next poll is out, and the answer that follows the end of the
\* command clears the interval: IntervalIsHeld says that pollRef holds it.
LEMMA IntervalsGoForward ==
  ASSUME IInv, NEW c \in Command
  PROVE  /\ <<Tick(c)>>_vars => Asked(c)'
         /\ <<Answer(c)>>_vars => ~Polled(c)'
<1> USE DEF IInv, TypeOK, PollTypes, CommandTypes
<1>1. ASSUME Tick(c) PROVE Asked(c)'
  BY <1>1, BoundsAssumption DEF Tick, Asked
<1>2. ASSUME Answer(c) PROVE ~Polled(c)'
  <2>1. by[c] \in Mount \cup {None} /\ by' = by
    BY <1>2 DEF Answer, commandVars
  <2>2. StopPolling(by[c])
    BY <1>2 DEF Answer
  <2>3. live' \subseteq live /\ (by[c] # None => \A d \in live' : by[d] # by[c])
    BY <2>1, <2>2, StopPollingHolds
  <2>4. CASE by[c] = None
    <3>1. c \notin live
      BY <2>4 DEF IntervalIsHeld, Mount, None
    <3> QED
      BY <2>3, <3>1 DEF Polled
  <2>5. CASE by[c] # None
    BY <2>3, <2>5 DEF Polled
  <2> QED
    BY <2>4, <2>5
<1> QED
  BY <1>1, <1>2

\* The interval of command c is cleared once the command is over: the interval asks
\* again and again, and one of the answers clears it.
LEMMA IntervalEnds ==
  ASSUME NEW c \in Command
  PROVE  []IInv /\ [][Next]_vars /\ IntervalRuns(c) => Cleared(c)
<1>1. IInv /\ [Next]_vars /\ Over(c) => Over(c)'
  BY CommandsGoForward
<1>2. IInv /\ <<Tick(c)>>_vars => Asked(c)'
  BY IntervalsGoForward
<1>3. IInv /\ <<Answer(c)>>_vars => ~Polled(c)'
  BY IntervalsGoForward
<1>4. IInv => (Unasked(c) <=> Polled(c) /\ ~Asked(c))
  BY BoundsAssumption DEF IInv, TypeOK, PollTypes, Polled, Asked, Unasked
<1>5. Answerable(c) <=> Asked(c) /\ Over(c)
  BY DEF Asked, Answerable
<1>6. (Polled(c) <=> c \in live) /\ (~Polled(c) <=> c \notin live)
  BY DEF Polled
<1> QED
  BY <1>1, <1>2, <1>3, <1>4, <1>5, <1>6, PTL DEF IntervalRuns, Cleared

\* Every interval is cleared once its command is over, those of dialogs long gone
\* included, for any number of commands: no interval waits for another.
THEOREM IntervalsEnd == FairSpec => EveryIntervalEnds
<1> SUFFICES ASSUME NEW c \in Command
             PROVE  FairSpec => Cleared(c)
  BY DEF EveryIntervalEnds
<1>1. FairSpec => Spec /\ IntervalRuns(c)
  BY DEF FairSpec, Fairness
<1> QED
  BY <1>1, IntervalEnds, Invariance, PTL DEF Spec

-----------------------------------------------------------------------------
(* Only the node keeps the dialog from being closed, as long as no excuse  *)
(* occurs: then what it shows is always the last command.  With            *)
(* excuses several calls of one mount may be out, each taking the interval *)
(* over from the one before; that this happens only finitely often needs   *)
(* an induction over the commands, and stays with TLC.                     *)

Watches(c) == ShownRunning /\ c = issued /\ by[c] = mount
Calling(c) == Watches(c) /\ Outstanding(c)
Following(c) == Watches(c) /\ Polled(c)
Calm == excused = {}

\* Without an excuse there is one watcher, the last command.
LEMMA LastWatches ==
  ASSUME IInv, Calm, ShownRunning
  PROVE  \E c \in Command : Calling(c) \/ Following(c)
<1>1. PICK c \in Command : by[c] = mount /\ (Outstanding(c) \/ c \in live)
  BY DEF IInv, RunningIsWatched, ShownRunning
<1>2. c = issued
  BY <1>1 DEF IInv, LastIsShown, Calm, ShownRunning, InFlight
<1> QED
  BY <1>1, <1>2 DEF Calling, Following, Watches, Polled

\* While the dialog shows a command as running no button can be pressed, so the
\* watcher stays; and a call that has returned does not come back.
LEMMA WatcherStays ==
  ASSUME IInv, IInv', Calm, Calm', NEW c \in Command, [Next]_vars, ShownRunning'
  PROVE  /\ Calling(c) => Calling(c)' \/ Following(c)'
         /\ Following(c) => Following(c)'
         /\ Calling(c) /\ Settle(c) => Following(c)'
<1> SUFFICES ASSUME Calling(c) \/ Following(c)
             PROVE  /\ Calling(c)' \/ Following(c)'
                    /\ Following(c) \/ Settle(c) => ~Outstanding(c)'
  BY DEF Calling, Following
<1> USE DEF ShownRunning, Outstanding
<1>1. ShownRunning /\ c = issued /\ (c \in live => call[c] = "closed")
  BY DEF Calling, Following, Watches, IInv, CallsHaveMounts
<1>2. ~CheckUpdates /\ ~ApplyUpdates /\ ~Reboot
  BY <1>1 DEF Running, CheckUpdates, CheckOffered, ApplyUpdates, ApplyOffered,
     Reboot, RebootOffered
<1>3. /\ issued' = issued
      /\ Following(c) => call'[c] = "closed"
  <2>1. \/ call' = call /\ issued' = issued
        \/ \E d \in Command : Create(d) \/ Settle(d)
    BY <1>2, Zenon DEF Next, Refresh, Act, ActionDone, ActionFails, BeginLoad, Leave, Open, Close,
       LoadEnds, CommandEnds, Tick, Answer, PollPasses, vars, commandVars
  <2>2. CASE call' = call /\ issued' = issued
    BY <1>1, <2>2 DEF Following, Polled
  <2>3. ASSUME NEW d \in Command, Create(d) \/ Settle(d)
        PROVE  issued' = issued /\ (Following(c) => call'[c] = "closed")
    BY <1>1, <2>3 DEF Following, Polled, Create, Settle, CallFails, Respond,
       IInv, TypeOK, CommandTypes
  <2> QED
    BY <2>1, <2>2, <2>3
<1>4. Settle(c) => call'[c] = "closed"
  BY DEF Settle, CallFails, Respond, IInv, TypeOK, CommandTypes
<1>5. PICK d \in Command : by'[d] = mount' /\ (Outstanding(d)' \/ d \in live')
  BY DEF IInv, RunningIsWatched
<1>6. d = issued'
  BY <1>5 DEF IInv, LastIsShown, Calm, InFlight
<1>7. Calling(c)' \/ Following(c)'
  BY <1>1, <1>3, <1>5, <1>6 DEF Calling, Following, Watches, Polled
<1> QED
  BY <1>3, <1>4, <1>7

\* The part of FairSpec that holds from every state on.
Going ==
  []IInv /\ [][Next]_vars /\ []Calm /\ []Fairness

\* The last command's call returns, and then its interval ends or waits for the node.
LEMMA WatcherEnds ==
  ASSUME NEW c \in Command
  PROVE  Going => (Calling(c) \/ Following(c) => <>(~ShownRunning \/ WaitsForNode))
<1>1. IInv /\ IInv' /\ Calm /\ Calm' /\ [Next]_vars /\ Calling(c)
        => Calling(c)' \/ Following(c)' \/ ~ShownRunning'
  BY WatcherStays
<1>2. IInv /\ IInv' /\ Calm /\ Calm' /\ [Next]_vars /\ Following(c)
        => Following(c)' \/ ~ShownRunning'
  BY WatcherStays
<1>3. IInv /\ IInv' /\ Calm /\ Calm' /\ [Next]_vars /\ Calling(c) /\ <<Settle(c)>>_vars
        => Following(c)' \/ ~ShownRunning'
  BY WatcherStays
<1>4. Calling(c) => Outstanding(c)
  BY DEF Calling
<1>5. Following(c) => c \in live
  BY DEF Following, Polled
<1>6. Following(c) /\ ~Over(c) => WaitsForNode
  BY DEF Following, Polled, Watches, WaitsForNode
<1>7. Fairness => CallReturns(c) /\ IntervalRuns(c)
  BY DEF Fairness
<1>8. ~(c \in live /\ c \notin live)
  OBVIOUS
<1> QED
  BY <1>1, <1>2, <1>3, <1>4, <1>5, <1>6, <1>7, <1>8, IntervalEnds, PTL
  DEF Going, CallReturns, Cleared

\* Unless an excuse occurs, the dialog shows a command as running for no longer than
\* it waits for one that is not over.
THEOREM CalmRunningEnds ==
  Spec /\ []Fairness /\ [](excused = {}) => RunningEnds
<1>1. Going => ((\E c \in Command : Calling(c) \/ Following(c))
                   => <>(~ShownRunning \/ WaitsForNode))
  BY WatcherEnds
<1>2. IInv /\ Calm /\ ShownRunning => \E c \in Command : Calling(c) \/ Following(c)
  BY LastWatches
<1>3. excused = {} => Calm
  BY DEF Calm
<1> QED
  BY <1>1, <1>2, <1>3, Invariance, PTL DEF Going, Spec, RunningEnds
=============================================================================
