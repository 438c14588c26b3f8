------------------------------ MODULE ImagePull ------------------------------
(***************************************************************************)
(* Pulling container images: the PullTracker of the backend                *)
(* (services/docker/pull_tracker.py and its endpoints), the image step of  *)
(* ProviderWizardDialog.tsx, which lets a setup begin once the chosen      *)
(* image is there.  Others ask for pulls too; the form of ImagesPage.tsx   *)
(* follows them as the wizard does.                                        *)
(*                                                                         *)
(* A pull is asked for with POST /images/pull, answered with the pull that *)
(* is under way for the image, if there is one, and followed over an       *)
(* EventSource.  Requests are numbered in the order they are made; a pull  *)
(* has the number of the request that started it.                          *)
(*                                                                         *)
(* The backend runs as several worker processes (settings.py and           *)
(* __main__.py: one for each core, up to four), and each of them has a     *)
(* pull_tracker of its own.  A request goes to whichever worker takes it;  *)
(* nothing keeps a browser with one.  Docker, and so the set of images, is *)
(* shared.                                                                 *)
(*                                                                         *)
(* Progress figures are left out.  A subscriber looks at its pull at least *)
(* once a second, so that the event which wakes it sooner is left out too. *)
(***************************************************************************)
EXTENDS Naturals

CONSTANTS
  Image,         \* images, with their tags
  Local,         \* those that are there at first
  NoImage,       \* no image is chosen, or the node pulls it itself
  NumRequests,   \* how often a pull is asked for
  Worker         \* the worker processes of the backend

ASSUME PullAssumption ==
  NumRequests \in Nat /\ Local \subseteq Image /\ NoImage \notin Image /\ 0 \notin Worker

Request == 1..NumRequests
None == 0                      \* no pull, no worker

VARIABLES
  present,       \* the images Docker has
  asked,         \* how many requests were made
  image,         \* [request -> its image]
  post,          \* [request -> "none", "sent", "served", "ended"]
  pull,          \* [request -> the pull it is answered with]
  state,         \* [pull -> its state]
  home,          \* [pull -> the worker that has it in _jobs]
  active,        \* [worker -> [image -> its pull in _active]]
  watched,       \* the pull the wizard's EventSource follows
  source,        \* where its event stream is
  open, onStep,  \* the wizard, and whether it shows the image step
  choice,        \* the chosen image
  status,        \* imageStatus
  check,         \* where GET /images/check is
  saw, found,    \* what it saw: whether the image is there, the pull under way
  crossed        \* "pulled" came from another image (ghost)

requestVars == <<asked, image, post, pull>>
trackerVars == <<present, state, home, active>>
sourceVars == <<watched, source>>
checkVars == <<check, saw, found>>
dialogVars == <<open, onStep, choice>>
vars == <<requestVars, trackerVars, sourceVars, checkVars, dialogVars, status, crossed>>

RequestTypes ==
  /\ asked \in 0..NumRequests
  /\ image \in [Request -> Image \cup {NoImage}]
  /\ post \in [Request -> {"none", "sent", "served", "ended"}]
  /\ pull \in [Request -> Request \cup {None}]
TrackerTypes ==
  /\ present \subseteq Image
  /\ state \in [Request -> {"none", "pulling", "complete", "failed"}]
  /\ home \in [Request -> Worker \cup {None}]
  /\ active \in [Worker -> [Image -> Request \cup {None}]]
SourceTypes ==
  /\ watched \in Request \cup {None}
  /\ source \in {"closed", "asked", "open", "complete", "error"}
CheckTypes ==
  /\ check \in {"none", "asked", "listed", "told"}
  /\ saw \in BOOLEAN /\ found \in Request \cup {None}
DialogTypes ==
  /\ open \in BOOLEAN /\ onStep \in BOOLEAN /\ choice \in Image \cup {NoImage}
  /\ status \in {"idle", "checking", "available", "missing", "pulling", "pulled", "error"}
  /\ crossed \in BOOLEAN

TypeOK == RequestTypes /\ TrackerTypes /\ SourceTypes /\ CheckTypes /\ DialogTypes

Init ==
  /\ present = Local
  /\ asked = 0
  /\ image = [r \in Request |-> NoImage]
  /\ post = [r \in Request |-> "none"] /\ pull = [r \in Request |-> None]
  /\ state = [r \in Request |-> "none"]
  /\ home = [r \in Request |-> None]
  /\ active = [w \in Worker |-> [i \in Image |-> None]]
  /\ watched = None /\ source = "closed"
  /\ open = FALSE /\ onStep = FALSE /\ choice = NoImage /\ status = "idle"
  /\ check = "none" /\ saw = FALSE /\ found = None
  /\ crossed = FALSE

-----------------------------------------------------------------------------
(* The image step of the wizard.                                           *)

\* Variant: the answer of a check counts for the choice it finds.
LookUncancelled(i) ==
  /\ choice' = i
  /\ status' = IF i = NoImage THEN "idle" ELSE "checking"
  /\ check' = IF i = NoImage THEN "none" ELSE IF check # "none" THEN check ELSE "asked"
  /\ saw' = (saw /\ i # NoImage) /\ found' = IF i = NoImage THEN None ELSE found
  /\ crossed' = FALSE

\* The effect that runs when the step is shown or the choice changes: a check
\* that was under way is forgotten, the EventSource is not.
Look(i) ==
  /\ choice' = i
  /\ status' = IF i = NoImage THEN "idle" ELSE "checking"
  /\ check' = IF i = NoImage THEN "none" ELSE "asked"
  /\ saw' = FALSE /\ found' = None /\ crossed' = FALSE

\* The EventSource is closed.
Hang == watched' = None /\ source' = "closed"

Open ==
  /\ ~open /\ open' = TRUE
  /\ UNCHANGED <<requestVars, trackerVars, sourceVars, checkVars, onStep, choice,
                 status, crossed>>

\* Everything is reset and the EventSource closed.
Close ==
  /\ open /\ open' = FALSE /\ onStep' = FALSE
  /\ choice' = NoImage /\ status' = "idle" /\ crossed' = FALSE
  /\ check' = "none" /\ saw' = FALSE /\ found' = None
  /\ Hang
  /\ UNCHANGED <<requestVars, trackerVars>>

ShowStep ==
  /\ open /\ ~onStep /\ onStep' = TRUE
  /\ Look(choice)
  /\ UNCHANGED <<requestVars, trackerVars, sourceVars, open>>

\* Back: the check is forgotten and the status stays as it is.
LeaveStep ==
  /\ open /\ onStep /\ onStep' = FALSE
  /\ check' = "none" /\ saw' = FALSE /\ found' = None
  /\ UNCHANGED <<requestVars, trackerVars, sourceVars, open, choice, status, crossed>>

\* The user, or the hardware report that arrives, changes the choice.
Choose(i) ==
  /\ open /\ onStep /\ i # choice
  /\ Look(i)
  /\ UNCHANGED <<requestVars, trackerVars, sourceVars, open, onStep>>

\* On the first step another node is chosen.
ChooseNode ==
  /\ open /\ ~onStep
  /\ choice' = NoImage /\ status' = "idle" /\ crossed' = FALSE
  /\ UNCHANGED <<requestVars, trackerVars, sourceVars, checkVars, open, onStep>>

\* get_active_for(): the image is being pulled, as far as worker w knows.
UnderWay(w, i) ==
  active[w][i] # None /\ home[active[w][i]] = w /\ state[active[w][i]] = "pulling"

\* check_image() lists the images, and asks the tracker afterwards.
CheckLists ==
  /\ check = "asked"
  /\ check' = "listed" /\ saw' = (choice \in present)
  /\ UNCHANGED <<requestVars, trackerVars, sourceVars, found, dialogVars, status, crossed>>

CheckAsksTracker ==
  /\ check = "listed"
  /\ check' = "told"
  /\ \E w \in Worker : found' = IF UnderWay(w, choice) THEN active[w][choice] ELSE None
  /\ UNCHANGED <<requestVars, trackerVars, sourceVars, saw, dialogVars, status, crossed>>

\* subscribeToPull(): an EventSource takes the place of the one before.
Subscribe(p) == watched' = p /\ source' = "asked" /\ status' = "pulling"

CheckAnswered ==
  /\ check = "told"
  /\ check' = "none" /\ saw' = FALSE /\ found' = None /\ crossed' = FALSE
  /\ \/ /\ found # None
        /\ Subscribe(found)
     \/ /\ found = None
        /\ status' = IF saw THEN "available" ELSE "missing"
        /\ UNCHANGED sourceVars
  /\ UNCHANGED <<requestVars, trackerVars, dialogVars>>

CheckFails ==
  /\ check # "none"
  /\ check' = "none" /\ saw' = FALSE /\ found' = None
  /\ status' = "idle" /\ crossed' = FALSE
  /\ UNCHANGED <<requestVars, trackerVars, sourceVars, dialogVars>>

-----------------------------------------------------------------------------
(* Asking for a pull.                                                      *)

\* start_pull() begins a pull for request r in worker w.
StartPull(r, w, i) ==
  /\ state' = [state EXCEPT ![r] = "pulling"]
  /\ home' = [home EXCEPT ![r] = w]
  /\ active' = [active EXCEPT ![w][i] = r]

Ask(i) ==
  /\ asked < NumRequests /\ asked' = asked + 1
  /\ image' = [image EXCEPT ![asked'] = i]

\* handlePullImage(): the button stays until the answer comes.
PressPull ==
  /\ open /\ onStep /\ status \in {"missing", "error"} /\ choice # NoImage
  /\ Ask(choice)
  /\ post' = [post EXCEPT ![asked'] = "sent"]
  /\ UNCHANGED <<pull, trackerVars, sourceVars, checkVars, dialogVars, status, crossed>>

\* Variant: every request starts a pull.
ServeAnew(r, w) ==
  /\ post[r] = "sent"
  /\ post' = [post EXCEPT ![r] = "served"]
  /\ pull' = [pull EXCEPT ![r] = r]
  /\ StartPull(r, w, image[r])
  /\ UNCHANGED <<asked, image, present, sourceVars, checkVars, dialogVars, status, crossed>>

\* start_pull() in worker w: the pull that is under way there, or a new one.
Serve(r, w) ==
  /\ post[r] = "sent"
  /\ post' = [post EXCEPT ![r] = "served"]
  /\ \/ /\ UnderWay(w, image[r])
        /\ pull' = [pull EXCEPT ![r] = active[w][image[r]]]
        /\ UNCHANGED <<state, home, active>>
     \/ /\ ~UnderWay(w, image[r])
        /\ pull' = [pull EXCEPT ![r] = r]
        /\ StartPull(r, w, image[r])
  /\ UNCHANGED <<asked, image, present, sourceVars, checkVars, dialogVars, status, crossed>>

\* The form of the images page, or another administrator's wizard, starts a pull.
OthersPull(w, i) ==
  /\ ~UnderWay(w, i)
  /\ Ask(i)
  /\ post' = [post EXCEPT ![asked'] = "ended"]
  /\ StartPull(asked', w, i)
  /\ UNCHANGED <<pull, present, sourceVars, checkVars, dialogVars, status, crossed>>

\* The answer: the wizard follows the pull, whatever it shows by now.
Answered(r) ==
  /\ post[r] = "served"
  /\ post' = [post EXCEPT ![r] = "ended"] /\ pull' = [pull EXCEPT ![r] = None]
  /\ Subscribe(pull[r]) /\ crossed' = FALSE
  /\ UNCHANGED <<asked, image, trackerVars, checkVars, dialogVars>>

\* The request or its answer is lost.
AskFails(r) ==
  /\ post[r] \in {"sent", "served"}
  /\ post' = [post EXCEPT ![r] = "ended"] /\ pull' = [pull EXCEPT ![r] = None]
  /\ status' = "error" /\ crossed' = FALSE
  /\ UNCHANGED <<asked, image, trackerVars, sourceVars, checkVars, dialogVars>>

-----------------------------------------------------------------------------
(* The tracker.                                                            *)

\* _run_pull() comes to its end.
PullEnds(p) ==
  /\ state[p] = "pulling"
  /\ \/ /\ state' = [state EXCEPT ![p] = "complete"]
        /\ present' = present \cup {image[p]}
     \/ /\ state' = [state EXCEPT ![p] = "failed"]
        /\ UNCHANGED present
  /\ UNCHANGED <<requestVars, home, active, sourceVars, checkVars, dialogVars, status, crossed>>

\* Variant: whatever pull _active holds for the image is removed.
CleanupAny(p) ==
  /\ home[p] # None /\ state[p] # "pulling"
  /\ home' = [home EXCEPT ![p] = None]
  /\ active' = [active EXCEPT ![home[p]][image[p]] = None]
  /\ UNCHANGED <<requestVars, present, state, sourceVars, checkVars, dialogVars, status, crossed>>

\* _cleanup_after(), five minutes later.  By then _active may be another pull's.
Cleanup(p) ==
  /\ home[p] # None /\ state[p] # "pulling"
  /\ home' = [home EXCEPT ![p] = None]
  /\ active' = IF active[home[p]][image[p]] = p
                THEN [active EXCEPT ![home[p]][image[p]] = None] ELSE active
  /\ UNCHANGED <<requestVars, present, state, sourceVars, checkVars, dialogVars, status, crossed>>

\* pull_progress() in the worker that takes the request: a pull of another worker,
\* or one that is not tracked any more, is an error.
Find ==
  /\ source = "asked"
  /\ \E w \in Worker : source' = IF home[watched] = w THEN "open" ELSE "error"
  /\ UNCHANGED <<requestVars, trackerVars, watched, checkVars, dialogVars, status, crossed>>

\* Variant: only a pull that is complete is reported.
ReportComplete ==
  /\ source = "open" /\ state[watched] = "complete"
  /\ source' = "complete"
  /\ UNCHANGED <<requestVars, trackerVars, watched, checkVars, dialogVars, status, crossed>>

\* subscribe() looks at the pull and sends its outcome.
Report ==
  /\ source = "open" /\ state[watched] \in {"complete", "failed"}
  /\ source' = IF state[watched] = "complete" THEN "complete" ELSE "error"
  /\ UNCHANGED <<requestVars, trackerVars, watched, checkVars, dialogVars, status, crossed>>

\* The EventSource brings the outcome and is closed.
Complete ==
  /\ source = "complete"
  /\ status' = "pulled" /\ crossed' = (image[watched] # choice)
  /\ Hang
  /\ UNCHANGED <<requestVars, trackerVars, checkVars, dialogVars>>

\* An error: the step shows it, whichever image it is about.
ShowError ==
  /\ status' = "error" /\ crossed' = FALSE
  /\ Hang
  /\ UNCHANGED <<requestVars, trackerVars, checkVars, dialogVars>>

Fail == source = "error" /\ ShowError

LoseConnection == source # "closed" /\ ShowError

\* A worker restarts: its tracker forgets, Docker gives up what it pulled, and a
\* stream it had open breaks.  (One that is asked for may break too:
\* LoseConnection.)  When the backend restarts, every worker does.
Restart(w) ==
  /\ home' = [p \in Request |-> IF home[p] = w THEN None ELSE home[p]]
  /\ active' = [active EXCEPT ![w] = [i \in Image |-> None]]
  /\ state' = [p \in Request |-> IF state[p] = "pulling" /\ home[p] = w
                                 THEN "failed" ELSE state[p]]
  /\ source' = IF source = "open" /\ home[watched] = w THEN "error" ELSE source
  /\ UNCHANGED <<requestVars, present, watched, checkVars, dialogVars, status, crossed>>

-----------------------------------------------------------------------------
Wizard ==
  \/ Open \/ Close \/ ShowStep \/ LeaveStep \/ ChooseNode
  \/ \E i \in Image \cup {NoImage} : Choose(i)
  \/ CheckLists \/ CheckAsksTracker \/ CheckAnswered \/ CheckFails

Stream == Find \/ Report \/ Complete \/ Fail

Next ==
  \/ Wizard \/ PressPull
  \/ \E w \in Worker : Restart(w) \/ \E i \in Image : OthersPull(w, i)
  \/ \E r \in Request, w \in Worker : Serve(r, w)
  \/ \E r \in Request : Answered(r) \/ AskFails(r) \/ PullEnds(r) \/ Cleanup(r)
  \/ Stream \/ LoseConnection

Spec == Init /\ [][Next]_vars

\* A request for the event stream is served, a subscriber looks again within a
\* second, and the browser handles what it receives.
FairSpec == Spec /\ WF_vars(Stream)

-----------------------------------------------------------------------------
(* The inductive invariant.                                                *)

Known(p) == state[p] # "none"

Requests ==
  \A r \in Request :
    /\ r > asked <=> post[r] = "none"
    /\ post[r] # "none" => image[r] \in Image
    /\ post[r] \in {"none", "sent"} => ~Known(r)
    /\ post[r] = "served" => /\ pull[r] \in Request /\ Known(pull[r])
                            /\ image[pull[r]] = image[r]

Tracker ==
  /\ \A p \in Request :
       /\ home[p] # None => Known(p)
       /\ state[p] = "pulling" => home[p] # None /\ active[home[p]][image[p]] = p
       /\ state[p] = "complete" => image[p] \in present
  /\ \A w \in Worker, i \in Image :
       active[w][i] # None =>
         image[active[w][i]] = i /\ home[active[w][i]] = w

Source ==
  /\ source = "closed" <=> watched = None
  /\ watched # None => Known(watched)
  /\ source = "complete" => state[watched] = "complete"

Check ==
  /\ check # "none" => onStep /\ choice # NoImage
  /\ check = "none" => ~saw /\ found = None
  /\ saw => choice \in present
  /\ found # None => Known(found) /\ image[found] = choice

\* A wizard that shows a pull follows one, and one that shows a check makes one.
Shown ==
  /\ status = "pulling" => source # "closed"
  /\ status = "checking" /\ onStep => check # "none"
  /\ status = "available" /\ choice # NoImage => choice \in present
  /\ status = "pulled" /\ ~crossed /\ choice # NoImage => choice \in present

IInv == TypeOK /\ Requests /\ Tracker /\ Source /\ Check /\ Shown

-----------------------------------------------------------------------------
(* Properties.                                                             *)

Ready == status \in {"available", "pulled"}

\* The docstring of the tracker: "concurrent pulls of the same image reuse the
\* same task".  That is so within a worker; what it promises there is PullDesk.
Pulling ==
  [w \in Worker |->
    [i \in Image |-> {p \in Request : state[p] = "pulling" /\ home[p] = w /\ image[p] = i}]]
Ended == {p \in Request : state[p] \in {"complete", "failed"}}

Desk == INSTANCE PullDesk WITH Pull <- Request, pulling <- Pulling, ended <- Ended

\* Requests, cleanups five minutes later and restarts of workers keep the promise:
\* no worker pulls an image twice at a time, no pull begins again, no image comes
\* without one.
PullPromise == Desk!Spec

\* One pull of an image at a time in a worker, in the trackers' own terms.  Without
\* "home[p] = home[q]" the code does not keep it: README, section 10.
OnePullPerImage ==
  \A p, q \in Request :
    state[p] = "pulling" /\ state[q] = "pulling" /\ image[p] = image[q]
      /\ home[p] = home[q] => p = q

\* What the docstring says, of the backend as a whole.  The code does not keep it.
OnePullAtAll ==
  \A p, q \in Request :
    state[p] = "pulling" /\ state[q] = "pulling" /\ image[p] = image[q] => p = q

\* A wizard that lets the setup begin has the chosen image, but for a "pulled"
\* that came from the pull of another one.
ReadyMeansPresent == Ready /\ ~crossed /\ choice # NoImage => choice \in present

\* What the wizard says it needs: "Local: image must be available locally."
\* The code does not keep it: README, section 10.
ImageIsLocal == onStep /\ Ready /\ choice # NoImage => choice \in present

\* A pull that has ended is not followed for ever.
OutcomeIsHeard ==
  \A p \in Request : watched = p /\ state[p] # "pulling" ~> watched # p
=============================================================================
