--------------------------- MODULE ImagePullProofs ---------------------------
(***************************************************************************)
(* Proofs about ImagePull, for any images and any number of requests and   *)
(* of workers.                                                             *)
(*                                                                         *)
(* IInv is inductive as it stands in ImagePull.  OnePullPerImage follows   *)
(* from Tracker: the _active of a worker holds every pull that is under    *)
(* way there, and has one entry for an image.  ReadyMeansPresent is part   *)
(* of Shown; that needs to know what a check saw (Check), which pull an    *)
(* EventSource follows (Source) and that a complete pull has brought its   *)
(* image (Tracker).                                                        *)
(*                                                                         *)
(* The last part shows that the pulls keep the promise of PullDesk: what   *)
(* StartPull begins is new and alone in its worker, what ends was the pull *)
(* of its image there, and a restart of a worker gives all of its pulls    *)
(* up.                                                                     *)
(***************************************************************************)
EXTENDS ImagePull, TLAPS

\* What an assignment to the entry of an image in the _active of a worker changes.
LEMMA EntryChanges ==
  ASSUME NEW S, NEW f \in [Worker -> [Image -> S]],
         NEW w \in Worker, NEW i \in Image, NEW x \in S, NEW g,
         g = [f EXCEPT ![w][i] = x]
  PROVE  /\ g \in [Worker -> [Image -> S]]
         /\ \A v \in Worker, j \in Image :
              g[v][j] = IF v = w /\ j = i THEN x ELSE f[v][j]
<1>1. g = [f EXCEPT ![w] = [f[w] EXCEPT ![i] = x]]
  OBVIOUS
<1>2. [f[w] EXCEPT ![i] = x] \in [Image -> S]
  OBVIOUS
<1>3. g \in [Worker -> [Image -> S]]
  BY <1>1, <1>2
<1>4. g[w] = [f[w] EXCEPT ![i] = x] /\ \A v \in Worker : v # w => g[v] = f[v]
  BY <1>1
<1>5. \A j \in Image : [f[w] EXCEPT ![i] = x][j] = IF j = i THEN x ELSE f[w][j]
  OBVIOUS
<1> QED
  BY <1>3, <1>4, <1>5

\* No request was made when the page is opened.
LEMMA InitInvariant == Init => IInv
<1> SUFFICES ASSUME Init PROVE IInv
  OBVIOUS
<1> USE PullAssumption DEF Init, None
<1>1. TypeOK
  <2>1. RequestTypes
    BY DEF RequestTypes
  <2>2. TrackerTypes
    BY DEF TrackerTypes
  <2>3. SourceTypes /\ CheckTypes /\ DialogTypes
    BY DEF SourceTypes, CheckTypes, DialogTypes
  <2> QED
    BY <2>1, <2>2, <2>3 DEF TypeOK
<1>2. Requests /\ Tracker
  BY DEF Requests, Tracker, Known, Request
<1>3. Source /\ Check /\ Shown
  BY DEF Source, Check, Shown
<1> QED
  BY <1>1, <1>2, <1>3 DEF IInv

\* Opening the wizard changes nothing it shows.
LEMMA OpenInductive == ASSUME IInv, Open PROVE IInv'
<1> USE PullAssumption DEF IInv, Open, None, Known, Request,
        TypeOK, RequestTypes, TrackerTypes, SourceTypes, CheckTypes, DialogTypes,
        requestVars, trackerVars, sourceVars, checkVars, dialogVars
<1>1. TypeOK'
  BY DEF Source
<1>2. Requests' /\ Tracker'
  BY DEF Requests, Tracker
<1>3. Source'
  BY DEF Source, Check
<1>4. Check'
  BY DEF Check
<1>5. Shown'
  BY DEF Shown, Check
<1> QED
  BY <1>1, <1>2, <1>3, <1>4, <1>5

\* Closing it resets what it shows and hangs up.
LEMMA CloseInductive == ASSUME IInv, Close PROVE IInv'
<1> USE PullAssumption DEF IInv, Close, Hang, None, Known, Request,
        TypeOK, RequestTypes, TrackerTypes, SourceTypes, CheckTypes, DialogTypes,
        requestVars, trackerVars, sourceVars, checkVars, dialogVars
<1>1. TypeOK'
  BY DEF Source
<1>2. Requests' /\ Tracker'
  BY DEF Requests, Tracker
<1>3. Source'
  BY DEF Source, Check
<1>4. Check'
  BY DEF Check
<1>5. Shown'
  BY DEF Shown, Check
<1> QED
  BY <1>1, <1>2, <1>3, <1>4, <1>5

\* The image step begins with a check of the choice.
LEMMA ShowStepInductive == ASSUME IInv, ShowStep PROVE IInv'
<1> USE PullAssumption DEF IInv, ShowStep, Look, None, Known, Request,
        TypeOK, RequestTypes, TrackerTypes, SourceTypes, CheckTypes, DialogTypes,
        requestVars, trackerVars, sourceVars, checkVars, dialogVars
<1>1. TypeOK'
  BY DEF Source
<1>2. Requests' /\ Tracker'
  BY DEF Requests, Tracker
<1>3. Source'
  BY DEF Source, Check
<1>4. Check'
  BY DEF Check
<1>5. Shown'
  BY DEF Shown, Check
<1> QED
  BY <1>1, <1>2, <1>3, <1>4, <1>5

\* Going back forgets the check; what is shown stays true of the choice.
LEMMA LeaveStepInductive == ASSUME IInv, LeaveStep PROVE IInv'
<1> USE PullAssumption DEF IInv, LeaveStep, None, Known, Request,
        TypeOK, RequestTypes, TrackerTypes, SourceTypes, CheckTypes, DialogTypes,
        requestVars, trackerVars, sourceVars, checkVars, dialogVars
<1>1. TypeOK'
  BY DEF Source
<1>2. Requests' /\ Tracker'
  BY DEF Requests, Tracker
<1>3. Source'
  BY DEF Source, Check
<1>4. Check'
  BY DEF Check
<1>5. Shown'
  BY DEF Shown, Check
<1> QED
  BY <1>1, <1>2, <1>3, <1>4, <1>5

\* A new choice begins a new check.
LEMMA ChooseInductive == ASSUME IInv, NEW i \in Image \cup {NoImage}, Choose(i) PROVE IInv'
<1> USE PullAssumption DEF IInv, Choose, Look, None, Known, Request,
        TypeOK, RequestTypes, TrackerTypes, SourceTypes, CheckTypes, DialogTypes,
        requestVars, trackerVars, sourceVars, checkVars, dialogVars
<1>1. TypeOK'
  BY DEF Source
<1>2. Requests' /\ Tracker'
  BY DEF Requests, Tracker
<1>3. Source'
  BY DEF Source, Check
<1>4. Check'
  BY DEF Check
<1>5. Shown'
  BY DEF Shown, Check
<1> QED
  BY <1>1, <1>2, <1>3, <1>4, <1>5

\* Another node resets the choice; no check is under way on the first step.
LEMMA ChooseNodeInductive == ASSUME IInv, ChooseNode PROVE IInv'
<1> USE PullAssumption DEF IInv, ChooseNode, None, Known, Request,
        TypeOK, RequestTypes, TrackerTypes, SourceTypes, CheckTypes, DialogTypes,
        requestVars, trackerVars, sourceVars, checkVars, dialogVars
<1>1. TypeOK'
  BY DEF Source
<1>2. Requests' /\ Tracker'
  BY DEF Requests, Tracker
<1>3. Source'
  BY DEF Source, Check
<1>4. Check'
  BY DEF Check
<1>5. Shown'
  BY DEF Shown, Check
<1> QED
  BY <1>1, <1>2, <1>3, <1>4, <1>5

\* The check sees whether the choice is there.
LEMMA CheckListsInductive == ASSUME IInv, CheckLists PROVE IInv'
<1> USE PullAssumption DEF IInv, CheckLists, None, Known, Request,
        TypeOK, RequestTypes, TrackerTypes, SourceTypes, CheckTypes, DialogTypes,
        requestVars, trackerVars, sourceVars, checkVars, dialogVars
<1>1. TypeOK'
  BY DEF Source
<1>2. Requests' /\ Tracker'
  BY DEF Requests, Tracker
<1>3. Source'
  BY DEF Source, Check
<1>4. Check'
  BY DEF Check
<1>5. Shown'
  BY DEF Shown, Check
<1> QED
  BY <1>1, <1>2, <1>3, <1>4, <1>5

\* The check finds the pull of the choice.
LEMMA CheckAsksTrackerInductive == ASSUME IInv, CheckAsksTracker PROVE IInv'
<1> USE PullAssumption DEF IInv, CheckAsksTracker, UnderWay, None, Known, Request,
        TypeOK, RequestTypes, TrackerTypes, SourceTypes, CheckTypes, DialogTypes,
        requestVars, trackerVars, sourceVars, checkVars, dialogVars
<1>1. TypeOK'
  <2>1. \A w \in Worker : active[w][choice] # None => active[w][choice] \in Request
    BY DEF Check
  <2>2. found' \in Request \cup {None}
    BY <2>1
  <2> HIDE DEF CheckAsksTracker
  <2> QED
    BY <2>2 DEF CheckAsksTracker
<1>2. Requests' /\ Tracker'
  BY DEF Requests, Tracker
<1>3. Source'
  BY DEF Source, Check
<1>4. Check'
  <2> PICK w \in Worker :
        found' = IF UnderWay(w, choice) THEN active[w][choice] ELSE None
    OBVIOUS
  <2>1. CASE UnderWay(w, choice)
    <3>1. choice \in Image /\ active[w][choice] \in Request
      BY <2>1 DEF Check
    <3> QED
      BY <2>1, <3>1 DEF Check, Tracker
  <2>2. CASE ~UnderWay(w, choice)
    BY <2>2 DEF Check
  <2> QED
    BY <2>1, <2>2
<1>5. Shown'
  BY DEF Shown, Check
<1> QED
  BY <1>1, <1>2, <1>3, <1>4, <1>5

\* The answer shows what the check saw, or follows the pull it found.
LEMMA CheckAnsweredInductive == ASSUME IInv, CheckAnswered PROVE IInv'
<1> USE PullAssumption DEF IInv, CheckAnswered, Subscribe, None, Known, Request,
        TypeOK, RequestTypes, TrackerTypes, SourceTypes, CheckTypes, DialogTypes,
        requestVars, trackerVars, sourceVars, checkVars, dialogVars
<1>1. TypeOK'
  BY DEF Source
<1>2. Requests' /\ Tracker'
  BY DEF Requests, Tracker
<1>3. Source'
  BY DEF Source, Check
<1>4. Check'
  BY DEF Check
<1>5. Shown'
  BY DEF Shown, Check
<1> QED
  BY <1>1, <1>2, <1>3, <1>4, <1>5

\* A check that fails shows nothing.
LEMMA CheckFailsInductive == ASSUME IInv, CheckFails PROVE IInv'
<1> USE PullAssumption DEF IInv, CheckFails, None, Known, Request,
        TypeOK, RequestTypes, TrackerTypes, SourceTypes, CheckTypes, DialogTypes,
        requestVars, trackerVars, sourceVars, checkVars, dialogVars
<1>1. TypeOK'
  BY DEF Source
<1>2. Requests' /\ Tracker'
  BY DEF Requests, Tracker
<1>3. Source'
  BY DEF Source, Check
<1>4. Check'
  BY DEF Check
<1>5. Shown'
  BY DEF Shown, Check
<1> QED
  BY <1>1, <1>2, <1>3, <1>4, <1>5

\* A request of the wizard is for an image.
LEMMA PressPullInductive == ASSUME IInv, PressPull PROVE IInv'
<1> USE PullAssumption DEF IInv, PressPull, Ask, None, Known, Request,
        TypeOK, RequestTypes, TrackerTypes, SourceTypes, CheckTypes, DialogTypes,
        requestVars, trackerVars, sourceVars, checkVars, dialogVars
<1>1. TypeOK'
  BY DEF Requests
<1>2. Requests'
  BY DEF Requests, Tracker
<1>3. Tracker'
  BY DEF Requests, Tracker
<1>4. Source' /\ Check'
  BY DEF Source, Check, Requests
<1>5. Shown'
  BY DEF Shown, Requests
<1> QED
  BY <1>1, <1>2, <1>3, <1>4, <1>5

\* start_pull() answers with the pull under way, or the only one of the image.
LEMMA ServeInductive ==
  ASSUME IInv, NEW r \in Request, NEW w \in Worker, Serve(r, w) PROVE IInv'
<1> USE PullAssumption DEF IInv, Serve, UnderWay, StartPull, None, Known, Request,
        TypeOK, RequestTypes, TrackerTypes, SourceTypes, CheckTypes, DialogTypes,
        requestVars, trackerVars, sourceVars, checkVars, dialogVars
<1>1. TypeOK'
  <2>1. image[r] \in Image
    BY DEF Requests, Tracker
  <2>2. RequestTypes'
    BY <2>1
  <2>3. state' \in [Request -> {"none", "pulling", "complete", "failed"}]
    BY <2>1
  <2>4. active' \in [Worker -> [Image -> Request \cup {None}]]
    <3>1. CASE UNCHANGED active
      BY <3>1
    <3>2. CASE active' = [active EXCEPT ![w][image[r]] = r]
      BY <2>1, <3>2, EntryChanges
    <3> QED
      BY <3>1, <3>2
  <2>5. home' \in [Request -> Worker \cup {None}]
    BY <2>1
  <2>6. SourceTypes' /\ CheckTypes' /\ DialogTypes'
    OBVIOUS
  <2> QED
    BY <2>2, <2>3, <2>4, <2>5, <2>6
<1>2. Requests'
  BY DEF Requests, Tracker
<1>3. Tracker'
  <2>1. image[r] \in Image /\ ~Known(r) /\ image' = image /\ present' = present
    BY DEF Requests
  <2>2. CASE UNCHANGED <<state, home, active>>
    BY <2>1, <2>2 DEF Tracker
  <2>3. CASE ~UnderWay(w, image[r]) /\ StartPull(r, w, image[r])
    <3>1. \A v \in Worker, j \in Image :
            active'[v][j] = IF v = w /\ j = image[r] THEN r ELSE active[v][j]
      BY <2>1, <2>3, EntryChanges
    <3>2. \A p \in Request : /\ state'[p] = IF p = r THEN "pulling" ELSE state[p]
                             /\ home'[p] = IF p = r THEN w ELSE home[p]
      BY <2>3
    <3> HIDE DEF Serve, StartPull
    <3> QED
      <4>1. \A p \in Request : state'[p] = "pulling" =>
              home'[p] # None /\ active'[home'[p]][image[p]] = p
        <5> SUFFICES ASSUME NEW p \in Request, p # r, state[p] = "pulling"
                     PROVE  home[p] # None /\ active'[home[p]][image[p]] = p
          BY <2>1, <3>1, <3>2
        <5>1. /\ home[p] \in Worker /\ image[p] \in Image
              /\ active[home[p]][image[p]] = p
          BY DEF Tracker, Requests
        <5>2. ~(home[p] = w /\ image[p] = image[r])
          BY <2>3, <5>1
        <5> QED
          BY <3>1, <5>1, <5>2
      <4>2. \A v \in Worker, j \in Image : active'[v][j] # None =>
              image[active'[v][j]] = j /\ home'[active'[v][j]] = v
        BY <2>1, <3>1, <3>2 DEF Tracker
      <4>3. \A p \in Request : /\ home'[p] # None => state'[p] # "none"
                               /\ state'[p] = "complete" => image[p] \in present
        BY <2>1, <3>2 DEF Tracker
      <4> HIDE DEF TypeOK
      <4> QED
        BY <2>1, <4>1, <4>2, <4>3 DEF Tracker
  <2> QED
    BY <2>2, <2>3
<1>4. Source' /\ Check'
  BY DEF Source, Check, Requests
<1>5. Shown'
  BY DEF Shown, Requests
<1> QED
  BY <1>1, <1>2, <1>3, <1>4, <1>5

\* The same for the pulls of others.
LEMMA OthersPullInductive ==
  ASSUME IInv, NEW w \in Worker, NEW i \in Image, OthersPull(w, i) PROVE IInv'
<1> USE PullAssumption DEF IInv, OthersPull, UnderWay, Ask, StartPull, None, Known, Request,
        TypeOK, RequestTypes, TrackerTypes, SourceTypes, CheckTypes, DialogTypes,
        requestVars, trackerVars, sourceVars, checkVars, dialogVars
<1>1. TypeOK'
  BY DEF Requests
<1>2. Requests'
  BY DEF Requests, Tracker
<1>3. Tracker'
  BY DEF Requests, Tracker
<1>4. Source' /\ Check'
  BY DEF Source, Check, Requests
<1>5. Shown'
  BY DEF Shown, Requests
<1> QED
  BY <1>1, <1>2, <1>3, <1>4, <1>5

\* The wizard follows a pull that was started.
LEMMA AnsweredInductive == ASSUME IInv, NEW r \in Request, Answered(r) PROVE IInv'
<1> USE PullAssumption DEF IInv, Answered, Subscribe, None, Known, Request,
        TypeOK, RequestTypes, TrackerTypes, SourceTypes, CheckTypes, DialogTypes,
        requestVars, trackerVars, sourceVars, checkVars, dialogVars
<1>1. TypeOK'
  BY DEF Requests
<1>2. Requests'
  BY DEF Requests, Tracker
<1>3. Tracker'
  BY DEF Requests, Tracker
<1>4. Source' /\ Check'
  BY DEF Source, Check, Requests
<1>5. Shown'
  BY DEF Shown, Requests
<1> QED
  BY <1>1, <1>2, <1>3, <1>4, <1>5

\* A request that fails leaves its pull to itself.
LEMMA AskFailsInductive == ASSUME IInv, NEW r \in Request, AskFails(r) PROVE IInv'
<1> USE PullAssumption DEF IInv, AskFails, None, Known, Request,
        TypeOK, RequestTypes, TrackerTypes, SourceTypes, CheckTypes, DialogTypes,
        requestVars, trackerVars, sourceVars, checkVars, dialogVars
<1>1. TypeOK'
  BY ZenonT(30) DEF Requests
<1>2. Requests'
  BY DEF Requests, Tracker
<1>3. Tracker'
  BY DEF Requests, Tracker
<1>4. Source' /\ Check'
  BY DEF Source, Check, Requests
<1>5. Shown'
  BY DEF Shown, Requests
<1> QED
  BY <1>1, <1>2, <1>3, <1>4, <1>5

\* A pull that completes has brought its image.
LEMMA PullEndsInductive == ASSUME IInv, NEW p \in Request, PullEnds(p) PROVE IInv'
<1> USE PullAssumption DEF IInv, PullEnds, None, Known, Request,
        TypeOK, RequestTypes, TrackerTypes, SourceTypes, CheckTypes, DialogTypes,
        requestVars, trackerVars, sourceVars, checkVars, dialogVars
<1>1. TypeOK'
  <2>1. image[p] \in Image
    BY DEF Requests
  <2>2. TrackerTypes'
    BY <2>1
  <2> QED
    BY <2>2
<1>2. Requests'
  BY DEF Requests, Tracker
<1>3. Tracker'
  BY DEF Requests, Tracker
<1>4. Source' /\ Check'
  BY DEF Source, Check, Requests
<1>5. Shown'
  BY DEF Shown, Requests
<1> QED
  BY <1>1, <1>2, <1>3, <1>4, <1>5

\* What is cleaned up is not being pulled, and _active keeps a pull that is.
LEMMA CleanupInductive == ASSUME IInv, NEW p \in Request, Cleanup(p) PROVE IInv'
<1> USE PullAssumption DEF IInv, Cleanup, None, Known, Request,
        TypeOK, RequestTypes, TrackerTypes, SourceTypes, CheckTypes, DialogTypes,
        requestVars, trackerVars, sourceVars, checkVars, dialogVars
<1>1. TypeOK'
  <2>1. image[p] \in Image
    BY DEF Requests, Tracker
  <2>2. RequestTypes'
    BY <2>1
  <2>3. state' \in [Request -> {"none", "pulling", "complete", "failed"}]
    BY <2>1
  <2>4. active' \in [Worker -> [Image -> Request \cup {None}]]
    BY <2>1
  <2>5. home' \in [Request -> Worker \cup {None}]
    BY <2>1
  <2>6. SourceTypes' /\ CheckTypes' /\ DialogTypes'
    OBVIOUS
  <2> QED
    BY <2>2, <2>3, <2>4, <2>5, <2>6
<1>2. Requests'
  BY DEF Requests, Tracker
<1>3. Tracker'
  BY DEF Requests, Tracker
<1>4. Source' /\ Check'
  BY DEF Source, Check, Requests
<1>5. Shown'
  BY DEF Shown, Requests
<1> QED
  BY <1>1, <1>2, <1>3, <1>4, <1>5

\* The event stream is opened.
LEMMA FindInductive == ASSUME IInv, Find PROVE IInv'
<1> USE PullAssumption DEF IInv, Find, None, Known, Request,
        TypeOK, RequestTypes, TrackerTypes, SourceTypes, CheckTypes, DialogTypes,
        requestVars, trackerVars, sourceVars, checkVars, dialogVars
<1>1. TypeOK'
  BY DEF Source
<1>2. Requests' /\ Tracker'
  BY DEF Requests, Tracker
<1>3. Source'
  BY DEF Source, Check
<1>4. Check'
  BY DEF Check
<1>5. Shown'
  BY DEF Shown, Check
<1> QED
  BY <1>1, <1>2, <1>3, <1>4, <1>5

\* The outcome that is sent is that of the pull.
LEMMA ReportInductive == ASSUME IInv, Report PROVE IInv'
<1> USE PullAssumption DEF IInv, Report, None, Known, Request,
        TypeOK, RequestTypes, TrackerTypes, SourceTypes, CheckTypes, DialogTypes,
        requestVars, trackerVars, sourceVars, checkVars, dialogVars
<1>1. TypeOK'
  BY DEF Source
<1>2. Requests' /\ Tracker'
  BY DEF Requests, Tracker
<1>3. Source'
  BY DEF Source, Check
<1>4. Check'
  BY DEF Check
<1>5. Shown'
  BY DEF Shown, Check
<1> QED
  BY <1>1, <1>2, <1>3, <1>4, <1>5

\* "pulled" means that the image of the pull is there.
LEMMA CompleteInductive == ASSUME IInv, Complete PROVE IInv'
<1> USE PullAssumption DEF IInv, Complete, Hang, None, Known, Request,
        TypeOK, RequestTypes, TrackerTypes, SourceTypes, CheckTypes, DialogTypes,
        requestVars, trackerVars, sourceVars, checkVars, dialogVars
<1>1. TypeOK'
  BY DEF Source
<1>2. Requests' /\ Tracker'
  BY DEF Requests, Tracker
<1>3. Source'
  BY DEF Source, Check
<1>4. Check'
  BY DEF Check
<1>5. Shown'
  <2>1. watched \in Request /\ state[watched] = "complete"
    BY DEF Source
  <2>2. image[watched] \in present
    BY <2>1 DEF Tracker
  <2> QED
    BY <2>2 DEF Shown
<1> QED
  BY <1>1, <1>2, <1>3, <1>4, <1>5

\* An error hangs up.
LEMMA ShowErrorInductive == ASSUME IInv, ShowError PROVE IInv'
<1> USE PullAssumption DEF IInv, ShowError, Hang, None, Known, Request,
        TypeOK, RequestTypes, TrackerTypes, SourceTypes, CheckTypes, DialogTypes,
        requestVars, trackerVars, sourceVars, checkVars, dialogVars
<1>1. TypeOK'
  BY DEF Source
<1>2. Requests' /\ Tracker'
  BY DEF Requests, Tracker
<1>3. Source'
  BY DEF Source, Check
<1>4. Check'
  BY DEF Check
<1>5. Shown'
  BY DEF Shown, Check
<1> QED
  BY <1>1, <1>2, <1>3, <1>4, <1>5

\* After a restart of a worker it pulls nothing, and the others what they pulled.
LEMMA RestartInductive == ASSUME IInv, NEW w \in Worker, Restart(w) PROVE IInv'
<1> USE PullAssumption DEF IInv, Restart, None, Known, Request,
        TypeOK, RequestTypes, TrackerTypes, SourceTypes, CheckTypes, DialogTypes,
        requestVars, trackerVars, sourceVars, checkVars, dialogVars
<1>1. TypeOK'
  BY DEF Requests
<1>2. Requests'
  BY DEF Requests, Tracker
<1>3. Tracker'
  BY DEF Requests, Tracker
<1>4. Source' /\ Check'
  BY DEF Source, Check, Requests
<1>5. Shown'
  BY DEF Shown, Requests
<1> QED
  BY <1>1, <1>2, <1>3, <1>4, <1>5

\* A step of nothing.
LEMMA StutterInductive == IInv /\ UNCHANGED vars => IInv'
<1> SUFFICES ASSUME IInv, UNCHANGED vars PROVE IInv'
  OBVIOUS
<1> USE DEF IInv, vars, requestVars, trackerVars, sourceVars, checkVars, dialogVars
<1>1. TypeOK'
  BY DEF TypeOK, RequestTypes, TrackerTypes, SourceTypes, CheckTypes, DialogTypes
<1>2. Requests' /\ Tracker'
  BY DEF Requests, Tracker, Known
<1>3. Source' /\ Check' /\ Shown'
  BY DEF Source, Check, Shown, Known
<1> QED
  BY <1>1, <1>2, <1>3

\* Every step of the wizard, of the tracker and of the stream keeps IInv.
LEMMA StepInductive == IInv /\ [Next]_vars => IInv'
<1> SUFFICES ASSUME IInv, [Next]_vars PROVE IInv'
  OBVIOUS
<1>1. CASE Wizard
  <2>1. CASE Open \/ Close \/ ShowStep \/ LeaveStep \/ ChooseNode
    BY <2>1, OpenInductive, CloseInductive, ShowStepInductive, LeaveStepInductive,
       ChooseNodeInductive
  <2>2. CASE \E i \in Image \cup {NoImage} : Choose(i)
    BY <2>2, ChooseInductive
  <2>3. CASE CheckLists \/ CheckAsksTracker \/ CheckAnswered \/ CheckFails
    BY <2>3, CheckListsInductive, CheckAsksTrackerInductive, CheckAnsweredInductive,
       CheckFailsInductive
  <2> QED
    BY <1>1, <2>1, <2>2, <2>3 DEF Wizard
<1>2. CASE PressPull
  BY <1>2, PressPullInductive
<1>3. ASSUME NEW w \in Worker, Restart(w) \/ \E i \in Image : OthersPull(w, i)
      PROVE  IInv'
  BY <1>3, RestartInductive, OthersPullInductive
<1>4. ASSUME NEW r \in Request,
             \/ \E w \in Worker : Serve(r, w)
             \/ Answered(r) \/ AskFails(r) \/ PullEnds(r) \/ Cleanup(r)
      PROVE  IInv'
  BY <1>4, ServeInductive, AnsweredInductive, AskFailsInductive, PullEndsInductive,
     CleanupInductive
<1>5. CASE Stream \/ LoseConnection
  BY <1>5, FindInductive, ReportInductive, CompleteInductive, ShowErrorInductive
     DEF Stream, Fail, LoseConnection
<1>6. CASE UNCHANGED vars
  BY <1>6, StutterInductive
<1> QED
  BY <1>1, <1>2, <1>3, <1>4, <1>5, <1>6 DEF Next

\* The inductive invariant holds in every reachable state: the wizard that shows a
\* pull follows one, and one that shows a check makes one.
THEOREM Invariance == Spec => []IInv
BY InitInvariant, StepInductive, PTL DEF Spec

\* start_pull() and the cleanup after a pull never let a worker pull an image twice
\* at a time.
THEOREM PulledOnceAtATime == Spec => []OnePullPerImage
<1>1. IInv => OnePullPerImage
  BY DEF IInv, Tracker, OnePullPerImage
<1> QED
  BY <1>1, Invariance, PTL

\* The wizard lets a setup begin only with an image that is there, or after the
\* pull of another image.
THEOREM ReadyIsPresent == Spec => []ReadyMeansPresent
<1>1. IInv => ReadyMeansPresent
  BY DEF IInv, Shown, Ready, ReadyMeansPresent
<1> QED
  BY <1>1, Invariance, PTL
-----------------------------------------------------------------------------
(* The refinement of PullDesk.                                             *)

\* The pages and their streams do not touch the pulls that were begun.
Untouched ==
  /\ present' = present /\ state' = state /\ home' = home
  /\ \A p \in Request : Known(p) => image'[p] = image[p]

LEMMA UntouchedStutters == ASSUME Untouched PROVE UNCHANGED Desk!vars
<1>1. Pulling' = Pulling
  BY DEF Untouched, Pulling, Known
<1>2. Ended' = Ended
  BY DEF Untouched, Ended
<1> QED
  BY <1>1, <1>2 DEF Untouched, Desk!vars

\* What the browser does leaves the pulls alone.
LEMMA WizardUntouched == ASSUME Wizard \/ Stream \/ LoseConnection PROVE Untouched
BY DEF Untouched, Wizard, Stream, LoseConnection, Open, Close, ShowStep, LeaveStep,
       ChooseNode, Choose, CheckLists, CheckAsksTracker, CheckAnswered, CheckFails,
       Find, Report, Complete, Fail, ShowError, requestVars, trackerVars

\* A new request has no pull yet.
LEMMA AskUntouched ==
  ASSUME IInv, NEW i \in Image, Ask(i), state' = state, home' = home, present' = present
  PROVE  Untouched
<1>1. asked' \in Request /\ post[asked'] = "none"
  BY PullAssumption DEF Ask, IInv, TypeOK, RequestTypes, Requests, Request
<1>2. ~Known(asked')
  BY <1>1 DEF IInv, Requests
<1> QED
  BY <1>1, <1>2 DEF Untouched, Ask, IInv, TypeOK, RequestTypes

\* A request that is served with the pull under way and a lost answer change no pull
\* either.
LEMMA RequestUntouched ==
  ASSUME IInv, NEW r \in Request,
         \/ \E w \in Worker : Serve(r, w) /\ UNCHANGED state
         \/ Answered(r) \/ AskFails(r)
  PROVE  Untouched
<1>1. CASE \E w \in Worker : Serve(r, w) /\ UNCHANGED state
  <2> PICK w \in Worker : Serve(r, w) /\ UNCHANGED state
    BY <1>1
  <2>1. ~Known(r) /\ image' = image /\ present' = present
    BY DEF Serve, IInv, Requests
  <2>2. ~StartPull(r, w, image[r])
    BY <2>1 DEF StartPull, Known, IInv, TypeOK, TrackerTypes
  <2>3. home' = home
    BY <2>2 DEF Serve
  <2> QED
    BY <2>1, <2>3 DEF Untouched
<1>2. CASE Answered(r) \/ AskFails(r)
  BY <1>2 DEF Untouched, Answered, AskFails, trackerVars
<1> QED
  BY <1>1, <1>2

\* A cleanup forgets a pull that has ended.
LEMMA CleanupStutters ==
  ASSUME IInv, NEW p \in Request, Cleanup(p)
  PROVE  UNCHANGED Desk!vars
<1>1. /\ state' = state /\ image' = image /\ present' = present /\ state[p] # "pulling"
      /\ \A q \in Request : q # p => home'[q] = home[q]
  BY DEF Cleanup, IInv, TypeOK, TrackerTypes, requestVars
<1>2. Pulling' = Pulling
  BY <1>1 DEF Pulling
<1>3. Ended' = Ended
  BY <1>1 DEF Ended
<1> QED
  BY <1>1, <1>2, <1>3 DEF Desk!vars

\* The pull that StartPull begins is a new one, and alone in its worker.
LEMMA BeginsAlone ==
  ASSUME IInv, NEW r \in Request, NEW w \in Worker, NEW i \in Image,
         ~UnderWay(w, i), ~Known(r), present' = present,
         state' = [state EXCEPT ![r] = "pulling"], home' = [home EXCEPT ![r] = w],
         image'[r] = i,
         \A p \in Request : Known(p) => image'[p] = image[p]
  PROVE  Desk!Begin(r, w, i)
<1> USE DEF Known
<1>1. \A p \in Request : /\ state'[p] = IF p = r THEN "pulling" ELSE state[p]
                         /\ home'[p] = IF p = r THEN w ELSE home[p]
  BY DEF IInv, TypeOK, TrackerTypes
<1>2. Pulling[w][i] = {}
  BY DEF Pulling, UnderWay, IInv, Tracker, None, Request
<1>3. r \notin Ended /\ \A v \in Worker, j \in Image : r \notin Pulling[v][j]
  BY DEF Ended, Pulling
<1>4. Pulling' = [Pulling EXCEPT ![w][i] = {r}]
  <2> DEFINE P == [Pulling EXCEPT ![w][i] = {r}]
  <2>1. ASSUME NEW v \in Worker, NEW j \in Image
        PROVE  Pulling'[v][j] = IF v = w /\ j = i THEN {r} ELSE Pulling[v][j]
    BY <1>1, <1>2 DEF Pulling
  <2>2. Pulling' = [v \in Worker |-> [j \in Image |-> Pulling'[v][j]]]
    BY DEF Pulling
  <2>3. Pulling \in [Worker -> [Image -> SUBSET Request]]
    BY DEF Pulling
  <2>4. /\ P \in [Worker -> [Image -> SUBSET Request]]
        /\ \A v \in Worker, j \in Image : P[v][j] = IF v = w /\ j = i THEN {r} ELSE Pulling[v][j]
    BY <1>1, <2>3, EntryChanges
  <2> HIDE DEF P
  <2>5. P = [v \in Worker |-> [j \in Image |-> P[v][j]]]
    BY <2>4
  <2>6. ASSUME NEW v \in Worker, NEW j \in Image PROVE Pulling'[v][j] = P[v][j]
    <3>1. CASE v = w /\ j = i
      <4>1. Pulling'[v][j] = {r}
        BY <2>1, <3>1
      <4>2. P[v][j] = {r}
        BY <2>4, <3>1
      <4> QED
        BY <4>1, <4>2
    <3>2. CASE ~(v = w /\ j = i)
      BY <2>1, <2>4, <3>2
    <3> QED
      BY <3>1, <3>2
  <2> QED
    BY <2>2, <2>5, <2>6 DEF P
<1>5. Ended' = Ended
  BY <1>1 DEF Ended
<1> QED
  BY <1>2, <1>3, <1>4, <1>5 DEF Desk!Begin

\* start_pull() either begins a pull or finds one.
LEMMA ServeDesk ==
  ASSUME IInv, NEW r \in Request, NEW w \in Worker, Serve(r, w)
  PROVE  Desk!Next \/ UNCHANGED Desk!vars
<1>1. CASE UNCHANGED state
  BY <1>1, RequestUntouched, UntouchedStutters
<1>2. CASE ~UnderWay(w, image[r]) /\ StartPull(r, w, image[r])
  <2>1. image[r] \in Image /\ ~Known(r)
    BY DEF Serve, IInv, Requests
  <2>2. Desk!Begin(r, w, image[r])
    BY <1>2, <2>1, BeginsAlone DEF Serve, StartPull
  <2> QED
    BY <2>1, <2>2 DEF Desk!Next
<1> QED
  BY <1>1, <1>2 DEF Serve

\* So do the pulls that others ask for.
LEMMA OthersPullDesk ==
  ASSUME IInv, NEW w \in Worker, NEW i \in Image, OthersPull(w, i)
  PROVE  Desk!Next
<1>1. asked' \in Request /\ post[asked'] = "none"
  BY PullAssumption DEF OthersPull, Ask, IInv, TypeOK, RequestTypes, Requests, Request
<1> PICK r \in Request : r = asked'
  BY <1>1
<1>2. ~Known(r)
  BY <1>1 DEF IInv, Requests
<1>3. /\ image' = [image EXCEPT ![r] = i] /\ state' = [state EXCEPT ![r] = "pulling"]
      /\ home' = [home EXCEPT ![r] = w]
  BY DEF OthersPull, Ask, StartPull
<1>4. image'[r] = i /\ \A p \in Request : Known(p) => image'[p] = image[p]
  BY <1>2, <1>3 DEF IInv, TypeOK, RequestTypes
<1>5. Desk!Begin(r, w, i)
  BY <1>2, <1>3, <1>4, BeginsAlone DEF OthersPull
<1> QED
  BY <1>5 DEF Desk!Next

\* A pull that ends is the one of its image in its worker, and brings it or nothing.
LEMMA PullEndsDesk ==
  ASSUME IInv, NEW p \in Request, PullEnds(p)
  PROVE  Desk!Next
<1>1. image[p] \in Image /\ home[p] \in Worker /\ image' = image /\ home' = home
  BY DEF PullEnds, IInv, TypeOK, TrackerTypes, Requests, Tracker, Known, requestVars
<1> DEFINE w == home[p]
           i == image[p]
<1>2. \A q \in Request : state[q] = "pulling" /\ image[q] = i /\ home[q] = w => q = p
  BY DEF PullEnds, IInv, Tracker
<1>3. state'[p] \in {"complete", "failed"} /\ \A q \in Request : q # p => state'[q] = state[q]
  BY DEF PullEnds, IInv, TypeOK, TrackerTypes
<1>4. Pulling[w][i] = {p}
  BY <1>1, <1>2 DEF Pulling, PullEnds
<1>5. Pulling' = [Pulling EXCEPT ![w][i] = {}]
  <2> DEFINE P == [Pulling EXCEPT ![w][i] = {}]
  <2>1. ASSUME NEW v \in Worker, NEW j \in Image
        PROVE  Pulling'[v][j] = IF v = w /\ j = i THEN {} ELSE Pulling[v][j]
    BY <1>1, <1>2, <1>3 DEF Pulling, PullEnds
  <2>2. Pulling' = [v \in Worker |-> [j \in Image |-> Pulling'[v][j]]]
    BY DEF Pulling
  <2>3. Pulling \in [Worker -> [Image -> SUBSET Request]]
    BY DEF Pulling
  <2>4. /\ P \in [Worker -> [Image -> SUBSET Request]]
        /\ \A v \in Worker, j \in Image : P[v][j] = IF v = w /\ j = i THEN {} ELSE Pulling[v][j]
    BY <1>1, <2>3, EntryChanges
  <2> HIDE DEF P
  <2>5. Pulling' = P
    BY <2>1, <2>2, <2>4
  <2> QED
    BY <2>5 DEF P
<1>6. Ended' = Ended \cup {p}
  BY <1>3 DEF Ended
<1>7. present' = present \/ present' = present \cup {i}
  BY DEF PullEnds
<1>8. Desk!End(p, w, i)
  BY <1>4, <1>5, <1>6, <1>7 DEF Desk!End
<1> QED
  BY <1>1, <1>8 DEF Desk!Next

\* A restart gives all pulls of the worker up.
LEMMA RestartDesk ==
  ASSUME IInv, NEW w \in Worker, Restart(w)
  PROVE  Desk!GiveUp(w)
<1>1. /\ present' = present /\ image' = image
      /\ \A p \in Request :
           /\ state'[p] = IF state[p] = "pulling" /\ home[p] = w THEN "failed" ELSE state[p]
           /\ home'[p] = IF home[p] = w THEN None ELSE home[p]
  BY DEF Restart, requestVars
<1>2. Pulling' = [Pulling EXCEPT ![w] = [i \in Image |-> {}]]
  <2>1. ASSUME NEW v \in Worker, NEW j \in Image
        PROVE  Pulling'[v][j] = IF v = w THEN {} ELSE Pulling[v][j]
    BY <1>1 DEF Pulling
  <2>2. Pulling' = [v \in Worker |-> [j \in Image |-> Pulling'[v][j]]]
    BY DEF Pulling
  <2>3. [Pulling EXCEPT ![w] = [i \in Image |-> {}]]
          = [v \in Worker |-> [j \in Image |-> IF v = w THEN {} ELSE Pulling[v][j]]]
    BY DEF Pulling
  <2> QED
    BY <2>1, <2>2, <2>3
<1>3. Ended' = Ended \cup UNION {Pulling[w][i] : i \in Image}
  <2>1. \A p \in Request : state[p] = "pulling" /\ home[p] = w
                             => p \in Pulling[w][image[p]] /\ image[p] \in Image
    BY DEF IInv, Requests, Known, Pulling
  <2>2. \A i \in Image : \A p \in Pulling[w][i] :
          p \in Request /\ state[p] = "pulling" /\ home[p] = w
    BY DEF Pulling
  <2>3. \A p : p \in Ended' <=>
          p \in Ended \/ (p \in Request /\ state[p] = "pulling" /\ home[p] = w)
    BY <1>1 DEF Ended
  <2>4. \A p : p \in UNION {Pulling[w][i] : i \in Image} <=>
          p \in Request /\ state[p] = "pulling" /\ home[p] = w
    BY <2>1, <2>2
  <2> QED
    BY <2>3, <2>4
<1> QED
  BY <1>1, <1>2, <1>3 DEF Desk!GiveUp

\* Nothing is pulled when the backend starts.
LEMMA DeskInit == Init => Desk!Init
BY PullAssumption DEF Init, Desk!Init, Pulling, Ended

\* Every step is one of the desk's, or none of its business.
LEMMA DeskStep == IInv /\ [Next]_vars => [Desk!Next]_(Desk!vars)
<1> SUFFICES ASSUME IInv, [Next]_vars PROVE Desk!Next \/ UNCHANGED Desk!vars
  OBVIOUS
<1>1. CASE Wizard \/ Stream \/ LoseConnection
  BY <1>1, WizardUntouched, UntouchedStutters
<1>2. CASE PressPull
  <2>1. choice \in Image /\ Ask(choice) /\ UNCHANGED trackerVars
    BY <1>2 DEF PressPull, IInv, TypeOK, DialogTypes
  <2> QED
    BY <2>1, AskUntouched, UntouchedStutters DEF trackerVars
<1>3. ASSUME NEW w \in Worker, Restart(w) \/ \E i \in Image : OthersPull(w, i)
      PROVE  Desk!Next
  BY <1>3, RestartDesk, OthersPullDesk DEF Desk!Next
<1>4. ASSUME NEW r \in Request,
             \/ \E w \in Worker : Serve(r, w)
             \/ Answered(r) \/ AskFails(r) \/ PullEnds(r)
      PROVE  Desk!Next \/ UNCHANGED Desk!vars
  BY <1>4, ServeDesk, PullEndsDesk, RequestUntouched, UntouchedStutters
<1>5. ASSUME NEW p \in Request, Cleanup(p)
      PROVE  UNCHANGED Desk!vars
  BY <1>5, CleanupStutters
<1>6. CASE UNCHANGED vars
  <2>1. Untouched
    BY <1>6 DEF Untouched, vars, requestVars, trackerVars
  <2> QED
    BY <2>1, UntouchedStutters
<1> QED
  BY <1>1, <1>2, <1>3, <1>4, <1>5, <1>6 DEF Next

\* The tracker keeps the promise of PullDesk: an image is pulled once at a time, a
\* pull ends once, and an image comes by a pull.
THEOREM PullKept == Spec => PullPromise
BY DeskInit, DeskStep, Invariance, PTL DEF Spec, PullPromise, Desk!Spec

=============================================================================
