------------------------ MODULE CommandDeadlineProofs ------------------------
(***************************************************************************)
(* Machine-checked facts about CommandDeadline, for any timeout, grace and *)
(* reaper period.                                                          *)
(***************************************************************************)
EXTENDS CommandDeadline, TLAPS

\* The invariant holds when the command is issued.
LEMMA InitInv == Init => IInv
BY DeadlineAssumption
DEF Init, IInv, TypeOK, Time, InFlight, InstantsAgree, PassIsRecent,
    PassLeftNothingDue, Unset

\* Types and the order of instants are kept by every step.
LEMMA TypeStep ==
  ASSUME IInv, [Next]_vars
  PROVE  TypeOK' /\ InstantsAgree'
<1>1. TypeOK /\ InstantsAgree
  BY DEF IInv
<1> USE <1>1, DeadlineAssumption DEF TypeOK, InstantsAgree, Time, Unset, InFlight, row
<1>2. CASE Dispatch
  BY <1>2 DEF Dispatch, Or
<1>3. CASE Ack
  BY <1>3 DEF Ack, Or
<1>4. CASE Progress
  BY <1>4 DEF Progress, Or
<1>5. CASE Result
  BY <1>5 DEF Result
<1>6. CASE Disconnect
  BY <1>6 DEF Disconnect
<1>7. CASE Reconnect
  BY <1>7 DEF Reconnect
<1>8. CASE ReaperPass
  <2>1. Reapable => dispatched # Unset
    BY DEF Reapable, Overdue
  <2> QED
    BY <1>8, <2>1 DEF ReaperPass
<1>9. CASE Tick
  BY <1>9 DEF Tick
<1>10. CASE UNCHANGED vars
  BY <1>10 DEF vars
<1> QED
  BY <1>2, <1>3, <1>4, <1>5, <1>6, <1>7, <1>8, <1>9, <1>10 DEF Next

\* The clock waits for the reaper.
LEMMA RecentStep ==
  ASSUME IInv, [Next]_vars
  PROVE  PassIsRecent'
<1>1. TypeOK /\ PassIsRecent
  BY DEF IInv
<1> QED
  BY <1>1, DeadlineAssumption
  DEF TypeOK, Time, PassIsRecent, Next, Dispatch, Ack, Progress, Result, Disconnect,
      Reconnect, ReaperPass, Tick, vars, row

\* The deadline of a command in flight is an instant, and once it has come on an
\* offline node the command is what the reaper looks for.
LEMMA DeadlineIsDue ==
  ASSUME TypeOK, InstantsAgree, status \in InFlight
  PROVE  /\ Deadline \in Int
         /\ node = "offline" /\ now >= Deadline => Reapable
<1>1. Due.anchor \in Nat /\ Due.budget \in Nat /\ GraceAnchor \in Nat
  BY DeadlineAssumption DEF TypeOK, InstantsAgree, Due, GraceAnchor, Or, Unset, Time, InFlight
<1>2. Deadline >= Due.anchor + Due.budget + 1 /\ Deadline >= GraceAnchor + Grace /\ Deadline \in Int
  BY <1>1, DeadlineAssumption DEF Deadline, Larger
<1>3. now \in Nat
  BY DEF TypeOK, Time
<1> QED
  BY <1>1, <1>2, <1>3, DeadlineAssumption DEF Reapable, Overdue, Unset

\* A pass leaves no command that is due; between passes nothing gets due earlier.
LEMMA NothingDueStep ==
  ASSUME IInv, [Next]_vars
  PROVE  PassLeftNothingDue'
<1>1. TypeOK /\ InstantsAgree /\ PassIsRecent /\ PassLeftNothingDue
  BY DEF IInv
<1>2. passAt \in Int /\ now \in Int /\ offlineAt \in Int
  BY <1>1 DEF TypeOK, Time
<1>3. CASE Dispatch \/ Ack \/ Progress \/ Result
  BY <1>3 DEF Dispatch, Ack, Progress, Result, PassLeftNothingDue
<1>4. CASE Disconnect
  <2>1. SUFFICES ASSUME status \in InFlight
                 PROVE  passAt <= Larger(Deadline, now)
    BY <1>4 DEF Disconnect, row, PassLeftNothingDue, Deadline, Due, GraceAnchor
  <2>2. Deadline \in Int
    BY <1>1, <2>1, DeadlineIsDue
  <2> QED
    BY <1>1, <1>2, <2>2 DEF PassIsRecent, Larger
<1>5. CASE Reconnect
  BY <1>5 DEF Reconnect, PassLeftNothingDue
<1>6. CASE ReaperPass
  <2>1. SUFFICES ASSUME node = "offline", status \in InFlight, ~Reapable
                 PROVE  now <= Larger(Deadline, offlineAt)
    BY <1>6 DEF ReaperPass, PassLeftNothingDue, Deadline, Due, GraceAnchor, InFlight
  <2>2. Deadline \in Int /\ ~(now >= Deadline)
    BY <1>1, <2>1, DeadlineIsDue
  <2> QED
    BY <1>2, <2>2 DEF Larger
<1>7. CASE Tick \/ UNCHANGED vars
  BY <1>1, <1>7 DEF Tick, vars, row, PassLeftNothingDue, Deadline, Due, GraceAnchor
<1> QED
  BY <1>3, <1>4, <1>5, <1>6, <1>7 DEF Next

\* The bound follows from the last pass having left nothing due.
LEMMA InTime ==
  ASSUME TypeOK, InstantsAgree, PassIsRecent, PassLeftNothingDue
  PROVE  StrandedEndsInTime
<1> SUFFICES ASSUME node = "offline", status \in InFlight
             PROVE  now <= Larger(Deadline, offlineAt) + Period
  BY DEF StrandedEndsInTime
<1>1. Deadline \in Int
  BY DeadlineIsDue
<1>2. passAt <= Larger(Deadline, offlineAt)
  BY DEF PassLeftNothingDue
<1>3. Larger(Deadline, offlineAt) \in Int
  BY <1>1 DEF Larger, TypeOK, Time
<1> QED
  BY <1>2, <1>3, DeadlineAssumption DEF PassIsRecent, TypeOK, Time

\* IInv is an invariant of the command's clock.
THEOREM Invariance == Spec => []IInv
<1>1. IInv /\ [Next]_vars => IInv'
  <2> SUFFICES ASSUME IInv, [Next]_vars PROVE IInv'
    OBVIOUS
  <2> QED
    BY TypeStep, RecentStep, NothingDueStep DEF IInv
<1> QED
  BY InitInv, <1>1, PTL DEF Spec

\* A command in flight on an offline node ends within a reaper period of its deadline.
THEOREM StrandedInTime == Spec => []StrandedEndsInTime
<1>1. IInv => StrandedEndsInTime
  BY InTime DEF IInv
<1> QED
  BY Invariance, <1>1, PTL

\* A pass that ends a command does so only past timeout and grace after its dispatch.
LEMMA ReapStep ==
  ASSUME IInv, [Next]_vars, status # "timed_out", status' = "timed_out"
  PROVE  now - dispatched > Timeout /\ now - dispatched >= Grace
<1>1. TypeOK /\ InstantsAgree
  BY DEF IInv
<1>2. Reapable
  BY <1>1 DEF Next, Dispatch, Ack, Progress, Result, Disconnect, Reconnect, ReaperPass,
              Tick, vars, row
<1>3. status \in InFlight /\ now - Due.anchor > Due.budget /\ now - GraceAnchor >= Grace
  BY <1>2 DEF Reapable, Overdue
<1>4. dispatched \in Nat /\ now \in Nat
  BY <1>1, <1>3 DEF TypeOK, InstantsAgree, InFlight, Time, Unset
<1>5. /\ Due.anchor \in Nat /\ GraceAnchor \in Nat /\ Due.budget \in Nat
      /\ Due.anchor >= dispatched /\ GraceAnchor >= dispatched
      /\ Due.budget >= Timeout
  BY <1>1, <1>3, <1>4, DeadlineAssumption
  DEF TypeOK, InstantsAgree, Due, GraceAnchor, Or, Unset, Time, InFlight
<1> QED
  BY <1>3, <1>4, <1>5, DeadlineAssumption

\* Waiting in the queue counts neither against the timeout nor against the grace.
THEOREM QueueingCostsNothing == Spec => QueueingIsFree
<1>1. IInv /\ [Next]_vars =>
        [status # "timed_out" /\ status' = "timed_out"
           => now - dispatched > Timeout /\ now - dispatched >= Grace]_vars
  BY ReapStep
<1> QED
  BY Invariance, <1>1, PTL DEF Spec, QueueingIsFree
=============================================================================
