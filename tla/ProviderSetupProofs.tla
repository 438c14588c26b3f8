------------------------ MODULE ProviderSetupProofs ------------------------
(***************************************************************************)
(* Proofs about ProviderSetup, for any number of setups and all kinds of   *)
(* providers.                                                              *)
(*                                                                         *)
(* IInv is inductive as it stands in ProviderSetup.  StepsAgree and        *)
(* RequestsAgree say in what order a setup makes its requests; from there  *)
(* RowsAgree knows what they have made, and what a request that was        *)
(* answered before its commit has yet to make or never will.               *)
(* FailureLeavesNothing needs DeletesAgree, the account of a delete that   *)
(* runs beside the create it undoes and whose commit may come late or not  *)
(* at all.  AliasIsEnabled needs CountsAgree: a count of no other members  *)
(* holds until it is used.  From IInv follows, action by action, that      *)
(* ProviderSetup implements Provisioning; and, under the fairness of its   *)
(* fetches, that every setup ends.                                         *)
(***************************************************************************)
EXTENDS ProviderSetup, TLAPS

\* Nothing is asked for before the button is pressed.
LEMMA InitInvariant == Init => IInv
<1> SUFFICES ASSUME Init PROVE IInv
  OBVIOUS
<1> USE SetupAssumption DEF Init, Setup, Ended, Replied, Anything
<1>1. TypeOK
  <2>1. kind \in [Setup -> Kinds]
    BY Zenon
  <2>2. DialogTypes
    <3>1. begun \in 0..NumSetups
      OBVIOUS
    <3>2. pc \in [Setup -> {"idle", "provider", "pricing", "download", "runtime",
                            "rollback", "done", "failed"}]
      OBVIOUS
    <3> QED
      BY <2>1, <3>1, <3>2, Zenon DEF DialogTypes
  <2>3. RequestTypes
    BY DEF RequestTypes
  <2>4. RowTypes
    BY DEF RowTypes
  <2> QED
    BY <2>2, <2>3, <2>4 DEF TypeOK
<1>2. StepsAgree /\ RequestsAgree
  BY DEF StepsAgree, StepOf, RequestsAgree, RequestOf
<1>3. RowsAgree /\ FailuresAgree
  BY DEF RowsAgree, RowsOf, FailuresAgree, FailureOf
<1>4. DeletesAgree /\ CountsAgree
  BY DEF DeletesAgree, DeleteOf, StartsLocally, CountsAgree
<1>5. CreatedOnce /\ AliasIsEnabled
  BY DEF CreatedOnce, Active, AliasIsEnabled
<1> QED
  BY <1>1, <1>2, <1>3, <1>4, <1>5 DEF IInv

\* A count stays right while its delete is the same and no membership is added.
LEMMA CountsKept ==
  ASSUME CountsAgree, routed' \subseteq routed, raced' = raced,
         \A r \in Setup : deleting'[r] = "counted" =>
           deleting[r] = "counted" /\ counted'[r] = counted[r]
  PROVE  CountsAgree'
<1> SUFFICES ASSUME NEW r \in Setup, ~raced, deleting'[r] = "counted", counted'[r] \subseteq {r}
             PROVE  routed' \subseteq counted'[r]
  BY DEF CountsAgree
<1>1. deleting[r] = "counted" /\ counted'[r] = counted[r]
  OBVIOUS
<1> QED
  BY <1>1 DEF CountsAgree

\* Opening the dialog changes no setup.
LEMMA OpenInductive == ASSUME IInv, Open PROVE IInv'
<1> USE SetupAssumption DEF IInv, Open, Setup, Ended, Replied, Anything,
        TypeOK, DialogTypes, RequestTypes, RowTypes, uiVars, requestVars, rowVars, routeVars
<1>1. TypeOK'
  OBVIOUS
<1>2. StepsAgree'
  BY DEF StepsAgree, StepOf
<1>3. RequestsAgree'
  BY DEF RequestsAgree, RequestOf
<1>4. RowsAgree'
  BY DEF RowsAgree, RowsOf
<1>5. DeletesAgree'
  BY DEF DeletesAgree, DeleteOf, StartsLocally
<1>6. FailuresAgree'
  BY DEF FailuresAgree, FailureOf
<1>7. CountsAgree'
  BY DEF CountsAgree
<1>8. CreatedOnce'
  BY DEF CreatedOnce, Active
<1>9. AliasIsEnabled'
  BY DEF AliasIsEnabled
<1> HIDE DEF TypeOK, Open
<1> QED
  BY <1>1, <1>2, <1>3, <1>4, <1>5, <1>6, <1>7, <1>8, <1>9

\* Closing a busy dialog is remembered in dismissed.
LEMMA CloseInductive == ASSUME IInv, Close PROVE IInv'
<1> USE SetupAssumption DEF IInv, Close, Setup, Ended, Replied, Anything,
        TypeOK, DialogTypes, RequestTypes, RowTypes, uiVars, requestVars, rowVars, routeVars
<1>1. TypeOK'
  OBVIOUS
<1>2. StepsAgree'
  BY DEF StepsAgree, StepOf
<1>3. RequestsAgree'
  BY DEF RequestsAgree, RequestOf
<1>4. RowsAgree'
  BY DEF RowsAgree, RowsOf
<1>5. DeletesAgree'
  BY DEF DeletesAgree, DeleteOf, StartsLocally
<1>6. FailuresAgree'
  BY DEF FailuresAgree, FailureOf
<1>7. CountsAgree'
  BY DEF CountsAgree
<1>8. CreatedOnce'
  BY DEF CreatedOnce, Active
<1>9. AliasIsEnabled'
  BY DEF AliasIsEnabled
<1> HIDE DEF TypeOK, Close
<1> QED
  BY <1>1, <1>2, <1>3, <1>4, <1>5, <1>6, <1>7, <1>8, <1>9

\* The next setup begins with its first request; nothing is known of it yet.
LEMMA FinishInductive == ASSUME IInv, Finish PROVE IInv'
<1> USE SetupAssumption DEF IInv, Finish, Setup, Ended, Replied, Anything,
        TypeOK, DialogTypes, RequestTypes, RowTypes, uiVars, requestVars, rowVars, routeVars
<1>1. TypeOK'
  OBVIOUS
<1>2. StepsAgree'
  BY DEF StepsAgree, StepOf
<1>3. RequestsAgree'
  BY DEF StepsAgree, StepOf, RequestsAgree, RequestOf
<1>4. RowsAgree'
  BY DEF StepsAgree, StepOf, RowsAgree, RowsOf
<1>5. DeletesAgree'
  BY DEF DeletesAgree, DeleteOf, StartsLocally
<1>6. FailuresAgree'
  BY DEF FailuresAgree, FailureOf
<1>7. CountsAgree'
  BY DEF CountsAgree
<1>8. CreatedOnce'
  BY DEF CreatedOnce, Active
<1>9. AliasIsEnabled'
  BY DEF AliasIsEnabled
<1> HIDE DEF TypeOK, Finish
<1> QED
  BY <1>1, <1>2, <1>3, <1>4, <1>5, <1>6, <1>7, <1>8, <1>9

\* A provider that was answered is there; the runtime is asked for now or later.
LEMMA ProviderKnownInductive == ASSUME IInv, NEW s \in Setup, ProviderKnown(s) PROVE IInv'
<1> USE SetupAssumption DEF IInv, ProviderKnown, AskRuntime, Setup, Ended, Replied, Anything,
        TypeOK, DialogTypes, RequestTypes, RowTypes, uiVars, requestVars, rowVars, routeVars
<1>1. TypeOK'
  <2>1. DialogTypes'
    <3>1. \E to \in {"pricing", "download", "runtime"} : pc' = [pc EXCEPT ![s] = to]
      OBVIOUS
    <3>2. UNCHANGED uiVars
      OBVIOUS
    <3> HIDE DEF ProviderKnown
    <3> QED
      BY <3>1, <3>2
  <2>2. RequestTypes'
    OBVIOUS
  <2>3. RowTypes'
    OBVIOUS
  <2> QED
    BY <2>1, <2>2, <2>3
<1>2. StepsAgree'
  BY DEF StepsAgree, StepOf
<1>3. RequestsAgree'
  BY DEF RequestsAgree, RequestOf
<1>4. RowsAgree'
  BY DEF StepsAgree, StepOf, RequestsAgree, RequestOf, RowsAgree, RowsOf
<1>5. DeletesAgree'
  <2>1. DeleteOf(s)'
    BY DEF StepsAgree, StepOf, RequestsAgree, RequestOf, DeletesAgree, DeleteOf, StartsLocally
  <2>2. ASSUME NEW r \in Setup, r # s PROVE DeleteOf(r)'
    BY <2>2 DEF StepsAgree, StepOf, RequestsAgree, RequestOf, DeletesAgree, DeleteOf, StartsLocally
  <2> QED
    BY <2>1, <2>2 DEF DeletesAgree
<1>6. FailuresAgree'
  <2>1. FailureOf(s)'
    BY DEF StepsAgree, StepOf, RequestsAgree, RequestOf, FailuresAgree, FailureOf
  <2>2. ASSUME NEW r \in Setup, r # s PROVE FailureOf(r)'
    BY <2>2 DEF StepsAgree, StepOf, RequestsAgree, RequestOf, FailuresAgree, FailureOf
  <2> QED
    BY <2>1, <2>2 DEF FailuresAgree
<1>7. CountsAgree'
  BY DEF CountsAgree
<1>8. CreatedOnce'
  <2>1. pc[s] = "provider" /\ pc' = [pc EXCEPT ![s] = pc'[s]]
    BY SMT
  <2>2. pc'[s] \in {"pricing", "download", "runtime"}
    OBVIOUS
  <2>3. open' = open /\ busy' = busy /\ dismissed' = dismissed
    OBVIOUS
  <2> HIDE DEF ProviderKnown
  <2>4. \A r \in Setup : Active(r)' <=> Active(r)
    BY <2>1, <2>2 DEF Active
  <2> QED
    BY <2>3, <2>4 DEF CreatedOnce
<1>9. AliasIsEnabled'
  BY DEF AliasIsEnabled
<1> HIDE DEF TypeOK, ProviderKnown
<1> QED
  BY <1>1, <1>2, <1>3, <1>4, <1>5, <1>6, <1>7, <1>8, <1>9

\* A remote setup ends with its provider.
LEMMA PricingEndsInductive == ASSUME IInv, NEW s \in Setup, PricingEnds(s) PROVE IInv'
<1> USE SetupAssumption DEF IInv, PricingEnds, Return, Setup, Ended, Replied, Anything,
        TypeOK, DialogTypes, RequestTypes, RowTypes, uiVars, requestVars, rowVars, routeVars
<1>1. TypeOK'
  OBVIOUS
<1>2. StepsAgree'
  BY DEF StepsAgree, StepOf
<1>3. RequestsAgree'
  BY DEF RequestsAgree, RequestOf
<1>4. RowsAgree'
  BY DEF RowsAgree, RowsOf
<1>5. DeletesAgree'
  BY DEF DeletesAgree, DeleteOf, StartsLocally
<1>6. FailuresAgree'
  BY DEF FailuresAgree, FailureOf
<1>7. CountsAgree'
  BY DEF CountsAgree
<1>8. CreatedOnce'
  BY DEF CreatedOnce, Active
<1>9. AliasIsEnabled'
  BY DEF AliasIsEnabled
<1> HIDE DEF TypeOK, PricingEnds
<1> QED
  BY <1>1, <1>2, <1>3, <1>4, <1>5, <1>6, <1>7, <1>8, <1>9

\* The runtime is asked for.
LEMMA DownloadStartedInductive == ASSUME IInv, NEW s \in Setup, DownloadStarted(s) PROVE IInv'
<1> USE SetupAssumption DEF IInv, DownloadStarted, AskRuntime, Setup, Ended, Replied, Anything,
        TypeOK, DialogTypes, RequestTypes, RowTypes, uiVars, requestVars, rowVars, routeVars
<1>1. TypeOK'
  OBVIOUS
<1>2. StepsAgree'
  BY DEF StepsAgree, StepOf
<1>3. RequestsAgree'
  BY DEF StepsAgree, StepOf, RequestsAgree, RequestOf
<1>4. RowsAgree'
  <2>1. starting[s] = "none" /\ kind[s] # "remote" /\ deleting[s] = "none"
    BY DEF StepsAgree, StepOf
  <2>2. RowsOf(s)'
    BY <2>1 DEF RowsAgree, RowsOf
  <2>3. ASSUME NEW r \in Setup, r # s PROVE RowsOf(r)'
    BY <2>3 DEF RowsAgree, RowsOf
  <2> QED
    BY <2>2, <2>3 DEF RowsAgree
<1>5. DeletesAgree'
  <2>1. DeleteOf(s)'
    BY DEF StepsAgree, StepOf, RequestsAgree, RequestOf, RowsAgree, RowsOf, DeletesAgree, DeleteOf, StartsLocally
  <2>2. ASSUME NEW r \in Setup, r # s PROVE DeleteOf(r)'
    BY <2>2 DEF StepsAgree, StepOf, RequestsAgree, RequestOf, RowsAgree, RowsOf, DeletesAgree, DeleteOf, StartsLocally
  <2> QED
    BY <2>1, <2>2 DEF DeletesAgree
<1>6. FailuresAgree'
  BY DEF FailuresAgree, FailureOf
<1>7. CountsAgree'
  BY DEF CountsAgree
<1>8. CreatedOnce'
  BY DEF CreatedOnce, Active
<1>9. AliasIsEnabled'
  BY DEF AliasIsEnabled
<1> HIDE DEF TypeOK, DownloadStarted
<1> QED
  BY <1>1, <1>2, <1>3, <1>4, <1>5, <1>6, <1>7, <1>8, <1>9

\* The rollback begins before any runtime was asked for.
LEMMA DownloadFailsInductive == ASSUME IInv, NEW s \in Setup, DownloadFails(s) PROVE IInv'
<1> USE SetupAssumption DEF IInv, DownloadFails, BeginRollback, Setup, Ended, Replied, Anything,
        TypeOK, DialogTypes, RequestTypes, RowTypes, uiVars, requestVars, rowVars, routeVars
<1>1. TypeOK'
  OBVIOUS
<1>2. StepsAgree'
  BY DEF StepsAgree, StepOf
<1>3. RequestsAgree'
  BY DEF StepsAgree, StepOf, RequestsAgree, RequestOf
<1>4. RowsAgree'
  <2>1. deleting[s] # "answered"
    BY DEF StepsAgree, StepOf
  <2>2. deleting' = [deleting EXCEPT ![s] = "running"]
    OBVIOUS
  <2>3. UNCHANGED <<kind, creating, starting, rowVars, routeVars, excused>>
    OBVIOUS
  <2> HIDE DEF DownloadFails
  <2>4. RowsOf(s)'
    BY <2>1, <2>2, <2>3 DEF RowsAgree, RowsOf
  <2>5. ASSUME NEW r \in Setup, r # s PROVE RowsOf(r)'
    BY <2>2, <2>3, <2>5 DEF RowsAgree, RowsOf
  <2> QED
    BY <2>4, <2>5 DEF RowsAgree
<1>5. DeletesAgree'
  BY DEF DeletesAgree, DeleteOf, StartsLocally
<1>6. FailuresAgree'
  BY DEF FailuresAgree, FailureOf
<1>7. CountsAgree'
  <2>1. \A r \in Setup : deleting'[r] = "counted" =>
          deleting[r] = "counted" /\ counted'[r] = counted[r]
    OBVIOUS
  <2>2. routed' \subseteq routed /\ raced' = raced
    OBVIOUS
  <2> QED
    BY ONLY IInv, <2>1, <2>2, CountsKept DEF IInv
<1>8. CreatedOnce'
  BY DEF CreatedOnce, Active
<1>9. AliasIsEnabled'
  BY DEF AliasIsEnabled
<1> HIDE DEF TypeOK, DownloadFails
<1> QED
  BY <1>1, <1>2, <1>3, <1>4, <1>5, <1>6, <1>7, <1>8, <1>9

\* A setup is done when its runtime was answered.
LEMMA RuntimeKnownInductive == ASSUME IInv, NEW s \in Setup, RuntimeKnown(s) PROVE IInv'
<1> USE SetupAssumption DEF IInv, RuntimeKnown, Return, Setup, Ended, Replied, Anything,
        TypeOK, DialogTypes, RequestTypes, RowTypes, uiVars, requestVars, rowVars, routeVars
<1>1. TypeOK'
  OBVIOUS
<1>2. StepsAgree'
  BY DEF StepsAgree, StepOf
<1>3. RequestsAgree'
  BY DEF RequestsAgree, RequestOf
<1>4. RowsAgree'
  BY DEF RowsAgree, RowsOf
<1>5. DeletesAgree'
  BY DEF DeletesAgree, DeleteOf, StartsLocally
<1>6. FailuresAgree'
  BY DEF FailuresAgree, FailureOf
<1>7. CountsAgree'
  BY DEF CountsAgree
<1>8. CreatedOnce'
  BY DEF CreatedOnce, Active
<1>9. AliasIsEnabled'
  BY DEF AliasIsEnabled
<1> HIDE DEF TypeOK, RuntimeKnown
<1> QED
  BY <1>1, <1>2, <1>3, <1>4, <1>5, <1>6, <1>7, <1>8, <1>9

\* Without an id nothing is deleted; only a refused provider leaves nothing.
LEMMA ProviderUnknownInductive == ASSUME IInv, NEW s \in Setup, ProviderUnknown(s) PROVE IInv'
<1> USE SetupAssumption DEF IInv, ProviderUnknown, Return, Setup, Ended, Replied, Anything,
        TypeOK, DialogTypes, RequestTypes, RowTypes, uiVars, requestVars, rowVars, routeVars
<1>1. TypeOK'
  OBVIOUS
<1>2. StepsAgree'
  BY DEF StepsAgree, StepOf
<1>3. RequestsAgree'
  BY DEF RequestsAgree, RequestOf
<1>4. RowsAgree'
  BY DEF RowsAgree, RowsOf
<1>5. DeletesAgree'
  BY DEF DeletesAgree, DeleteOf, StartsLocally
<1>6. FailuresAgree'
  <2>1. deleting[s] = "none"
    BY DEF StepsAgree, StepOf
  <2>2. FailureOf(s)'
    <3>1. CASE creating[s] = "refused" /\ s \notin provider
      BY <2>1, <3>1 DEF FailureOf
    <3>2. CASE ~(creating[s] = "refused" /\ s \notin provider)
      <4>1. excused'[s] = Anything
        BY <3>2
      <4> QED
        BY <4>1 DEF FailureOf
    <3> QED
      BY <3>1, <3>2
  <2>3. ASSUME NEW r \in Setup, r # s PROVE FailureOf(r)'
    BY <2>3 DEF FailuresAgree, FailureOf
  <2> QED
    BY <2>2, <2>3 DEF FailuresAgree
<1>7. CountsAgree'
  BY DEF CountsAgree
<1>8. CreatedOnce'
  BY DEF CreatedOnce, Active
<1>9. AliasIsEnabled'
  BY DEF AliasIsEnabled
<1> HIDE DEF TypeOK, ProviderUnknown
<1> QED
  BY <1>1, <1>2, <1>3, <1>4, <1>5, <1>6, <1>7, <1>8, <1>9

\* The rollback begins, whatever the backend makes of the runtime.
LEMMA RuntimeUnknownInductive == ASSUME IInv, NEW s \in Setup, RuntimeUnknown(s) PROVE IInv'
<1> USE SetupAssumption DEF IInv, RuntimeUnknown, BeginRollback, Setup, Ended, Replied, Anything,
        TypeOK, DialogTypes, RequestTypes, RowTypes, uiVars, requestVars, rowVars, routeVars
<1>1. TypeOK'
  OBVIOUS
<1>2. StepsAgree'
  BY DEF StepsAgree, StepOf
<1>3. RequestsAgree'
  BY DEF StepsAgree, StepOf, RequestsAgree, RequestOf
<1>4. RowsAgree'
  <2>1. deleting[s] # "answered"
    BY DEF StepsAgree, StepOf
  <2>2. deleting' = [deleting EXCEPT ![s] = "running"]
    OBVIOUS
  <2>3. UNCHANGED <<kind, creating, starting, rowVars, routeVars, excused>>
    OBVIOUS
  <2> HIDE DEF RuntimeUnknown
  <2>4. RowsOf(s)'
    BY <2>1, <2>2, <2>3 DEF RowsAgree, RowsOf
  <2>5. ASSUME NEW r \in Setup, r # s PROVE RowsOf(r)'
    BY <2>2, <2>3, <2>5 DEF RowsAgree, RowsOf
  <2> QED
    BY <2>4, <2>5 DEF RowsAgree
<1>5. DeletesAgree'
  BY DEF DeletesAgree, DeleteOf, StartsLocally
<1>6. FailuresAgree'
  BY DEF FailuresAgree, FailureOf
<1>7. CountsAgree'
  <2>1. \A r \in Setup : deleting'[r] = "counted" =>
          deleting[r] = "counted" /\ counted'[r] = counted[r]
    OBVIOUS
  <2>2. routed' \subseteq routed /\ raced' = raced
    OBVIOUS
  <2> QED
    BY ONLY IInv, <2>1, <2>2, CountsKept DEF IInv
<1>8. CreatedOnce'
  BY DEF CreatedOnce, Active
<1>9. AliasIsEnabled'
  BY DEF AliasIsEnabled
<1> HIDE DEF TypeOK, RuntimeUnknown
<1> QED
  BY <1>1, <1>2, <1>3, <1>4, <1>5, <1>6, <1>7, <1>8, <1>9

\* Only an answered delete needs no excuse.
LEMMA RollbackEndsInductive == ASSUME IInv, NEW s \in Setup, RollbackEnds(s) PROVE IInv'
<1> USE SetupAssumption DEF IInv, RollbackEnds, Return, Setup, Ended, Replied, Anything,
        TypeOK, DialogTypes, RequestTypes, RowTypes, uiVars, requestVars, rowVars, routeVars
<1>1. TypeOK'
  OBVIOUS
<1>2. StepsAgree'
  BY DEF StepsAgree, StepOf
<1>3. RequestsAgree'
  BY DEF RequestsAgree, RequestOf
<1>4. RowsAgree'
  BY DEF RowsAgree, RowsOf
<1>5. DeletesAgree'
  BY DEF DeletesAgree, DeleteOf, StartsLocally
<1>6. FailuresAgree'
  <2>1. FailureOf(s)'
    <3>1. CASE deleting[s] \in Replied
      BY <3>1 DEF DeletesAgree, DeleteOf, FailureOf
    <3>2. CASE deleting[s] \notin Replied
      <4>1. excused'[s] = Anything
        BY <3>2
      <4> QED
        BY <4>1 DEF FailureOf
    <3> QED
      BY <3>1, <3>2
  <2>2. ASSUME NEW r \in Setup, r # s PROVE FailureOf(r)'
    BY <2>2 DEF StepsAgree, StepOf, RequestsAgree, RequestOf, FailuresAgree, FailureOf
  <2> QED
    BY <2>1, <2>2 DEF FailuresAgree
<1>7. CountsAgree'
  BY DEF CountsAgree
<1>8. CreatedOnce'
  BY DEF CreatedOnce, Active
<1>9. AliasIsEnabled'
  BY DEF AliasIsEnabled
<1> HIDE DEF TypeOK, RollbackEnds
<1> QED
  BY <1>1, <1>2, <1>3, <1>4, <1>5, <1>6, <1>7, <1>8, <1>9

\* A refused provider is not there.
LEMMA RefuseProviderInductive == ASSUME IInv, NEW s \in Setup, RefuseProvider(s) PROVE IInv'
<1> USE SetupAssumption DEF IInv, RefuseProvider, Setup, Ended, Replied, Anything,
        TypeOK, DialogTypes, RequestTypes, RowTypes, uiVars, requestVars, rowVars, routeVars
<1>1. TypeOK'
  OBVIOUS
<1>2. StepsAgree'
  <2>1. StepOf(s)'
    BY DEF StepsAgree, StepOf
  <2>2. ASSUME NEW r \in Setup, r # s PROVE StepOf(r)'
    BY <2>2 DEF StepsAgree, StepOf
  <2> QED
    BY <2>1, <2>2 DEF StepsAgree
<1>3. RequestsAgree'
  BY DEF RequestsAgree, RequestOf
<1>4. RowsAgree'
  BY DEF RowsAgree, RowsOf
<1>5. DeletesAgree'
  BY DEF DeletesAgree, DeleteOf, StartsLocally
<1>6. FailuresAgree'
  BY DEF FailuresAgree, FailureOf
<1>7. CountsAgree'
  BY DEF CountsAgree
<1>8. CreatedOnce'
  BY DEF CreatedOnce, Active
<1>9. AliasIsEnabled'
  BY DEF AliasIsEnabled
<1> HIDE DEF TypeOK, RefuseProvider
<1> QED
  BY <1>1, <1>2, <1>3, <1>4, <1>5, <1>6, <1>7, <1>8, <1>9

\* A provider that was committed is there.
LEMMA CommitProviderInductive == ASSUME IInv, NEW s \in Setup, CommitProvider(s) PROVE IInv'
<1> USE SetupAssumption DEF IInv, CommitProvider, Setup, Ended, Replied, Anything,
        TypeOK, DialogTypes, RequestTypes, RowTypes, uiVars, requestVars, rowVars, routeVars
<1>1. TypeOK'
  OBVIOUS
<1>2. StepsAgree'
  <2>1. StepOf(s)'
    <3>1. /\ creating[s] = "running" /\ creating'[s] \in {"created", "answered"}
          /\ UNCHANGED <<uiVars, pc, starting, deleting>>
      OBVIOUS
    <3> HIDE DEF CommitProvider, TypeOK
    <3> QED
      BY <3>1 DEF StepsAgree, StepOf
  <2>2. ASSUME NEW r \in Setup, r # s PROVE StepOf(r)'
    BY <2>2 DEF StepsAgree, StepOf
  <2> QED
    BY <2>1, <2>2 DEF StepsAgree
<1>3. RequestsAgree'
  BY DEF RequestsAgree, RequestOf
<1>4. RowsAgree'
  BY DEF RequestsAgree, RequestOf, RowsAgree, RowsOf
<1>5. DeletesAgree'
  BY DEF DeletesAgree, DeleteOf, StartsLocally
<1>6. FailuresAgree'
  BY DEF FailuresAgree, FailureOf
<1>7. CountsAgree'
  BY DEF CountsAgree
<1>8. CreatedOnce'
  BY DEF CreatedOnce, Active
<1>9. AliasIsEnabled'
  BY DEF AliasIsEnabled
<1> HIDE DEF TypeOK, CommitProvider
<1> QED
  BY <1>1, <1>2, <1>3, <1>4, <1>5, <1>6, <1>7, <1>8, <1>9

\* A remote runtime is published for a provider that is there.
LEMMA ProvisionRemoteInductive == ASSUME IInv, NEW s \in Setup, ProvisionRemote(s) PROVE IInv'
<1> USE SetupAssumption DEF IInv, ProvisionRemote, Publish, Setup, Ended, Replied, Anything,
        TypeOK, DialogTypes, RequestTypes, RowTypes, uiVars, requestVars, rowVars, routeVars
<1>1. TypeOK'
  BY ZenonT(30)
<1>a. /\ creating[s] = "created" /\ creating'[s] \in {"published", "answered"}
      /\ \A r \in Setup : r # s => creating'[r] = creating[r]
      /\ UNCHANGED <<pc, begun, kind, starting, deleting, listed, counted, excused, rowVars>>
      /\ routed' \subseteq routed \cup {s}
  OBVIOUS
<1>2. StepsAgree'
  <2> HIDE DEF ProvisionRemote, TypeOK, Publish
  <2>1. StepOf(s)'
    BY <1>a DEF StepsAgree, StepOf
  <2>2. ASSUME NEW r \in Setup, r # s PROVE StepOf(r)'
    BY <1>a, <2>2 DEF StepsAgree, StepOf
  <2> QED
    BY <2>1, <2>2 DEF StepsAgree
<1>3. RequestsAgree'
  <2> HIDE DEF ProvisionRemote
  <2>1. RequestOf(s)'
    BY <1>a DEF RequestsAgree, RequestOf
  <2>2. ASSUME NEW r \in Setup, r # s PROVE RequestOf(r)'
    BY <1>a, <2>2 DEF RequestsAgree, RequestOf
  <2> QED
    BY <2>1, <2>2 DEF RequestsAgree
<1>4. RowsAgree'
  <2> HIDE DEF ProvisionRemote
  <2>1. RowsOf(s)'
    BY <1>a DEF RequestsAgree, RequestOf, RowsAgree, RowsOf
  <2>2. ASSUME NEW r \in Setup, r # s PROVE RowsOf(r)'
    BY <1>a, <2>2 DEF RequestsAgree, RequestOf, RowsAgree, RowsOf
  <2> QED
    BY <2>1, <2>2 DEF RowsAgree
<1>5. DeletesAgree'
  <2> HIDE DEF ProvisionRemote
  <2>1. DeleteOf(s)'
    BY <1>a DEF RequestsAgree, RequestOf, RowsAgree, RowsOf, DeletesAgree, DeleteOf, StartsLocally
  <2>2. ASSUME NEW r \in Setup, r # s PROVE DeleteOf(r)'
    BY <1>a, <2>2 DEF RequestsAgree, RequestOf, RowsAgree, RowsOf, DeletesAgree, DeleteOf, StartsLocally
  <2> QED
    BY <2>1, <2>2 DEF DeletesAgree
<1>6. FailuresAgree'
  <2> HIDE DEF ProvisionRemote, TypeOK, Publish
  <2>1. FailureOf(s)'
    BY <1>a DEF StepsAgree, StepOf, FailuresAgree, FailureOf
  <2>2. ASSUME NEW r \in Setup, r # s PROVE FailureOf(r)'
    BY <1>a, <2>2 DEF FailuresAgree, FailureOf
  <2> QED
    BY <2>1, <2>2 DEF FailuresAgree
<1>7. CountsAgree'
  BY DEF CountsAgree
<1>8. CreatedOnce'
  BY DEF CreatedOnce, Active
<1>9. AliasIsEnabled'
  BY DEF AliasIsEnabled
<1> HIDE DEF TypeOK, ProvisionRemote
<1> QED
  BY <1>1, <1>2, <1>3, <1>4, <1>5, <1>6, <1>7, <1>8, <1>9

\* The reply changes no row.
LEMMA ReplyRemoteInductive == ASSUME IInv, NEW s \in Setup, ReplyRemote(s) PROVE IInv'
<1> USE SetupAssumption DEF IInv, ReplyRemote, Setup, Ended, Replied, Anything,
        TypeOK, DialogTypes, RequestTypes, RowTypes, uiVars, requestVars, rowVars, routeVars
<1>1. TypeOK'
  OBVIOUS
<1>2. StepsAgree'
  <2>1. StepOf(s)'
    BY DEF StepsAgree, StepOf
  <2>2. ASSUME NEW r \in Setup, r # s PROVE StepOf(r)'
    BY <2>2 DEF StepsAgree, StepOf
  <2> QED
    BY <2>1, <2>2 DEF StepsAgree
<1>3. RequestsAgree'
  BY DEF RequestsAgree, RequestOf
<1>4. RowsAgree'
  BY DEF RequestsAgree, RequestOf, RowsAgree, RowsOf
<1>5. DeletesAgree'
  BY DEF RequestsAgree, RequestOf, RowsAgree, RowsOf, DeletesAgree, DeleteOf, StartsLocally
<1>6. FailuresAgree'
  BY DEF FailuresAgree, FailureOf
<1>7. CountsAgree'
  BY DEF CountsAgree
<1>8. CreatedOnce'
  BY DEF CreatedOnce, Active
<1>9. AliasIsEnabled'
  BY DEF AliasIsEnabled
<1> HIDE DEF TypeOK, ReplyRemote
<1> QED
  BY <1>1, <1>2, <1>3, <1>4, <1>5, <1>6, <1>7, <1>8, <1>9

\* Its row is committed under that provider, or not at all.
LEMMA CommitRemoteInductive == ASSUME IInv, NEW s \in Setup, CommitRemote(s) PROVE IInv'
<1> USE SetupAssumption DEF IInv, CommitRemote, Setup, Ended, Replied, Anything,
        TypeOK, DialogTypes, RequestTypes, RowTypes, uiVars, requestVars, rowVars, routeVars
<1>1. TypeOK'
  OBVIOUS
<1>2. StepsAgree'
  <2>1. StepOf(s)'
    BY DEF StepsAgree, StepOf
  <2>2. ASSUME NEW r \in Setup, r # s PROVE StepOf(r)'
    BY <2>2 DEF StepsAgree, StepOf
  <2> QED
    BY <2>1, <2>2 DEF StepsAgree
<1>3. RequestsAgree'
  BY DEF RequestsAgree, RequestOf
<1>4. RowsAgree'
  BY DEF RequestsAgree, RequestOf, RowsAgree, RowsOf
<1>5. DeletesAgree'
  <2>1. DeleteOf(s)'
    BY DEF RequestsAgree, RequestOf, DeletesAgree, DeleteOf, StartsLocally
  <2>2. ASSUME NEW r \in Setup, r # s PROVE DeleteOf(r)'
    BY <2>2 DEF RequestsAgree, RequestOf, DeletesAgree, DeleteOf, StartsLocally
  <2> QED
    BY <2>1, <2>2 DEF DeletesAgree
<1>6. FailuresAgree'
  BY DEF FailuresAgree, FailureOf
<1>7. CountsAgree'
  BY DEF CountsAgree
<1>8. CreatedOnce'
  BY DEF CreatedOnce, Active
<1>9. AliasIsEnabled'
  BY DEF AliasIsEnabled
<1> HIDE DEF TypeOK, CommitRemote
<1> QED
  BY <1>1, <1>2, <1>3, <1>4, <1>5, <1>6, <1>7, <1>8, <1>9

\* The provider stays.
LEMMA RemoteFailsInductive == ASSUME IInv, NEW s \in Setup, RemoteFails(s) PROVE IInv'
<1> USE SetupAssumption DEF IInv, RemoteFails, Setup, Ended, Replied, Anything,
        TypeOK, DialogTypes, RequestTypes, RowTypes, uiVars, requestVars, rowVars, routeVars
<1>1. TypeOK'
  OBVIOUS
<1>2. StepsAgree'
  <2>1. StepOf(s)'
    <3>1. /\ creating[s] \in {"created", "published"} /\ creating'[s] = "refused"
          /\ UNCHANGED <<uiVars, pc, starting, deleting>>
      OBVIOUS
    <3> HIDE DEF RemoteFails, TypeOK
    <3> QED
      BY <3>1 DEF StepsAgree, StepOf
  <2>2. ASSUME NEW r \in Setup, r # s PROVE StepOf(r)'
    BY <2>2 DEF StepsAgree, StepOf
  <2> QED
    BY <2>1, <2>2 DEF StepsAgree
<1>3. RequestsAgree'
  BY DEF RequestsAgree, RequestOf
<1>4. RowsAgree'
  BY DEF RowsAgree, RowsOf
<1>5. DeletesAgree'
  BY DEF DeletesAgree, DeleteOf, StartsLocally
<1>6. FailuresAgree'
  BY DEF FailuresAgree, FailureOf
<1>7. CountsAgree'
  BY DEF CountsAgree
<1>8. CreatedOnce'
  BY DEF CreatedOnce, Active
<1>9. AliasIsEnabled'
  BY DEF AliasIsEnabled
<1> HIDE DEF TypeOK, RemoteFails
<1> QED
  BY <1>1, <1>2, <1>3, <1>4, <1>5, <1>6, <1>7, <1>8, <1>9

\* A refused runtime was not committed, nor a container made.
LEMMA RefuseRuntimeInductive == ASSUME IInv, NEW s \in Setup, RefuseRuntime(s) PROVE IInv'
<1> USE SetupAssumption DEF IInv, RefuseRuntime, Setup, Ended, Replied, Anything,
        TypeOK, DialogTypes, RequestTypes, RowTypes, uiVars, requestVars, rowVars, routeVars
<1>1. TypeOK'
  OBVIOUS
<1>2. StepsAgree'
  <2>1. StepOf(s)'
    BY DEF StepsAgree, StepOf
  <2>2. ASSUME NEW r \in Setup, r # s PROVE StepOf(r)'
    BY <2>2 DEF StepsAgree, StepOf
  <2> QED
    BY <2>1, <2>2 DEF StepsAgree
<1>3. RequestsAgree'
  BY DEF RequestsAgree, RequestOf
<1>4. RowsAgree'
  BY DEF RequestsAgree, RequestOf, RowsAgree, RowsOf
<1>5. DeletesAgree'
  BY DEF DeletesAgree, DeleteOf, StartsLocally
<1>6. FailuresAgree'
  BY DEF FailuresAgree, FailureOf
<1>7. CountsAgree'
  BY DEF CountsAgree
<1>8. CreatedOnce'
  BY DEF CreatedOnce, Active
<1>9. AliasIsEnabled'
  BY DEF AliasIsEnabled
<1> HIDE DEF TypeOK, RefuseRuntime
<1> QED
  BY <1>1, <1>2, <1>3, <1>4, <1>5, <1>6, <1>7, <1>8, <1>9

\* The row of a runtime is committed under a provider that is there.
LEMMA CommitRuntimeInductive == ASSUME IInv, NEW s \in Setup, CommitRuntime(s) PROVE IInv'
<1> USE SetupAssumption DEF IInv, CommitRuntime, Setup, Ended, Replied, Anything,
        TypeOK, DialogTypes, RequestTypes, RowTypes, uiVars, requestVars, rowVars, routeVars
<1>1. TypeOK'
  OBVIOUS
<1>2. StepsAgree'
  <2>1. StepOf(s)'
    BY DEF StepsAgree, StepOf
  <2>2. ASSUME NEW r \in Setup, r # s PROVE StepOf(r)'
    BY <2>2 DEF StepsAgree, StepOf
  <2> QED
    BY <2>1, <2>2 DEF StepsAgree
<1>3. RequestsAgree'
  BY DEF RequestsAgree, RequestOf
<1>4. RowsAgree'
  BY DEF RowsAgree, RowsOf
<1>5. DeletesAgree'
  BY DEF RowsAgree, RowsOf, DeletesAgree, DeleteOf, StartsLocally
<1>6. FailuresAgree'
  BY DEF FailuresAgree, FailureOf
<1>7. CountsAgree'
  BY DEF CountsAgree
<1>8. CreatedOnce'
  BY DEF CreatedOnce, Active
<1>9. AliasIsEnabled'
  BY DEF AliasIsEnabled
<1> HIDE DEF TypeOK, CommitRuntime
<1> QED
  BY <1>1, <1>2, <1>3, <1>4, <1>5, <1>6, <1>7, <1>8, <1>9

\* A container runs; a delete that has listed its row is excused.
LEMMA ContainerUpInductive == ASSUME IInv, NEW s \in Setup, ContainerUp(s) PROVE IInv'
<1> USE SetupAssumption DEF IInv, ContainerUp, Publish, Setup, Ended, Replied, Anything,
        TypeOK, DialogTypes, RequestTypes, RowTypes, uiVars, requestVars, rowVars, routeVars
<1>1. TypeOK'
  OBVIOUS
<1>2. StepsAgree'
  <2>1. StepOf(s)'
    BY DEF StepsAgree, StepOf
  <2>2. ASSUME NEW r \in Setup, r # s PROVE StepOf(r)'
    BY <2>2 DEF StepsAgree, StepOf
  <2> QED
    BY <2>1, <2>2 DEF StepsAgree
<1>a. /\ starting[s] = "row" /\ starting'[s] = "up" /\ work'[s] = "running"
      /\ \A r \in Setup : r # s => starting'[r] = starting[r] /\ work'[r] = work[r]
      /\ UNCHANGED <<kind, creating, deleting, listed, counted, excused, provider, runtime>>
      /\ routed' \subseteq routed \cup {s}
  OBVIOUS
<1>3. RequestsAgree'
  <2> HIDE DEF ContainerUp
  <2>1. RequestOf(s)'
    BY <1>a DEF RequestsAgree, RequestOf
  <2>2. ASSUME NEW r \in Setup, r # s PROVE RequestOf(r)'
    BY <1>a, <2>2 DEF RequestsAgree, RequestOf
  <2> QED
    BY <2>1, <2>2 DEF RequestsAgree
<1>4. RowsAgree'
  <2> HIDE DEF ContainerUp
  <2>1. RowsOf(s)'
    BY <1>a DEF RequestsAgree, RequestOf, RowsAgree, RowsOf
  <2>2. ASSUME NEW r \in Setup, r # s PROVE RowsOf(r)'
    BY <1>a, <2>2 DEF RequestsAgree, RequestOf, RowsAgree, RowsOf
  <2> QED
    BY <2>1, <2>2 DEF RowsAgree
<1>5. DeletesAgree'
  <2> HIDE DEF ContainerUp
  <2>1. DeleteOf(s)'
    BY <1>a DEF RequestsAgree, RequestOf, RowsAgree, RowsOf, DeletesAgree, DeleteOf, StartsLocally
  <2>2. ASSUME NEW r \in Setup, r # s PROVE DeleteOf(r)'
    BY <1>a, <2>2 DEF RequestsAgree, RequestOf, RowsAgree, RowsOf, DeletesAgree, DeleteOf, StartsLocally
  <2> QED
    BY <2>1, <2>2 DEF DeletesAgree
<1>6. FailuresAgree'
  BY DEF FailuresAgree, FailureOf
<1>7. CountsAgree'
  BY DEF CountsAgree
<1>8. CreatedOnce'
  BY DEF CreatedOnce, Active
<1>9. AliasIsEnabled'
  BY DEF AliasIsEnabled
<1> HIDE DEF TypeOK, ContainerUp
<1> QED
  BY <1>1, <1>2, <1>3, <1>4, <1>5, <1>6, <1>7, <1>8, <1>9

\* There is no container, or one that is excused, and the row stays.
LEMMA ContainerFailsInductive == ASSUME IInv, NEW s \in Setup, ContainerFails(s) PROVE IInv'
<1> USE SetupAssumption DEF IInv, ContainerFails, Setup, Ended, Replied, Anything,
        TypeOK, DialogTypes, RequestTypes, RowTypes, uiVars, requestVars, rowVars, routeVars
<1>1. TypeOK'
  OBVIOUS
<1>2. StepsAgree'
  <2>1. StepOf(s)'
    BY DEF StepsAgree, StepOf
  <2>2. ASSUME NEW r \in Setup, r # s PROVE StepOf(r)'
    BY <2>2 DEF StepsAgree, StepOf
  <2> QED
    BY <2>1, <2>2 DEF StepsAgree
<1>3. RequestsAgree'
  BY DEF RequestsAgree, RequestOf
<1>4. RowsAgree'
  BY DEF RequestsAgree, RequestOf, RowsAgree, RowsOf
<1>5. DeletesAgree'
  BY DEF DeletesAgree, DeleteOf, StartsLocally
<1>6. FailuresAgree'
  BY DEF FailuresAgree, FailureOf
<1>7. CountsAgree'
  BY DEF CountsAgree
<1>8. CreatedOnce'
  BY DEF CreatedOnce, Active
<1>9. AliasIsEnabled'
  BY DEF AliasIsEnabled
<1> HIDE DEF TypeOK, ContainerFails
<1> QED
  BY <1>1, <1>2, <1>3, <1>4, <1>5, <1>6, <1>7, <1>8, <1>9

\* A container that was not recorded is excused.
LEMMA AnswerFailsInductive == ASSUME IInv, NEW s \in Setup, AnswerFails(s) PROVE IInv'
<1> USE SetupAssumption DEF IInv, AnswerFails, Setup, Ended, Replied, Anything,
        TypeOK, DialogTypes, RequestTypes, RowTypes, uiVars, requestVars, rowVars, routeVars
<1>1. TypeOK'
  OBVIOUS
<1>2. StepsAgree'
  <2>1. StepOf(s)'
    BY DEF StepsAgree, StepOf
  <2>2. ASSUME NEW r \in Setup, r # s PROVE StepOf(r)'
    BY <2>2 DEF StepsAgree, StepOf
  <2> QED
    BY <2>1, <2>2 DEF StepsAgree
<1>3. RequestsAgree'
  BY DEF RequestsAgree, RequestOf
<1>4. RowsAgree'
  BY DEF RowsAgree, RowsOf
<1>5. DeletesAgree'
  BY DEF DeletesAgree, DeleteOf, StartsLocally
<1>6. FailuresAgree'
  BY DEF FailuresAgree, FailureOf
<1>7. CountsAgree'
  BY DEF CountsAgree
<1>8. CreatedOnce'
  BY DEF CreatedOnce, Active
<1>9. AliasIsEnabled'
  BY DEF AliasIsEnabled
<1> HIDE DEF TypeOK, AnswerFails
<1> QED
  BY <1>1, <1>2, <1>3, <1>4, <1>5, <1>6, <1>7, <1>8, <1>9

\* What the reply says is not committed yet; no delete holds the rows meanwhile.
LEMMA ReplyRuntimeInductive == ASSUME IInv, NEW s \in Setup, ReplyRuntime(s) PROVE IInv'
<1> USE SetupAssumption DEF IInv, ReplyRuntime, Setup, Ended, Replied, Anything,
        TypeOK, DialogTypes, RequestTypes, RowTypes, uiVars, requestVars, rowVars, routeVars
<1>1. TypeOK'
  OBVIOUS
<1>2. StepsAgree'
  <2>1. StepOf(s)'
    BY DEF StepsAgree, StepOf
  <2>2. ASSUME NEW r \in Setup, r # s PROVE StepOf(r)'
    BY <2>2 DEF StepsAgree, StepOf
  <2> QED
    BY <2>1, <2>2 DEF StepsAgree
<1>3. RequestsAgree'
  BY DEF RequestsAgree, RequestOf
<1>4. RowsAgree'
  BY DEF RequestsAgree, RequestOf, RowsAgree, RowsOf
<1>5. DeletesAgree'
  BY DEF RequestsAgree, RequestOf, RowsAgree, RowsOf, DeletesAgree, DeleteOf, StartsLocally
<1>6. FailuresAgree'
  BY DEF FailuresAgree, FailureOf
<1>7. CountsAgree'
  BY DEF CountsAgree
<1>8. CreatedOnce'
  BY DEF CreatedOnce, Active
<1>9. AliasIsEnabled'
  BY DEF AliasIsEnabled
<1> HIDE DEF TypeOK, ReplyRuntime
<1> QED
  BY <1>1, <1>2, <1>3, <1>4, <1>5, <1>6, <1>7, <1>8, <1>9

\* On a node the row and the container come together.
LEMMA CommitAnswerInductive == ASSUME IInv, NEW s \in Setup, CommitAnswer(s) PROVE IInv'
<1> USE SetupAssumption DEF IInv, CommitAnswer, Setup, Ended, Replied, Anything,
        TypeOK, DialogTypes, RequestTypes, RowTypes, uiVars, requestVars, rowVars, routeVars
<1>1. TypeOK'
  <2>1. DialogTypes' /\ RequestTypes'
    OBVIOUS
  <2>2. work' \in [Setup -> {"none", "running", "removed"}] /\ runtime' \subseteq Setup
    <3>1. CASE kind[s] = "local"
      BY <3>1
    <3>2. CASE kind[s] # "local"
      <4>1. runtime' = runtime \cup {s} /\ work' = [work EXCEPT ![s] = "running"]
        BY <3>2
      <4> HIDE DEF CommitAnswer
      <4> QED
        BY <4>1
    <3> QED
      BY <3>1, <3>2
  <2>3. UNCHANGED <<provider, routeVars, excused>>
    OBVIOUS
  <2> HIDE DEF CommitAnswer
  <2> QED
    BY <2>1, <2>2, <2>3
<1>2. StepsAgree'
  <2>1. StepOf(s)'
    BY DEF StepsAgree, StepOf
  <2>2. ASSUME NEW r \in Setup, r # s PROVE StepOf(r)'
    BY <2>2 DEF StepsAgree, StepOf
  <2> QED
    BY <2>1, <2>2 DEF StepsAgree
<1>3. RequestsAgree'
  BY DEF RequestsAgree, RequestOf
<1>4. RowsAgree'
  BY DEF RequestsAgree, RequestOf, RowsAgree, RowsOf
<1>5. DeletesAgree'
  BY DEF RequestsAgree, RequestOf, RowsAgree, RowsOf, DeletesAgree, DeleteOf, StartsLocally
<1>6. FailuresAgree'
  BY DEF FailuresAgree, FailureOf
<1>7. CountsAgree'
  BY DEF CountsAgree
<1>8. CreatedOnce'
  BY DEF CreatedOnce, Active
<1>9. AliasIsEnabled'
  BY DEF AliasIsEnabled
<1> HIDE DEF TypeOK, CommitAnswer
<1> QED
  BY <1>1, <1>2, <1>3, <1>4, <1>5, <1>6, <1>7, <1>8, <1>9

\* A container whose id is lost is excused.
LEMMA UndoAnswerInductive == ASSUME IInv, NEW s \in Setup, UndoAnswer(s) PROVE IInv'
<1> USE SetupAssumption DEF IInv, UndoAnswer, Setup, Ended, Replied, Anything,
        TypeOK, DialogTypes, RequestTypes, RowTypes, uiVars, requestVars, rowVars, routeVars
<1>1. TypeOK'
  OBVIOUS
<1>2. StepsAgree'
  <2>1. StepOf(s)'
    BY DEF StepsAgree, StepOf
  <2>2. ASSUME NEW r \in Setup, r # s PROVE StepOf(r)'
    BY <2>2 DEF StepsAgree, StepOf
  <2> QED
    BY <2>1, <2>2 DEF StepsAgree
<1>3. RequestsAgree'
  BY DEF RequestsAgree, RequestOf
<1>4. RowsAgree'
  BY DEF RequestsAgree, RequestOf, RowsAgree, RowsOf
<1>5. DeletesAgree'
  BY DEF RequestsAgree, RequestOf, RowsAgree, RowsOf, DeletesAgree, DeleteOf, StartsLocally
<1>6. FailuresAgree'
  BY DEF FailuresAgree, FailureOf
<1>7. CountsAgree'
  BY DEF CountsAgree
<1>8. CreatedOnce'
  BY DEF CreatedOnce, Active
<1>9. AliasIsEnabled'
  BY DEF AliasIsEnabled
<1> HIDE DEF TypeOK, UndoAnswer
<1> QED
  BY <1>1, <1>2, <1>3, <1>4, <1>5, <1>6, <1>7, <1>8, <1>9

\* The delete knows the runtime as it is, or is excused.
LEMMA ListRuntimesInductive == ASSUME IInv, NEW s \in Setup, ListRuntimes(s) PROVE IInv'
<1> USE SetupAssumption DEF IInv, ListRuntimes, Setup, Ended, Replied, Anything,
        TypeOK, DialogTypes, RequestTypes, RowTypes, uiVars, requestVars, rowVars, routeVars
<1>1. TypeOK'
  <2>1. DialogTypes'
    OBVIOUS
  <2>2. RequestTypes'
    <3>1. deleting' \in [Setup -> Ended \cup {"running", "listed", "counted", "stripped", "replied"}]
      OBVIOUS
    <3>2. listed' \in [Setup -> {"none", "bare", "full"}]
      OBVIOUS
    <3>3. UNCHANGED <<creating, starting, counted>>
      OBVIOUS
    <3> HIDE DEF ListRuntimes
    <3> QED
      BY <3>1, <3>2, <3>3
  <2>3. RowTypes'
    OBVIOUS
  <2> QED
    BY <2>1, <2>2, <2>3
<1>2. StepsAgree'
  BY DEF StepsAgree, StepOf
<1>3. RequestsAgree'
  BY DEF RequestsAgree, RequestOf
<1>4. RowsAgree'
  BY DEF RowsAgree, RowsOf
<1>5. DeletesAgree'
  BY DEF StepsAgree, StepOf, RequestsAgree, RequestOf, RowsAgree, RowsOf, DeletesAgree, DeleteOf, StartsLocally
<1>6. FailuresAgree'
  BY DEF FailuresAgree, FailureOf
<1>7. CountsAgree'
  <2>1. \A r \in Setup : deleting'[r] = "counted" => deleting[r] = "counted"
    OBVIOUS
  <2>2. counted' = counted /\ routed' = routed /\ raced' = raced
    OBVIOUS
  <2> HIDE DEF ListRuntimes
  <2> QED
    BY <2>1, <2>2 DEF CountsAgree
<1>8. CreatedOnce'
  BY DEF CreatedOnce, Active
<1>9. AliasIsEnabled'
  BY DEF AliasIsEnabled
<1> HIDE DEF TypeOK, ListRuntimes
<1> QED
  BY <1>1, <1>2, <1>3, <1>4, <1>5, <1>6, <1>7, <1>8, <1>9

\* The container is removed, or the delete excused.
LEMMA TeardownInductive == ASSUME IInv, NEW s \in Setup, Teardown(s) PROVE IInv'
<1> USE SetupAssumption DEF IInv, Teardown, Setup, Ended, Replied, Anything,
        TypeOK, DialogTypes, RequestTypes, RowTypes, uiVars, requestVars, rowVars, routeVars
<1>1. TypeOK'
  <2>1. DialogTypes' /\ RequestTypes'
    OBVIOUS
  <2>2. work' \in [Setup -> {"none", "running", "removed"}]
    OBVIOUS
  <2>3. excused' \in [Setup -> SUBSET Anything]
    OBVIOUS
  <2>4. UNCHANGED <<provider, runtime, routeVars>>
    OBVIOUS
  <2> HIDE DEF Teardown
  <2> QED
    BY <2>1, <2>2, <2>3, <2>4
<1>2. StepsAgree'
  BY DEF StepsAgree, StepOf
<1>3. RequestsAgree'
  BY DEF RequestsAgree, RequestOf
<1>4. RowsAgree'
  <2>1. RowsOf(s)'
    BY DEF StepsAgree, StepOf, RequestsAgree, RequestOf, RowsAgree, RowsOf, DeletesAgree, DeleteOf, StartsLocally
  <2>2. ASSUME NEW r \in Setup, r # s PROVE RowsOf(r)'
    BY <2>2 DEF StepsAgree, StepOf, RequestsAgree, RequestOf, RowsAgree, RowsOf
  <2> QED
    BY <2>1, <2>2 DEF RowsAgree
<1>5. DeletesAgree'
  BY DEF DeletesAgree, DeleteOf, StartsLocally
<1>6. FailuresAgree'
  BY DEF FailuresAgree, FailureOf
<1>7. CountsAgree'
  <2>1. \A r \in Setup : r # s => deleting'[r] = deleting[r] /\ counted'[r] = counted[r]
    OBVIOUS
  <2>2. counted'[s] = routed /\ routed' = routed /\ raced' = raced
    OBVIOUS
  <2> HIDE DEF Teardown, TypeOK
  <2> QED
    BY <2>1, <2>2 DEF CountsAgree
<1>8. CreatedOnce'
  BY DEF CreatedOnce, Active
<1>9. AliasIsEnabled'
  BY DEF AliasIsEnabled
<1> HIDE DEF TypeOK, Teardown
<1> QED
  BY <1>1, <1>2, <1>3, <1>4, <1>5, <1>6, <1>7, <1>8, <1>9

\* The membership is removed, or the delete excused; the alias is disabled only when nobody else is counted.
LEMMA UnpublishInductive == ASSUME IInv, NEW s \in Setup, Unpublish(s) PROVE IInv'
<1> USE SetupAssumption DEF IInv, Unpublish, Setup, Ended, Replied, Anything,
        TypeOK, DialogTypes, RequestTypes, RowTypes, uiVars, requestVars, rowVars, routeVars
<1>1. TypeOK'
  <2>1. DialogTypes' /\ RequestTypes'
    OBVIOUS
  <2>2. RowTypes'
    <3>1. excused' \in [Setup -> SUBSET Anything]
      OBVIOUS
    <3> QED
      BY <3>1
  <2> QED
    BY <2>1, <2>2
<1>2. StepsAgree'
  BY DEF StepsAgree, StepOf
<1>3. RequestsAgree'
  BY DEF RequestsAgree, RequestOf
<1>4. RowsAgree'
  BY DEF RowsAgree, RowsOf
<1>5. DeletesAgree'
  <2>1. deleting[s] = "counted" /\ deleting'[s] = "stripped" /\ counted'[s] = {}
    OBVIOUS
  <2>2. s \in routed' => "route" \in excused'[s]
    <3>1. CASE routed' = routed \ (counted[s] \cap {s})
      BY <3>1 DEF DeletesAgree, DeleteOf, StartsLocally
    <3>2. CASE excused' = [excused EXCEPT ![s] = @ \cup {"route"}]
      BY <3>2
    <3> QED
      BY <3>1, <3>2
  <2>3. excused[s] \subseteq excused'[s]
    OBVIOUS
  <2>4. DeleteOf(s)'
    BY <2>1, <2>2, <2>3 DEF DeletesAgree, DeleteOf, StartsLocally
  <2>5. ASSUME NEW r \in Setup, r # s PROVE DeleteOf(r)'
    BY <2>5 DEF DeletesAgree, DeleteOf, StartsLocally
  <2> QED
    BY <2>4, <2>5 DEF DeletesAgree
<1>6. FailuresAgree'
  BY DEF FailuresAgree, FailureOf
<1>7. CountsAgree'
  <2>1. \A r \in Setup : deleting'[r] = "counted" =>
          deleting[r] = "counted" /\ counted'[r] = counted[r]
    OBVIOUS
  <2>2. routed' \subseteq routed /\ raced' = raced
    OBVIOUS
  <2> QED
    BY ONLY IInv, <2>1, <2>2, CountsKept DEF IInv
<1>8. CreatedOnce'
  BY DEF CreatedOnce, Active
<1>9. AliasIsEnabled'
  BY DEF AliasIsEnabled, CountsAgree
<1> HIDE DEF TypeOK, Unpublish
<1> QED
  BY <1>1, <1>2, <1>3, <1>4, <1>5, <1>6, <1>7, <1>8, <1>9

\* The reply comes before the commit; no create holds the rows meanwhile.
LEMMA ReplyDeleteInductive == ASSUME IInv, NEW s \in Setup, ReplyDelete(s) PROVE IInv'
<1> USE SetupAssumption DEF IInv, ReplyDelete, Setup, Ended, Replied, Anything,
        TypeOK, DialogTypes, RequestTypes, RowTypes, uiVars, requestVars, rowVars, routeVars
<1>1. TypeOK'
  OBVIOUS
<1>2. StepsAgree'
  BY DEF StepsAgree, StepOf
<1>3. RequestsAgree'
  BY DEF RequestsAgree, RequestOf
<1>4. RowsAgree'
  BY DEF RequestsAgree, RequestOf, RowsAgree, RowsOf
<1>5. DeletesAgree'
  BY DEF RequestsAgree, RequestOf, RowsAgree, RowsOf, DeletesAgree, DeleteOf, StartsLocally
<1>6. FailuresAgree'
  BY DEF FailuresAgree, FailureOf
<1>7. CountsAgree'
  <2>1. \A r \in Setup : deleting'[r] = "counted" =>
          deleting[r] = "counted" /\ counted'[r] = counted[r]
    OBVIOUS
  <2>2. routed' \subseteq routed /\ raced' = raced
    OBVIOUS
  <2> QED
    BY ONLY IInv, <2>1, <2>2, CountsKept DEF IInv
<1>8. CreatedOnce'
  BY DEF CreatedOnce, Active
<1>9. AliasIsEnabled'
  BY DEF AliasIsEnabled
<1> HIDE DEF TypeOK, ReplyDelete
<1> QED
  BY <1>1, <1>2, <1>3, <1>4, <1>5, <1>6, <1>7, <1>8, <1>9

\* What is still there of the runtime and the provider is deleted.
LEMMA CommitDeleteInductive == ASSUME IInv, NEW s \in Setup, CommitDelete(s) PROVE IInv'
<1> USE SetupAssumption DEF IInv, CommitDelete, Setup, Ended, Replied, Anything,
        TypeOK, DialogTypes, RequestTypes, RowTypes, uiVars, requestVars, rowVars, routeVars
<1>1. TypeOK'
  <2>1. DialogTypes'
    OBVIOUS
  <2>5. RequestTypes'
    OBVIOUS
  <2>2. /\ provider' \subseteq provider /\ runtime' \subseteq runtime
        /\ UNCHANGED <<routed, enabled, raced, excused>>
    OBVIOUS
  <2>3. work' \in [Setup -> {"none", "running", "removed"}]
    OBVIOUS
  <2> HIDE DEF CommitDelete
  <2>4. RowTypes'
    BY <2>2, <2>3
  <2> QED
    BY <2>1, <2>4, <2>5
<1>2. StepsAgree'
  BY DEF StepsAgree, StepOf
<1>3. RequestsAgree'
  BY DEF RequestsAgree, RequestOf
<1>4. RowsAgree'
  <2>1. RowsOf(s)'
    BY DEF StepsAgree, StepOf, RequestsAgree, RequestOf, RowsAgree, RowsOf, DeletesAgree, DeleteOf, StartsLocally
  <2>2. ASSUME NEW r \in Setup, r # s PROVE RowsOf(r)'
    BY <2>2 DEF StepsAgree, StepOf, RequestsAgree, RequestOf, RowsAgree, RowsOf
  <2> QED
    BY <2>1, <2>2 DEF RowsAgree
<1>5. DeletesAgree'
  <2>1. DeleteOf(s)'
    <3>1. /\ deleting[s] = "replied" /\ deleting'[s] = "answered" /\ listed'[s] = "none"
          /\ UNCHANGED <<kind, starting, routed, excused>>
      OBVIOUS
    <3>2. starting[s] # "replied"
      BY <3>1 DEF RequestsAgree, RequestOf
    <3>3. s \in runtime => listed[s] # "none"
      BY <3>1 DEF DeletesAgree, DeleteOf
    <3>4. StartsLocally(s) => {"container", "route"} \subseteq excused[s]
      BY <3>1, <3>2, <3>3 DEF RowsAgree, RowsOf, DeletesAgree, DeleteOf, StartsLocally
    <3>5. work'[s] = "running" => "container" \in excused[s]
      <4>1. CASE kind[s] = "local"
        <5>1. work'[s] = work[s]
          BY <4>1
        <5> HIDE DEF CommitDelete
        <5>2. CASE listed[s] = "full"
          BY <3>1, <4>1, <5>1, <5>2 DEF DeletesAgree, DeleteOf
        <5>3. CASE listed[s] = "bare"
          BY <3>1, <4>1, <5>1, <5>3 DEF RowsAgree, RowsOf, DeletesAgree, DeleteOf
        <5>4. CASE listed[s] = "none"
          BY <3>1, <3>3, <4>1, <5>1, <5>4 DEF RowsAgree, RowsOf
        <5> QED
          BY <5>2, <5>3, <5>4
      <4>2. CASE kind[s] # "local"
        <5>1. work'[s] = IF listed[s] # "none" THEN "removed" ELSE work[s]
          BY <4>2
        <5> HIDE DEF CommitDelete
        <5>2. listed[s] = "none" => work[s] = "none"
          BY <3>1, <3>3, <4>2 DEF RowsAgree, RowsOf
        <5> QED
          BY <5>1, <5>2
      <4> QED
        BY <4>1, <4>2
    <3> QED
      BY <3>1, <3>4, <3>5 DEF DeletesAgree, DeleteOf, StartsLocally
  <2>2. ASSUME NEW r \in Setup, r # s PROVE DeleteOf(r)'
    BY <2>2 DEF StepsAgree, StepOf, RequestsAgree, RequestOf, RowsAgree, RowsOf, DeletesAgree, DeleteOf, StartsLocally
  <2> QED
    BY <2>1, <2>2 DEF DeletesAgree
<1>6. FailuresAgree'
  BY DEF FailuresAgree, FailureOf
<1>7. CountsAgree'
  <2>1. \A r \in Setup : deleting'[r] = "counted" =>
          deleting[r] = "counted" /\ counted'[r] = counted[r]
    OBVIOUS
  <2>2. routed' \subseteq routed /\ raced' = raced
    OBVIOUS
  <2> QED
    BY ONLY IInv, <2>1, <2>2, CountsKept DEF IInv
<1>8. CreatedOnce'
  BY DEF CreatedOnce, Active
<1>9. AliasIsEnabled'
  BY DEF AliasIsEnabled
<1> HIDE DEF TypeOK, CommitDelete
<1> QED
  BY <1>1, <1>2, <1>3, <1>4, <1>5, <1>6, <1>7, <1>8, <1>9

\* A delete that was not committed excuses everything.
LEMMA UndoDeleteInductive == ASSUME IInv, NEW s \in Setup, UndoDelete(s) PROVE IInv'
<1> USE SetupAssumption DEF IInv, UndoDelete, Setup, Ended, Replied, Anything,
        TypeOK, DialogTypes, RequestTypes, RowTypes, uiVars, requestVars, rowVars, routeVars
<1>1. TypeOK'
  OBVIOUS
<1>2. StepsAgree'
  BY DEF StepsAgree, StepOf
<1>3. RequestsAgree'
  BY DEF RequestsAgree, RequestOf
<1>4. RowsAgree'
  BY DEF RequestsAgree, RequestOf, RowsAgree, RowsOf
<1>5. DeletesAgree'
  BY DEF RequestsAgree, RequestOf, RowsAgree, RowsOf, DeletesAgree, DeleteOf, StartsLocally
<1>6. FailuresAgree'
  BY DEF FailuresAgree, FailureOf
<1>7. CountsAgree'
  <2>1. \A r \in Setup : deleting'[r] = "counted" =>
          deleting[r] = "counted" /\ counted'[r] = counted[r]
    OBVIOUS
  <2>2. routed' \subseteq routed /\ raced' = raced
    OBVIOUS
  <2> QED
    BY ONLY IInv, <2>1, <2>2, CountsKept DEF IInv
<1>8. CreatedOnce'
  BY DEF CreatedOnce, Active
<1>9. AliasIsEnabled'
  BY DEF AliasIsEnabled
<1> HIDE DEF TypeOK, UndoDelete
<1> QED
  BY <1>1, <1>2, <1>3, <1>4, <1>5, <1>6, <1>7, <1>8, <1>9

\* A delete that failed is not answered.
LEMMA DeleteFailsInductive == ASSUME IInv, NEW s \in Setup, DeleteFails(s) PROVE IInv'
<1> USE SetupAssumption DEF IInv, DeleteFails, Setup, Ended, Replied, Anything,
        TypeOK, DialogTypes, RequestTypes, RowTypes, uiVars, requestVars, rowVars, routeVars
<1>1. TypeOK'
  OBVIOUS
<1>2. StepsAgree'
  BY DEF StepsAgree, StepOf
<1>3. RequestsAgree'
  BY DEF RequestsAgree, RequestOf
<1>4. RowsAgree'
  BY DEF RowsAgree, RowsOf
<1>5. DeletesAgree'
  BY DEF DeletesAgree, DeleteOf, StartsLocally
<1>6. FailuresAgree'
  BY DEF FailuresAgree, FailureOf
<1>7. CountsAgree'
  <2>1. \A r \in Setup : deleting'[r] = "counted" =>
          deleting[r] = "counted" /\ counted'[r] = counted[r]
    OBVIOUS
  <2>2. routed' \subseteq routed /\ raced' = raced
    OBVIOUS
  <2> QED
    BY ONLY IInv, <2>1, <2>2, CountsKept DEF IInv
<1>8. CreatedOnce'
  BY DEF CreatedOnce, Active
<1>9. AliasIsEnabled'
  BY DEF AliasIsEnabled
<1> HIDE DEF TypeOK, DeleteFails
<1> QED
  BY <1>1, <1>2, <1>3, <1>4, <1>5, <1>6, <1>7, <1>8, <1>9

\* A step that changes nothing keeps the invariant.
LEMMA StutterInductive == IInv /\ UNCHANGED vars => IInv'
<1> SUFFICES ASSUME IInv, UNCHANGED vars PROVE IInv'
  OBVIOUS
<1> USE DEF IInv, vars, uiVars, requestVars, rowVars, routeVars
<1>1. TypeOK'
  BY DEF TypeOK, DialogTypes, RequestTypes, RowTypes
<1>2. StepsAgree' /\ RequestsAgree'
  BY DEF StepsAgree, StepOf, RequestsAgree, RequestOf
<1>3. RowsAgree' /\ FailuresAgree'
  BY DEF RowsAgree, RowsOf, FailuresAgree, FailureOf
<1>4. DeletesAgree' /\ CountsAgree'
  BY DEF DeletesAgree, DeleteOf, StartsLocally, CountsAgree
<1>5. CreatedOnce' /\ AliasIsEnabled'
  BY DEF CreatedOnce, Active, AliasIsEnabled
<1> QED
  BY <1>1, <1>2, <1>3, <1>4, <1>5

\* Every step of the wizard and of the backend keeps the invariant.
LEMMA StepInductive == IInv /\ [Next]_vars => IInv'
<1> SUFFICES ASSUME IInv, [Next]_vars PROVE IInv'
  OBVIOUS
<1>1. CASE Open
  BY <1>1, OpenInductive
<1>2. CASE Close
  BY <1>2, CloseInductive
<1>3. CASE Finish
  BY <1>3, FinishInductive
<1>4. ASSUME NEW s \in Setup, Wizard(s) PROVE IInv'
  <2>1. CASE ProviderKnown(s)
    BY <2>1, ProviderKnownInductive
  <2>2. CASE PricingEnds(s)
    BY <2>2, PricingEndsInductive
  <2>3. CASE DownloadStarted(s)
    BY <2>3, DownloadStartedInductive
  <2>4. CASE DownloadFails(s)
    BY <2>4, DownloadFailsInductive
  <2>5. CASE RuntimeKnown(s)
    BY <2>5, RuntimeKnownInductive
  <2>6. CASE ProviderUnknown(s)
    BY <2>6, ProviderUnknownInductive
  <2>7. CASE RuntimeUnknown(s)
    BY <2>7, RuntimeUnknownInductive
  <2>8. CASE RollbackEnds(s)
    BY <2>8, RollbackEndsInductive
  <2> QED
    BY <1>4, <2>1, <2>2, <2>3, <2>4, <2>5, <2>6, <2>7, <2>8 DEF Wizard
<1>5. ASSUME NEW s \in Setup, Backend(s) PROVE IInv'
  <2>1. CASE RefuseProvider(s)
    BY <2>1, RefuseProviderInductive
  <2>2. CASE CommitProvider(s)
    BY <2>2, CommitProviderInductive
  <2>3. CASE ProvisionRemote(s)
    BY <2>3, ProvisionRemoteInductive
  <2>4. CASE ReplyRemote(s)
    BY <2>4, ReplyRemoteInductive
  <2>5. CASE CommitRemote(s)
    BY <2>5, CommitRemoteInductive
  <2>6. CASE RemoteFails(s)
    BY <2>6, RemoteFailsInductive
  <2>7. CASE RefuseRuntime(s)
    BY <2>7, RefuseRuntimeInductive
  <2>8. CASE CommitRuntime(s)
    BY <2>8, CommitRuntimeInductive
  <2>9. CASE ContainerUp(s)
    BY <2>9, ContainerUpInductive
  <2>10. CASE ContainerFails(s)
    BY <2>10, ContainerFailsInductive
  <2>11. CASE AnswerFails(s)
    BY <2>11, AnswerFailsInductive
  <2>12. CASE ReplyRuntime(s)
    BY <2>12, ReplyRuntimeInductive
  <2>13. CASE CommitAnswer(s)
    BY <2>13, CommitAnswerInductive
  <2>14. CASE UndoAnswer(s)
    BY <2>14, UndoAnswerInductive
  <2>15. CASE ListRuntimes(s)
    BY <2>15, ListRuntimesInductive
  <2>16. CASE Teardown(s)
    BY <2>16, TeardownInductive
  <2>17. CASE Unpublish(s)
    BY <2>17, UnpublishInductive
  <2>18. CASE ReplyDelete(s)
    BY <2>18, ReplyDeleteInductive
  <2>19. CASE CommitDelete(s)
    BY <2>19, CommitDeleteInductive
  <2>20. CASE UndoDelete(s)
    BY <2>20, UndoDeleteInductive
  <2>21. CASE DeleteFails(s)
    BY <2>21, DeleteFailsInductive
  <2> QED
    BY <1>5, <2>1, <2>2, <2>3, <2>4, <2>5, <2>6, <2>7, <2>8,
       <2>9, <2>10, <2>11, <2>12, <2>13, <2>14, <2>15, <2>16,
       <2>17, <2>18, <2>19, <2>20, <2>21 DEF Backend
<1>6. CASE UNCHANGED vars
  BY <1>6, StutterInductive
<1> QED
  BY <1>1, <1>2, <1>3, <1>4, <1>5, <1>6 DEF Next

\* handleFinish() and the four requests it makes agree in every reachable state.
THEOREM Invariance == Spec => []IInv
<1>1. Init => IInv
  BY InitInvariant
<1>2. IInv /\ [Next]_vars => IInv'
  BY StepInductive
<1> QED
  BY <1>1, <1>2, PTL DEF Spec

\* What a failed setup leaves behind once its requests have ended is excused, part
\* by part: its rows, its container and its route.
THEOREM FailureIsClean == Spec => []FailureLeavesNothing
<1>1. IInv => FailureLeavesNothing
  <2> SUFFICES ASSUME IInv, NEW s \in Setup, pc[s] = "failed", Quiet(s), excused[s] # Anything
               PROVE  /\ s \notin provider \cup runtime
                      /\ work[s] = "running" => "container" \in excused[s]
                      /\ s \in routed => "route" \in excused[s]
    BY DEF FailureLeavesNothing, Anything
  <2> USE DEF IInv
  <2>1. CASE deleting[s] = "answered"
    BY <2>1 DEF RowsAgree, RowsOf, DeletesAgree, DeleteOf
  <2>2. CASE deleting[s] = "none" /\ creating[s] = "refused" /\ s \notin provider
    <3>1. starting[s] = "none"
      BY <2>2, SMT DEF RequestsAgree, RequestOf, TypeOK, RequestTypes, Ended
    <3> QED
      BY <2>2, <3>1 DEF RowsAgree, RowsOf, Replied
  <2>3. deleting[s] # "replied"
    BY DEF Quiet, Ended
  <2> QED
    BY <2>1, <2>2, <2>3 DEF FailuresAgree, FailureOf
<1> QED
  BY <1>1, Invariance, PTL

\* A setup that handleFinish() reports as done is complete, and stays so: only its
\* own rollback would delete it.  On a node it may wait for the commit that follows
\* the reply, or have lost it.
THEOREM SuccessComplete == Spec => []SuccessIsComplete
<1>1. IInv => SuccessIsComplete
  <2> SUFFICES ASSUME IInv, NEW s \in Setup, pc[s] = "done"
               PROVE  /\ s \in provider
                      /\ kind[s] # "remote"
                           /\ ~(kind[s] # "local" /\ starting[s] \in {"replied", "undone"})
                           => s \in runtime /\ work[s] = "running"
    BY DEF SuccessIsComplete
  <2> USE DEF IInv
  <2>1. creating[s] \in Replied /\ deleting[s] = "none"
    BY DEF StepsAgree, StepOf
  <2>2. kind[s] # "remote" => starting[s] \in Replied
    BY DEF StepsAgree, StepOf
  <2> QED
    BY <2>1, <2>2 DEF RowsAgree, RowsOf, Replied
<1> QED
  BY <1>1, Invariance, PTL

\* While the dialog is not closed under a running setup, its busy flag keeps a
\* second one from beginning.
THEOREM OneSetupAtATime == Spec => []CreatedOnce
<1>1. IInv => CreatedOnce
  BY DEF IInv
<1> QED
  BY <1>1, Invariance, PTL

\* The deletes and creates of the backend never leave a runtime row without its
\* provider.
THEOREM RuntimesHaveProviders == Spec => []RuntimeHasProvider
<1>1. IInv => RuntimeHasProvider
  BY DEF IInv, TypeOK, RowTypes, RowsAgree, RowsOf, RuntimeHasProvider
<1> QED
  BY <1>1, Invariance, PTL

\* unpublish_runtime() disables an alias that has members only if one of them was
\* published between its count and its write.
THEOREM AliasStaysEnabled == Spec => []AliasIsEnabled
<1>1. IInv => AliasIsEnabled
  BY DEF IInv
<1> QED
  BY <1>1, Invariance, PTL

-----------------------------------------------------------------------------
(* ProviderSetup implements Provisioning.                                  *)

LEMMA ProvisioningInit == Init => Promise!Init
<1> SUFFICES ASSUME Init PROVE Promise!Init
  OBVIOUS
<1>1. \A s \in Setup : OutcomeOf(s) = "none"
  BY DEF Init, OutcomeOf, Active
<1>2. \A s \in Setup : RowsNow(s) = "none"
  <2>1. provider = {} /\ runtime = {} /\ \A s \in Setup : deleting[s] = "none"
    BY DEF Init
  <2> QED
    BY <2>1 DEF RowsNow
<1>3. work = [s \in Setup |-> "none"]
  BY DEF Init
<1>4. \A s \in Setup : Owed(s) = "none"
  <2>1. \A s \in Setup : creating[s] = "none" /\ starting[s] = "none"
    BY DEF Init
  <2> QED
    BY <2>1 DEF Owed
<1> QED
  BY <1>1, <1>2, <1>3, <1>4 DEF Promise!Init

\* Which requests run, and how far they are, shows in the rows only once a delete
\* was committed; where handleFinish() is shows only when it begins and ends.
LEMMA SameRows ==
  ASSUME UNCHANGED <<provider, runtime>>, NEW r \in Setup,
         deleting'[r] = "answered" <=> deleting[r] = "answered"
  PROVE  RowsNow(r)' = RowsNow(r)
BY DEF RowsNow

LEMMA SameOutcome ==
  ASSUME NEW r \in Setup, pc'[r] = pc[r] \/ (Active(r) /\ Active(r)')
  PROVE  OutcomeOf(r)' = OutcomeOf(r)
BY DEF OutcomeOf, Active

\* What is owed shows in a request that has replied and is not over.
LEMMA SameDebt ==
  ASSUME UNCHANGED kind, NEW r \in Setup,
         creating'[r] = creating[r] \/ kind[r] # "remote",
         starting'[r] = starting[r] \/ kind[r] = "local"
  PROVE  Owed(r)' = Owed(r)
BY DEF Owed

\* The promise's maps after a step that changes them in one place.
LEMMA OneOutcome ==
  ASSUME NEW s \in Setup, NEW o, OutcomeOf(s)' = o,
         \A r \in Setup \ {s} : OutcomeOf(r)' = OutcomeOf(r)
  PROVE  [r \in Setup |-> OutcomeOf(r)]' = [[r \in Setup |-> OutcomeOf(r)] EXCEPT ![s] = o]
OBVIOUS

LEMMA OneRow ==
  ASSUME NEW s \in Setup, NEW o, RowsNow(s)' = o,
         \A r \in Setup \ {s} : RowsNow(r)' = RowsNow(r)
  PROVE  [r \in Setup |-> RowsNow(r)]' = [[r \in Setup |-> RowsNow(r)] EXCEPT ![s] = o]
OBVIOUS

LEMMA OneDebt ==
  ASSUME NEW s \in Setup, NEW o, Owed(s)' = o,
         \A r \in Setup \ {s} : Owed(r)' = Owed(r)
  PROVE  [r \in Setup |-> Owed(r)]' = [[r \in Setup |-> Owed(r)] EXCEPT ![s] = o]
OBVIOUS

\* A step that neither begins nor ends a setup, and touches neither rows nor
\* containers nor debts, stutters.
LEMMA Stutters ==
  ASSUME UNCHANGED <<kind, rowVars>>,
         \A r \in Setup : deleting'[r] = "answered" <=> deleting[r] = "answered",
         \A r \in Setup : pc'[r] = pc[r] \/ (Active(r) /\ Active(r)'),
         \A r \in Setup : Owed(r)' = Owed(r)
  PROVE  UNCHANGED Promise!vars
<1>1. \A r \in Setup : RowsNow(r)' = RowsNow(r) /\ OutcomeOf(r)' = OutcomeOf(r)
  BY SameRows, SameOutcome DEF rowVars
<1> QED
  BY <1>1 DEF Promise!vars, rowVars

\* What the rows of a setup are, from what its requests have committed.
LEMMA RowsKnown ==
  ASSUME IInv, NEW s \in Setup
  PROVE  /\ creating[s] = "running" => RowsNow(s) = "none"
         /\ creating[s] \in Replied \cup {"created", "published"} /\ deleting[s] # "answered"
              => RowsNow(s) \in {"provider", "runtime"}
         /\ starting[s] = "answered"
              \/ (kind[s] = "local" /\ starting[s] \in Replied \cup {"row", "up"})
              => RowsNow(s) = IF deleting[s] = "answered" THEN "gone" ELSE "runtime"
         /\ starting[s] \in {"none", "running"} /\ kind[s] # "remote" => s \notin runtime
         /\ starting[s] = "running" \/ creating[s] \in {"published", "replied"}
              \/ (starting[s] = "replied" /\ kind[s] # "local")
              => (s \in provider => RowsNow(s) = "provider")
<1>1. RowsOf(s)
  BY DEF IInv, RowsAgree
<1>2. deleting[s] # "none" => creating[s] = "answered"
  BY DEF IInv, RequestsAgree, RequestOf
<1>3. /\ starting[s] # "none" => creating[s] = "answered" /\ kind[s] # "remote"
      /\ creating[s] \in {"created", "published", "replied", "undone"} => kind[s] = "remote"
  BY DEF IInv, RequestsAgree, RequestOf
<1>4. /\ creating[s] = "running" => s \notin provider /\ s \notin runtime
      /\ deleting[s] = "answered" => s \notin provider /\ s \notin runtime
      /\ creating[s] \in Replied \cup {"created", "published"} /\ deleting[s] # "answered"
           => s \in provider
      /\ starting[s] = "answered"
           \/ (kind[s] = "local" /\ starting[s] \in Replied \cup {"row", "up"})
           => deleting[s] = "answered" \/ (s \in provider /\ s \in runtime)
      /\ starting[s] \in {"none", "running"} /\ kind[s] # "remote" => s \notin runtime
      /\ starting[s] = "running" \/ creating[s] \in {"published", "replied"}
           \/ (starting[s] = "replied" /\ kind[s] # "local")
           => s \notin runtime
  BY <1>1, <1>3 DEF RowsOf
<1> HIDE DEF RowsOf
<1> QED
  BY <1>2, <1>4 DEF RowsNow

\* A setup whose create, or delete, is under way has begun and has not ended well.
LEMMA NotEndedWell ==
  ASSUME IInv, NEW s \in Setup,
         \/ creating[s] \in {"running", "created", "published"}
         \/ starting[s] \in {"running", "row", "up"}
         \/ deleting[s] # "none"
  PROVE  OutcomeOf(s) \in {"open", "failed"}
<1>1. pc[s] \in {"provider", "pricing", "download", "runtime", "rollback", "done", "failed",
                 "idle"}
  BY DEF IInv, TypeOK, DialogTypes
<1>2. pc[s] # "done" /\ pc[s] # "idle"
  BY DEF IInv, StepsAgree, StepOf, RequestsAgree, RequestOf, Replied
<1> QED
  BY <1>1, <1>2 DEF OutcomeOf, Active

\* A step of one setup's requests.
LEMMA ChangeOf ==
  ASSUME NEW s \in Setup, UNCHANGED <<kind, pc>>, OutcomeOf(s) \in {"open", "failed"},
         \/ Promise!MakeProvider(s)
         \/ Promise!MakeRuntime(s)
         \/ Promise!Owe(s)
         \/ Promise!StartContainer(s)
         \/ Promise!RemoveContainer(s)
         \/ Promise!Delete(s)
  PROVE  Promise!Next
<1>1. \A r \in Setup : OutcomeOf(r)' = OutcomeOf(r)
  BY SameOutcome
<1>2. Promise!Change(s)
  BY <1>1 DEF Promise!Change
<1> QED
  BY <1>2 DEF Promise!Next

LEMMA BeginsSetup ==
  ASSUME IInv, Finish
  PROVE  Promise!Next
<1>1. PICK s \in Setup : /\ s = begun + 1 /\ pc[s] = "idle"
                         /\ pc' = [pc EXCEPT ![s] = "provider"]
                         /\ creating' = [creating EXCEPT ![s] = "running"]
  <2>1. begun \in 0..NumSetups /\ begun < NumSetups /\ begun' = begun + 1
    BY DEF Finish, IInv, TypeOK, DialogTypes
  <2>2. begun' \in Setup /\ begun' > begun
    BY <2>1, SetupAssumption DEF Setup
  <2> QED
    BY <2>1, <2>2 DEF Finish, IInv, StepsAgree, StepOf
<1>2. OutcomeOf(s) = "none" /\ OutcomeOf(s)' = "open"
  BY <1>1 DEF OutcomeOf, Active, IInv, TypeOK, DialogTypes
<1>3. \A r \in Setup \ {s} : OutcomeOf(r)' = OutcomeOf(r)
  BY <1>1, SameOutcome DEF IInv, TypeOK, DialogTypes
<1>4. UNCHANGED <<kind, work>> /\ \A r \in Setup : RowsNow(r)' = RowsNow(r)
  BY SameRows DEF Finish, rowVars
<1>5. \A r \in Setup : Owed(r)' = Owed(r)
  <2>1. creating[s] = "none"
    BY <1>1 DEF IInv, StepsAgree, StepOf
  <2>2. Owed(s)' = Owed(s)
    BY <1>1, <2>1 DEF Finish, Owed, IInv, TypeOK, RequestTypes
  <2>3. ASSUME NEW r \in Setup, r # s PROVE Owed(r)' = Owed(r)
    BY <1>1, <2>3, SameDebt DEF Finish, IInv, TypeOK, RequestTypes
  <2> QED
    BY <2>2, <2>3
<1>6. Promise!Begin(s)
  BY <1>2, <1>3, <1>4, <1>5, OneOutcome DEF Promise!Begin
<1> QED
  BY <1>4, <1>6 DEF Promise!Next

\* handleFinish() returns.
LEMMA EndsSetup ==
  ASSUME IInv, NEW s \in Setup, NEW how \in {"done", "failed"},
         Active(s), Return(s, how), UNCHANGED <<kind, requestVars, rowVars>>,
         how = "done" =>
           \/ Owed(s) # "none"
           \/ /\ RowsNow(s) \in {"provider", "runtime"}
              /\ kind[s] # "remote" => RowsNow(s) = "runtime" /\ work[s] = "running"
  PROVE  Promise!Next
<1>1. OutcomeOf(s) = "open" /\ OutcomeOf(s)' = how
  BY DEF OutcomeOf, Active, Return, IInv, TypeOK, DialogTypes
<1>2. \A r \in Setup \ {s} : OutcomeOf(r)' = OutcomeOf(r)
  BY SameOutcome DEF Return, IInv, TypeOK, DialogTypes
<1>3. UNCHANGED <<kind, work>> /\ \A r \in Setup : RowsNow(r)' = RowsNow(r)
  BY SameRows DEF requestVars, rowVars
<1>4. how = "done" => Promise!Complete(s) \/ Owed(s) # "none"
  BY DEF Promise!Complete
<1>5. \A r \in Setup : Owed(r)' = Owed(r)
  BY SameDebt DEF requestVars
<1>6. Promise!End(s, how)
  BY <1>1, <1>2, <1>3, <1>4, <1>5, OneOutcome DEF Promise!End
<1> QED
  BY <1>3, <1>6 DEF Promise!Next

LEMMA ProviderCommitted ==
  ASSUME IInv, NEW s \in Setup, CommitProvider(s)
  PROVE  Promise!Next
<1>1. RowsNow(s) = "none" /\ OutcomeOf(s) \in {"open", "failed"}
  BY RowsKnown, NotEndedWell DEF CommitProvider
<1>2. s \notin runtime
  BY <1>1 DEF RowsNow
<1>3. RowsNow(s)' = "provider" /\ \A r \in Setup \ {s} : RowsNow(r)' = RowsNow(r)
  BY <1>2 DEF CommitProvider, RowsNow
<1>4. \A r \in Setup : Owed(r)' = Owed(r)
  BY DEF CommitProvider, uiVars, Owed, IInv, TypeOK, RequestTypes
<1>5. Promise!MakeProvider(s)
  BY <1>1, <1>3, <1>4, OneRow DEF CommitProvider, Promise!MakeProvider
<1> QED
  BY <1>1, <1>5, ChangeOf DEF CommitProvider, uiVars

\* On this server the runtime's row is committed before the answer.
LEMMA RuntimeCommitted ==
  ASSUME IInv, NEW s \in Setup, CommitRuntime(s)
  PROVE  Promise!Next
<1>1. /\ starting[s] = "running" /\ kind[s] = "local" /\ s \in provider
      /\ starting' = [starting EXCEPT ![s] = "row"] /\ runtime' = runtime \cup {s}
      /\ UNCHANGED <<kind, pc, creating, deleting, provider, work>>
  BY DEF CommitRuntime, uiVars
<1>2. OutcomeOf(s) \in {"open", "failed"} /\ RowsNow(s) = "provider"
  BY <1>1, NotEndedWell, RowsKnown
<1>3. RowsNow(s)' = "runtime" /\ \A r \in Setup \ {s} : RowsNow(r)' = RowsNow(r)
  BY <1>1 DEF RowsNow
<1>4. \A r \in Setup : Owed(r)' = Owed(r)
  BY <1>1, SameDebt DEF IInv, TypeOK, RequestTypes
<1>5. Promise!MakeRuntime(s)
  BY <1>1, <1>2, <1>3, <1>4, OneRow DEF Promise!MakeRuntime
<1> QED
  BY <1>1, <1>2, <1>5, ChangeOf

\* A reply that is sent before the runtime is committed.
LEMMA RuntimeOwed ==
  ASSUME IInv, NEW s \in Setup, UNCHANGED <<kind, pc, deleting, rowVars>>,
         RowsNow(s) = "provider", OutcomeOf(s) \in {"open", "failed"},
         Owed(s) = "none", Owed(s)' = "owed",
         \A r \in Setup \ {s} : Owed(r)' = Owed(r)
  PROVE  Promise!Next
<1>1. \A r \in Setup : RowsNow(r)' = RowsNow(r)
  BY SameRows DEF rowVars
<1>2. Promise!Owe(s)
  BY <1>1, OneDebt DEF Promise!Owe, rowVars
<1> QED
  BY <1>2, ChangeOf

\* The commit that follows it, on a node with the order to start the container.
LEMMA RuntimePaid ==
  ASSUME IInv, NEW s \in Setup, UNCHANGED <<kind, pc, deleting, provider>>,
         runtime' = runtime \cup {s}, s \in provider, RowsNow(s) = "provider",
         work' = IF kind[s] = "remote" THEN work ELSE [work EXCEPT ![s] = "running"],
         Owed(s) = "owed", Owed(s)' = "none",
         \A r \in Setup \ {s} : Owed(r)' = Owed(r)
  PROVE  Promise!Next
<1>1. RowsNow(s)' = "runtime" /\ \A r \in Setup \ {s} : RowsNow(r)' = RowsNow(r)
  BY DEF RowsNow
<1>2. \A r \in Setup : OutcomeOf(r)' = OutcomeOf(r)
  BY SameOutcome
<1>3. Promise!Pay(s)
  BY <1>1, <1>2, OneRow, OneDebt DEF Promise!Pay
<1> QED
  BY <1>3 DEF Promise!Next

\* The commit that fails.
LEMMA RuntimeLost ==
  ASSUME IInv, NEW s \in Setup, UNCHANGED <<kind, pc, deleting, rowVars>>,
         Owed(s) = "owed", Owed(s)' = "lost",
         \A r \in Setup \ {s} : Owed(r)' = Owed(r)
  PROVE  Promise!Next
<1>1. \A r \in Setup : RowsNow(r)' = RowsNow(r) /\ OutcomeOf(r)' = OutcomeOf(r)
  BY SameRows, SameOutcome DEF rowVars
<1>2. Promise!Default(s)
  BY <1>1, OneDebt DEF Promise!Default, rowVars
<1> QED
  BY <1>2 DEF Promise!Next

\* Docker starts the container, whether the request then fails or not.
LEMMA ContainerStarted ==
  ASSUME IInv, NEW s \in Setup, starting[s] = "row",
         \E to : starting' = [starting EXCEPT ![s] = to],
         work' = [work EXCEPT ![s] = "running"],
         UNCHANGED <<kind, pc, creating, deleting, provider, runtime>>
  PROVE  Promise!Next
<1>1. kind[s] = "local" /\ work[s] = "none"
  BY DEF IInv, RequestsAgree, RequestOf, RowsAgree, RowsOf
<1>2. RowsNow(s) \in {"runtime", "gone"} /\ OutcomeOf(s) \in {"open", "failed"}
  BY <1>1, RowsKnown, NotEndedWell
<1>3. \A r \in Setup : RowsNow(r)' = RowsNow(r)
  BY SameRows
<1>4. \A r \in Setup : Owed(r)' = Owed(r)
  BY <1>1, SameDebt DEF IInv, TypeOK, RequestTypes
<1>5. Promise!StartContainer(s)
  BY <1>1, <1>2, <1>3, <1>4 DEF Promise!StartContainer
<1> QED
  BY <1>2, <1>5, ChangeOf

LEMMA ContainerTornDown ==
  ASSUME IInv, NEW s \in Setup, Teardown(s)
  PROVE  Promise!Next \/ UNCHANGED Promise!vars
<1>1. UNCHANGED <<kind, pc, creating, starting, provider, runtime>> /\ deleting[s] = "listed"
  BY DEF Teardown, uiVars
<1>2. \A r \in Setup : deleting'[r] = "answered" <=> deleting[r] = "answered"
  BY DEF Teardown, IInv, TypeOK, RequestTypes
<1>3. \A r \in Setup : Owed(r)' = Owed(r)
  BY <1>1, SameDebt
<1>4. CASE UNCHANGED work
  BY <1>1, <1>2, <1>3, <1>4, Stutters DEF rowVars
<1>5. CASE ~UNCHANGED work
  <2>1. listed[s] = "full" /\ work' = [work EXCEPT ![s] = "removed"]
    BY <1>5 DEF Teardown, IInv, TypeOK, RowTypes
  <2>2. starting[s] = "answered"
    BY <2>1 DEF IInv, DeletesAgree, DeleteOf
  <2>3. RowsNow(s) = "runtime" /\ OutcomeOf(s) \in {"open", "failed"}
    BY <1>1, <2>2, RowsKnown, NotEndedWell
  <2>4. \A r \in Setup : RowsNow(r)' = RowsNow(r)
    BY <1>1, <1>2, SameRows
  <2>5. Promise!RemoveContainer(s)
    BY <1>3, <2>1, <2>3, <2>4 DEF Promise!RemoveContainer
  <2> QED
    BY <1>1, <2>3, <2>5, ChangeOf
<1> QED
  BY <1>4, <1>5

LEMMA DeleteCommitted ==
  ASSUME IInv, NEW s \in Setup, CommitDelete(s)
  PROVE  Promise!Next
<1>1. /\ UNCHANGED <<kind, pc, creating, starting>> /\ deleting[s] = "replied"
      /\ provider' = provider \ {s} /\ runtime' = runtime \ {s}
      /\ deleting' = [deleting EXCEPT ![s] = "answered"]
      /\ work' = work \/ work' = [work EXCEPT ![s] = "removed"]
  BY DEF CommitDelete, uiVars, IInv, TypeOK, RowTypes, RequestTypes
<1>2. creating[s] = "answered" /\ kind[s] # "remote" /\ starting[s] # "replied"
  BY <1>1 DEF IInv, RequestsAgree, RequestOf
<1>3. RowsNow(s) \in {"provider", "runtime"} /\ OutcomeOf(s) \in {"open", "failed"}
  BY <1>1, <1>2, RowsKnown, NotEndedWell DEF Replied
<1>4. RowsNow(s)' = "gone"
  BY <1>1 DEF RowsNow, IInv, TypeOK, RequestTypes
<1>5. \A r \in Setup \ {s} : RowsNow(r)' = RowsNow(r)
  BY <1>1 DEF RowsNow, IInv, TypeOK, RequestTypes
<1>6. Owed(s) # "owed" /\ \A r \in Setup : Owed(r)' = Owed(r)
  BY <1>1, <1>2, SameDebt DEF Owed
<1>7. Promise!Delete(s)
  BY <1>1, <1>3, <1>4, <1>5, <1>6, OneRow DEF Promise!Delete
<1> QED
  BY <1>1, <1>3, <1>7, ChangeOf

\* handleFinish() goes from one step to the next, or returns.
LEMMA WizardKeepsPromise ==
  ASSUME IInv, NEW s \in Setup, Wizard(s)
  PROVE  Promise!Next \/ UNCHANGED Promise!vars
<1> USE DEF Return, uiVars
<1>1. ASSUME UNCHANGED <<kind, creating, rowVars>>,
             pc' = [pc EXCEPT ![s] = pc'[s]], Active(s), Active(s)',
             deleting' = deleting \/ deleting' = [deleting EXCEPT ![s] = "running"],
             deleting[s] # "answered",
             \/ starting' = starting
             \/ starting[s] = "none" /\ starting' = [starting EXCEPT ![s] = "running"]
      PROVE  UNCHANGED Promise!vars
  <2>1. \A r \in Setup : deleting'[r] = "answered" <=> deleting[r] = "answered"
    BY <1>1 DEF IInv, TypeOK, RequestTypes
  <2>2. \A r \in Setup : pc'[r] = pc[r] \/ (Active(r) /\ Active(r)')
    BY <1>1 DEF IInv, TypeOK, DialogTypes
  <2>3. \A r \in Setup : Owed(r)' = Owed(r)
    BY <1>1 DEF Owed, IInv, TypeOK, RequestTypes
  <2> QED
    BY <1>1, <2>1, <2>2, <2>3, Stutters
<1>2. /\ deleting[s] # "none" => pc[s] \in {"rollback", "failed"}
      /\ starting[s] # "none" => pc[s] \in {"runtime", "rollback", "done", "failed"}
  BY DEF IInv, StepsAgree, StepOf
<1>3. pc \in [Setup -> {"idle", "provider", "pricing", "download", "runtime",
                       "rollback", "done", "failed"}]
  BY DEF IInv, TypeOK, DialogTypes
<1>4. CASE ProviderKnown(s)
  BY <1>1, <1>2, <1>3, <1>4 DEF ProviderKnown, AskRuntime, Active
<1>5. CASE DownloadStarted(s)
  BY <1>1, <1>2, <1>3, <1>5 DEF DownloadStarted, AskRuntime, Active
<1>6. CASE DownloadFails(s)
  BY <1>1, <1>2, <1>3, <1>6 DEF DownloadFails, BeginRollback, Active
<1>7. CASE RuntimeUnknown(s)
  BY <1>1, <1>2, <1>3, <1>7 DEF RuntimeUnknown, BeginRollback, Active
<1>8. CASE PricingEnds(s)
  <2>1. kind[s] = "remote" /\ creating[s] \in Replied /\ deleting[s] # "answered"
    BY <1>2, <1>8 DEF PricingEnds, IInv, StepsAgree, StepOf
  <2>2. RowsNow(s) \in {"provider", "runtime"}
    BY <2>1, RowsKnown
  <2> QED
    BY <1>8, <2>1, <2>2, EndsSetup DEF PricingEnds, Active
<1>9. CASE RuntimeKnown(s)
  <2>1. starting[s] \in Replied /\ kind[s] # "remote" /\ deleting[s] = "none"
    BY <1>2, <1>9 DEF RuntimeKnown, IInv, StepsAgree, StepOf
  <2>2. CASE starting[s] = "answered" \/ kind[s] = "local"
    <3>1. RowsNow(s) = "runtime"
      BY <2>1, <2>2, RowsKnown
    <3>2. work[s] = "running"
      BY <2>1, <2>2 DEF IInv, RowsAgree, RowsOf
    <3> QED
      BY <1>9, <3>1, <3>2, EndsSetup DEF RuntimeKnown, Active
  <2>3. CASE starting[s] # "answered" /\ kind[s] # "local"
    <3>1. Owed(s) # "none"
      BY <2>1, <2>3 DEF Owed, Replied
    <3> QED
      BY <1>9, <3>1, EndsSetup DEF RuntimeKnown, Active
  <2> QED
    BY <2>2, <2>3
<1>10. CASE ProviderUnknown(s)
  BY <1>10, EndsSetup DEF ProviderUnknown, Active
<1>11. CASE RollbackEnds(s)
  BY <1>11, EndsSetup DEF RollbackEnds, Active
<1> QED
  BY <1>4, <1>5, <1>6, <1>7, <1>8, <1>9, <1>10, <1>11 DEF Wizard

\* POST /providers owes a remote runtime between its reply and its commit.
LEMMA ProviderKeepsPromise ==
  ASSUME IInv, NEW s \in Setup,
         ReplyRemote(s) \/ CommitRemote(s)
  PROVE  Promise!Next
<1>1. creating[s] \in {"published", "replied"}
  BY DEF ReplyRemote, CommitRemote
<1>2. kind[s] = "remote" /\ deleting[s] # "answered"
  BY <1>1 DEF IInv, RequestsAgree, RequestOf
<1>3. s \in provider /\ RowsNow(s) = "provider"
  <2>1. s \in provider
    BY <1>1, <1>2 DEF IInv, RowsAgree, RowsOf, Replied
  <2> QED
    BY <1>1, <2>1, RowsKnown
<1>4. CASE ReplyRemote(s)
  <2>1. /\ UNCHANGED <<kind, pc, deleting, rowVars, starting>> /\ creating[s] = "published"
        /\ creating' = [creating EXCEPT ![s] = "replied"]
    BY <1>4 DEF ReplyRemote, uiVars
  <2>2. Owed(s) = "none" /\ Owed(s)' = "owed" /\ \A r \in Setup \ {s} : Owed(r)' = Owed(r)
    BY <1>2, <2>1 DEF Owed, IInv, TypeOK, RequestTypes
  <2>3. OutcomeOf(s) \in {"open", "failed"}
    BY <2>1, NotEndedWell
  <2> QED
    BY <1>3, <2>1, <2>2, <2>3, RuntimeOwed
<1>5. CASE CommitRemote(s) /\ creating' = [creating EXCEPT ![s] = "answered"]
  <2>1. /\ UNCHANGED <<kind, pc, deleting, provider, work, starting>> /\ creating[s] = "replied"
        /\ runtime' = runtime \cup {s}
    BY <1>5 DEF CommitRemote, uiVars, IInv, TypeOK, RequestTypes
  <2>2. Owed(s) = "owed" /\ Owed(s)' = "none" /\ \A r \in Setup \ {s} : Owed(r)' = Owed(r)
    BY <1>2, <1>5, <2>1 DEF Owed, IInv, TypeOK, RequestTypes
  <2> QED
    BY <1>2, <1>3, <2>1, <2>2, RuntimePaid
<1>6. CASE CommitRemote(s) /\ creating' = [creating EXCEPT ![s] = "undone"]
  <2>1. UNCHANGED <<kind, pc, deleting, rowVars, starting>> /\ creating[s] = "replied"
    BY <1>6 DEF CommitRemote, uiVars, rowVars, IInv, TypeOK, RequestTypes
  <2>2. Owed(s) = "owed" /\ Owed(s)' = "lost" /\ \A r \in Setup \ {s} : Owed(r)' = Owed(r)
    BY <1>2, <1>6, <2>1 DEF Owed, IInv, TypeOK, RequestTypes
  <2> QED
    BY <2>1, <2>2, RuntimeLost
<1> QED
  BY <1>4, <1>5, <1>6 DEF CommitRemote

\* POST /runtimes owes a node's runtime between its reply and its commit; on this
\* server the row is there by then.
LEMMA RuntimeKeepsPromise ==
  ASSUME IInv, NEW s \in Setup,
         ReplyRuntime(s) \/ CommitAnswer(s) \/ UndoAnswer(s)
  PROVE  Promise!Next \/ UNCHANGED Promise!vars
<1>1. /\ UNCHANGED <<kind, pc, creating, deleting, provider>>
      /\ \E to : starting' = [starting EXCEPT ![s] = to]
  BY DEF ReplyRuntime, CommitAnswer, UndoAnswer, uiVars, rowVars
<1>2. \A r \in Setup \ {s} : Owed(r)' = Owed(r)
  BY <1>1, SameDebt DEF IInv, TypeOK, RequestTypes
<1>3. CASE kind[s] = "local"
  <2>1. Owed(s)' = Owed(s)
    BY <1>1, <1>3, SameDebt
  <2>2. UNCHANGED rowVars
    BY <1>3 DEF ReplyRuntime, CommitAnswer, UndoAnswer, rowVars
  <2> QED
    BY <1>1, <1>2, <2>1, <2>2, Stutters
<1>4. CASE kind[s] # "local"
  <2>1. kind[s] # "remote" /\ starting[s] \in {"running", "replied"} /\ s \in provider
    BY <1>4 DEF ReplyRuntime, CommitAnswer, UndoAnswer, IInv, RequestsAgree, RequestOf, RowsAgree, RowsOf
  <2>2. RowsNow(s) = "provider"
    BY <1>4, <2>1, RowsKnown
  <2>3. CASE ReplyRuntime(s)
    <3>1. starting[s] = "running" /\ UNCHANGED rowVars
          /\ starting' = [starting EXCEPT ![s] = "replied"]
      BY <1>4, <2>1, <2>3 DEF ReplyRuntime
    <3>2. Owed(s) = "none" /\ Owed(s)' = "owed"
      BY <1>1, <1>4, <2>1, <3>1 DEF Owed, IInv, TypeOK, RequestTypes
    <3>3. OutcomeOf(s) \in {"open", "failed"}
      BY <3>1, NotEndedWell
    <3> QED
      BY <1>1, <1>2, <2>2, <3>1, <3>2, <3>3, RuntimeOwed
  <2>4. CASE CommitAnswer(s)
    <3>1. /\ starting[s] = "replied" /\ starting' = [starting EXCEPT ![s] = "answered"]
          /\ runtime' = runtime \cup {s} /\ work' = [work EXCEPT ![s] = "running"]
      BY <1>4, <2>4 DEF CommitAnswer
    <3>2. Owed(s) = "owed" /\ Owed(s)' = "none"
      BY <1>1, <1>4, <2>1, <3>1 DEF Owed, IInv, TypeOK, RequestTypes
    <3> QED
      BY <1>1, <1>2, <2>1, <2>2, <3>1, <3>2, RuntimePaid
  <2>5. CASE UndoAnswer(s)
    <3>1. /\ starting[s] = "replied" /\ UNCHANGED rowVars
          /\ starting' = [starting EXCEPT ![s] = "undone"]
      BY <2>5 DEF UndoAnswer
    <3>2. Owed(s) = "owed" /\ Owed(s)' = "lost"
      BY <1>1, <1>4, <2>1, <3>1 DEF Owed, IInv, TypeOK, RequestTypes
    <3> QED
      BY <1>1, <1>2, <3>1, <3>2, RuntimeLost
  <2> QED
    BY <2>3, <2>4, <2>5
<1> QED
  BY <1>3, <1>4

\* The backend's requests make, start, remove and delete, or change nothing that
\* was promised.
LEMMA BackendKeepsPromise ==
  ASSUME IInv, NEW s \in Setup, Backend(s)
  PROVE  Promise!Next \/ UNCHANGED Promise!vars
<1> USE DEF uiVars, rowVars
<1>1. ASSUME UNCHANGED <<kind, pc, rowVars>>,
             \/ deleting' = deleting
             \/ \E d : /\ deleting' = [deleting EXCEPT ![s] = d]
                       /\ deleting[s] # "answered" /\ d # "answered",
             \A r \in Setup : Owed(r)' = Owed(r)
      PROVE  UNCHANGED Promise!vars
  <2>1. \A r \in Setup : deleting'[r] = "answered" <=> deleting[r] = "answered"
    BY <1>1 DEF IInv, TypeOK, RequestTypes
  <2> QED
    BY <1>1, <2>1, Stutters
<1>2. CASE RefuseProvider(s) \/ ProvisionRemote(s) \/ RemoteFails(s)
  <2>1. \A r \in Setup : Owed(r)' = Owed(r)
    BY <1>2 DEF RefuseProvider, ProvisionRemote, RemoteFails, Owed, IInv, TypeOK, RequestTypes
  <2> QED
    BY <1>1, <1>2, <2>1 DEF RefuseProvider, ProvisionRemote, RemoteFails
<1>3. CASE RefuseRuntime(s) \/ AnswerFails(s) \/ (ContainerFails(s) /\ UNCHANGED work)
  <2>1. \A r \in Setup : Owed(r)' = Owed(r)
    BY <1>3 DEF RefuseRuntime, AnswerFails, ContainerFails, Owed, IInv, TypeOK, RequestTypes
  <2> QED
    BY <1>1, <1>3, <2>1 DEF RefuseRuntime, AnswerFails, ContainerFails
<1>4. CASE ListRuntimes(s) \/ Unpublish(s) \/ DeleteFails(s)
  <2>1. UNCHANGED <<kind, creating, starting>>
    BY <1>4 DEF ListRuntimes, Unpublish, DeleteFails
  <2> QED
    BY <1>1, <1>4, <2>1, SameDebt DEF ListRuntimes, Unpublish, DeleteFails
<1>5. CASE ReplyDelete(s) \/ UndoDelete(s)
  <2>1. UNCHANGED <<kind, creating, starting>>
    BY <1>5 DEF ReplyDelete, UndoDelete
  <2> QED
    BY <1>1, <1>5, <2>1, SameDebt DEF ReplyDelete, UndoDelete
<1>6. CASE CommitProvider(s)
  BY <1>6, ProviderCommitted
<1>7. CASE ReplyRemote(s) \/ CommitRemote(s)
  BY <1>7, ProviderKeepsPromise
<1>8. CASE CommitRuntime(s)
  BY <1>8, RuntimeCommitted
<1>9. CASE ReplyRuntime(s) \/ CommitAnswer(s) \/ UndoAnswer(s)
  BY <1>9, RuntimeKeepsPromise
<1>10. CASE ContainerUp(s) \/ (ContainerFails(s) /\ ~UNCHANGED work)
  BY <1>10, ContainerStarted DEF ContainerUp, ContainerFails
<1>11. CASE Teardown(s)
  BY <1>11, ContainerTornDown
<1>12. CASE CommitDelete(s)
  BY <1>12, DeleteCommitted
<1> QED
  BY <1>2, <1>3, <1>4, <1>5, <1>6, <1>7, <1>8, <1>9, <1>10, <1>11, <1>12 DEF Backend

LEMMA ProvisioningStep == IInv /\ [Next]_vars => [Promise!Next]_(Promise!vars)
<1> SUFFICES ASSUME IInv, [Next]_vars
             PROVE  Promise!Next \/ UNCHANGED Promise!vars
  OBVIOUS
<1>1. CASE Open \/ Close \/ UNCHANGED vars
  <2>1. UNCHANGED <<kind, pc, creating, starting, deleting, rowVars>>
    BY <1>1 DEF Open, Close, vars, uiVars, requestVars
  <2> QED
    BY <2>1, Stutters, SameDebt
<1>2. CASE Finish
  BY <1>2, BeginsSetup
<1>3. ASSUME NEW s \in Setup, Wizard(s) \/ Backend(s)
      PROVE  Promise!Next \/ UNCHANGED Promise!vars
  BY <1>3, WizardKeepsPromise, BackendKeepsPromise
<1> QED
  BY <1>1, <1>2, <1>3 DEF Next

\* ProviderSetup implements Provisioning: rows are made in order and go together,
\* none comes back after its delete, and a setup that ended well is complete, or is
\* owed what was answered for, and is not touched again but to pay it, whatever
\* requests outlive the browser's interest in them.
THEOREM ProvisioningKept == Spec => ProvisioningPromise
BY ProvisioningInit, ProvisioningStep, Invariance, PTL
DEF Spec, ProvisioningPromise, Promise!Spec

-----------------------------------------------------------------------------
(* Liveness.                                                               *)

At(s, stage) == pc[s] = stage

\* handleFinish() leaves a step only for a later one.
LEMMA WizardGoesForward ==
  ASSUME IInv, NEW s \in Setup, Wizard(s)
  PROVE  \/ At(s, "provider") /\ pc'[s] \in {"pricing", "download", "runtime", "failed"}
         \/ At(s, "pricing") /\ pc'[s] = "done"
         \/ At(s, "download") /\ pc'[s] \in {"runtime", "rollback"}
         \/ At(s, "runtime") /\ pc'[s] \in {"rollback", "done"}
         \/ At(s, "rollback") /\ pc'[s] = "failed"
<1> USE DEF IInv, TypeOK, DialogTypes, At, Return, AskRuntime, BeginRollback
<1>1. CASE ProviderKnown(s)
  BY <1>1 DEF ProviderKnown
<1>2. CASE ProviderUnknown(s)
  BY <1>2 DEF ProviderUnknown
<1>3. CASE PricingEnds(s)
  BY <1>3 DEF PricingEnds
<1>4. CASE DownloadStarted(s)
  BY <1>4 DEF DownloadStarted
<1>5. CASE DownloadFails(s)
  BY <1>5 DEF DownloadFails
<1>6. CASE RuntimeKnown(s)
  BY <1>6 DEF RuntimeKnown
<1>7. CASE RuntimeUnknown(s)
  BY <1>7 DEF RuntimeUnknown
<1>8. CASE RollbackEnds(s)
  BY <1>8 DEF RollbackEnds
<1> QED
  BY <1>1, <1>2, <1>3, <1>4, <1>5, <1>6, <1>7, <1>8 DEF Wizard

\* Nothing but its own steps moves a setup that runs: the user, the backend and
\* the other setups leave it where it is.
LEMMA OthersLeaveItAlone ==
  ASSUME IInv, NEW s \in Setup, Active(s), [Next]_vars, ~Wizard(s)
  PROVE  pc'[s] = pc[s]
<1> USE DEF IInv, TypeOK, DialogTypes, Setup
<1>1. CASE UNCHANGED vars
  BY <1>1 DEF vars
<1>2. CASE Open \/ Close
  BY <1>2 DEF Open, Close
<1>3. CASE Finish
  <2>1. pc[begun'] = "idle" /\ pc' = [pc EXCEPT ![begun'] = "provider"]
    BY <1>3, SetupAssumption DEF Finish, StepsAgree, StepOf
  <2>2. begun' # s
    BY <2>1 DEF Active
  <2> QED
    BY <2>1, <2>2
<1>4. ASSUME NEW r \in Setup, Wizard(r) PROVE pc'[s] = pc[s]
  <2>1. r # s
    BY <1>4
  <2>2. \E to : pc' = [pc EXCEPT ![r] = to]
    BY <1>4 DEF Wizard, ProviderKnown, ProviderUnknown, PricingEnds, DownloadStarted,
       DownloadFails, RuntimeKnown, RuntimeUnknown, RollbackEnds,
       Return, AskRuntime, BeginRollback
  <2> QED
    BY <2>1, <2>2
<1>5. ASSUME NEW r \in Setup, Backend(r) PROVE pc' = pc
  BY <1>5 DEF Backend, RefuseProvider, CommitProvider, ProvisionRemote, ReplyRemote,
     CommitRemote, RemoteFails, RefuseRuntime, CommitRuntime, ContainerUp, ContainerFails,
     AnswerFails, ReplyRuntime, CommitAnswer, UndoAnswer, ListRuntimes, Teardown, Unpublish,
     ReplyDelete, CommitDelete, UndoDelete, DeleteFails
<1> QED
  BY <1>1, <1>2, <1>3, <1>4, <1>5 DEF Next

\* A setup whose fetches settle ends: it goes through at most four steps.
LEMMA SetupEndsWhenFetchesSettle ==
  ASSUME NEW s \in Setup
  PROVE  Spec /\ FetchesSettle(s) => Ends(s)
<1>1. IInv /\ At(s, "provider") /\ [Next]_vars
        => \/ At(s, "provider")' \/ At(s, "pricing")' \/ At(s, "download")'
           \/ At(s, "runtime")' \/ ~Active(s)'
  BY WizardGoesForward, OthersLeaveItAlone DEF At, Active
<1>2. IInv /\ At(s, "pricing") /\ [Next]_vars => At(s, "pricing")' \/ ~Active(s)'
  BY WizardGoesForward, OthersLeaveItAlone DEF At, Active
<1>3. IInv /\ At(s, "download") /\ [Next]_vars
        => At(s, "download")' \/ At(s, "runtime")' \/ At(s, "rollback")'
  BY WizardGoesForward, OthersLeaveItAlone DEF At, Active
<1>4. IInv /\ At(s, "runtime") /\ [Next]_vars
        => At(s, "runtime")' \/ At(s, "rollback")' \/ ~Active(s)'
  BY WizardGoesForward, OthersLeaveItAlone DEF At, Active
<1>5. IInv /\ At(s, "rollback") /\ [Next]_vars => At(s, "rollback")' \/ ~Active(s)'
  BY WizardGoesForward, OthersLeaveItAlone DEF At, Active
<1>6. IInv /\ <<Wizard(s)>>_vars
        => /\ At(s, "provider") => ~At(s, "provider")'
           /\ At(s, "pricing") => ~At(s, "pricing")'
           /\ At(s, "download") => ~At(s, "download")'
           /\ At(s, "runtime") => ~At(s, "runtime")'
           /\ At(s, "rollback") => ~At(s, "rollback")'
  BY WizardGoesForward DEF At
<1>7. Active(s) <=> \/ At(s, "provider") \/ At(s, "pricing") \/ At(s, "download")
                    \/ At(s, "runtime") \/ At(s, "rollback")
  BY DEF Active, At
<1> QED
  BY <1>1, <1>2, <1>3, <1>4, <1>5, <1>6, <1>7, Invariance, PTL
  DEF Spec, FetchesSettle, Ends

\* handleFinish() ends, so that the dialog does not stay busy: fairness of its own
\* fetches is enough, whatever the backend and the user do.
THEOREM SetupsEnd == FairSpec => SetupEnds
<1> SUFFICES ASSUME NEW s \in Setup
             PROVE  FairSpec => Ends(s)
  BY DEF SetupEnds
<1>1. FairSpec => Spec /\ FetchesSettle(s)
  BY DEF FairSpec
<1> QED
  BY <1>1, SetupEndsWhenFetchesSettle, PTL
=============================================================================
