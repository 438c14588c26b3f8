-------------------------- MODULE GatewayLeaseProofs --------------------------
(***************************************************************************)
(* Machine-checked facts about GatewayLease, for any instances, requests,  *)
(* ids (repeated or not) and limits, with and without expiry.              *)
(***************************************************************************)
EXTENDS GatewayLease, FiniteSetTheorems, TLAPS

-----------------------------------------------------------------------------
(* Counting holders *)

\* How many requests hold a slot of an instance is a number.
LEMMA HoldersFinite ==
  ASSUME NEW i
  PROVE  IsFiniteSet(Holders(i)) /\ Cardinality(Holders(i)) \in Nat
<1>1. Holders(i) \in SUBSET Request
  BY DEF Holders
<1>2. IsFiniteSet(Holders(i))
  BY <1>1, PoolAssumption, FS_Subset
<1> QED
  BY <1>2, FS_CardinalityType

\* A request that takes a slot is one more holder of that instance, and of no other.
LEMMA OneMoreHolder ==
  ASSUME TypeOK, NEW r \in Request, NEW j \in Instance,
         hold[r] = NoInstance, hold' = [hold EXCEPT ![r] = j]
  PROVE  \A i \in Instance :
           Cardinality(Holders(i))' = Cardinality(Holders(i)) + (IF i = j THEN 1 ELSE 0)
<1> TAKE i \in Instance
<1>1. j # NoInstance /\ i # NoInstance
  BY PoolAssumption
<1>2. CASE i = j
  <2>1. Holders(i)' = Holders(i) \cup {r}
    BY <1>1, <1>2 DEF Holders, TypeOK
  <2>2. r \notin Holders(i)
    BY <1>1 DEF Holders
  <2> QED
    BY <1>2, <2>1, <2>2, HoldersFinite, FS_AddElement
<1>3. CASE i # j
  <2>1. Holders(i)' = Holders(i)
    BY <1>1, <1>3 DEF Holders, TypeOK
  <2> QED
    BY <1>3, <2>1, HoldersFinite
<1> QED
  BY <1>2, <1>3

\* A request that gives up its slot is one holder less of that instance only.
LEMMA OneHolderLess ==
  ASSUME TypeOK, NEW r \in Request, hold[r] \in Instance,
         hold' = [hold EXCEPT ![r] = NoInstance]
  PROVE  /\ \A i \in Instance : Cardinality(Holders(i))'
              = Cardinality(Holders(i)) - (IF i = hold[r] THEN 1 ELSE 0)
         /\ Cardinality(Holders(hold[r])) >= 1
<1>1. \A i \in Instance : Cardinality(Holders(i))'
        = Cardinality(Holders(i)) - (IF i = hold[r] THEN 1 ELSE 0)
  <2> TAKE i \in Instance
  <2>1. i # NoInstance
    BY PoolAssumption
  <2>2. CASE i = hold[r]
    <3>1. Holders(i)' = Holders(i) \ {r}
      BY <2>1, <2>2 DEF Holders, TypeOK
    <3>2. r \in Holders(i)
      BY <2>2 DEF Holders
    <3> QED
      BY <2>2, <3>1, <3>2, HoldersFinite, FS_RemoveElement
  <2>3. CASE i # hold[r]
    <3>1. Holders(i)' = Holders(i)
      BY <2>1, <2>3 DEF Holders, TypeOK
    <3> QED
      BY <2>3, <3>1, HoldersFinite
  <2> QED
    BY <2>2, <2>3
<1>2. Cardinality(Holders(hold[r])) >= 1
  <2>1. r \in Holders(hold[r])
    BY DEF Holders
  <2>2. Cardinality(Holders(hold[r])) # 0
    BY <2>1, HoldersFinite, FS_EmptySet
  <2> QED
    BY <2>2, HoldersFinite
<1> QED
  BY <1>1, <1>2

-----------------------------------------------------------------------------
(* The four things a step does to slots *)

Untouched == UNCHANGED <<hold, active>>

Granted == \E r \in Request, i \in Instance :
  /\ hold[r] = NoInstance
  /\ hold' = [hold EXCEPT ![r] = i]
  /\ cand[r][i] \in Limit
  /\ active[i] < cand[r][i]
  /\ active' = [active EXCEPT ![i] = @ + 1]

Returned == \E r \in Request :
  /\ hold[r] \in Instance
  /\ hold' = [hold EXCEPT ![r] = NoInstance]
  /\ active' = [active EXCEPT ![hold[r]] = IF @ > 0 THEN @ - 1 ELSE 0]

Lost == \E r \in Request :
  /\ hold[r] \in Instance
  /\ hold' = [hold EXCEPT ![r] = NoInstance]
  /\ UNCHANGED active

\* The candidate a handler tries next is one of its candidates, with a limit.
LEMMA NextCandidate ==
  ASSUME TypeOK, HandlersAgree, NEW r \in Request, at[r] = "trying"
  PROVE  /\ Head(todo[r]) \in Instance
         /\ Head(todo[r]) \in DOMAIN cand[r]
         /\ cand[r][Head(todo[r])] \in Limit
         /\ Tail(todo[r]) \in Seq(DOMAIN cand[r])
<1>1. PICK C \in SUBSET Instance : cand[r] \in [C -> Limit]
  BY DEF TypeOK
<1>2. todo[r] # <<>> /\ todo[r] \in Seq(C)
  BY <1>1 DEF HandlersAgree
<1>3. Head(todo[r]) \in C /\ Tail(todo[r]) \in Seq(C)
  BY <1>2
<1> QED
  BY <1>1, <1>3

\* Every step leaves the slots alone, grants one, takes one back or loses one.
LEMMA SlotStep ==
  ASSUME TypeOK, HandlersAgree, [Next]_vars
  PROVE  Untouched \/ Granted \/ Returned \/ Lost
<1>1. ASSUME NEW i \in Instance, Reconfigure(i)
      PROVE  Untouched
  BY <1>1 DEF Reconfigure, Untouched, redis, handler
<1>2. ASSUME NEW id \in Id, ExpireLease(id)
      PROVE  Untouched
  BY <1>2 DEF ExpireLease, Untouched, handler
<1>3. ASSUME NEW r \in Request, Resolve(r) \/ Rank(r) \/ Refuse(r)
      PROVE  Untouched
  BY <1>3 DEF Resolve, Rank, Refuse, Untouched, redis
<1>4. ASSUME NEW r \in Request, Acquire(r)
      PROVE  Granted
  <2>1. at[r] = "trying" /\ hold[r] = NoInstance
    BY <1>4 DEF Acquire, HandlersAgree
  <2> QED
    BY <1>4, <2>1, NextCandidate DEF Acquire, Granted
<1>5. ASSUME NEW r \in Request, FallBack(r) \/ Finish(r)
      PROVE  Returned \/ Lost
  <2>1. hold[r] \in Instance
    BY <1>5 DEF FallBack, Finish, HandlersAgree, TypeOK
  <2>2. hold' = [hold EXCEPT ![r] = NoInstance] /\ Release(r)
    BY <1>5 DEF FallBack, Finish
  <2> QED
    BY <2>1, <2>2 DEF Release, Returned, Lost, redis
<1>6. ASSUME NEW r \in Request, Vanish(r)
      PROVE  Untouched \/ Lost
  <2>1. UNCHANGED active /\ hold' = [hold EXCEPT ![r] = NoInstance]
    BY <1>6 DEF Vanish, redis
  <2>2. CASE hold[r] = NoInstance
    BY <2>1, <2>2 DEF Untouched, TypeOK
  <2>3. CASE hold[r] \in Instance
    BY <2>1, <2>3 DEF Lost
  <2> QED
    BY <2>2, <2>3 DEF TypeOK
<1>7. ASSUME UNCHANGED vars
      PROVE  Untouched
  BY <1>7 DEF vars, handler, redis, Untouched
<1> QED
  BY <1>1, <1>2, <1>3, <1>4, <1>5, <1>6, <1>7 DEF Next

-----------------------------------------------------------------------------
(* The invariant *)

LEMMA InitInv == Init => IInv
<1> SUFFICES ASSUME Init PROVE IInv
  OBVIOUS
<1>1. NoCandidates \in [{} -> Limit] /\ {} \in SUBSET Instance /\ DOMAIN NoCandidates = {}
  BY DEF NoCandidates
<1>2. NoCandidates \in UNION {[C -> Limit] : C \in SUBSET Instance}
  BY <1>1
<1>3. TypeOK
  BY <1>2, PoolAssumption DEF Init, TypeOK
<1>4. \A i \in Instance : Cardinality(Holders(i)) = 0
  <2> TAKE i \in Instance
  <2>1. Holders(i) = {}
    BY PoolAssumption DEF Holders, Init
  <2> QED
    BY <2>1, FS_EmptySet
<1>5. HoldersAreCounted /\ CountsAreBounded
  BY <1>4, PoolAssumption DEF Init, HoldersAreCounted, CountsAreBounded
<1>6. HandlersAgree /\ FallenHaveLocals /\ FallbackStaysLocal
  BY DEF Init, HandlersAgree, FallenHaveLocals, FallbackStaysLocal
<1> QED
  BY <1>3, <1>5, <1>6 DEF IInv

\* Counters stay numbers, between the holders and the largest limit.
LEMMA CountStep ==
  ASSUME IInv, [Next]_vars
  PROVE  /\ active' \in [Instance -> Nat]
         /\ HoldersAreCounted'
         /\ CountsAreBounded'
<1>1. TypeOK /\ HandlersAgree /\ HoldersAreCounted /\ CountsAreBounded
  BY DEF IInv
<1>2. active \in [Instance -> Nat]
  BY <1>1 DEF TypeOK
<1>3. CASE Untouched
  BY <1>1, <1>2, <1>3 DEF Untouched, HoldersAreCounted, CountsAreBounded, Holders
<1>4. CASE Granted
  <2>1. PICK r \in Request, j \in Instance :
          /\ hold[r] = NoInstance
          /\ hold' = [hold EXCEPT ![r] = j]
          /\ cand[r][j] \in Limit
          /\ active[j] < cand[r][j]
          /\ active' = [active EXCEPT ![j] = @ + 1]
    BY <1>4 DEF Granted
  <2>2. \A i \in Instance :
          Cardinality(Holders(i))' = Cardinality(Holders(i)) + (IF i = j THEN 1 ELSE 0)
    BY <1>1, <2>1, OneMoreHolder
  <2>3. \A i \in Instance : Cardinality(Holders(i)) \in Nat
    BY HoldersFinite
  <2>4. HoldersAreCounted'
    BY <1>1, <1>2, <2>1, <2>2, <2>3 DEF HoldersAreCounted
  <2>5. CountsAreBounded'
    BY <1>1, <1>2, <2>1, PoolAssumption DEF CountsAreBounded, Limit
  <2> QED
    BY <1>2, <2>1, <2>4, <2>5
<1>5. CASE Returned
  <2>1. PICK r \in Request :
          /\ hold[r] \in Instance
          /\ hold' = [hold EXCEPT ![r] = NoInstance]
          /\ active' = [active EXCEPT ![hold[r]] = IF @ > 0 THEN @ - 1 ELSE 0]
    BY <1>5 DEF Returned
  <2>2. \A i \in Instance : Cardinality(Holders(i))'
          = Cardinality(Holders(i)) - (IF i = hold[r] THEN 1 ELSE 0)
    BY <1>1, <2>1, OneHolderLess
  <2>3. \A i \in Instance : Cardinality(Holders(i)) \in Nat
    BY HoldersFinite
  <2>4. Cardinality(Holders(hold[r])) >= 1
    BY <1>1, <2>1, OneHolderLess
  <2>5. HoldersAreCounted'
    BY <1>1, <1>2, <2>1, <2>2, <2>3, <2>4 DEF HoldersAreCounted
  <2>6. CountsAreBounded'
    BY <1>1, <1>2, <2>1, PoolAssumption DEF CountsAreBounded
  <2> QED
    BY <1>2, <2>1, <2>5, <2>6
<1>6. CASE Lost
  <2>1. PICK r \in Request :
          /\ hold[r] \in Instance
          /\ hold' = [hold EXCEPT ![r] = NoInstance]
          /\ UNCHANGED active
    BY <1>6 DEF Lost
  <2>2. \A i \in Instance : Cardinality(Holders(i))'
          = Cardinality(Holders(i)) - (IF i = hold[r] THEN 1 ELSE 0)
    BY <1>1, <2>1, OneHolderLess
  <2>3. \A i \in Instance : Cardinality(Holders(i)) \in Nat
    BY HoldersFinite
  <2>4. HoldersAreCounted'
    BY <1>1, <1>2, <2>1, <2>2, <2>3 DEF HoldersAreCounted
  <2> QED
    BY <1>1, <1>2, <2>1, <2>4 DEF CountsAreBounded
<1> QED
  BY <1>1, <1>3, <1>4, <1>5, <1>6, SlotStep

\* Candidates read with their limits, or fewer of them, are candidates.
LEMMA CandidateTypes ==
  /\ NoCandidates \in UNION {[C -> Limit] : C \in SUBSET Instance}
  /\ \A C \in SUBSET Instance : \A f \in [C -> Limit] :
       f \in UNION {[D -> Limit] : D \in SUBSET Instance}
<1>1. {} \in SUBSET Instance /\ NoCandidates \in [{} -> Limit]
  BY DEF NoCandidates
<1> QED
  BY <1>1

\* A ranking of a nonempty set of candidates is a nonempty sequence of them.
LEMMA RankingType ==
  ASSUME NEW C, C \in UNION {[D -> Limit] : D \in SUBSET Instance},
         DOMAIN C # {}, NEW s \in ByLoad(C)
  PROVE  s \in Seq(DOMAIN C) /\ s # <<>> /\ DOMAIN C \in SUBSET Instance
<1>1. DOMAIN C \in SUBSET Instance
  OBVIOUS
<1>2. IsFiniteSet(DOMAIN C)
  BY <1>1, PoolAssumption, FS_Subset
<1>3. Cardinality(DOMAIN C) \in Nat /\ Cardinality(DOMAIN C) # 0
  BY <1>2, FS_CardinalityType, FS_EmptySet
<1>4. s \in [1..Cardinality(DOMAIN C) -> DOMAIN C]
  BY DEF ByLoad
<1>5. s \in Seq(DOMAIN C) /\ Len(s) = Cardinality(DOMAIN C)
  BY <1>3, <1>4
<1> QED
  BY <1>1, <1>3, <1>5

\* Every variable keeps its type.
LEMMA TypeStep ==
  ASSUME IInv, [Next]_vars
  PROVE  TypeOK'
<1> DEFINE Cands == UNION {[C -> Limit] : C \in SUBSET Instance}
<1> USE DEF handler, redis
<1>1. TypeOK /\ HandlersAgree
  BY DEF IInv
<1>2. active' \in [Instance -> Nat]
  BY CountStep
<1>3. NoCandidates \in Cands
  BY CandidateTypes
<1>4. ASSUME NEW i \in Instance, Reconfigure(i)
      PROVE  TypeOK'
  <2>1. PICK n \in 0..MaxLimit : limit' = [limit EXCEPT ![i] = IF n < 1 THEN 1 ELSE n]
    BY <1>4 DEF Reconfigure
  <2>2. (IF n < 1 THEN 1 ELSE n) \in Limit
    BY PoolAssumption DEF Limit
  <2> QED
    BY <1>1, <1>4, <2>1, <2>2 DEF Reconfigure, TypeOK
<1>5. ASSUME NEW id \in Id, ExpireLease(id)
      PROVE  TypeOK'
  BY <1>1, <1>5 DEF ExpireLease, TypeOK
<1>6. ASSUME NEW r \in Request, Resolve(r)
      PROVE  TypeOK'
  <2>1. PICK C \in (SUBSET Instance) \ {{}} : cand' = [cand EXCEPT ![r] = [i \in C |-> limit[i]]]
    BY <1>6 DEF Resolve
  <2>2. [i \in C |-> limit[i]] \in [C -> Limit]
    BY <1>1 DEF TypeOK
  <2>3. [i \in C |-> limit[i]] \in Cands
    BY <2>2
  <2>4. cand' \in [Request -> Cands]
    BY <1>1, <2>1, <2>3 DEF TypeOK
  <2> QED
    BY <1>1, <1>6, <2>4 DEF Resolve, TypeOK
<1>7. ASSUME NEW r \in Request, Rank(r)
      PROVE  TypeOK'
  <2>1. PICK s \in ByLoad(cand[r]) : todo' = [todo EXCEPT ![r] = s]
    BY <1>7 DEF Rank
  <2>2. cand[r] \in Cands /\ DOMAIN cand[r] # {}
    BY <1>1, <1>7 DEF Rank, TypeOK, HandlersAgree
  <2>3. s \in Seq(DOMAIN cand[r]) /\ DOMAIN cand[r] \in SUBSET Instance
    BY <2>2, RankingType
  <2>4. s \in Seq(Instance)
    BY <2>3
  <2> QED
    BY <1>1, <1>7, <2>1, <2>4 DEF Rank, TypeOK
<1>8. ASSUME NEW r \in Request, Acquire(r)
      PROVE  TypeOK'
  <2>1. Head(todo[r]) \in Instance
    BY <1>1, <1>8, NextCandidate DEF Acquire
  <2>2. hold' \in [Request -> Instance \cup {NoInstance}]
    BY <1>1, <1>8, <2>1 DEF Acquire, TypeOK
  <2>3. IdOf[r] \in Id
    BY PoolAssumption
  <2>4. todo' \in [Request -> Seq(Instance)]
    BY <1>1, <1>8 DEF Acquire, TypeOK
  <2> QED
    BY <1>1, <1>2, <1>8, <2>2, <2>3, <2>4 DEF Acquire, TypeOK
<1>9. ASSUME NEW r \in Request, Refuse(r)
      PROVE  TypeOK'
  <2>1. Tail(todo[r]) \in Seq(Instance)
    BY <1>1, <1>9 DEF Refuse, HandlersAgree, TypeOK
  <2> QED
    BY <1>1, <1>3, <1>9, <2>1 DEF Refuse, TypeOK
<1>10. ASSUME NEW r \in Request, FallBack(r)
       PROVE  TypeOK'
  <2>1. cand[r] \in Cands
    BY <1>1 DEF TypeOK
  <2>2. PICK C \in SUBSET Instance : cand[r] \in [C -> Limit]
    BY <2>1
  <2>3. [i \in DOMAIN cand[r] \ Remote |-> cand[r][i]] \in [C \ Remote -> Limit]
    BY <2>2
  <2>4. [i \in DOMAIN cand[r] \ Remote |-> cand[r][i]] \in Cands
    BY <2>3
  <2>5. cand' \in [Request -> Cands]
    BY <1>1, <1>10, <2>4 DEF FallBack, TypeOK
  <2>6. lease' \in SUBSET Id
    BY <1>1, <1>10 DEF FallBack, Release, TypeOK
  <2> QED
    BY <1>1, <1>2, <1>10, <2>5, <2>6 DEF FallBack, TypeOK
<1>11. ASSUME NEW r \in Request, Finish(r)
       PROVE  TypeOK'
  <2>1. lease' \in SUBSET Id
    BY <1>1, <1>11 DEF Finish, Release, TypeOK
  <2> QED
    BY <1>1, <1>2, <1>3, <1>11, <2>1 DEF Finish, TypeOK
<1>12. ASSUME NEW r \in Request, Vanish(r)
       PROVE  TypeOK'
  <2>1. vanished' \in 0..MaxVanish
    BY <1>1, <1>12, PoolAssumption DEF Vanish, TypeOK
  <2>2. todo' \in [Request -> Seq(Instance)]
    BY <1>1, <1>12 DEF Vanish, TypeOK
  <2> QED
    BY <1>1, <1>3, <1>12, <2>1, <2>2 DEF Vanish, TypeOK
<1>13. CASE UNCHANGED vars
  BY <1>1, <1>13 DEF vars, TypeOK
<1> QED
  BY <1>4, <1>5, <1>6, <1>7, <1>8, <1>9, <1>10, <1>11, <1>12, <1>13 DEF Next

\* Handlers stay consistent: one that tries has a candidate, one that serves a slot.
LEMMA HandlersStep ==
  ASSUME IInv, [Next]_vars
  PROVE  HandlersAgree'
<1> USE DEF handler, redis
<1>1. TypeOK /\ HandlersAgree
  BY DEF IInv
<1>2. ASSUME NEW r \in Request, Resolve(r)
      PROVE  HandlersAgree'
  <2>1. PICK C \in (SUBSET Instance) \ {{}} :
          cand' = [cand EXCEPT ![r] = [i \in C |-> limit[i]]]
    BY <1>2 DEF Resolve
  <2>2. DOMAIN [i \in C |-> limit[i]] # {}
    BY <2>1
  <2> QED
    BY <1>1, <1>2, <2>1, <2>2 DEF Resolve, HandlersAgree, TypeOK
<1>3. ASSUME NEW r \in Request, Rank(r)
      PROVE  HandlersAgree'
  <2>1. PICK s \in ByLoad(cand[r]) : todo' = [todo EXCEPT ![r] = s]
    BY <1>3 DEF Rank
  <2>2. at' = [at EXCEPT ![r] = "trying"] /\ UNCHANGED <<cand, hold, fell>>
    BY <1>3 DEF Rank
  <2>3. /\ cand[r] \in UNION {[C -> Limit] : C \in SUBSET Instance}
        /\ DOMAIN cand[r] # {}
    BY <1>1, <1>3 DEF Rank, TypeOK, HandlersAgree
  <2>4. s \in Seq(DOMAIN cand[r]) /\ s # <<>>
    BY <2>3, RankingType
  <2> QED
    BY <1>1, <1>3, <2>1, <2>2, <2>4 DEF Rank, HandlersAgree, TypeOK
<1>4. ASSUME NEW r \in Request, Acquire(r)
      PROVE  HandlersAgree'
  <2>1. Head(todo[r]) \in Instance
    BY <1>1, <1>4, NextCandidate DEF Acquire
  <2>2. Head(todo[r]) # NoInstance
    BY <2>1, PoolAssumption
  <2> QED
    BY <1>1, <1>4, <2>2 DEF Acquire, HandlersAgree, TypeOK
<1>5. ASSUME NEW r \in Request, Refuse(r)
      PROVE  HandlersAgree'
  <2>1. Tail(todo[r]) \in Seq(DOMAIN cand[r])
    BY <1>1, <1>5, NextCandidate DEF Refuse
  <2> QED
    BY <1>1, <1>5, <2>1 DEF Refuse, HandlersAgree, TypeOK
<1>6. ASSUME NEW r \in Request, FallBack(r)
      PROVE  HandlersAgree'
  <2>1. DOMAIN [i \in DOMAIN cand[r] \ Remote |-> cand[r][i]] = DOMAIN cand[r] \ Remote
    OBVIOUS
  <2> QED
    BY <1>1, <1>6, <2>1 DEF FallBack, HandlersAgree, TypeOK
<1>7. ASSUME NEW r \in Request, Finish(r) \/ Vanish(r)
      PROVE  HandlersAgree'
  <2>1. /\ at' = [at EXCEPT ![r] = "done"] /\ hold' = [hold EXCEPT ![r] = NoInstance]
        /\ fell' = fell
    BY <1>7 DEF Finish, Vanish
  <2>2. \A q \in Request : q # r => cand'[q] = cand[q] /\ todo'[q] = todo[q]
    BY <1>1, <1>7 DEF Finish, Vanish, TypeOK
  <2> QED
    BY <1>1, <2>1, <2>2 DEF HandlersAgree, TypeOK
<1>8. ASSUME UNCHANGED handler
      PROVE  HandlersAgree'
  BY <1>1, <1>8 DEF HandlersAgree
<1> QED
  BY <1>2, <1>3, <1>4, <1>5, <1>6, <1>7, <1>8
  DEF Next, Reconfigure, ExpireLease, vars

\* A request that fell back has local candidates only, and holds no remote slot.
LEMMA FallbackStep ==
  ASSUME IInv, [Next]_vars
  PROVE  FallenHaveLocals' /\ FallbackStaysLocal'
<1> USE DEF handler, redis
<1>1. TypeOK /\ HandlersAgree /\ FallenHaveLocals /\ FallbackStaysLocal
  BY DEF IInv
<1>2. NoInstance \notin Remote
  BY PoolAssumption
<1>3. ASSUME NEW r \in Request, Resolve(r)
      PROVE  FallenHaveLocals' /\ FallbackStaysLocal'
  <2>1. r \notin fell
    BY <1>1, <1>3 DEF Resolve, HandlersAgree
  <2> QED
    BY <1>1, <1>3, <2>1 DEF Resolve, FallenHaveLocals, FallbackStaysLocal, TypeOK
<1>4. ASSUME NEW r \in Request, Rank(r)
      PROVE  FallenHaveLocals' /\ FallbackStaysLocal'
  BY <1>1, <1>4 DEF Rank, FallenHaveLocals, FallbackStaysLocal
<1>5. ASSUME NEW r \in Request, Acquire(r)
      PROVE  FallenHaveLocals' /\ FallbackStaysLocal'
  <2>1. Head(todo[r]) \in DOMAIN cand[r]
    BY <1>1, <1>5, NextCandidate DEF Acquire
  <2> QED
    BY <1>1, <1>5, <2>1 DEF Acquire, FallenHaveLocals, FallbackStaysLocal, TypeOK
<1>6. ASSUME NEW r \in Request, Refuse(r) \/ Finish(r) \/ Vanish(r)
      PROVE  FallenHaveLocals' /\ FallbackStaysLocal'
  <2>1. DOMAIN NoCandidates = {}
    BY DEF NoCandidates
  <2> QED
    BY <1>1, <1>2, <1>6, <2>1
    DEF Refuse, Finish, Vanish, FallenHaveLocals, FallbackStaysLocal, TypeOK
<1>7. ASSUME NEW r \in Request, FallBack(r)
      PROVE  FallenHaveLocals' /\ FallbackStaysLocal'
  <2>1. DOMAIN [i \in DOMAIN cand[r] \ Remote |-> cand[r][i]] = DOMAIN cand[r] \ Remote
    OBVIOUS
  <2> QED
    BY <1>1, <1>2, <1>7, <2>1 DEF FallBack, FallenHaveLocals, FallbackStaysLocal, TypeOK
<1>8. ASSUME UNCHANGED handler
      PROVE  FallenHaveLocals' /\ FallbackStaysLocal'
  BY <1>1, <1>8 DEF FallenHaveLocals, FallbackStaysLocal
<1> QED
  BY <1>3, <1>4, <1>5, <1>6, <1>7, <1>8 DEF Next, Reconfigure, ExpireLease, vars

-----------------------------------------------------------------------------
(* Theorems *)

\* IInv holds in every reachable state: handlers, counters and slots agree.
THEOREM Invariance == Spec => []IInv
<1>1. IInv /\ [Next]_vars => IInv'
  BY TypeStep, CountStep, HandlersStep, FallbackStep DEF IInv
<1> QED
  BY InitInv, <1>1, PTL DEF Spec

\* Every variable of the gateway's routing keeps its type.
THEOREM TypeCorrect == Spec => []TypeOK
<1>1. IInv => TypeOK
  BY DEF IInv
<1> QED
  BY Invariance, <1>1, PTL

\* No request ever holds an uncounted slot, for any expiry, loss and id clash: the
\* lease scripts only err on the side of refusing.
THEOREM HoldersCounted == Spec => []HoldersAreCounted
<1>1. IInv => HoldersAreCounted
  BY DEF IInv
<1> QED
  BY Invariance, <1>1, PTL

\* A request whose PII scan sent it to a local instance never holds a remote one.
THEOREM FallbackIsLocal == Spec => []FallbackStaysLocal
<1>1. IInv => FallbackStaysLocal
  BY DEF IInv
<1> QED
  BY Invariance, <1>1, PTL

\* A grant leaves at most as many holders as the limit that the request read.
LEMMA GrantStep ==
  ASSUME IInv, [Next]_vars, NEW r \in Request,
         hold[r] = NoInstance, hold'[r] # NoInstance
  PROVE  Cardinality({q \in Request : hold'[q] = hold'[r]}) <= cand[r][hold'[r]]
<1>1. TypeOK /\ HandlersAgree /\ HoldersAreCounted
  BY DEF IInv
<1>2. Granted
  BY <1>1, SlotStep DEF Untouched, Returned, Lost, TypeOK
<1>3. PICK s \in Request, i \in Instance :
        /\ hold[s] = NoInstance
        /\ hold' = [hold EXCEPT ![s] = i]
        /\ cand[s][i] \in Limit
        /\ active[i] < cand[s][i]
        /\ active' = [active EXCEPT ![i] = @ + 1]
  BY <1>2 DEF Granted
<1>4. s = r /\ hold'[r] = i
  BY <1>1, <1>3 DEF TypeOK
<1>5. Cardinality(Holders(i))' = Cardinality(Holders(i)) + 1
  BY <1>1, <1>3, OneMoreHolder
<1>6. Cardinality(Holders(i)) \in Nat /\ Cardinality(Holders(i)) <= active[i]
  BY <1>1, HoldersFinite DEF HoldersAreCounted
<1>7. Cardinality(Holders(i))' <= cand[r][i]
  BY <1>1, <1>3, <1>4, <1>5, <1>6, PoolAssumption DEF TypeOK, Limit
<1>8. Holders(i)' = {q \in Request : hold'[q] = hold'[r]}
  BY <1>4 DEF Holders
<1> QED
  BY <1>4, <1>7, <1>8

\* No slot is granted beyond the limit the request read, however stale the load it
\* ranked the candidates by.
THEOREM GrantsAreLimited == Spec => GrantsWithinLimit
<1>1. IInv /\ [Next]_vars =>
        [\A r \in Request : hold[r] = NoInstance /\ hold'[r] # NoInstance
           => Cardinality({q \in Request : hold'[q] = hold'[r]}) <= cand[r][hold'[r]]]_vars
  BY GrantStep
<1> QED
  BY Invariance, <1>1, PTL DEF Spec, GrantsWithinLimit

-----------------------------------------------------------------------------
(* Refinement *)

Used == [i \in Instance |-> Cardinality(Holders(i))]
Leaked == [i \in Instance |-> active[i] - Cardinality(Holders(i))]

\* Nothing is held or lost at first.
LEMMA PoolInit == Init => Pool!Init
<1> SUFFICES ASSUME Init PROVE Pool!Init
  OBVIOUS
<1>1. \A i \in Instance : Cardinality(Holders(i)) = 0 /\ active[i] = 0
  <2> TAKE i \in Instance
  <2>1. Holders(i) = {}
    BY PoolAssumption DEF Holders, Init
  <2> QED
    BY <2>1, FS_EmptySet DEF Init
<1> QED
  BY <1>1 DEF Pool!Init

\* Each of the four kinds of step is a step of the pool, or none.
LEMMA PoolStep ==
  ASSUME IInv, [Next]_vars
  PROVE  [Pool!Next]_Pool!vars
<1>1. TypeOK /\ HandlersAgree /\ HoldersAreCounted /\ CountsAreBounded
  BY DEF IInv
<1>2. active \in [Instance -> Nat] /\ MaxLimit \in Nat
  BY <1>1, PoolAssumption DEF TypeOK
<1>3. \A i \in Instance : Cardinality(Holders(i)) \in Nat
  BY HoldersFinite
<1>4. CASE Untouched
  <2>1. Used' = Used /\ Leaked' = Leaked
    BY <1>4 DEF Untouched, Used, Leaked, Holders
  <2> QED
    BY <2>1 DEF Used, Leaked, Pool!vars
<1>5. CASE Granted
  <2>1. PICK r \in Request, j \in Instance :
          /\ hold[r] = NoInstance
          /\ hold' = [hold EXCEPT ![r] = j]
          /\ cand[r][j] \in Limit
          /\ active[j] < cand[r][j]
          /\ active' = [active EXCEPT ![j] = @ + 1]
    BY <1>5 DEF Granted
  <2>2. \A i \in Instance :
          Cardinality(Holders(i))' = Cardinality(Holders(i)) + (IF i = j THEN 1 ELSE 0)
    BY <1>1, <2>1, OneMoreHolder
  <2>3. Used[j] + Leaked[j] < MaxLimit
    BY <1>2, <1>3, <2>1 DEF Used, Leaked, Limit
  <2>4. Used' = [Used EXCEPT ![j] = @ + 1]
    <3>1. \A i \in Instance : Used'[i] = (IF i = j THEN Used[i] + 1 ELSE Used[i])
      BY <1>3, <2>2 DEF Used
    <3>2. Used = [i \in Instance |-> Used[i]] /\ Used' = [i \in Instance |-> Used'[i]]
      BY DEF Used
    <3> QED
      BY <3>1, <3>2
  <2>5. Leaked' = Leaked
    BY <1>2, <1>3, <2>1, <2>2 DEF Leaked
  <2>6. Pool!Take(j)
    BY <2>3, <2>4, <2>5 DEF Pool!Take, Used, Leaked
  <2> QED
    BY <2>6 DEF Pool!Next
<1>6. CASE Returned
  <2>1. PICK r \in Request :
          /\ hold[r] \in Instance
          /\ hold' = [hold EXCEPT ![r] = NoInstance]
          /\ active' = [active EXCEPT ![hold[r]] = IF @ > 0 THEN @ - 1 ELSE 0]
    BY <1>6 DEF Returned
  <2>2. /\ \A i \in Instance : Cardinality(Holders(i))'
             = Cardinality(Holders(i)) - (IF i = hold[r] THEN 1 ELSE 0)
        /\ Cardinality(Holders(hold[r])) >= 1
    BY <1>1, <2>1, OneHolderLess
  <2>3. active[hold[r]] > 0
    BY <1>1, <1>2, <1>3, <2>1, <2>2 DEF HoldersAreCounted
  <2>4. Used[hold[r]] > 0 /\ Used' = [Used EXCEPT ![hold[r]] = @ - 1]
    BY <1>3, <2>1, <2>2 DEF Used
  <2>5. Leaked' = Leaked
    BY <1>2, <1>3, <2>1, <2>2, <2>3 DEF Leaked
  <2>6. Pool!GiveBack(hold[r])
    BY <2>4, <2>5 DEF Pool!GiveBack, Used, Leaked
  <2> QED
    BY <2>1, <2>6 DEF Pool!Next
<1>7. CASE Lost
  <2>1. PICK r \in Request :
          /\ hold[r] \in Instance
          /\ hold' = [hold EXCEPT ![r] = NoInstance]
          /\ UNCHANGED active
    BY <1>7 DEF Lost
  <2>2. PICK j \in Instance : j = hold[r]
    BY <2>1
  <2>3. /\ \A i \in Instance : Cardinality(Holders(i))'
             = Cardinality(Holders(i)) - (IF i = j THEN 1 ELSE 0)
        /\ Cardinality(Holders(j)) >= 1
    BY <1>1, <2>1, <2>2, OneHolderLess
  <2>4. Used[j] > 0 /\ Used' = [Used EXCEPT ![j] = @ - 1]
    <3>1. \A i \in Instance : Used'[i] = (IF i = j THEN Used[i] - 1 ELSE Used[i])
      BY <1>3, <2>3 DEF Used
    <3>2. Used = [i \in Instance |-> Used[i]] /\ Used' = [i \in Instance |-> Used'[i]]
      BY DEF Used
    <3>3. Used[j] > 0
      BY <1>3, <2>3 DEF Used
    <3> QED
      BY <3>1, <3>2, <3>3
  <2>5. Leaked' = [Leaked EXCEPT ![j] = @ + 1]
    <3>1. \A i \in Instance :
            Leaked'[i] = (IF i = j THEN Leaked[i] + 1 ELSE Leaked[i])
      BY <1>2, <1>3, <2>1, <2>3 DEF Leaked
    <3>2. /\ Leaked = [i \in Instance |-> Leaked[i]]
          /\ Leaked' = [i \in Instance |-> Leaked'[i]]
      BY DEF Leaked
    <3> QED
      BY <3>1, <3>2
  <2>6. Pool!Lose(j)
    BY <2>4, <2>5 DEF Pool!Lose, Used, Leaked
  <2> QED
    BY <2>6 DEF Pool!Next
<1> QED
  BY <1>1, <1>4, <1>5, <1>6, <1>7, SlotStep

\* Routing and leasing implement SlotPool: a slot is taken within the limit, given
\* back or lost, and what is lost never comes back.
THEOREM PoolKept == Spec => PoolPromise
BY PoolInit, PoolStep, Invariance, PTL DEF Spec, PoolPromise, Pool!Spec

-----------------------------------------------------------------------------
(* Exactness: what expiry, vanished requests and repeated ids spoil *)

\* No lease key is taken away from its request.
OwnLeases ==
  /\ ~LeasesExpire
  /\ \A r, s \in Request : IdOf[r] = IdOf[s] => r = s

\* And every request runs its finally.
Exact == OwnLeases /\ MaxVanish = 0

\* Every holder's lease key exists.
HoldersAreLeased == \A r \in Request : hold[r] # NoInstance => IdOf[r] \in lease

\* The lease of a holder is there as long as it holds.
LEMMA LeasedStep ==
  ASSUME OwnLeases, IInv, HoldersAreLeased, [Next]_vars
  PROVE  HoldersAreLeased'
<1> USE DEF handler, redis
<1>1. TypeOK /\ HandlersAgree
  BY DEF IInv
<1>2. ASSUME NEW r \in Request, Acquire(r)
      PROVE  HoldersAreLeased'
  BY <1>1, <1>2 DEF Acquire, HoldersAreLeased, TypeOK
<1>3. ASSUME NEW r \in Request, FallBack(r) \/ Finish(r)
      PROVE  HoldersAreLeased'
  <2>1. hold' = [hold EXCEPT ![r] = NoInstance] /\ lease \ {IdOf[r]} \subseteq lease'
    BY <1>3 DEF FallBack, Finish, Release
  <2>2. \A s \in Request : s # r => IdOf[s] # IdOf[r]
    BY DEF OwnLeases
  <2> QED
    BY <1>1, <2>1, <2>2 DEF HoldersAreLeased, TypeOK
<1>4. ASSUME NEW r \in Request, Vanish(r)
      PROVE  HoldersAreLeased'
  BY <1>1, <1>4 DEF Vanish, HoldersAreLeased, TypeOK
<1>5. ASSUME NEW id \in Id, ExpireLease(id)
      PROVE  FALSE
  BY <1>5 DEF ExpireLease, OwnLeases
<1>6. ASSUME UNCHANGED <<hold, lease>>
      PROVE  HoldersAreLeased'
  BY <1>6 DEF HoldersAreLeased
<1> QED
  BY <1>2, <1>3, <1>4, <1>5, <1>6 DEF Next, Reconfigure, Resolve, Rank, Refuse, vars

\* Nothing is lost: a release finds its key, and every request runs its finally.
LEMMA NothingLost ==
  ASSUME Exact, IInv, HoldersAreLeased, [Next]_vars
  PROVE  Untouched \/ Granted \/ Returned
<1>1. TypeOK /\ HandlersAgree
  BY DEF IInv
<1>2. ASSUME NEW r \in Request, FallBack(r) \/ Finish(r)
      PROVE  Returned
  <2>1. hold[r] \in Instance
    BY <1>1, <1>2 DEF FallBack, Finish, HandlersAgree, TypeOK
  <2>2. hold' = [hold EXCEPT ![r] = NoInstance] /\ Release(r)
    BY <1>2 DEF FallBack, Finish
  <2>3. IdOf[r] \in lease
    BY <2>1, PoolAssumption DEF HoldersAreLeased
  <2> QED
    BY <2>1, <2>2, <2>3 DEF Release, Returned
<1>3. ASSUME NEW r \in Request, Vanish(r)
      PROVE  FALSE
  BY <1>1, <1>3 DEF Vanish, Exact, TypeOK
<1>4. ASSUME NEW r \in Request, Acquire(r)
      PROVE  Granted
  <2>1. at[r] = "trying" /\ hold[r] = NoInstance
    BY <1>1, <1>4 DEF Acquire, HandlersAgree
  <2> QED
    BY <1>1, <1>4, <2>1, NextCandidate DEF Acquire, Granted
<1>5. ASSUME UNCHANGED <<hold, active>>
      PROVE  Untouched
  BY <1>5 DEF Untouched
<1> QED
  BY <1>2, <1>3, <1>4, <1>5
  DEF Next, Reconfigure, ExpireLease, Resolve, Rank, Refuse, vars, handler, redis

\* The counters follow the holders.
LEMMA ExactStep ==
  ASSUME Exact, IInv, HoldersAreLeased, NoSlotIsLost, [Next]_vars
  PROVE  NoSlotIsLost'
<1>1. TypeOK /\ active \in [Instance -> Nat]
  BY DEF IInv, TypeOK
<1>2. \A i \in Instance : Cardinality(Holders(i)) \in Nat
  BY HoldersFinite
<1>3. CASE Untouched
  BY <1>3 DEF Untouched, NoSlotIsLost, Holders
<1>4. CASE Granted
  <2>1. PICK r \in Request, j \in Instance :
          /\ hold[r] = NoInstance
          /\ hold' = [hold EXCEPT ![r] = j]
          /\ active' = [active EXCEPT ![j] = @ + 1]
    BY <1>4 DEF Granted
  <2>2. \A i \in Instance :
          Cardinality(Holders(i))' = Cardinality(Holders(i)) + (IF i = j THEN 1 ELSE 0)
    BY <1>1, <2>1, OneMoreHolder
  <2> QED
    BY <1>1, <1>2, <2>1, <2>2 DEF NoSlotIsLost
<1>5. CASE Returned
  <2>1. PICK r \in Request :
          /\ hold[r] \in Instance
          /\ hold' = [hold EXCEPT ![r] = NoInstance]
          /\ active' = [active EXCEPT ![hold[r]] = IF @ > 0 THEN @ - 1 ELSE 0]
    BY <1>5 DEF Returned
  <2>2. /\ \A i \in Instance : Cardinality(Holders(i))'
             = Cardinality(Holders(i)) - (IF i = hold[r] THEN 1 ELSE 0)
        /\ Cardinality(Holders(hold[r])) >= 1
    BY <1>1, <2>1, OneHolderLess
  <2>3. active[hold[r]] > 0
    BY <1>1, <1>2, <2>1, <2>2 DEF NoSlotIsLost
  <2> QED
    BY <1>1, <1>2, <2>1, <2>2, <2>3 DEF NoSlotIsLost
<1> QED
  BY <1>3, <1>4, <1>5, NothingLost

LEMMA LeasedInit == Init => HoldersAreLeased
BY DEF Init, HoldersAreLeased

\* A request that stops holding a slot, and has not vanished, gives it back.
LEMMA GivesBackStep ==
  ASSUME IInv, HoldersAreLeased, [Next]_vars, NEW r \in Request,
         hold[r] # NoInstance, hold'[r] = NoInstance, vanished' = vanished
  PROVE  active'[hold[r]] = active[hold[r]] - 1
<1> USE DEF handler, redis
<1>1. TypeOK /\ HandlersAgree
  BY DEF IInv
<1>2. hold[r] \in Instance /\ IdOf[r] \in lease
  BY <1>1 DEF TypeOK, HoldersAreLeased
<1>3. ASSUME NEW q \in Request, Vanish(q) PROVE FALSE
  BY <1>1, <1>3 DEF Vanish, TypeOK
<1>4. ASSUME NEW q \in Request, Acquire(q) PROVE FALSE
  <2>1. hold[q] = NoInstance
    BY <1>1, <1>4 DEF Acquire, HandlersAgree
  <2>2. hold'[r] = hold[r]
    BY <1>1, <1>4, <2>1 DEF Acquire, TypeOK
  <2> QED
    BY <2>2
<1>5. \E q \in Request : FallBack(q) \/ Finish(q)
  BY <1>3, <1>4 DEF Next, Reconfigure, ExpireLease, Resolve, Rank, Refuse, vars
<1>6. Release(r)
  BY <1>1, <1>5 DEF FallBack, Finish, TypeOK
<1>7. active[hold[r]] > 0
  <2>1. r \in Holders(hold[r]) /\ IsFiniteSet(Holders(hold[r]))
    BY HoldersFinite DEF Holders
  <2>2. Cardinality(Holders(hold[r])) \in Nat \ {0}
    BY <2>1, HoldersFinite, FS_EmptySet
  <2> QED
    BY <1>1, <1>2, <2>2 DEF IInv, HoldersAreCounted, TypeOK
<1> QED
  BY <1>1, <1>2, <1>6, <1>7 DEF Release, TypeOK

\* With ids that do not repeat and leases that outlive their requests the release
\* of lease.py keeps its docstring: these two are all that spoils it.
THEOREM ReleasesGiveBack ==
  ASSUME OwnLeases
  PROVE  Spec => ReleaseGivesBack
<1>1. IInv /\ HoldersAreLeased /\ [Next]_vars => HoldersAreLeased'
  BY LeasedStep
<1>2. IInv /\ HoldersAreLeased /\ [Next]_vars =>
        [\A r \in Request :
           hold[r] # NoInstance /\ hold'[r] = NoInstance /\ vanished' = vanished
             => active'[hold[r]] = active[hold[r]] - 1]_vars
  BY GivesBackStep
<1> QED
  BY Invariance, LeasedInit, <1>1, <1>2, PTL DEF Spec, ReleaseGivesBack

\* With ids that do not repeat, leases that outlive their requests and a finally that
\* always runs, the counter of an instance is the number of requests that hold it.
THEOREM CountsAreExact ==
  ASSUME Exact
  PROVE  Spec => []NoSlotIsLost
<1>1. Init => HoldersAreLeased /\ NoSlotIsLost
  <2> SUFFICES ASSUME Init PROVE HoldersAreLeased /\ NoSlotIsLost
    OBVIOUS
  <2>1. \A i \in Instance : Holders(i) = {}
    BY PoolAssumption DEF Init, Holders
  <2> QED
    BY <2>1, FS_EmptySet DEF Init, HoldersAreLeased, NoSlotIsLost
<1>2. IInv /\ HoldersAreLeased /\ NoSlotIsLost /\ [Next]_vars
        => HoldersAreLeased' /\ NoSlotIsLost'
  BY LeasedStep, ExactStep DEF Exact
<1> QED
  BY Invariance, <1>1, <1>2, PTL DEF Spec

\* Under the same conditions all slots are free when no request is under way.
THEOREM AllReleased ==
  ASSUME Exact
  PROVE  Spec => []ReleasedInFinally
<1>1. IInv /\ NoSlotIsLost => ReleasedInFinally
  <2> SUFFICES ASSUME IInv, NoSlotIsLost, \A r \in Request : at[r] \in {"new", "done"},
                      NEW i \in Instance
               PROVE  active[i] = 0
    BY DEF ReleasedInFinally
  <2>1. Holders(i) = {}
    BY PoolAssumption DEF IInv, HandlersAgree, Holders
  <2> QED
    BY <2>1, FS_EmptySet DEF NoSlotIsLost
<1> QED
  BY CountsAreExact, <1>1, Invariance, PTL
=============================================================================
