---------------------------- MODULE GatewayLease ----------------------------
(***************************************************************************)
(* Routing of gateway requests to provider instances: the candidates read  *)
(* from the database, the load read from Redis, the lease taken with one   *)
(* script per instance tried, the fallback to a local instance, and the    *)
(* release in the handler's finally.                                       *)
(*                                                                         *)
(* A Redis script, and a Redis or database read, is one step; requests of  *)
(* any number of gateway processes interleave between steps.  Redis keeps  *)
(* its keys (it is external); a lease key expires after lease_ttl_sec, the *)
(* counter of an instance never does.                                      *)
(***************************************************************************)
EXTENDS Integers, Sequences, FiniteSets

CONSTANTS
  Instance,      \* provider instances
  Remote,        \* those of a remote_* provider type
  NoInstance,
  Request,       \* requests, over the gateway's life
  Id, IdOf,      \* request ids; x-request-id is the client's, and may repeat
  MaxLimit,      \* the largest max_concurrency ever configured
  LeasesExpire,  \* requests may outlast their lease's time to live
  MaxVanish      \* requests that end without running their finally

ASSUME PoolAssumption ==
  /\ IsFiniteSet(Instance)
  /\ Remote \subseteq Instance
  /\ NoInstance \notin Instance
  /\ IsFiniteSet(Request)
  /\ IdOf \in [Request -> Id]
  /\ MaxLimit \in Nat \ {0}
  /\ LeasesExpire \in BOOLEAN
  /\ MaxVanish \in Nat

VARIABLES
  limit,    \* max_concurrency of an instance's row (resolve_candidates: at least 1)
  active,   \* the counters llm:active:{instance_id}
  lease,    \* ids whose key llm:lease:{request_id} exists
  at,       \* where a request's handler is
  cand,     \* its candidates, with the limits it read
  todo,     \* the candidates it has still to try, in order
  hold,     \* its decision: the instance it holds a slot of
  fell,     \* requests that asked for the fallback to a local instance
  vanished  \* requests that ended without their finally so far

handler == <<at, cand, todo, hold, fell>>
redis == <<active, lease>>
vars == <<limit, redis, handler, vanished>>

Limit == 1..MaxLimit
NoCandidates == [i \in {} |-> 1]

TypeOK ==
  /\ limit \in [Instance -> Limit]
  /\ active \in [Instance -> Nat]
  /\ lease \in SUBSET Id
  /\ at \in [Request -> {"new", "resolved", "trying", "serving", "done"}]
  /\ cand \in [Request -> UNION {[C -> Limit] : C \in SUBSET Instance}]
  /\ todo \in [Request -> Seq(Instance)]
  /\ hold \in [Request -> Instance \cup {NoInstance}]
  /\ fell \in SUBSET Request
  /\ vanished \in 0..MaxVanish

Init ==
  /\ limit \in [Instance -> Limit]
  /\ active = [i \in Instance |-> 0]
  /\ lease = {}
  /\ at = [r \in Request |-> "new"]
  /\ cand = [r \in Request |-> NoCandidates]
  /\ todo = [r \in Request |-> <<>>]
  /\ hold = [r \in Request |-> NoInstance]
  /\ fell = {}
  /\ vanished = 0

-----------------------------------------------------------------------------
(* Variants carry the name of the operator they change. *)

\* Variant: the row's value is used as it is.
ReconfigureUnclamped(i) ==
  /\ \E n \in 0..MaxLimit : limit' = [limit EXCEPT ![i] = n]
  /\ UNCHANGED <<redis, handler, vanished>>

\* The backend writes max_concurrency; readers take at least 1.
Reconfigure(i) ==
  /\ \E n \in 0..MaxLimit : limit' = [limit EXCEPT ![i] = IF n < 1 THEN 1 ELSE n]
  /\ UNCHANGED <<redis, handler, vanished>>

\* A lease key's time to live runs out: try_acquire sets it once.
ExpireLease(id) ==
  /\ LeasesExpire
  /\ id \in lease
  /\ lease' = lease \ {id}
  /\ UNCHANGED <<limit, active, handler, vanished>>

-----------------------------------------------------------------------------
(* The handler: route_non_stream, or route_stream_chat with its generator *)

\* resolve_alias: the enabled and healthy instances of the alias, as the rows say
\* at this moment; none is a 404, which holds nothing and is left out.
Resolve(r) ==
  /\ at[r] = "new"
  /\ \E C \in (SUBSET Instance) \ {{}} : cand' = [cand EXCEPT ![r] = [i \in C |-> limit[i]]]
  /\ at' = [at EXCEPT ![r] = "resolved"]
  /\ UNCHANGED <<limit, redis, todo, hold, fell, vanished>>

\* The sequences of the members of S by rising load; weight and id break ties, in
\* any order here.
ByLoad(C) ==
  {s \in [1..Cardinality(DOMAIN C) -> DOMAIN C] :
     \A m, n \in DOMAIN s : m < n =>
       s[m] # s[n] /\ active[s[m]] * C[s[n]] <= active[s[n]] * C[s[m]]}

\* pick_and_lease reads the counters of all candidates and sorts.
Rank(r) ==
  /\ at[r] = "resolved"
  /\ \E s \in ByLoad(cand[r]) : todo' = [todo EXCEPT ![r] = s]
  /\ at' = [at EXCEPT ![r] = "trying"]
  /\ UNCHANGED <<limit, redis, cand, hold, fell, vanished>>

\* Variant: one more than the limit gets in.
AcquireOneMore(r) ==
  /\ at[r] = "trying"
  /\ LET i == Head(todo[r]) IN
       /\ active[i] <= cand[r][i]
       /\ active' = [active EXCEPT ![i] = @ + 1]
       /\ hold' = [hold EXCEPT ![r] = i]
  /\ lease' = lease \cup {IdOf[r]}
  /\ todo' = [todo EXCEPT ![r] = <<>>]
  /\ at' = [at EXCEPT ![r] = "serving"]
  /\ UNCHANGED <<limit, cand, fell, vanished>>

\* Variant: a request whose lease key exists is not counted again.
AcquireOnce(r) ==
  /\ at[r] = "trying"
  /\ LET i == Head(todo[r]) IN
       /\ active[i] < cand[r][i]
       /\ active' = IF IdOf[r] \in lease THEN active ELSE [active EXCEPT ![i] = @ + 1]
       /\ hold' = [hold EXCEPT ![r] = i]
  /\ lease' = lease \cup {IdOf[r]}
  /\ todo' = [todo EXCEPT ![r] = <<>>]
  /\ at' = [at EXCEPT ![r] = "serving"]
  /\ UNCHANGED <<limit, cand, fell, vanished>>

\* The acquire script finds room on the next candidate.
Acquire(r) ==
  /\ at[r] = "trying"
  /\ LET i == Head(todo[r]) IN
       /\ active[i] < cand[r][i]
       /\ active' = [active EXCEPT ![i] = @ + 1]
       /\ hold' = [hold EXCEPT ![r] = i]
  /\ lease' = lease \cup {IdOf[r]}
  /\ todo' = [todo EXCEPT ![r] = <<>>]
  /\ at' = [at EXCEPT ![r] = "serving"]
  /\ UNCHANGED <<limit, cand, fell, vanished>>

\* It finds none: the next one, or 503 no_capacity after the last.  A handler that
\* ends takes its candidates along.
Refuse(r) ==
  /\ at[r] = "trying"
  /\ active[Head(todo[r])] >= cand[r][Head(todo[r])]
  /\ todo' = [todo EXCEPT ![r] = Tail(@)]
  /\ IF Tail(todo[r]) = <<>>
     THEN at' = [at EXCEPT ![r] = "done"] /\ cand' = [cand EXCEPT ![r] = NoCandidates]
     ELSE UNCHANGED <<at, cand>>
  /\ UNCHANGED <<limit, redis, hold, fell, vanished>>

\* Variant: the lease key goes, the counter stays.
ReleaseKeyOnly(r) ==
  /\ lease' = lease \ {IdOf[r]}
  /\ UNCHANGED active

\* The release script for request r and the instance it decided on: nothing
\* happens unless the lease key is there.
Release(r) ==
  IF IdOf[r] \in lease
  THEN /\ lease' = lease \ {IdOf[r]}
       /\ active' = [active EXCEPT ![hold[r]] = IF @ > 0 THEN @ - 1 ELSE 0]
  ELSE UNCHANGED redis

\* Variant: the fallback chooses among all candidates again.
FallBackAnywhere(r) ==
  /\ at[r] = "serving"
  /\ hold[r] \in Remote
  /\ r \notin fell
  /\ Release(r)
  /\ hold' = [hold EXCEPT ![r] = NoInstance]
  /\ fell' = fell \cup {r}
  /\ at' = [at EXCEPT ![r] = "resolved"]
  /\ UNCHANGED <<limit, cand, todo, vanished>>

\* Variant: the fallback does not release the remote instance first.
FallBackUnreleased(r) ==
  /\ at[r] = "serving"
  /\ hold[r] \in Remote
  /\ hold' = [hold EXCEPT ![r] = NoInstance]
  /\ fell' = fell \cup {r}
  /\ LET near == DOMAIN cand[r] \ Remote IN
       /\ cand' = [cand EXCEPT ![r] = [i \in near |-> cand[r][i]]]
       /\ at' = [at EXCEPT ![r] = IF near = {} THEN "done" ELSE "resolved"]
  /\ UNCHANGED <<limit, redis, todo, vanished>>

\* The PII scan fails for a remote provider and the policy falls back: release,
\* and choose among the local candidates, or 503 if there is none.
FallBack(r) ==
  /\ at[r] = "serving"
  /\ hold[r] \in Remote
  /\ Release(r)
  /\ hold' = [hold EXCEPT ![r] = NoInstance]
  /\ fell' = fell \cup {r}
  /\ LET near == DOMAIN cand[r] \ Remote IN
       /\ cand' = [cand EXCEPT ![r] = [i \in near |-> cand[r][i]]]
       /\ at' = [at EXCEPT ![r] = IF near = {} THEN "done" ELSE "resolved"]
  /\ UNCHANGED <<limit, todo, vanished>>

\* The handler, or the stream's generator, ends and runs its finally.
Finish(r) ==
  /\ at[r] = "serving"
  /\ Release(r)
  /\ hold' = [hold EXCEPT ![r] = NoInstance]
  /\ at' = [at EXCEPT ![r] = "done"]
  /\ cand' = [cand EXCEPT ![r] = NoCandidates]
  /\ UNCHANGED <<limit, todo, fell, vanished>>

\* The request ends with no release: its process dies, its task is cancelled
\* again inside the finally, the stream it returned is never iterated, or the
\* call to Redis fails (an acquire may have been done by then).
Vanish(r) ==
  /\ vanished < MaxVanish
  /\ at[r] \in {"resolved", "trying", "serving"}
  /\ vanished' = vanished + 1
  /\ hold' = [hold EXCEPT ![r] = NoInstance]
  /\ at' = [at EXCEPT ![r] = "done"]
  /\ cand' = [cand EXCEPT ![r] = NoCandidates]
  /\ todo' = [todo EXCEPT ![r] = <<>>]
  /\ UNCHANGED <<limit, redis, fell>>

-----------------------------------------------------------------------------
Next ==
  \/ \E i \in Instance : Reconfigure(i)
  \/ \E id \in Id : ExpireLease(id)
  \/ \E r \in Request : Resolve(r)
  \/ \E r \in Request : Rank(r)
  \/ \E r \in Request : Acquire(r)
  \/ \E r \in Request : Refuse(r)
  \/ \E r \in Request : FallBack(r)
  \/ \E r \in Request : Finish(r)
  \/ \E r \in Request : Vanish(r)

Spec == Init /\ [][Next]_vars

\* A handler is an asyncio task, and every call it awaits has a timeout.
FairSpec ==
  /\ Spec
  /\ \A r \in Request : WF_vars(Rank(r)) /\ WF_vars(Acquire(r) \/ Refuse(r))
                           /\ WF_vars(Finish(r))

-----------------------------------------------------------------------------
(* Properties *)

Holders(i) == {r \in Request : hold[r] = i}

\* No request holds a slot that is not counted, whatever expires, vanishes or
\* shares an id: the count only errs on the side of refusing.
HoldersAreCounted == \A i \in Instance : Cardinality(Holders(i)) <= active[i]

\* A slot is granted only within the limit the request read, counted over the
\* requests that hold one at that moment (try_acquire's "concurrency caps").
GrantsWithinLimit ==
  [][\A r \in Request : hold[r] = NoInstance /\ hold'[r] # NoInstance
       => Cardinality({q \in Request : hold'[q] = hold'[r]}) <= cand[r][hold'[r]]]_vars

\* A request whose payload could not be cleared for a remote provider is never
\* routed to one (_fallback_to_local_candidate).
FallbackStaysLocal == \A r \in fell : hold[r] \notin Remote

\* The promise of SlotPool: what is counted and not held is lost for good.
Pool == INSTANCE SlotPool
          WITH used <- [i \in Instance |-> Cardinality(Holders(i))],
               lost <- [i \in Instance |-> active[i] - Cardinality(Holders(i))]

PoolPromise == Pool!Spec

\* With ids that do not repeat, leases that outlive their requests and a finally
\* that always runs, the counters are exact ...
NoSlotIsLost == \A i \in Instance : active[i] = Cardinality(Holders(i))

\* ... and every instance gets idle again when nobody asks for it.
SlotsDrain == (\A r \in Request : at[r] # "new") ~> (\A i \in Instance : active[i] = 0)

\* The inductive invariant behind these: a handler that tries has a candidate left,
\* one that serves, and no other, holds a slot; no counter exceeds the largest
\* limit; and a request that fell back has no remote candidate any more.
HandlersAgree ==
  \A r \in Request :
    /\ at[r] = "new" => r \notin fell
    /\ at[r] = "resolved" => DOMAIN cand[r] # {}
    /\ at[r] = "trying" => todo[r] # <<>> /\ todo[r] \in Seq(DOMAIN cand[r])
    /\ hold[r] # NoInstance <=> at[r] = "serving"

CountsAreBounded == \A i \in Instance : active[i] <= MaxLimit
FallenHaveLocals == \A r \in fell : DOMAIN cand[r] \cap Remote = {}

IInv ==
  /\ TypeOK
  /\ HandlersAgree
  /\ HoldersAreCounted
  /\ CountsAreBounded
  /\ FallenHaveLocals
  /\ FallbackStaysLocal

\* What gateway-architecture.md says: "Release lease in `finally`".  When no
\* request is under way and every finally has run, no slot is taken.  The code
\* does not keep it: README, section 10.
ReleasedInFinally ==
  vanished = 0 /\ (\A r \in Request : at[r] \in {"new", "done"})
    => \A i \in Instance : active[i] = 0

\* What LeaseManager.release says: "Release a previously-acquired lease."  A
\* request that ends with its lease key unexpired gives its slot back.  The code
\* does not keep it: README, section 10.
ReleaseGivesBack ==
  [][\A r \in Request : hold[r] # NoInstance /\ hold'[r] = NoInstance /\ vanished' = vanished
       => active'[hold[r]] = active[hold[r]] - 1]_vars
=============================================================================
