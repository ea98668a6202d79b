------------------------- MODULE TronWitnessLoader -------------------------
(***************************************************************************)
(* The cached, single-flight witness load of the Tron staking service      *)
(* (packages/tron/src/tron-chain/services/staking-service.ts, load, doLoad *)
(* and getParams inside createStakingService).                             *)
(*                                                                         *)
(* Every getValidators, getDelegations and getWitnessMap call goes through *)
(* load(): a fresh cached result is returned, a load already in flight is  *)
(* joined, otherwise doLoad runs listWitnesses and getParams concurrently, *)
(* caches the pair and returns it.  getParams has a cache and a            *)
(* single-flight promise of its own.                                       *)
(*                                                                         *)
(* Data is abstracted to its age: a witness list, or a set of chain        *)
(* parameters, is the time at which the FullNode produced it.  A step of   *)
(* the model is one uninterrupted run of JavaScript: a call up to its      *)
(* first await, one promise callback, or the settling of one RPC.          *)
(***************************************************************************)
EXTENDS Integers

CONSTANTS
  Task,        \* callers of load(); a task may call again and again
  LoadId,      \* slots for doLoad() activations (bound on those alive at once)
  FetchId,     \* slots for getChainParameters() calls alive at once
  None,        \* JavaScript's undefined
  CACHE_TTL,   \* CACHE_TTL_MS
  PARAMS_TTL,  \* PARAMS_TTL_MS
  Latency,     \* an RPC settles (answers, fails or times out) within this
  MaxTime      \* bound on the clock

ASSUME LoaderAssumption ==
  /\ CACHE_TTL \in Nat \ {0}
  /\ PARAMS_TTL \in Nat \ {0}
  /\ Latency \in Nat
  /\ MaxTime \in Nat
  /\ None \notin LoadId \cup FetchId

VARIABLES
  now,             \* Date.now()
  witnessCache,    \* the entry of witnessCache: [raw, params, until]
  paramsCache,     \* the entry of paramsCache: [val, until]
  inflight,        \* the load whose promise is in `inflight`, or None
  paramsInflight,  \* the fetch whose promise is in `paramsInflight`, or None
  load,            \* the activations of doLoad
  fetch,           \* the calls of rpc.getChainParameters
  task             \* what each caller of load() is doing

loaderVars == <<now, witnessCache, paramsCache, inflight, paramsInflight, load, fetch, task>>

\* A load is "running" until Promise.all settles, then "loaded" or "failed"
\* until its finally callback; it stays an "orphan" while the listWitnesses
\* call of a load that failed on its parameters is still outstanding.
LoadRec ==
  [st : {"free", "running", "loaded", "failed", "orphan"}, sent : Nat,
   w : {"sent", "ok", "failed"}, raw : Nat,
   p : {"wait", "ok", "failed"}, params : Nat, on : FetchId \cup {None}]

FetchRec == [st : {"free", "sent", "set", "failed"}, sent : Nat, val : Nat]

\* on: the load an awaiting task awaits; raw, params: the result last handed
\* to the task.
TaskRec ==
  [pc : {"idle", "awaiting", "returned", "threw"}, on : LoadId \cup {None},
   raw : Nat, params : Nat]

LoaderTypeOK ==
  /\ now \in Nat
  /\ witnessCache \in [raw : Nat, params : Nat, until : Nat]
  /\ paramsCache \in [val : Nat, until : Nat]
  /\ inflight \in LoadId \cup {None}
  /\ paramsInflight \in FetchId \cup {None}
  /\ load \in [LoadId -> LoadRec]
  /\ fetch \in [FetchId -> FetchRec]
  /\ task \in [Task -> TaskRec]

\* An absent entry reads like one that has already expired.
NoWitnesses == [raw |-> 0, params |-> 0, until |-> 0]
NoParams == [val |-> 0, until |-> 0]

IdleLoad ==
  [st |-> "free", sent |-> 0, w |-> "failed", raw |-> 0,
   p |-> "failed", params |-> 0, on |-> None]
IdleFetch == [st |-> "free", sent |-> 0, val |-> 0]

LoaderInit ==
  /\ now = 0
  /\ witnessCache = NoWitnesses
  /\ paramsCache = NoParams
  /\ inflight = None
  /\ paramsInflight = None
  /\ load = [l \in LoadId |-> IdleLoad]
  /\ fetch = [f \in FetchId |-> IdleFetch]
  /\ task = [t \in Task |-> [pc |-> "idle", on |-> None, raw |-> 0, params |-> 0]]

-----------------------------------------------------------------------------
(* load(), called by task t *)

\* Mutant of Live: `now > expirationInMillis` as the test for a miss.
LiveUntilIncluded(entry) == now <= entry.until

Live(entry) == now < entry.until

Calling(t) == task[t].pc # "awaiting"

\* Mutant of Thrown: the rejection is caught, and the caller gets undefined.
ThrownUndefined(tk) == [pc |-> "returned", on |-> None, raw |-> None, params |-> None]

\* A task resumes with the result r; or its load is rejected, and it throws.
Handed(r) == [pc |-> "returned", on |-> None, raw |-> r.raw, params |-> r.params]
Thrown(tk) == [pc |-> "threw", on |-> None, raw |-> tk.raw, params |-> tk.params]

\* A task awaits load l.
Awaiting(tk, l) == [pc |-> "awaiting", on |-> l, raw |-> tk.raw, params |-> tk.params]

\* witnessCache.get hits: the cached result is returned.
HitCall(t) ==
  /\ Calling(t)
  /\ Live(witnessCache)
  /\ task' = [task EXCEPT ![t] = Handed(witnessCache)]
  /\ UNCHANGED <<now, witnessCache, paramsCache, inflight, paramsInflight, load, fetch>>

\* A miss (get drops an expired entry) with a load in flight: the caller
\* awaits that load's promise.
JoinCall(t) ==
  /\ Calling(t)
  /\ ~ Live(witnessCache)
  /\ inflight # None
  /\ witnessCache' = NoWitnesses
  /\ task' = [task EXCEPT ![t] = Awaiting(@, inflight)]
  /\ UNCHANGED <<now, paramsCache, inflight, paramsInflight, load, fetch>>

\* Mutants of the two guards: the `if (inflight)` test is missing.
MustStartLoadAlways == TRUE
MustStartFetchAlways == TRUE

MustStartLoad == inflight = None
MustStartFetch == paramsInflight = None

FreeLoads == {l \in LoadId : load[l].st = "free"}
FreeFetches == {f \in FetchId : fetch[f].st = "free"}

\* doLoad just after it called listWitnesses, its parameters still to come
\* from fetch f.
StartedLoad(f) ==
  [st |-> "running", sent |-> now, w |-> "sent", raw |-> 0,
   p |-> "wait", params |-> 0, on |-> f]

\* getParams() as doLoad calls it: the cached parameters, ...
CachedParams(l) ==
  /\ Live(paramsCache)
  /\ load' = [load EXCEPT ![l] =
        [StartedLoad(None) EXCEPT !.p = "ok", !.params = paramsCache.val]]
  /\ UNCHANGED <<paramsCache, paramsInflight, fetch>>

\* ... on a miss the fetch in flight, ...
JoinParams(l) ==
  /\ ~ Live(paramsCache)
  /\ paramsInflight # None
  /\ paramsCache' = NoParams
  /\ load' = [load EXCEPT ![l] = StartedLoad(paramsInflight)]
  /\ UNCHANGED <<paramsInflight, fetch>>

\* ... or a new rpc.getChainParameters call.
FetchParams(l) ==
  /\ ~ Live(paramsCache)
  /\ MustStartFetch
  /\ FreeFetches # {}
  /\ paramsCache' = NoParams
  /\ LET f == CHOOSE f \in FreeFetches : TRUE IN
       /\ fetch' = [fetch EXCEPT ![f] = [st |-> "sent", sent |-> now, val |-> 0]]
       /\ paramsInflight' = f
       /\ load' = [load EXCEPT ![l] = StartedLoad(f)]

\* A miss with nothing in flight: doLoad() up to its await of Promise.all.
StartCall(t) ==
  /\ Calling(t)
  /\ ~ Live(witnessCache)
  /\ MustStartLoad
  /\ FreeLoads # {}
  /\ witnessCache' = NoWitnesses
  /\ LET l == CHOOSE l \in FreeLoads : TRUE IN
       /\ CachedParams(l) \/ JoinParams(l) \/ FetchParams(l)
       /\ inflight' = l
       /\ task' = [task EXCEPT ![t] = Awaiting(@, l)]
  /\ UNCHANGED now

-----------------------------------------------------------------------------
(* RPC replies *)

\* The FullNode answers with data of some moment since the call, or the call
\* fails (error status, network error, 16 s timeout).
WitnessReply(l) ==
  /\ load[l].st = "running" /\ load[l].w = "sent"
  /\ \/ \E d \in load[l].sent .. now :
          load' = [load EXCEPT ![l].w = "ok", ![l].raw = d]
     \/ load' = [load EXCEPT ![l].w = "failed"]
  /\ UNCHANGED <<now, witnessCache, paramsCache, inflight, paramsInflight, fetch, task>>

\* The answer to a listWitnesses nobody awaits any more is dropped.
OrphanReply(l) ==
  /\ load[l].st = "orphan"
  /\ load' = [load EXCEPT ![l] = IdleLoad]
  /\ UNCHANGED <<now, witnessCache, paramsCache, inflight, paramsInflight, fetch, task>>

\* getChainParameters answers and its then-callback caches the value, or it
\* fails and nothing is cached.
ParamsReply(f) ==
  /\ fetch[f].st = "sent"
  /\ \/ \E d \in fetch[f].sent .. now :
          /\ fetch' = [fetch EXCEPT ![f].st = "set", ![f].val = d]
          /\ paramsCache' = [val |-> d, until |-> now + PARAMS_TTL]
     \/ /\ fetch' = [fetch EXCEPT ![f].st = "failed"]
        /\ UNCHANGED paramsCache
  /\ UNCHANGED <<now, witnessCache, inflight, paramsInflight, load, task>>

-----------------------------------------------------------------------------
(* Promise callbacks *)

\* Load ld learns how the fetch ft it awaited has ended.
Supplied(ld, ft) ==
  [ld EXCEPT !.p = IF ft.st = "set" THEN "ok" ELSE "failed",
             !.params = ft.val, !.on = None]

\* The finally callback of getParams; the loads that await the fetch resume.
ParamsFinally(f) ==
  /\ fetch[f].st \in {"set", "failed"}
  /\ paramsInflight' = None
  /\ fetch' = [fetch EXCEPT ![f] = IdleFetch]
  /\ load' = [l \in LoadId |->
        IF load[l].st = "running" /\ load[l].p = "wait" /\ load[l].on = f
        THEN Supplied(load[l], fetch[f])
        ELSE load[l]]
  /\ UNCHANGED <<now, witnessCache, paramsCache, inflight, task>>

\* doLoad after Promise.all resolved: witnessCache.set.
LoadResolves(l) ==
  /\ load[l].st = "running" /\ load[l].w = "ok" /\ load[l].p = "ok"
  /\ load' = [load EXCEPT ![l].st = "loaded"]
  /\ witnessCache' = [raw |-> load[l].raw, params |-> load[l].params,
                      until |-> now + CACHE_TTL]
  /\ UNCHANGED <<now, paramsCache, inflight, paramsInflight, fetch, task>>

\* Mutant of LoadRejects: a failed load is retried, without end, behind the
\* promise its callers await.
LoadRetries(l) ==
  /\ load[l].st = "running"
  /\ load[l].w = "failed" \/ load[l].p = "failed"
  /\ load' = [load EXCEPT ![l].w = "sent", ![l].sent = now]
  /\ UNCHANGED <<now, witnessCache, paramsCache, inflight, paramsInflight, fetch, task>>

\* Promise.all rejects as soon as one of the two calls has failed.
LoadRejects(l) ==
  /\ load[l].st = "running"
  /\ load[l].w = "failed" \/ load[l].p = "failed"
  /\ load' = [load EXCEPT ![l].st = "failed"]
  /\ UNCHANGED <<now, witnessCache, paramsCache, inflight, paramsInflight, fetch, task>>

\* A failed load whose listWitnesses call nobody awaits any more.
Orphan(ld) == [ld EXCEPT !.st = "orphan", !.p = "failed", !.params = 0, !.on = None]

\* The finally callback of load; every caller that awaits this load resumes.
LoadFinally(l) ==
  /\ load[l].st \in {"loaded", "failed"}
  /\ inflight' = None
  /\ task' = [t \in Task |->
        IF task[t].pc = "awaiting" /\ task[t].on = l
        THEN IF load[l].st = "loaded" THEN Handed(load[l])
                                      ELSE Thrown(task[t])
        ELSE task[t]]
  /\ load' = [load EXCEPT ![l] = IF load[l].w = "sent" THEN Orphan(@) ELSE IdleLoad]
  /\ UNCHANGED <<now, witnessCache, paramsCache, paramsInflight, fetch>>

-----------------------------------------------------------------------------
(* Time: promise callbacks run before the clock moves, and no RPC outlives *)
(* Latency.                                                                *)

CallbackPending ==
  \/ \E l \in LoadId :
       \/ load[l].st \in {"loaded", "failed"}
       \/ load[l].st = "running"
          /\ \/ load[l].w = "failed" \/ load[l].p = "failed"
             \/ load[l].w = "ok" /\ load[l].p = "ok"
  \/ \E f \in FetchId : fetch[f].st \in {"set", "failed"}

InTime(rpc) == now < rpc.sent + Latency

Tick ==
  /\ now < MaxTime
  /\ ~ CallbackPending
  /\ \A l \in LoadId :
       load[l].st = "orphan" \/ (load[l].st = "running" /\ load[l].w = "sent")
       => InTime(load[l])
  /\ \A f \in FetchId : fetch[f].st = "sent" => InTime(fetch[f])
  /\ now' = now + 1
  /\ UNCHANGED <<witnessCache, paramsCache, inflight, paramsInflight, load, fetch, task>>

LoadStep(l) ==
  WitnessReply(l) \/ OrphanReply(l) \/ LoadResolves(l) \/ LoadRejects(l) \/ LoadFinally(l)

FetchStep(f) == ParamsReply(f) \/ ParamsFinally(f)

LoaderNext ==
  \/ \E t \in Task : HitCall(t) \/ JoinCall(t) \/ StartCall(t)
  \/ \E l \in LoadId : LoadStep(l)
  \/ \E f \in FetchId : FetchStep(f)
  \/ Tick

\* Every RPC settles and the event loop runs every queued callback; callers
\* need never call, and the clock need never move.
LoaderFairness ==
  /\ \A l \in LoadId : WF_loaderVars(LoadStep(l))
  /\ \A f \in FetchId : WF_loaderVars(FetchStep(f))

LoaderSpec == LoaderInit /\ [][LoaderNext]_loaderVars /\ LoaderFairness

-----------------------------------------------------------------------------
(* Properties *)

\* This step hands task t a result.
Received(t) == task'[t].pc = "returned" /\ task'[t] # task[t]

\* At most one load and one parameter fetch are under way at any time,
\* however many callers missed the cache: the dedup that staking-service.ts
\* adds on top of the SDK cache.
SingleFlight ==
  /\ \A l, m \in LoadId :
       load[l].st \in {"running", "loaded", "failed"}
       /\ load[m].st \in {"running", "loaded", "failed"} => l = m
  /\ \A f, g \in FetchId : fetch[f].st # "free" /\ fetch[g].st # "free" => f = g

\* How old a result can be when a caller receives it.  The witness list is
\* bounded by its own TTL and one RPC; the parameters were cached, then
\* embedded in a witness entry and cached again, so both TTLs add up.
StalenessBound ==
  [][\A t \in Task : Received(t) =>
       /\ now < task'[t].raw + CACHE_TTL + Latency
       /\ now < task'[t].params + CACHE_TTL + PARAMS_TTL + 2 * Latency]_loaderVars

\* A load that is running or has just failed has no fresh entry beside it:
\* no caller is made to wait, or is thrown an error, over a live cache entry.
NoWaitOverLiveEntry ==
  \A l \in LoadId : load[l].st \in {"running", "failed"} => ~ Live(witnessCache)

\* Callers never go back in time: what a caller receives is at least as
\* recent, list and parameters, as anything any caller received before it.
ServedNeverGoesBack ==
  [][\A t, u \in Task :
       Received(t) =>
          /\ task'[t].raw >= task[u].raw
          /\ task'[t].params >= task[u].params]_loaderVars

\* Every call of load() returns or throws, whichever RPC fails.
EveryCallSettles ==
  \A t \in Task : task[t].pc = "awaiting" ~> task[t].pc # "awaiting"

\* A settled promise is not kept: after a load, failed or not, `inflight`
\* and `paramsInflight` are undefined again, so that the next miss retries.
InflightIsReleased ==
  /\ \A l \in LoadId : inflight = l ~> inflight # l
  /\ \A f \in FetchId : paramsInflight = f ~> paramsInflight # f
=============================================================================
