--------------------------- MODULE TronBrokerage ---------------------------
(***************************************************************************)
(* APR enrichment in the Tron staking service                              *)
(* (packages/tron/src/tron-chain/services/staking-service.ts): concurrent  *)
(* getValidators and getDelegations calls each run enrichApr over a page   *)
(* of Super Representatives with mapWithConcurrency, and all of them share *)
(* the brokerage cache and the map of getBrokerage calls in flight of      *)
(* getBrokerageCached.                                                     *)
(*                                                                         *)
(* A brokerage is abstracted to where it comes from: "actual", answered by *)
(* the FullNode, or "fallback", DEFAULT_BROKERAGE_PERCENT after a failure. *)
(* The SRs of a page are distinct: they come from the witness list, or     *)
(* from a Set of voted addresses.                                          *)
(***************************************************************************)
EXTENDS Integers, Sequences, FiniteSets, Functions

CONSTANTS
  Call,    \* the mapWithConcurrency calls, one page each
  SR,      \* Super Representatives
  None,    \* JavaScript's undefined
  BROKERAGE_CONCURRENCY,
  BROKERAGE_TTL,
  Pages,   \* the pages a call may ask for
  MaxTime  \* bound on the clock

ASSUME BrokerageAssumption ==
  /\ None \notin Call \cup SR \cup {"actual", "fallback"}
  /\ BROKERAGE_CONCURRENCY \in Nat \ {0}
  /\ BROKERAGE_TTL \in Nat \ {0}
  /\ Pages \subseteq {p \in Seq(SR) : IsInjective(p)}
  /\ IsFiniteSet(SR)
  /\ MaxTime \in Nat

VARIABLES
  now,
  page,               \* the SRs each call enriches
  brokerageCache,     \* the entry of each SR: [val, until]
  brokerageInflight,  \* the call whose getBrokerage promise is in the map
  fetch,              \* the getBrokerage calls, by caller and SR
  outcome,            \* of the mapWithConcurrency call
  nextIndex,
  worker,             \* [pc, i, on, val]: awaits item i, from the fetch of
                      \* call `on`, or has val already (on = None)
  results

vars == <<now, page, brokerageCache, brokerageInflight, fetch, outcome, nextIndex, worker, results>>

Brokerage == {"actual", "fallback"}
NoEntry == [val |-> "actual", until |-> 0]
Hole == [sr |-> None, val |-> None]

len(c) == Len(page[c])
Positions(c) == 0 .. len(c) - 1
sr(c, i) == page[c][i + 1]

WorkerCount(c) == IF len(c) < 1 THEN 1
                  ELSE IF BROKERAGE_CONCURRENCY < len(c) THEN BROKERAGE_CONCURRENCY ELSE len(c)
Workers(c) == 1 .. WorkerCount(c)

TypeOK ==
  /\ now \in Nat
  /\ \A c \in Call :
       /\ page[c] \in Seq(SR)
       /\ outcome[c] \in {"unsent", "pending", "resolved"}
       /\ nextIndex[c] \in Nat
       /\ worker[c] \in [Workers(c) ->
            [pc : {"new", "awaiting", "done"}, i : Positions(c) \cup {0},
             on : Call \cup {None}, val : Brokerage \cup {None}]]
       /\ results[c] \in [Positions(c) -> [sr : SR, val : Brokerage] \cup {Hole}]
  /\ brokerageCache \in [SR -> [val : Brokerage, until : Nat]]
  /\ brokerageInflight \in [SR -> Call \cup {None}]
  /\ fetch \in [Call -> [SR -> {"none", "sent"} \cup Brokerage]]

Resting(pc) == [pc |-> pc, i |-> 0, on |-> None, val |-> None]

Init ==
  /\ now = 0
  /\ page \in [Call -> Pages]
  /\ brokerageCache = [s \in SR |-> NoEntry]
  /\ brokerageInflight = [s \in SR |-> None]
  /\ fetch = [c \in Call |-> [s \in SR |-> "none"]]
  /\ outcome = [c \in Call |-> "unsent"]
  /\ nextIndex = [c \in Call |-> 0]
  /\ worker = [c \in Call |-> [w \in Workers(c) |-> Resting("new")]]
  /\ results = [c \in Call |-> [i \in Positions(c) |-> Hole]]

-----------------------------------------------------------------------------
(* getBrokerageCached, called by call c for SR s *)

Fresh(s) == now < brokerageCache[s].until

\* Mutant of MustFetch: the map of promises in flight is not consulted.
MustFetchOnMiss(s) == ~ Fresh(s)

MustFetch(s) == ~ Fresh(s) /\ brokerageInflight[s] = None

\* The promise a worker of c awaits for item i: a cached value, the fetch in
\* flight, or a fetch of its own.
Asking(c, i) ==
  LET s == sr(c, i) IN
  [pc |-> "awaiting", i |-> i,
   on |-> IF Fresh(s) THEN None ELSE IF MustFetch(s) THEN c ELSE brokerageInflight[s],
   val |-> IF Fresh(s) THEN brokerageCache[s].val ELSE None]

\* What asking for the SRs in S does to the cache (get drops what has
\* expired), to the map of promises and to the network.
Asked(c, S) ==
  /\ brokerageCache' = [s \in SR |-> IF s \in S /\ ~ Fresh(s) THEN NoEntry ELSE brokerageCache[s]]
  /\ brokerageInflight' = [s \in SR |-> IF s \in S /\ MustFetch(s) THEN c ELSE brokerageInflight[s]]
  /\ fetch' = [fetch EXCEPT ![c] =
                 [s \in SR |-> IF s \in S /\ MustFetch(s) THEN "sent" ELSE @[s]]]

-----------------------------------------------------------------------------
(* mapWithConcurrency, its fn being enrichApr *)

Claiming(c, i) == IF i >= len(c) THEN Resting("done") ELSE Asking(c, i)

\* The workers start one after the other and ask for distinct SRs.
Launch(c) ==
  /\ outcome[c] = "unsent"
  /\ outcome' = [outcome EXCEPT ![c] = "pending"]
  /\ worker' = [worker EXCEPT ![c] = [w \in Workers(c) |-> Claiming(c, w - 1)]]
  /\ nextIndex' = [nextIndex EXCEPT ![c] = WorkerCount(c)]
  /\ Asked(c, {page[c][w] : w \in Workers(c) \cap DOMAIN page[c]})
  /\ UNCHANGED <<now, page, results>>

\* Mutant of ItemResolves: an SR whose brokerage is unknown is left out.
ItemLeftOut(c, w) ==
  /\ worker[c][w].pc = "awaiting" /\ worker[c][w].on = None
  /\ results' = IF worker[c][w].val = "fallback" THEN results ELSE
       [results EXCEPT ![c][worker[c][w].i] =
         [sr |-> sr(c, worker[c][w].i), val |-> worker[c][w].val]]
  /\ LET i == nextIndex[c] IN
       /\ nextIndex' = [nextIndex EXCEPT ![c] = i + 1]
       /\ worker' = [worker EXCEPT ![c][w] = Claiming(c, i)]
       /\ Asked(c, IF i < len(c) THEN {sr(c, i)} ELSE {})
  /\ UNCHANGED <<now, page, outcome>>

\* Mutant of ItemResolves: a worker that gets the fallback tries again.
ItemRetries(c, w) ==
  /\ worker[c][w].pc = "awaiting" /\ worker[c][w].on = None
  /\ IF worker[c][w].val = "fallback"
     THEN /\ worker' = [worker EXCEPT ![c][w] = Asking(c, @.i)]
          /\ Asked(c, {sr(c, worker[c][w].i)})
          /\ UNCHANGED <<results, nextIndex>>
     ELSE LET i == nextIndex[c] IN
          /\ results' = [results EXCEPT ![c][worker[c][w].i] =
               [sr |-> sr(c, worker[c][w].i), val |-> worker[c][w].val]]
          /\ nextIndex' = [nextIndex EXCEPT ![c] = i + 1]
          /\ worker' = [worker EXCEPT ![c][w] = Claiming(c, i)]
          /\ Asked(c, IF i < len(c) THEN {sr(c, i)} ELSE {})
  /\ UNCHANGED <<now, page, outcome>>

\* Worker w of call c has its brokerage: it stores the validator and asks for
\* the next SR of the page.
ItemResolves(c, w) ==
  /\ worker[c][w].pc = "awaiting" /\ worker[c][w].on = None
  /\ results' = [results EXCEPT ![c][worker[c][w].i] =
       [sr |-> sr(c, worker[c][w].i), val |-> worker[c][w].val]]
  /\ LET i == nextIndex[c] IN
       /\ nextIndex' = [nextIndex EXCEPT ![c] = i + 1]
       /\ worker' = [worker EXCEPT ![c][w] = Claiming(c, i)]
       /\ Asked(c, IF i < len(c) THEN {sr(c, i)} ELSE {})
  /\ UNCHANGED <<now, page, outcome>>

Resolve(c) ==
  /\ outcome[c] = "pending"
  /\ \A w \in Workers(c) : worker[c][w].pc = "done"
  /\ outcome' = [outcome EXCEPT ![c] = "resolved"]
  /\ UNCHANGED <<now, page, brokerageCache, brokerageInflight, fetch, nextIndex, worker, results>>

-----------------------------------------------------------------------------
(* The getBrokerage call of call c for SR s *)

\* Mutant of Cached: catch comes before then, so the fallback is cached too.
CachedAnyway(v) == TRUE

Cached(v) == v = "actual"

\* An answer is cached by the then-callback; a failure becomes the fallback.
FetchReply(c, s) ==
  /\ fetch[c][s] = "sent"
  /\ \E v \in Brokerage :
       /\ fetch' = [fetch EXCEPT ![c][s] = v]
       /\ brokerageCache' = IF Cached(v)
            THEN [brokerageCache EXCEPT ![s] = [val |-> v, until |-> now + BROKERAGE_TTL]]
            ELSE brokerageCache
  /\ UNCHANGED <<now, page, brokerageInflight, outcome, nextIndex, worker, results>>

\* Mutant of Resumed: a rejection, not the fallback, reaches the worker.
ResumedUndefined(wk, v) ==
  [wk EXCEPT !.on = None, !.val = IF v = "actual" THEN v ELSE "error"]

Resumed(wk, v) == [wk EXCEPT !.on = None, !.val = v]

\* The finally callback; every worker that awaits this fetch resumes.
FetchFinally(c, s) ==
  /\ fetch[c][s] \in Brokerage
  /\ fetch' = [fetch EXCEPT ![c][s] = "none"]
  /\ brokerageInflight' = [brokerageInflight EXCEPT ![s] = None]
  /\ worker' = [d \in Call |-> [w \in Workers(d) |->
        LET wk == worker[d][w] IN
        IF wk.pc = "awaiting" /\ wk.on = c /\ sr(d, wk.i) = s
        THEN Resumed(wk, fetch[c][s]) ELSE wk]]
  /\ UNCHANGED <<now, page, brokerageCache, outcome, nextIndex, results>>

Tick ==
  /\ now < MaxTime
  /\ now' = now + 1
  /\ UNCHANGED <<page, brokerageCache, brokerageInflight, fetch, outcome, nextIndex, worker, results>>

CallStep(c) == (\E w \in Workers(c) : ItemResolves(c, w)) \/ Resolve(c)
FetchStep(c, s) == FetchReply(c, s) \/ FetchFinally(c, s)

Next ==
  \/ \E c \in Call : Launch(c) \/ CallStep(c)
  \/ \E c \in Call, s \in SR : FetchStep(c, s)
  \/ Tick

\* RPCs settle (16 s timeout) and callbacks run.
Fairness ==
  /\ \A c \in Call : WF_vars(CallStep(c))
  /\ \A c \in Call, s \in SR : WF_vars(FetchStep(c, s))

Spec == Init /\ [][Next]_vars /\ Fairness

-----------------------------------------------------------------------------
(* Properties *)

\* However many pages ask for it at once, one getBrokerage call per SR.
OneFetchPerSR ==
  \A s \in SR, c, d \in Call : fetch[c][s] # "none" /\ fetch[d][s] # "none" => c = d

\* "caching the fallback would poison a transiently-failed SR": a page gets the
\* default only from a getBrokerage call that it waited for and that failed,
\* its own or another page's, and never while a fresh answer for that SR is
\* cached: a failure reaches no one who asks after it is over, and no late
\* failure outlives an answer.
DefaultOnlyFromOwnWait ==
  [][\A c \in Call : \A w \in Workers(c) :
       LET was == worker[c][w]
           s == sr(c, was.i) IN
       worker'[c][w].val = "fallback" /\ worker'[c][w] # was =>
         /\ was.pc = "awaiting" /\ was.on # None /\ fetch[was.on][s] = "fallback"
         /\ ~ Fresh(s)]_vars

\* The page position a result is for.
PositionOf(c, r) == CHOOSE i \in Positions(c) : sr(c, i) = r.sr

Pool(c) == INSTANCE MapWithConcurrency WITH
  MaxItems <- Cardinality(SR),
  MaxLimit <- BROKERAGE_CONCURRENCY,
  n <- len(c),
  limit <- BROKERAGE_CONCURRENCY,
  outcome <- outcome[c],
  nextIndex <- nextIndex[c],
  worker <- [w \in Workers(c) |-> [pc |-> worker[c][w].pc, i |-> worker[c][w].i]],
  results <- [i \in Positions(c) |->
                IF results[c][i] = Hole THEN len(c) ELSE PositionOf(c, results[c][i])]

\* Each call is a mapWithConcurrency whose fn never rejects, whatever the
\* other calls do to the cache and to the promises they share.
EveryCallIsAMap ==
  /\ \A c \in Call : Pool(c)!Init
  /\ [][\A c \in Call : Pool(c)!Next \/ UNCHANGED Pool(c)!vars]_vars

\* Every page is delivered, even if every getBrokerage call fails.
EveryPageIsDelivered == \A c \in Call : outcome[c] = "pending" ~> outcome[c] = "resolved"
=============================================================================
