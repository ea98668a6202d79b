------------------------- MODULE TronBrokerageProofs -------------------------
(***************************************************************************)
(* The shared brokerage cache for every number of calls, pages and Super   *)
(* Representatives: one getBrokerage call per SR, and a failure that       *)
(* reaches only those that waited for it.                                  *)
(***************************************************************************)
EXTENDS TronBrokerage, FiniteSetTheorems, TLAPS

\* The variables indexed by call are functions on Call.
OverCalls ==
  /\ page = [c \in Call |-> page[c]]
  /\ outcome = [c \in Call |-> outcome[c]]
  /\ nextIndex = [c \in Call |-> nextIndex[c]]
  /\ worker = [c \in Call |-> worker[c]]
  /\ results = [c \in Call |-> results[c]]

\* A worker that awaits has an item of its page, and a brokerage once it
\* waits for no fetch.
WaitInv ==
  \A c \in Call : \A w \in Workers(c) :
    worker[c][w].pc = "awaiting" =>
      /\ worker[c][w].i \in Positions(c)
      /\ worker[c][w].on = None => worker[c][w].val \in Brokerage

\* A fetch that has not reached its finally callback is the one in the map.
FetchInv == \A s \in SR, c \in Call : fetch[c][s] # "none" => brokerageInflight[s] = c

\* Whatever is in the cache, fresh or not, came from the FullNode.
CacheInv == \A s \in SR : brokerageCache[s].val = "actual"

IInv == TypeOK /\ OverCalls /\ WaitInv /\ FetchInv /\ CacheInv

WorkerRec(c) ==
  [pc : {"new", "awaiting", "done"}, i : Positions(c) \cup {0},
   on : Call \cup {None}, val : Brokerage \cup {None}]

-----------------------------------------------------------------------------

LEMMA PageFact ==
  ASSUME NEW c \in Call, page[c] \in Seq(SR)
  PROVE  /\ len(c) \in Nat
         /\ Positions(c) \subseteq Nat
         /\ \A i \in Positions(c) : sr(c, i) \in SR
         /\ WorkerCount(c) \in Nat /\ WorkerCount(c) >= 1
         /\ DOMAIN page[c] = 1 .. len(c)
         /\ \A w \in Workers(c) : w - 1 < len(c) => w - 1 \in Positions(c)
<1>1. len(c) \in Nat /\ DOMAIN page[c] = 1 .. len(c)
  BY DEF len
<1>2. \A i \in Positions(c) : i + 1 \in 1 .. len(c)
  BY <1>1 DEF Positions
<1>3. \A i \in Positions(c) : sr(c, i) \in SR
  BY <1>1, <1>2 DEF sr, len
<1>4. WorkerCount(c) \in Nat /\ WorkerCount(c) >= 1
  BY <1>1, BrokerageAssumption DEF WorkerCount
<1>. QED
  BY <1>1, <1>3, <1>4 DEF Positions, Workers

\* What a worker awaits after it has asked for an item of its page.
LEMMA AskingFact ==
  ASSUME IInv, NEW c \in Call, NEW i \in Positions(c)
  PROVE  /\ Asking(c, i) \in WorkerRec(c)
         /\ Asking(c, i).pc = "awaiting" /\ Asking(c, i).i = i
         /\ Asking(c, i).on = None => Asking(c, i).val \in Brokerage
<1>1. sr(c, i) \in SR
  BY PageFact DEF IInv, TypeOK
<1>2. brokerageCache[sr(c, i)].val \in Brokerage
  BY <1>1 DEF IInv, TypeOK
<1>3. brokerageInflight[sr(c, i)] \in Call \cup {None}
  BY <1>1 DEF IInv, TypeOK
<1>4. c # None
  BY BrokerageAssumption
<1>. QED
  BY <1>2, <1>3, <1>4 DEF Asking, MustFetch, WorkerRec

\* Claiming an item, or finding none left.
LEMMA ClaimingFact ==
  ASSUME IInv, NEW c \in Call, NEW i \in Nat
  PROVE  /\ Claiming(c, i) \in WorkerRec(c)
         /\ Claiming(c, i).pc = "awaiting" =>
              /\ Claiming(c, i).i \in Positions(c)
              /\ Claiming(c, i).on = None => Claiming(c, i).val \in Brokerage
<1>1. len(c) \in Nat
  BY PageFact DEF IInv, TypeOK
<1>2. CASE i >= len(c)
  BY <1>2 DEF Claiming, Resting, WorkerRec
<1>3. CASE i < len(c)
  <2>1. i \in Positions(c)
    BY <1>1, <1>3 DEF Positions
  <2>2. Claiming(c, i) = Asking(c, i)
    BY <1>1, <1>3 DEF Claiming
  <2>. QED
    BY <2>1, <2>2, AskingFact
<1>. QED
  BY <1>1, <1>2, <1>3

\* Asking for SRs starts no second fetch for an SR and caches nothing.
LEMMA AskedFact ==
  ASSUME IInv, NEW c \in Call, NEW S, Asked(c, S)
  PROVE  /\ brokerageCache' \in [SR -> [val : Brokerage, until : Nat]]
         /\ brokerageInflight' \in [SR -> Call \cup {None}]
         /\ fetch' \in [Call -> [SR -> {"none", "sent"} \cup Brokerage]]
         /\ FetchInv' /\ CacheInv'
<1>1. /\ brokerageCache' \in [SR -> [val : Brokerage, until : Nat]]
      /\ CacheInv'
  BY DEF Asked, IInv, TypeOK, CacheInv, NoEntry, Brokerage
<1>2. brokerageInflight' \in [SR -> Call \cup {None}]
  BY DEF Asked, IInv, TypeOK
<1>3. fetch' \in [Call -> [SR -> {"none", "sent"} \cup Brokerage]]
  BY DEF Asked, IInv, TypeOK
<1>4. FetchInv'
  <2>. SUFFICES ASSUME NEW s \in SR, NEW d \in Call, fetch'[d][s] # "none"
                PROVE  brokerageInflight'[s] = d
    BY DEF FetchInv
  <2>1. CASE s \in S /\ MustFetch(s)
    <3>1. \A e \in Call : fetch[e][s] = "none"
      BY <2>1, BrokerageAssumption DEF MustFetch, IInv, FetchInv
    <3>2. d = c
      BY <3>1 DEF Asked, IInv, TypeOK
    <3>. QED
      BY <2>1, <3>2 DEF Asked
  <2>2. CASE ~ (s \in S /\ MustFetch(s))
    <3>1. fetch'[d][s] = fetch[d][s]
      BY <2>2 DEF Asked, IInv, TypeOK
    <3>. QED
      BY <2>2, <3>1 DEF Asked, IInv, FetchInv
  <2>. QED
    BY <2>1, <2>2
<1>. QED
  BY <1>1, <1>2, <1>3, <1>4

\* A worker that resumes keeps its item and has a brokerage.
LEMMA ResumedFact ==
  ASSUME NEW c \in Call, NEW wk \in WorkerRec(c), NEW v \in Brokerage
  PROVE  /\ Resumed(wk, v) \in WorkerRec(c)
         /\ Resumed(wk, v).pc = wk.pc
         /\ Resumed(wk, v).i = wk.i
         /\ Resumed(wk, v).val \in Brokerage
<1>. DEFINE r1 == [wk EXCEPT !.on = None]
            r2 == [r1 EXCEPT !.val = v]
<1>1. r1 \in WorkerRec(c) /\ r1.pc = wk.pc /\ r1.i = wk.i
  BY DEF WorkerRec
<1>2. r2 \in WorkerRec(c) /\ r2.pc = r1.pc /\ r2.i = r1.i /\ r2.val = v
  <2>. HIDE DEF r1
  <2>. QED
    BY <1>1 DEF WorkerRec
<1>3. Resumed(wk, v) = r2
  BY DEF Resumed
<1>. QED
  BY <1>1, <1>2, <1>3

-----------------------------------------------------------------------------

LEMMA InitIInv == ASSUME Init PROVE IInv
<1>1. \A c \in Call : page[c] \in Seq(SR)
  BY BrokerageAssumption DEF Init
<1>2. TypeOK
  <2>1. \A c \in Call : worker[c] \in [Workers(c) -> WorkerRec(c)]
    BY DEF Init, Resting, WorkerRec
  <2>. QED
    BY <1>1, <2>1 DEF Init, TypeOK, NoEntry, Brokerage, Resting, WorkerRec
<1>3. OverCalls
  BY DEF Init, OverCalls
<1>4. WaitInv /\ FetchInv /\ CacheInv
  BY DEF Init, WaitInv, FetchInv, CacheInv, NoEntry, Resting
<1>. QED
  BY <1>2, <1>3, <1>4 DEF IInv

LEMMA LaunchIInv ==
  ASSUME IInv, NEW c \in Call, Launch(c) PROVE IInv'
<1>. DEFINE S == {page[c][w] : w \in Workers(c) \cap DOMAIN page[c]}
<1>0. Asked(c, S)
  BY DEF Launch
<1>. HIDE DEF S
<1>1. \A d \in Call : /\ Workers(d)' = Workers(d) /\ Positions(d)' = Positions(d)
                      /\ WorkerRec(d)' = WorkerRec(d)
  BY DEF Launch, Workers, WorkerCount, Positions, len, WorkerRec
<1>2. \A w \in Workers(c) : w - 1 \in Nat
  BY PageFact DEF Workers, IInv, TypeOK
<1>3. \A w \in Workers(c) : /\ worker'[c][w] \in WorkerRec(c)
                            /\ worker'[c][w].pc = "awaiting" =>
                                 /\ worker'[c][w].i \in Positions(c)
                                 /\ worker'[c][w].on = None => worker'[c][w].val \in Brokerage
  BY <1>2, ClaimingFact DEF Launch, IInv, OverCalls
<1>4. worker'[c] \in [Workers(c) -> WorkerRec(c)]
  BY <1>3 DEF Launch, IInv, OverCalls
<1>5. \A d \in Call : d # c => worker'[d] = worker[d]
  BY DEF Launch, IInv, OverCalls
<1>6. TypeOK'
  <2>1. \A d \in Call : worker'[d] \in [Workers(d) -> WorkerRec(d)]
    BY <1>4, <1>5 DEF IInv, TypeOK, WorkerRec
  <2>2. \A d \in Call : /\ page'[d] \in Seq(SR)
                        /\ outcome'[d] \in {"unsent", "pending", "resolved"}
                        /\ nextIndex'[d] \in Nat
                        /\ results'[d] \in [Positions(d) -> [sr : SR, val : Brokerage] \cup {Hole}]
    BY PageFact DEF Launch, IInv, TypeOK, OverCalls
  <2>3. now' \in Nat
    BY DEF Launch, IInv, TypeOK
  <2>. QED
    BY <1>0, <1>1, <2>1, <2>2, <2>3, AskedFact DEF TypeOK, WorkerRec
<1>7. OverCalls'
  BY DEF Launch, IInv, OverCalls
<1>8. WaitInv'
  BY <1>1, <1>3, <1>5 DEF IInv, WaitInv
<1>. QED
  BY <1>0, <1>6, <1>7, <1>8, AskedFact DEF IInv

LEMMA ItemResolvesIInv ==
  ASSUME IInv, NEW c \in Call, NEW w \in Workers(c), ItemResolves(c, w) PROVE IInv'
<1>. DEFINE S == IF nextIndex[c] < len(c) THEN {sr(c, nextIndex[c])} ELSE {}
<1>0. Asked(c, S)
  BY DEF ItemResolves
<1>. HIDE DEF S
<1>1. \A d \in Call : /\ Workers(d)' = Workers(d) /\ Positions(d)' = Positions(d)
                      /\ WorkerRec(d)' = WorkerRec(d)
  BY DEF ItemResolves, Workers, WorkerCount, Positions, len, WorkerRec
<1>2. nextIndex[c] \in Nat
  BY DEF IInv, TypeOK
<1>3. worker'[c] = [worker[c] EXCEPT ![w] = Claiming(c, nextIndex[c])]
  BY DEF ItemResolves, IInv, OverCalls
<1>4. \A d \in Call : d # c => worker'[d] = worker[d] /\ results'[d] = results[d]
  BY DEF ItemResolves, IInv, OverCalls
<1>5. worker[c] \in [Workers(c) -> WorkerRec(c)]
  BY DEF IInv, TypeOK, WorkerRec
<1>6. TypeOK'
  <2>1. \A d \in Call : worker'[d] \in [Workers(d) -> WorkerRec(d)]
    <3>1. worker'[c] \in [Workers(c) -> WorkerRec(c)]
      BY <1>2, <1>3, <1>5, ClaimingFact
    <3>. QED
      BY <1>4, <3>1 DEF IInv, TypeOK, WorkerRec
  <2>2. \A d \in Call : results'[d] \in [Positions(d) -> [sr : SR, val : Brokerage] \cup {Hole}]
    <3>1. /\ worker[c][w].i \in Positions(c)
          /\ worker[c][w].val \in Brokerage
      BY DEF ItemResolves, IInv, WaitInv
    <3>2. sr(c, worker[c][w].i) \in SR
      BY <3>1, PageFact DEF IInv, TypeOK
    <3>3. results'[c] = [results[c] EXCEPT ![worker[c][w].i] =
                           [sr |-> sr(c, worker[c][w].i), val |-> worker[c][w].val]]
      BY DEF ItemResolves, IInv, OverCalls
    <3>4. results'[c] \in [Positions(c) -> [sr : SR, val : Brokerage] \cup {Hole}]
      BY <3>1, <3>2, <3>3 DEF IInv, TypeOK
    <3>. QED
      BY <1>4, <3>4 DEF IInv, TypeOK
  <2>3. \A d \in Call : /\ page'[d] \in Seq(SR)
                        /\ outcome'[d] \in {"unsent", "pending", "resolved"}
                        /\ nextIndex'[d] \in Nat
    <3>1. page' = page /\ outcome' = outcome
      BY DEF ItemResolves
    <3>2. nextIndex' = [nextIndex EXCEPT ![c] = nextIndex[c] + 1]
      BY DEF ItemResolves
    <3>3. \A d \in Call : nextIndex'[d] \in Nat
      BY <3>2 DEF IInv, TypeOK, OverCalls
    <3>. QED
      BY <3>1, <3>3 DEF IInv, TypeOK
  <2>4. now' \in Nat
    BY DEF ItemResolves, IInv, TypeOK
  <2>. QED
    BY <1>0, <1>1, <2>1, <2>2, <2>3, <2>4, AskedFact DEF TypeOK, WorkerRec
<1>7. OverCalls'
  BY DEF ItemResolves, IInv, OverCalls
<1>8. WaitInv'
  <2>1. \A v \in Workers(c) : worker'[c][v].pc = "awaiting" =>
          /\ worker'[c][v].i \in Positions(c)
          /\ worker'[c][v].on = None => worker'[c][v].val \in Brokerage
    BY <1>2, <1>3, <1>5, ClaimingFact DEF IInv, WaitInv
  <2>. QED
    BY <1>1, <1>4, <2>1 DEF IInv, WaitInv
<1>. QED
  BY <1>0, <1>6, <1>7, <1>8, AskedFact DEF IInv

LEMMA ResolveIInv ==
  ASSUME IInv, NEW c \in Call, Resolve(c) PROVE IInv'
<1>1. \A d \in Call : Workers(d)' = Workers(d) /\ Positions(d)' = Positions(d)
  BY DEF Resolve, Workers, WorkerCount, Positions, len
<1>2. TypeOK'
  <2>1. \A d \in Call : outcome'[d] \in {"unsent", "pending", "resolved"}
    BY DEF Resolve, IInv, TypeOK, OverCalls
  <2>. QED
    BY <1>1, <2>1 DEF Resolve, IInv, TypeOK
<1>3. OverCalls'
  BY DEF Resolve, IInv, OverCalls
<1>4. WaitInv' /\ FetchInv' /\ CacheInv'
  BY <1>1 DEF Resolve, IInv, WaitInv, FetchInv, CacheInv
<1>. QED
  BY <1>2, <1>3, <1>4 DEF IInv

LEMMA FetchReplyIInv ==
  ASSUME IInv, NEW c \in Call, NEW s \in SR, FetchReply(c, s) PROVE IInv'
<1>1. \A d \in Call : Workers(d)' = Workers(d) /\ Positions(d)' = Positions(d)
  BY DEF FetchReply, Workers, WorkerCount, Positions, len
<1>2. PICK v \in Brokerage :
        /\ fetch' = [fetch EXCEPT ![c][s] = v]
        /\ brokerageCache' = IF Cached(v)
             THEN [brokerageCache EXCEPT ![s] = [val |-> v, until |-> now + BROKERAGE_TTL]]
             ELSE brokerageCache
  BY DEF FetchReply
<1>3. /\ brokerageCache' \in [SR -> [val : Brokerage, until : Nat]]
      /\ CacheInv'
  BY <1>2, BrokerageAssumption DEF IInv, TypeOK, CacheInv, Cached
<1>4. TypeOK'
  <2>1. fetch' \in [Call -> [SR -> {"none", "sent"} \cup Brokerage]]
    BY <1>2 DEF IInv, TypeOK
  <2>. QED
    BY <1>1, <1>3, <2>1 DEF FetchReply, IInv, TypeOK
<1>5. FetchInv'
  BY <1>2 DEF FetchReply, IInv, TypeOK, FetchInv
<1>6. OverCalls' /\ WaitInv'
  BY <1>1 DEF FetchReply, IInv, OverCalls, WaitInv
<1>. QED
  BY <1>3, <1>4, <1>5, <1>6 DEF IInv

LEMMA FetchFinallyIInv ==
  ASSUME IInv, NEW c \in Call, NEW s \in SR, FetchFinally(c, s) PROVE IInv'
<1>1. \A d \in Call : /\ Workers(d)' = Workers(d) /\ Positions(d)' = Positions(d)
                      /\ WorkerRec(d)' = WorkerRec(d)
  BY DEF FetchFinally, Workers, WorkerCount, Positions, len, WorkerRec
<1>2. \A d \in Call : \A w \in Workers(d) :
        worker'[d][w] = worker[d][w] \/ worker'[d][w] = Resumed(worker[d][w], fetch[c][s])
  BY DEF FetchFinally
<1>3. \A d \in Call : \A w \in Workers(d) :
        /\ worker[d][w] \in WorkerRec(d)
        /\ worker'[d][w] \in WorkerRec(d)
        /\ worker'[d][w].pc = worker[d][w].pc /\ worker'[d][w].i = worker[d][w].i
        /\ worker'[d][w] = worker[d][w] \/ worker'[d][w].val \in Brokerage
  <2>. SUFFICES ASSUME NEW d \in Call, NEW w \in Workers(d)
                PROVE  /\ worker[d][w] \in WorkerRec(d)
                       /\ worker'[d][w] \in WorkerRec(d)
                       /\ worker'[d][w].pc = worker[d][w].pc /\ worker'[d][w].i = worker[d][w].i
                       /\ worker'[d][w] = worker[d][w] \/ worker'[d][w].val \in Brokerage
    OBVIOUS
  <2>1. worker[d][w] \in WorkerRec(d)
    BY DEF IInv, TypeOK, WorkerRec
  <2>2. fetch[c][s] \in Brokerage
    BY DEF FetchFinally
  <2>3. /\ Resumed(worker[d][w], fetch[c][s]) \in WorkerRec(d)
        /\ Resumed(worker[d][w], fetch[c][s]).pc = worker[d][w].pc
        /\ Resumed(worker[d][w], fetch[c][s]).i = worker[d][w].i
        /\ Resumed(worker[d][w], fetch[c][s]).val \in Brokerage
    BY <2>1, <2>2, ResumedFact
  <2>. QED
    BY <1>2, <2>1, <2>3
<1>4. TypeOK'
  <2>1. \A d \in Call : worker'[d] \in [Workers(d) -> WorkerRec(d)]
    BY <1>3 DEF FetchFinally
  <2>2. fetch' \in [Call -> [SR -> {"none", "sent"} \cup Brokerage]]
    BY DEF FetchFinally, IInv, TypeOK
  <2>3. brokerageInflight' \in [SR -> Call \cup {None}]
    BY DEF FetchFinally, IInv, TypeOK
  <2>. QED
    BY <1>1, <2>1, <2>2, <2>3 DEF FetchFinally, IInv, TypeOK, WorkerRec
<1>5. WaitInv'
  BY <1>1, <1>3 DEF IInv, WaitInv
<1>6. FetchInv'
  <2>. SUFFICES ASSUME NEW t \in SR, NEW d \in Call, fetch'[d][t] # "none"
                PROVE  brokerageInflight'[t] = d
    BY DEF FetchInv
  <2>1. fetch[d][t] # "none" /\ ~ (d = c /\ t = s)
    BY DEF FetchFinally, IInv, TypeOK
  <2>2. t # s
    BY <2>1 DEF FetchFinally, IInv, FetchInv, Brokerage
  <2>. QED
    BY <2>1, <2>2 DEF FetchFinally, IInv, TypeOK, FetchInv
<1>7. CacheInv' /\ OverCalls'
  BY DEF FetchFinally, IInv, CacheInv, OverCalls
<1>. QED
  BY <1>4, <1>5, <1>6, <1>7 DEF IInv

LEMMA TickIInv == ASSUME IInv, Tick PROVE IInv'
<1>1. \A d \in Call : Workers(d)' = Workers(d) /\ Positions(d)' = Positions(d)
  BY DEF Tick, Workers, WorkerCount, Positions, len
<1>2. TypeOK'
  BY <1>1 DEF Tick, IInv, TypeOK
<1>3. OverCalls' /\ WaitInv' /\ FetchInv' /\ CacheInv'
  BY <1>1 DEF Tick, IInv, OverCalls, WaitInv, FetchInv, CacheInv
<1>. QED
  BY <1>2, <1>3 DEF IInv

THEOREM Invariance == Spec => []IInv
<1>1. Init => IInv
  BY InitIInv
<1>2. IInv /\ [Next]_vars => IInv'
  <2>. SUFFICES ASSUME IInv, [Next]_vars PROVE IInv'
    OBVIOUS
  <2>1. CASE UNCHANGED vars
    <3>1. \A d \in Call : Workers(d)' = Workers(d) /\ Positions(d)' = Positions(d)
      BY <2>1 DEF vars, Workers, WorkerCount, Positions, len
    <3>2. TypeOK'
      BY <2>1, <3>1 DEF vars, IInv, TypeOK
    <3>3. OverCalls' /\ WaitInv' /\ FetchInv' /\ CacheInv'
      BY <2>1, <3>1 DEF vars, IInv, OverCalls, WaitInv, FetchInv, CacheInv
    <3>. QED
      BY <3>2, <3>3 DEF IInv
  <2>2. ASSUME NEW c \in Call, Launch(c) \/ CallStep(c) PROVE IInv'
    BY <2>2, LaunchIInv, ItemResolvesIInv, ResolveIInv DEF CallStep
  <2>3. ASSUME NEW c \in Call, NEW s \in SR, FetchStep(c, s) PROVE IInv'
    BY <2>3, FetchReplyIInv, FetchFinallyIInv DEF FetchStep
  <2>. QED
    BY <2>1, <2>2, <2>3, TickIInv DEF Next
<1>. QED
  BY <1>1, <1>2, PTL DEF Spec

\* The variables keep their types: no worker stores a brokerage it does not
\* have, or outside its page.
THEOREM TypeCorrect == Spec => []TypeOK
<1>1. IInv => TypeOK
  BY DEF IInv
<1>. QED
  BY <1>1, Invariance, PTL

\* One getBrokerage call per SR, for any number of calls and any pages.
THEOREM OneFetchPerSRHolds == Spec => []OneFetchPerSR
<1>1. IInv => OneFetchPerSR
  BY DEF IInv, FetchInv, OneFetchPerSR
<1>. QED
  BY <1>1, Invariance, PTL

-----------------------------------------------------------------------------
(* Whom a failure reaches.                                                 *)

\* While an SR is asked for, and after a failure, nothing fresh is cached.
FreshInv ==
  \A s \in SR, c \in Call : fetch[c][s] \in {"sent", "fallback"} => ~ Fresh(s)

\* Asking for SRs keeps it: what is asked for has expired.
LEMMA AskedFresh ==
  ASSUME IInv, FreshInv, NEW c \in Call, NEW S, Asked(c, S), now' = now
  PROVE  FreshInv'
<1>. SUFFICES ASSUME NEW s \in SR, NEW d \in Call, fetch'[d][s] \in {"sent", "fallback"}
              PROVE  ~ Fresh(s)'
  BY DEF FreshInv
<1>1. ~ Fresh(s)
  <2>1. CASE s \in S /\ MustFetch(s)
    BY <2>1 DEF MustFetch
  <2>2. CASE ~ (s \in S /\ MustFetch(s))
    <3>1. fetch'[d][s] = fetch[d][s]
      BY <2>2 DEF Asked, IInv, TypeOK
    <3>. QED
      BY <3>1 DEF FreshInv
  <2>. QED
    BY <2>1, <2>2
<1>2. brokerageCache'[s] = NoEntry \/ brokerageCache'[s] = brokerageCache[s]
  BY DEF Asked
<1>3. now \in Nat
  BY DEF IInv, TypeOK
<1>. QED
  BY <1>1, <1>2, <1>3 DEF Fresh, NoEntry

LEMMA FetchReplyFresh ==
  ASSUME IInv, FreshInv, NEW c \in Call, NEW s \in SR, FetchReply(c, s)
  PROVE  FreshInv'
<1>1. PICK v \in Brokerage :
        /\ fetch' = [fetch EXCEPT ![c][s] = v]
        /\ brokerageCache' = IF Cached(v)
             THEN [brokerageCache EXCEPT ![s] = [val |-> v, until |-> now + BROKERAGE_TTL]]
             ELSE brokerageCache
  BY DEF FetchReply
<1>2. fetch[c][s] = "sent" /\ now' = now
  BY DEF FetchReply
<1>. SUFFICES ASSUME NEW r \in SR, NEW d \in Call, fetch'[d][r] \in {"sent", "fallback"}
              PROVE  ~ Fresh(r)'
  BY DEF FreshInv
<1>3. CASE r # s
  <2>1. fetch'[d][r] = fetch[d][r] /\ brokerageCache'[r] = brokerageCache[r]
    BY <1>1, <1>3 DEF IInv, TypeOK
  <2>. QED
    BY <1>2, <2>1 DEF FreshInv, Fresh
<1>4. CASE r = s
  <2>1. d = c
    <3>1. d # c => fetch'[d][s] = fetch[d][s]
      BY <1>1 DEF IInv, TypeOK
    <3>. QED
      BY <1>2, <1>4, <3>1 DEF IInv, FetchInv
  <2>2. fetch'[c][s] = v
    BY <1>1 DEF IInv, TypeOK
  <2>3. brokerageCache' = brokerageCache
    BY <1>1, <1>4, <2>1, <2>2 DEF Cached
  <2>. QED
    BY <1>2, <1>4, <2>3 DEF FreshInv, Fresh
<1>. QED
  BY <1>3, <1>4

LEMMA FreshInvariance == Spec => []FreshInv
<1>1. Init => FreshInv
  BY DEF Init, FreshInv
<1>2. IInv /\ FreshInv /\ [Next]_vars => FreshInv'
  <2>. SUFFICES ASSUME IInv, FreshInv, [Next]_vars PROVE FreshInv'
    OBVIOUS
  <2>1. CASE UNCHANGED vars
    BY <2>1 DEF vars, FreshInv, Fresh
  <2>2. ASSUME NEW c \in Call, Launch(c) PROVE FreshInv'
    BY <2>2, AskedFresh DEF Launch
  <2>3. ASSUME NEW c \in Call, NEW w \in Workers(c), ItemResolves(c, w) PROVE FreshInv'
    BY <2>3, AskedFresh DEF ItemResolves
  <2>4. ASSUME NEW c \in Call, Resolve(c) PROVE FreshInv'
    BY <2>4 DEF Resolve, FreshInv, Fresh
  <2>5. ASSUME NEW c \in Call, NEW s \in SR, FetchFinally(c, s) PROVE FreshInv'
    <3>1. \A r \in SR, d \in Call : fetch'[d][r] = fetch[d][r] \/ fetch'[d][r] = "none"
      BY <2>5 DEF FetchFinally, IInv, TypeOK
    <3>. QED
      BY <2>5, <3>1 DEF FetchFinally, FreshInv, Fresh
  <2>6. CASE Tick
    <3>1. now' = now + 1 /\ fetch' = fetch /\ brokerageCache' = brokerageCache
      BY <2>6 DEF Tick
    <3>2. now \in Nat /\ \A s \in SR : brokerageCache[s].until \in Nat
      BY DEF IInv, TypeOK
    <3>. QED
      BY <3>1, <3>2 DEF FreshInv, Fresh
  <2>. QED
    BY <2>1, <2>2, <2>3, <2>4, <2>5, <2>6, FetchReplyFresh DEF Next, CallStep, FetchStep
<1>. QED
  BY <1>1, <1>2, Invariance, PTL DEF Spec

\* Asking never yields the default at once: it is not in the cache.
LEMMA ClaimingNoDefault ==
  ASSUME IInv, NEW c \in Call, NEW i \in Nat PROVE Claiming(c, i).val # "fallback"
<1>1. len(c) \in Nat
  BY PageFact DEF IInv, TypeOK
<1>2. None # "fallback"
  BY BrokerageAssumption
<1>3. CASE i >= len(c)
  BY <1>2, <1>3 DEF Claiming, Resting
<1>4. CASE i < len(c)
  <2>1. i \in Positions(c) /\ Claiming(c, i) = Asking(c, i)
    BY <1>1, <1>4 DEF Positions, Claiming
  <2>2. brokerageCache[sr(c, i)].val = "actual"
    BY <2>1, PageFact DEF IInv, TypeOK, CacheInv
  <2>. QED
    BY <1>2, <2>1, <2>2 DEF Asking
<1>. QED
  BY <1>1, <1>3, <1>4

\* The step from the invariants to the property.
LEMMA DefaultStep ==
  ASSUME IInv, FreshInv, Next, NEW c \in Call, NEW w \in Workers(c),
         worker'[c][w].val = "fallback", worker'[c][w] # worker[c][w]
  PROVE  /\ worker[c][w].pc = "awaiting" /\ worker[c][w].on # None
         /\ fetch[worker[c][w].on][sr(c, worker[c][w].i)] = "fallback"
         /\ ~ Fresh(sr(c, worker[c][w].i))
<1>1. ASSUME NEW d \in Call, Launch(d) PROVE FALSE
  <2>1. c = d
    BY <1>1 DEF Launch, IInv, OverCalls
  <2>2. worker'[c][w] = Claiming(c, w - 1) /\ w - 1 \in Nat
    BY <1>1, <2>1, PageFact DEF Launch, IInv, OverCalls, Workers, TypeOK
  <2>. QED
    BY <2>2, ClaimingNoDefault
<1>2. ASSUME NEW d \in Call, NEW v \in Workers(d), ItemResolves(d, v) PROVE FALSE
  <2>1. c = d
    BY <1>2 DEF ItemResolves, IInv, OverCalls
  <2>2. worker'[c] = [worker[c] EXCEPT ![v] = Claiming(c, nextIndex[c])] /\ nextIndex[c] \in Nat
    BY <1>2, <2>1 DEF ItemResolves, IInv, OverCalls, TypeOK
  <2>3. worker'[c][w] = Claiming(c, nextIndex[c])
    BY <2>2 DEF IInv, TypeOK
  <2>. QED
    BY <2>2, <2>3, ClaimingNoDefault
<1>3. ASSUME NEW d \in Call, NEW s \in SR, FetchFinally(d, s)
      PROVE  /\ worker[c][w].pc = "awaiting" /\ worker[c][w].on # None
             /\ fetch[worker[c][w].on][sr(c, worker[c][w].i)] = "fallback"
             /\ ~ Fresh(sr(c, worker[c][w].i))
  <2>1. /\ worker[c][w].pc = "awaiting" /\ worker[c][w].on = d /\ sr(c, worker[c][w].i) = s
        /\ worker'[c][w] = Resumed(worker[c][w], fetch[d][s])
    BY <1>3 DEF FetchFinally
  <2>2. fetch[d][s] = "fallback"
    <3>1. worker[c][w] \in WorkerRec(c)
      BY DEF IInv, TypeOK, WorkerRec
    <3>. QED
      BY <2>1, <3>1 DEF Resumed, WorkerRec
  <2>. QED
    BY <2>1, <2>2, BrokerageAssumption DEF FreshInv
<1>4. CASE UNCHANGED worker
  BY <1>4
<1>. QED
  BY <1>1, <1>2, <1>3, <1>4 DEF Next, CallStep, FetchStep, Resolve, FetchReply, Tick

\* A failed getBrokerage call reaches those that waited for it, and no one
\* while the brokerage is known.
THEOREM DefaultOnlyFromOwnWaitHolds == Spec => DefaultOnlyFromOwnWait
<1>1. IInv /\ FreshInv /\ [Next]_vars =>
        [\A c \in Call : \A w \in Workers(c) :
           LET was == worker[c][w]
               s == sr(c, was.i) IN
           worker'[c][w].val = "fallback" /\ worker'[c][w] # was =>
             /\ was.pc = "awaiting" /\ was.on # None /\ fetch[was.on][s] = "fallback"
             /\ ~ Fresh(s)]_vars
  BY DefaultStep
<1>. QED
  BY <1>1, Invariance, FreshInvariance, PTL DEF DefaultOnlyFromOwnWait, Spec

-----------------------------------------------------------------------------
(* Each call implements MapWithConcurrency.                                *)

\* The pages asked for never change.
PageInv == \A c \in Call : page[c] \in Pages

LEMMA PageInvariance == Spec => []PageInv
<1>1. Init => PageInv
  BY DEF Init, PageInv
<1>2. PageInv /\ [Next]_vars => PageInv'
  BY DEF Next, vars, CallStep, FetchStep, Launch, ItemResolves, Resolve, FetchReply, FetchFinally,
         Tick, PageInv
<1>. QED
  BY <1>1, <1>2, PTL DEF Spec

\* A page names an SR once, so that it has no more items than there are SRs.
LEMMA PageLength ==
  ASSUME NEW p \in Pages PROVE Len(p) \in 0 .. Cardinality(SR)
<1>1. p \in Seq(SR) /\ \A a, b \in DOMAIN p : p[a] = p[b] => a = b
  BY BrokerageAssumption DEF IsInjective
<1>2. p \in [1 .. Len(p) -> SR] /\ Len(p) \in Nat /\ DOMAIN p = 1 .. Len(p)
  BY <1>1
<1>3. p \in Injection(1 .. Len(p), SR)
  BY <1>1, <1>2 DEF Injection, IsInjective
<1>4. Cardinality(1 .. Len(p)) <= Cardinality(SR)
  BY <1>3, FS_Injection, BrokerageAssumption
<1>5. \A k \in Nat : Cardinality(1 .. k) = k
  BY FS_Interval
<1>6. Cardinality(SR) \in Nat
  BY BrokerageAssumption, FS_CardinalityType
<1>. QED
  BY <1>2, <1>4, <1>5, <1>6

\* A result tells its place.
LEMMA PlaceFact ==
  ASSUME NEW c \in Call, page[c] \in Pages, NEW i \in Positions(c), NEW r, r.sr = sr(c, i)
  PROVE  PositionOf(c, r) = i
<1>1. page[c] \in Seq(SR) /\ \A a, b \in DOMAIN page[c] : page[c][a] = page[c][b] => a = b
  BY BrokerageAssumption DEF IsInjective
<1>2. \A j \in Positions(c) : j + 1 \in DOMAIN page[c] /\ j \in Nat
  BY <1>1, PageFact DEF Positions
<1>3. ASSUME NEW j \in Positions(c), sr(c, j) = r.sr PROVE j = i
  <2>1. j + 1 = i + 1
    BY <1>1, <1>2, <1>3 DEF sr
  <2>. QED
    BY <1>2, <2>1
<1>. QED
  BY <1>3 DEF PositionOf

\* The places a call's workers and results have, as its pool sees them.
PoolWorker(c) == [w \in Workers(c) |-> [pc |-> worker[c][w].pc, i |-> worker[c][w].i]]
PoolResults(c) ==
  [i \in Positions(c) |-> IF results[c][i] = Hole THEN len(c) ELSE PositionOf(c, results[c][i])]

LEMMA PoolFact ==
  ASSUME NEW c \in Call, page[c] \in Seq(SR)
  PROVE  /\ Pool(c)!WorkerCount = WorkerCount(c)
         /\ Pool(c)!Workers = Workers(c)
         /\ Pool(c)!Index = Positions(c)
<1>1. len(c) \in Nat
  BY PageFact
<1>2. Pool(c)!WorkerCount = WorkerCount(c)
  BY <1>1, BrokerageAssumption DEF Pool!WorkerCount, WorkerCount
<1>. QED
  BY <1>2 DEF Pool!Workers, Pool!Index, Workers, Positions

\* A call none of whose items, workers and results move is left alone.
LEMMA PoolUnchanged ==
  ASSUME NEW c \in Call, page' = page, outcome'[c] = outcome[c], nextIndex'[c] = nextIndex[c],
         results'[c] = results[c],
         \A w \in Workers(c) : worker'[c][w].pc = worker[c][w].pc
                               /\ worker'[c][w].i = worker[c][w].i
  PROVE  UNCHANGED Pool(c)!vars
<1>1. len(c)' = len(c) /\ Workers(c)' = Workers(c) /\ Positions(c)' = Positions(c)
  BY DEF len, Workers, WorkerCount, Positions
<1>2. PoolWorker(c)' = PoolWorker(c)
  BY <1>1 DEF PoolWorker
<1>3. PoolResults(c)' = PoolResults(c)
  BY <1>1 DEF PoolResults, PositionOf, sr
<1>. QED
  BY <1>1, <1>2, <1>3 DEF Pool!vars, PoolWorker, PoolResults

LEMMA PoolInit == ASSUME Init, NEW c \in Call PROVE Pool(c)!Init
<1>1. page[c] \in Pages /\ page[c] \in Seq(SR)
  BY BrokerageAssumption DEF Init
<1>2. len(c) \in 0 .. Cardinality(SR)
  BY <1>1, PageLength DEF len
<1>3. BROKERAGE_CONCURRENCY \in 0 .. BROKERAGE_CONCURRENCY
  BY BrokerageAssumption
<1>4. PoolWorker(c) = [w \in Workers(c) |-> [pc |-> "new", i |-> 0]]
  BY DEF Init, PoolWorker, Resting
<1>5. PoolResults(c) = [i \in Positions(c) |-> len(c)]
  BY DEF Init, PoolResults
<1>. QED
  BY <1>1, <1>2, <1>3, <1>4, <1>5, PoolFact
  DEF Init, Pool!Init, Pool!Hole, PoolWorker, PoolResults

LEMMA PoolLaunch == ASSUME IInv, PageInv, NEW c \in Call, Launch(c) PROVE Pool(c)!Launch
<1>1. page[c] \in Seq(SR)
  BY DEF IInv, TypeOK
<1>2. len(c)' = len(c) /\ Workers(c)' = Workers(c) /\ Positions(c)' = Positions(c)
  BY DEF Launch, len, Workers, WorkerCount, Positions
<1>3. worker'[c] = [w \in Workers(c) |-> Claiming(c, w - 1)]
  BY DEF Launch, IInv, OverCalls
<1>4. \A w \in Workers(c) : /\ worker'[c][w].pc = Pool(c)!Claiming(w - 1).pc
                            /\ worker'[c][w].i = Pool(c)!Claiming(w - 1).i
  BY <1>3 DEF Claiming, Asking, Resting, Pool!Claiming
<1>5. PoolWorker(c)' = [w \in Workers(c) |-> Pool(c)!Claiming(w - 1)]
  BY <1>2, <1>4 DEF PoolWorker, Pool!Claiming
<1>6. PoolResults(c)' = PoolResults(c)
  BY <1>2 DEF Launch, PoolResults, PositionOf, sr
<1>7. outcome[c] = "unsent" /\ outcome'[c] = "pending" /\ nextIndex'[c] = WorkerCount(c)
  BY DEF Launch, IInv, OverCalls
<1>. QED
  BY <1>1, <1>2, <1>5, <1>6, <1>7, PoolFact DEF Pool!Launch, PoolWorker, PoolResults

LEMMA PoolItemResolves ==
  ASSUME IInv, PageInv, NEW c \in Call, NEW w \in Workers(c), ItemResolves(c, w)
  PROVE  Pool(c)!ItemResolves(w)
<1>. DEFINE i == worker[c][w].i
            n == nextIndex[c]
            r == [sr |-> sr(c, i), val |-> worker[c][w].val]
<1>1. page[c] \in Seq(SR) /\ page[c] \in Pages
  BY DEF IInv, TypeOK, PageInv
<1>2. len(c)' = len(c) /\ Workers(c)' = Workers(c) /\ Positions(c)' = Positions(c)
  BY DEF ItemResolves, len, Workers, WorkerCount, Positions
<1>3. i \in Positions(c) /\ worker[c][w].val \in Brokerage /\ worker[c][w].pc = "awaiting"
  BY DEF ItemResolves, IInv, WaitInv
<1>4. PoolWorker(c)' = [PoolWorker(c) EXCEPT ![w] = Pool(c)!Claiming(n)]
  <2>1. worker'[c] = [worker[c] EXCEPT ![w] = Claiming(c, n)]
    BY DEF ItemResolves, IInv, OverCalls
  <2>2. worker[c] = [v \in Workers(c) |-> worker[c][v]]
    BY DEF IInv, TypeOK
  <2>3. \A v \in Workers(c) : v # w => worker'[c][v] = worker[c][v]
    BY <2>1, <2>2
  <2>4. worker'[c][w] = Claiming(c, n)
    BY <2>1, <2>2
  <2>5. /\ worker'[c][w].pc = Pool(c)!Claiming(n).pc
        /\ worker'[c][w].i = Pool(c)!Claiming(n).i
    BY <2>4 DEF Claiming, Asking, Resting, Pool!Claiming
  <2>. QED
    BY <1>2, <2>3, <2>5 DEF PoolWorker, Pool!Claiming
<1>5. PoolResults(c)' = [PoolResults(c) EXCEPT ![i] = i]
  <2>1. results'[c] = [results[c] EXCEPT ![i] = r]
    BY DEF ItemResolves, IInv, OverCalls
  <2>2. results[c] = [j \in Positions(c) |-> results[c][j]]
    BY DEF IInv, TypeOK
  <2>3. \A j \in Positions(c) : j # i => results'[c][j] = results[c][j]
    BY <2>1, <2>2
  <2>4. results'[c][i] = r
    BY <1>3, <2>1, <2>2
  <2>5. r # Hole
    BY <1>3, BrokerageAssumption DEF Hole, Brokerage
  <2>6. PositionOf(c, r) = i
    BY <1>1, <1>3, PlaceFact
  <2>7. PoolResults(c)' =
          [j \in Positions(c) |->
             IF results'[c][j] = Hole THEN len(c) ELSE PositionOf(c, results'[c][j])]
    BY <1>2 DEF ItemResolves, PoolResults, PositionOf, sr
  <2>. QED
    BY <1>3, <2>3, <2>4, <2>5, <2>6, <2>7 DEF PoolResults
<1>6. outcome'[c] = outcome[c] /\ nextIndex'[c] = n + 1
  BY DEF ItemResolves, IInv, OverCalls
<1>. QED
  BY <1>1, <1>2, <1>3, <1>4, <1>5, <1>6, PoolFact DEF Pool!ItemResolves, PoolWorker, PoolResults

LEMMA PoolResolve == ASSUME IInv, PageInv, NEW c \in Call, Resolve(c) PROVE Pool(c)!Resolve
<1>1. page[c] \in Seq(SR)
  BY DEF IInv, TypeOK
<1>2. len(c)' = len(c) /\ Workers(c)' = Workers(c) /\ Positions(c)' = Positions(c)
  BY DEF Resolve, len, Workers, WorkerCount, Positions
<1>3. PoolWorker(c)' = PoolWorker(c) /\ PoolResults(c)' = PoolResults(c)
  BY <1>2 DEF Resolve, PoolWorker, PoolResults, PositionOf, sr
<1>4. /\ outcome[c] = "pending" /\ outcome'[c] = "resolved" /\ nextIndex'[c] = nextIndex[c]
      /\ \A w \in Workers(c) : worker[c][w].pc = "done"
  BY DEF Resolve, IInv, OverCalls
<1>. QED
  BY <1>1, <1>2, <1>3, <1>4, PoolFact DEF Pool!Resolve, Pool!AllDone, PoolWorker, PoolResults

\* Every call of mapWithConcurrency over a page is a MapWithConcurrency whose
\* fn never rejects, for any number of calls that share the cache and the
\* promises, and any pages: each step of the program is a step of at most
\* the pool of the call it belongs to.
THEOREM EveryCallIsAMapHolds == Spec => EveryCallIsAMap
<1>1. Init => \A c \in Call : Pool(c)!Init
  BY PoolInit
<1>2. IInv /\ PageInv /\ [Next]_vars => \A c \in Call : Pool(c)!Next \/ UNCHANGED Pool(c)!vars
  <2>. SUFFICES ASSUME IInv, PageInv, [Next]_vars, NEW c \in Call
                PROVE  Pool(c)!Next \/ UNCHANGED Pool(c)!vars
    OBVIOUS
  <2>0. page[c] \in Seq(SR)
    BY DEF IInv, TypeOK
  <2>1. ASSUME NEW d \in Call, Launch(d) PROVE Pool(c)!Next \/ UNCHANGED Pool(c)!vars
    <3>1. CASE d = c
      BY <2>1, <3>1, PoolLaunch DEF Pool!Next
    <3>2. CASE d # c
      BY <2>1, <3>2, PoolUnchanged DEF Launch, IInv, OverCalls
    <3>. QED
      BY <3>1, <3>2
  <2>2. ASSUME NEW d \in Call, NEW w \in Workers(d), ItemResolves(d, w)
        PROVE  Pool(c)!Next \/ UNCHANGED Pool(c)!vars
    <3>1. CASE d = c
      BY <2>0, <2>2, <3>1, PoolItemResolves, PoolFact DEF Pool!Next
    <3>2. CASE d # c
      BY <2>2, <3>2, PoolUnchanged DEF ItemResolves, IInv, OverCalls
    <3>. QED
      BY <3>1, <3>2
  <2>3. ASSUME NEW d \in Call, Resolve(d) PROVE Pool(c)!Next \/ UNCHANGED Pool(c)!vars
    <3>1. CASE d = c
      BY <2>3, <3>1, PoolResolve DEF Pool!Next
    <3>2. CASE d # c
      BY <2>3, <3>2, PoolUnchanged DEF Resolve, IInv, OverCalls
    <3>. QED
      BY <3>1, <3>2
  <2>4. ASSUME NEW d \in Call, NEW s \in SR, FetchReply(d, s) PROVE UNCHANGED Pool(c)!vars
    BY <2>4, PoolUnchanged DEF FetchReply
  <2>5. ASSUME NEW d \in Call, NEW s \in SR, FetchFinally(d, s) PROVE UNCHANGED Pool(c)!vars
    <3>1. \A w \in Workers(c) : worker'[c][w].pc = worker[c][w].pc
                                /\ worker'[c][w].i = worker[c][w].i
      <4>. TAKE w \in Workers(c)
      <4>1. worker[c][w] \in WorkerRec(c) /\ fetch[d][s] \in Brokerage
        BY <2>5 DEF FetchFinally, IInv, TypeOK, WorkerRec
      <4>2. worker'[c][w] = worker[c][w] \/ worker'[c][w] = Resumed(worker[c][w], fetch[d][s])
        BY <2>5 DEF FetchFinally
      <4>. QED
        BY <4>1, <4>2, ResumedFact
    <3>. QED
      BY <2>5, <3>1, PoolUnchanged DEF FetchFinally
  <2>6. CASE Tick
    BY <2>6, PoolUnchanged DEF Tick
  <2>7. CASE UNCHANGED vars
    BY <2>7, PoolUnchanged DEF vars
  <2>. QED
    BY <2>1, <2>2, <2>3, <2>4, <2>5, <2>6, <2>7 DEF Next, CallStep, FetchStep
<1>. QED
  BY <1>1, <1>2, Invariance, PageInvariance, PTL DEF Spec, EveryCallIsAMap
=============================================================================
