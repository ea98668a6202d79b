------------------------ MODULE BuildingBlocksProofs ------------------------
(***************************************************************************)
(* The parts the services are built from, each for every value of its      *)
(* constants: the SDK's in-memory cache keeps its types and implements the *)
(* contract; mapWithConcurrency runs no item twice and resolves with every *)
(* result in input order; the positions the Tron getDelegations            *)
(* reconstructs account for exactly what is frozen; the Tron witness load  *)
(* is single-flight and as recent as its times to live promise.            *)
(***************************************************************************)
EXTENDS TtlCache, MapWithConcurrency, TronPositions, TronWitnessLoader, FiniteSetTheorems, TLAPS

(***************************************************************************)
(* TtlCache                                                                *)
(***************************************************************************)

\* The Map holds well-formed entries under its keys.
THEOREM CacheTypeCorrect == CacheSpec => []CacheTypeOK
<1>1. CacheInit => CacheTypeOK
  BY DEF CacheInit, CacheTypeOK, Missing, NoCall, Called
<1>2. CacheTypeOK /\ [CacheNext]_cacheVars => CacheTypeOK'
  <2>. SUFFICES ASSUME CacheTypeOK, [CacheNext]_cacheVars PROVE CacheTypeOK'
    OBVIOUS
  <2>. USE TtlCacheAssumption DEF CacheTypeOK, Missing, CacheEntry, Called
  <2>1. ASSUME NEW key \in Key, NEW v \in Value, NEW ttl \in TTL \cup {Undefined}, Set(key, v, ttl)
        PROVE  CacheTypeOK'
    BY <2>1 DEF Set, ExpirationOf
  <2>2. ASSUME NEW key \in Key, GetHit(key) PROVE CacheTypeOK'
    BY <2>2 DEF GetHit
  <2>3. ASSUME NEW key \in Key, GetMiss(key) PROVE CacheTypeOK'
    BY <2>3 DEF GetMiss
  <2>4. ASSUME NEW key \in Key, Has(key) PROVE CacheTypeOK'
    BY <2>4 DEF Has
  <2>5. ASSUME NEW key \in Key, Delete(key) PROVE CacheTypeOK'
    BY <2>5 DEF Delete
  <2>6. CASE Clear
    BY <2>6 DEF Clear
  <2>7. CASE ClockTick
    BY <2>7 DEF ClockTick
  <2>8. CASE UNCHANGED cacheVars
    BY <2>8 DEF cacheVars
  <2>. QED
    BY <2>1, <2>2, <2>3, <2>4, <2>5, <2>6, <2>7, <2>8 DEF CacheNext
<1>. QED
  BY <1>1, <1>2, PTL DEF CacheSpec

\* Erasing expired entries lazily implements erasing them on time.
THEOREM LazyEvictionImplementsContract == CacheSpec => ImplementsContract
<1>. USE TtlCacheAssumption
<1>1. CacheInit => Contract!Init
  BY DEF CacheInit, Contract!Init, Visible, Expired, Missing, Contract!Absent,
         NoCall, Called, Contract!NoCall, Contract!Called
<1>2. CacheTypeOK /\ [CacheNext]_cacheVars => [Contract!Next]_Contract!vars
  <2>. SUFFICES ASSUME CacheTypeOK, [CacheNext]_cacheVars PROVE [Contract!Next]_Contract!vars
    OBVIOUS
  <2>. USE DEF CacheTypeOK, Missing, CacheEntry, Visible, Expired, Called,
               Contract!Absent, Contract!Called
  <2>1. ASSUME NEW key \in Key, NEW v \in Value, NEW ttl \in TTL \cup {Undefined}, Set(key, v, ttl)
        PROVE  Contract!Put(key, v, ttl)
    <3>. DEFINE e == [val |-> v, until |-> clock + Contract!Effective(ttl)]
    <3>1. /\ store' = [store EXCEPT ![key] = e]
          /\ clock' = clock
          /\ last' = Called("set", key, v, ttl, FALSE)
      BY <2>1 DEF Set, ExpirationOf, Contract!Effective
    <3>2. Visible' = [Visible EXCEPT ![key] = Contract!Unexpired(e, clock)]
      <4>1. Contract!Unexpired(e, clock) = IF clock >= e.until THEN Missing ELSE e
        BY DEF Contract!Unexpired, Contract!Effective
      <4>. HIDE DEF e
      <4>2. \A q \in Key : store'[q] = IF q = key THEN e ELSE store[q]
        BY <3>1
      <4>. QED
        BY <3>1, <4>1, <4>2
    <3>. QED
      BY <3>1, <3>2 DEF Contract!Put
  <2>2. ASSUME NEW key \in Key, GetHit(key) PROVE Contract!Lookup(key)
    BY <2>2 DEF GetHit, Contract!Lookup
  <2>3. ASSUME NEW key \in Key, GetMiss(key) PROVE Contract!Lookup(key)
    <3>1. Visible' = Visible
      BY <2>3 DEF GetMiss
    <3>2. Visible[key].val = Undefined
      BY <2>3 DEF GetMiss
    <3>3. clock' = clock /\ last' = Called("get", key, Undefined, Undefined, FALSE)
      BY <2>3 DEF GetMiss
    <3>. HIDE DEF Visible
    <3>. QED
      BY <3>1, <3>2, <3>3 DEF Contract!Lookup
  <2>4. ASSUME NEW key \in Key, Has(key) PROVE Contract!Test(key)
    <3>1. (Visible[key] # Missing) <=> (store[key] # Missing /\ ~ Expired(store[key]))
      OBVIOUS
    <3>. QED
      BY <2>4, <3>1 DEF Has, Contract!Test
  <2>5. ASSUME NEW key \in Key, Delete(key) PROVE Contract!Remove(key)
    <3>1. Visible[key] # Missing => store[key] # Missing
      OBVIOUS
    <3>2. Visible' = [Visible EXCEPT ![key] = Missing]
      BY <2>5 DEF Delete
    <3>. QED
      BY <2>5, <3>1, <3>2 DEF Delete, Contract!Remove
  <2>6. ASSUME Clear PROVE Contract!RemoveAll
    BY <2>6 DEF Clear, Contract!RemoveAll
  <2>7. ASSUME ClockTick PROVE Contract!Elapse
    BY <2>7 DEF ClockTick, Contract!Elapse, Contract!Unexpired
  <2>8. ASSUME UNCHANGED cacheVars PROVE UNCHANGED Contract!vars
    BY <2>8 DEF cacheVars, Contract!vars
  <2>. QED
    BY <2>1, <2>2, <2>3, <2>4, <2>5, <2>6, <2>7, <2>8 DEF CacheNext, Contract!Next
<1>. QED
  BY <1>1, <1>2, CacheTypeCorrect, PTL DEF CacheSpec, ImplementsContract, Contract!Spec

(***************************************************************************)
(* MapWithConcurrency                                                      *)
(***************************************************************************)

\* Everything below nextIndex is claimed, everything else is untouched, and a
\* claimed item that no worker awaits has its result, unless a worker failed.
ClaimInv ==
  /\ outcome = "unsent" => /\ nextIndex = 0
                           /\ \A w \in Workers : worker[w].pc = "new"
  /\ outcome # "unsent" => \A w \in Workers : worker[w].pc # "new"
  /\ \A w \in Workers : worker[w].pc = "awaiting" => worker[w].i \in Index
                                                     /\ worker[w].i < nextIndex
                                                     /\ results[worker[w].i] = Hole
  /\ \A v, w \in Workers :
       worker[v].pc = "awaiting" /\ worker[w].pc = "awaiting" /\ worker[v].i = worker[w].i
       => v = w
  /\ \A w \in Workers : worker[w].pc = "done" => nextIndex >= n
  /\ \A i \in Index : results[i] \in {i, Hole}
  /\ \A i \in Index : i >= nextIndex => results[i] = Hole

\* Only a failed worker leaves a claimed item without a worker or a result.
CoverInv ==
  /\ (\E w \in Workers : worker[w].pc = "failed") \/
     \A i \in Index : i < nextIndex =>
        results[i] = i \/ \E w \in Workers : worker[w].pc = "awaiting" /\ worker[w].i = i
  /\ outcome = "resolved" => AllDone

IInv == TypeOK /\ ClaimInv /\ CoverInv

-----------------------------------------------------------------------------

\* There is always a worker, and never more than the limit allows.
LEMMA WorkersFact ==
  ASSUME n \in Nat, limit \in Nat
  PROVE  /\ WorkerCount \in Nat
         /\ WorkerCount >= 1
         /\ 1 \in Workers
         /\ WorkerCount = 1 \/ WorkerCount <= limit
         /\ WorkerCount = 1 \/ WorkerCount <= n
  BY DEF WorkerCount, Workers

LEMMA InitIInv == ASSUME Init PROVE IInv
<1>1. n \in Nat /\ limit \in Nat
  BY BoundsAssumption DEF Init
<1>2. TypeOK
  BY <1>1 DEF Init, TypeOK, Index, Hole
<1>3. ClaimInv
  BY <1>1, WorkersFact DEF Init, ClaimInv, Index, Hole, Workers
<1>4. CoverInv
  BY <1>1 DEF Init, CoverInv, Index, Hole
<1>. QED
  BY <1>2, <1>3, <1>4 DEF IInv

LEMMA LaunchIInv ==
  ASSUME IInv, Launch PROVE IInv'
<1>. USE WorkersFact DEF IInv, TypeOK, Index, Hole, Workers
<1>0. WorkerCount' = WorkerCount
  BY DEF Launch, WorkerCount
<1>1. TypeOK'
  BY <1>0 DEF Launch, Claiming
<1>2. ClaimInv'
  BY <1>0 DEF ClaimInv, Launch, Claiming
<1>3. CoverInv'
  BY <1>0 DEF ClaimInv, CoverInv, AllDone, Launch, Claiming
<1>. QED
  BY <1>1, <1>2, <1>3

LEMMA ItemResolvesIInv ==
  ASSUME IInv, NEW w \in Workers, ItemResolves(w) PROVE IInv'
<1>. USE WorkersFact DEF IInv, TypeOK, Index, Hole, Workers
<1>0. WorkerCount' = WorkerCount
  BY DEF ItemResolves, WorkerCount
<1>1. TypeOK'
  <2>1. worker[w].i \in Index /\ nextIndex \in Nat
    BY DEF ItemResolves, ClaimInv
  <2>2. Claiming(nextIndex) \in [pc : {"new", "awaiting", "done", "failed"}, i : Index \cup {0}]
    BY <2>1 DEF Claiming
  <2>3. worker' \in [Workers -> [pc : {"new", "awaiting", "done", "failed"}, i : Index \cup {0}]]
    BY <2>2 DEF ItemResolves
  <2>4. results' \in [Index -> Index \cup {Hole}]
    BY <2>1 DEF ItemResolves
  <2>. QED
    BY <1>0, <2>3, <2>4 DEF ItemResolves
<1>2. ClaimInv'
  BY <1>0 DEF ClaimInv, ItemResolves, Claiming
<1>3. CoverInv'
  BY <1>0 DEF ClaimInv, CoverInv, AllDone, ItemResolves, Claiming
<1>. QED
  BY <1>1, <1>2, <1>3

LEMMA ItemRejectsIInv ==
  ASSUME IInv, NEW w \in Workers, ItemRejects(w) PROVE IInv'
<1>. USE WorkersFact DEF IInv, TypeOK, Index, Hole, Workers
<1>0. WorkerCount' = WorkerCount
  BY DEF ItemRejects, WorkerCount
<1>1. TypeOK'
  BY <1>0 DEF ItemRejects
<1>2. ClaimInv'
  BY <1>0 DEF ClaimInv, ItemRejects
<1>3. CoverInv'
  BY <1>0 DEF ClaimInv, CoverInv, AllDone, ItemRejects
<1>. QED
  BY <1>1, <1>2, <1>3

LEMMA ResolveIInv ==
  ASSUME IInv, Resolve PROVE IInv'
<1>. USE WorkersFact DEF IInv, TypeOK, Index, Hole, Workers
<1>0. WorkerCount' = WorkerCount
  BY DEF Resolve, WorkerCount
<1>1. TypeOK'
  BY <1>0 DEF Resolve
<1>2. ClaimInv'
  BY <1>0 DEF ClaimInv, Resolve
<1>3. CoverInv'
  BY <1>0 DEF ClaimInv, CoverInv, AllDone, Resolve
<1>. QED
  BY <1>1, <1>2, <1>3

THEOREM Invariance == Spec => []IInv
<1>1. Init => IInv
  BY InitIInv
<1>2. IInv /\ [Next]_vars => IInv'
  <2>1. CASE UNCHANGED vars
    BY <2>1 DEF vars, IInv, TypeOK, ClaimInv, CoverInv, AllDone, Workers, WorkerCount, Index, Hole
  <2>. QED
    BY <2>1, LaunchIInv, ItemResolvesIInv, ItemRejectsIInv, ResolveIInv DEF Next
<1>. QED
  BY <1>1, <1>2, PTL DEF Spec, Safe

\* The variables keep their types: in particular no result is stored outside
\* the array.
THEOREM TypeCorrect == Spec => []TypeOK
<1>1. IInv => TypeOK
  BY DEF IInv
<1>. QED
  BY <1>1, Invariance, PTL

\* fn is never run twice on one item, for any number of items and any limit.
THEOREM NoItemTwiceHolds == Spec => []NoItemTwice
<1>1. IInv => NoItemTwice
  BY DEF IInv, ClaimInv, NoItemTwice
<1>. QED
  BY <1>1, Invariance, PTL

\* When the promise resolves every result is in place, in input order.
THEOREM ResolvedInOrderHolds == Spec => []ResolvedInOrder
<1>1. IInv => ResolvedInOrder
  <2>. SUFFICES ASSUME IInv, outcome = "resolved", NEW i \in Index
                PROVE  results[i] = i
    BY DEF ResolvedInOrder
  <2>1. AllDone
    BY DEF IInv, CoverInv
  <2>2. nextIndex >= n
    BY <2>1, WorkersFact DEF AllDone, IInv, TypeOK, ClaimInv
  <2>3. i < nextIndex
    BY <2>2 DEF IInv, TypeOK, Index
  <2>. QED
    BY <2>1, <2>3 DEF IInv, CoverInv, AllDone
<1>. QED
  BY <1>1, Invariance, PTL

\* The calls of fn in flight never exceed the limit, for any number of items
\* and any limit: there are no more of them than workers.
THEOREM WithinLimitHolds == Spec => []WithinLimit
<1>1. IInv => WithinLimit
  <2>. SUFFICES ASSUME IInv PROVE WithinLimit
    OBVIOUS
  <2>. DEFINE Waiting == {v \in Workers : worker[v].pc = "awaiting"}
              at == [w \in Waiting |-> worker[w].i]
  <2>0. n \in Nat /\ limit \in Nat
    BY DEF IInv, TypeOK
  <2>1. IsFiniteSet(Workers) /\ Cardinality(Workers) = WorkerCount
    BY <2>0, WorkersFact, FS_Interval DEF Workers
  <2>2. IsFiniteSet(Waiting) /\ Cardinality(Waiting) <= WorkerCount
    BY <2>1, FS_Subset
  <2>3. at \in Surjection(Waiting, InFlight)
    BY DEF InFlight, Surjection
  <2>4. IsFiniteSet(InFlight) /\ Cardinality(InFlight) <= Cardinality(Waiting)
    <3>. HIDE DEF at, Waiting
    <3>. QED
      BY <2>2, <2>3, FS_Surjection
  <2>5. Cardinality(InFlight) \in Nat /\ Cardinality(Waiting) \in Nat
    BY <2>2, <2>4, FS_CardinalityType
  <2>. QED
    BY <2>0, <2>2, <2>4, <2>5, WorkersFact DEF WithinLimit, WorkerCount
<1>. QED
  BY <1>1, Invariance, PTL

(***************************************************************************)
(* TronPositions                                                           *)
(***************************************************************************)

\* The first loop: prefix sums of the votes.
CountInv ==
  /\ prefix[0] = 0
  /\ pc = "count" => totalVoted = prefix[k] /\ active = <<>> /\ scaledSoFar = 0
  /\ pc # "count" => totalVoted = prefix[voteCount]
  /\ \A j \in 1 .. voteCount : pc # "count" \/ j <= k => prefix[j] = prefix[j - 1] + raw(j)
  /\ \A j \in 0 .. voteCount : pc # "count" \/ j <= k => prefix[j] <= totalVoted

\* The second loop: what has been shared out so far is the share of the votes
\* so far, less at most one SUN per vote.
ScaleInv ==
  /\ pc = "scale" => Len(active) = k
  /\ pc \in {"split", "done"} => k = voteCount /\ scaledSoFar = effectiveVoted
  /\ pc = "scale" /\ ~ needsScaling => scaledSoFar = prefix[k]
  /\ pc = "scale" /\ needsScaling /\ (k < voteCount \/ voteCount = 0) =>
       /\ scaledSoFar * totalVoted <= totalFrozen * prefix[k]
       /\ totalFrozen * prefix[k] <= (scaledSoFar + k) * totalVoted
  /\ pc = "scale" /\ needsScaling /\ k = voteCount /\ voteCount > 0 => scaledSoFar = effectiveVoted

\* The third loop: what is left fits in the resources still to visit.
SplitInv ==
  /\ pc \in {"count", "scale"} => chunk = [r \in Resource |-> 0]
  /\ pc \in {"split", "done"} =>
       /\ chunk["BANDWIDTH"] + chunk["ENERGY"] + left = totalFrozen - effectiveVoted
       /\ \A r \in todo : chunk[r] = 0
       /\ left <= (IF "BANDWIDTH" \in todo THEN frozen["BANDWIDTH"] ELSE 0)
                  + (IF "ENERGY" \in todo THEN frozen["ENERGY"] ELSE 0)
  /\ pc = "done" => left = 0

PositionsInv ==
  /\ PositionsTypeOK
  /\ CountInv
  /\ ScaleInv
  /\ SplitInv
  /\ FairShare

-----------------------------------------------------------------------------
(* Arithmetic *)

\* Integer division rounds down by less than the divisor.
LEMMA Floor ==
  ASSUME NEW a \in Nat, NEW v \in Nat, v > 0
  PROVE  /\ a \div v \in Nat
         /\ (a \div v) * v <= a
         /\ a < (a \div v + 1) * v
<1>1. a \div v \in Int /\ v * (a \div v) <= a /\ a < v * (a \div v) + v
  BY SMTT(30)
<1>. DEFINE q == a \div v
<1>. HIDE DEF q
<1>2. q \in Int /\ v * q <= a /\ a < v * q + v
  BY <1>1 DEF q
<1>3. q >= 0
  <2>. SUFFICES ASSUME q <= -1 PROVE FALSE
    BY <1>2
  <2>1. v * (q + 1) <= 0
    BY <1>2
  <2>. QED
    BY <1>2, <2>1
<1>4. q * v <= a /\ a < (q + 1) * v
  BY <1>2
<1>. QED
  BY <1>2, <1>3, <1>4 DEF q

LEMMA Cancel ==
  ASSUME NEW a \in Int, NEW b \in Int, NEW v \in Nat, v > 0, a * v <= b * v
  PROVE  a <= b
<1>. SUFFICES ASSUME a >= b + 1 PROVE FALSE
  OBVIOUS
<1>1. (a - b) * v >= v
  BY (a - b - 1) * v >= 0
<1>. QED
  BY <1>1

LEMMA PositiveProduct ==
  ASSUME NEW a \in Nat, NEW b \in Nat, a > 0, b > 0 PROVE a * b > 0
<1>1. (a - 1) * b >= 0
  OBVIOUS
<1>. QED
  BY <1>1

LEMMA ProductInNat == ASSUME NEW a \in Nat, NEW b \in Nat PROVE a * b \in Nat
  OBVIOUS

\* One more vote, rounded down, keeps the running total within one SUN a vote.
LEMMA Accumulate ==
  ASSUME NEW s \in Nat, NEW a \in Nat, NEW v \in Nat, NEW f \in Nat, NEW r \in Nat,
         NEW p \in Nat, NEW m \in Nat,
         s * v <= f * p, f * p <= (s + m) * v, a * v <= r * f, r * f < (a + 1) * v
  PROVE  (s + a) * v <= f * (p + r) /\ f * (p + r) <= (s + a + (m + 1)) * v
  OBVIOUS

\* The last vote gets at least its share, and at most one SUN a vote more.
LEMMA LastShare ==
  ASSUME NEW s \in Nat, NEW v \in Nat, NEW f \in Nat, NEW r \in Nat, NEW p \in Nat,
         NEW m \in Nat, v > 0, v = p + r, s * v <= f * p, f * p <= (s + m) * v
  PROVE  /\ s <= f
         /\ (f - s) * v < r * f + (m + 1) * v
         /\ r * f < (f - s + 1) * v
<1>1. f * v = f * p + r * f
  OBVIOUS
<1>2. r * f \in Nat
  OBVIOUS
<1>3. s <= f
  BY <1>1, <1>2, Cancel
<1>4. (f - s) * v = f * v - s * v /\ (m + 1) * v = m * v + v /\ (s + m) * v = s * v + m * v
      /\ (f - s + 1) * v = f * v - s * v + v
  OBVIOUS
<1>. QED
  BY <1>1, <1>3, <1>4

LEMMA TotalsInNat ==
  ASSUME PositionsTypeOK
  PROVE  /\ voteCount \in Nat
         /\ totalFrozen \in Nat
         /\ effectiveVoted \in Nat
         /\ effectiveVoted <= totalFrozen
         /\ effectiveVoted <= totalVoted
         /\ \A j \in 1 .. voteCount : votes[j] \in Nat /\ raw(j) \in Nat
<1>1. voteCount \in Nat /\ \A j \in 1 .. voteCount : votes[j] \in Nat
  BY DEF PositionsTypeOK, voteCount
<1>2. \A j \in 1 .. voteCount : raw(j) \in Nat
  BY <1>1, PositionsAssumption, ProductInNat DEF raw
<1>3. totalFrozen \in Nat
  BY DEF PositionsTypeOK, totalFrozen, Resource
<1>. QED
  BY <1>1, <1>2, <1>3 DEF PositionsTypeOK, effectiveVoted

LEMMA InitPositionsInv == ASSUME PositionsInit PROVE PositionsInv
<1>1. PICK m \in 0 .. MaxVotes : votes \in [1 .. m -> 0 .. MaxCount]
  BY DEF PositionsInit
<1>2. votes \in Seq(Nat) /\ voteCount = m /\ voteCount \in Nat
  BY <1>1, PositionsAssumption DEF voteCount
<1>3. PositionsTypeOK
  BY <1>2, PositionsAssumption DEF PositionsInit, PositionsTypeOK
<1>4. CountInv
  BY <1>2 DEF PositionsInit, CountInv
<1>5. ScaleInv /\ SplitInv /\ FairShare
  BY DEF PositionsInit, ScaleInv, SplitInv, FairShare
<1>. QED
  BY <1>3, <1>4, <1>5 DEF PositionsInv

LEMMA CountVotePositionsInv == ASSUME PositionsInv, CountVote PROVE PositionsInv'
<1>. USE DEF PositionsInv
<1>0. /\ k \in Nat /\ k + 1 \in 1 .. voteCount /\ voteCount \in Nat /\ raw(k + 1) \in Nat
      /\ votes' = votes /\ frozen' = frozen /\ voteCount' = voteCount /\ pc = "count" /\ pc' = "count"
      /\ k' = k + 1 /\ totalVoted' = totalVoted + raw(k + 1)
      /\ prefix' = [prefix EXCEPT ![k + 1] = totalVoted']
      /\ UNCHANGED <<scaledSoFar, active, left, todo, chunk>>
  BY TotalsInNat DEF CountVote, PositionsTypeOK, account, scaling, splitting, voteCount
<1>1. PositionsTypeOK'
  BY <1>0 DEF PositionsTypeOK
<1>2. CountInv'
  <2>1. totalVoted = prefix[k] /\ prefix \in [0 .. voteCount -> Nat] /\ totalVoted \in Nat
    BY <1>0 DEF CountInv, PositionsTypeOK
  <2>2. prefix'[0] = 0 /\ totalVoted' = prefix'[k + 1] /\ active' = <<>> /\ scaledSoFar' = 0
    BY <1>0, <2>1 DEF CountInv
  <2>3. ASSUME NEW j \in 1 .. voteCount, j <= k + 1
        PROVE  prefix'[j] = prefix'[j - 1] + raw(j)
    <3>1. CASE j = k + 1
      BY <1>0, <2>1, <3>1
    <3>2. CASE j # k + 1
      <4>1. j \in 1 .. voteCount /\ j <= k
        BY <1>0, <2>3, <3>2
      <4>2. prefix[j] = prefix[j - 1] + raw(j)
        BY <1>0, <4>1 DEF CountInv
      <4>3. prefix'[j] = prefix[j] /\ prefix'[j - 1] = prefix[j - 1]
        BY <1>0, <2>1, <4>1
      <4>. QED
        BY <4>2, <4>3
    <3>. QED
      BY <3>1, <3>2
  <2>4. ASSUME NEW j \in 0 .. voteCount, j <= k + 1
        PROVE  prefix'[j] <= totalVoted'
    BY <1>0, <2>1, <2>4 DEF CountInv
  <2>5. \A j \in 1 .. voteCount : raw(j)' = raw(j)
    BY <1>0 DEF raw
  <2>. QED
    BY <1>0, <2>2, <2>3, <2>4, <2>5 DEF CountInv
<1>3. ScaleInv' /\ SplitInv'
  BY <1>0 DEF ScaleInv, SplitInv
<1>4. FairShare'
  BY <1>0 DEF FairShare
<1>. QED
  BY <1>1, <1>2, <1>3, <1>4

LEMMA CountEndsPositionsInv == ASSUME PositionsInv, CountEnds PROVE PositionsInv'
<1>. USE DEF PositionsInv
<1>0. /\ k = voteCount /\ voteCount \in Nat /\ voteCount' = voteCount /\ votes' = votes /\ frozen' = frozen
      /\ pc = "count" /\ pc' = "scale" /\ k' = 0
      /\ UNCHANGED <<totalVoted, prefix, scaledSoFar, active, left, todo, chunk>>
  BY TotalsInNat DEF CountEnds, account, counting, scaling, splitting, voteCount
<1>1. PositionsTypeOK'
  BY <1>0 DEF PositionsTypeOK
<1>2. CountInv'
  BY <1>0 DEF PositionsTypeOK, CountInv, raw
<1>3. active = <<>> /\ scaledSoFar = 0 /\ prefix[0] = 0 /\ totalVoted = prefix[voteCount]
  BY <1>0 DEF CountInv
<1>4. totalFrozen \in Nat /\ totalFrozen' = totalFrozen /\ totalVoted \in Nat
  BY <1>0, TotalsInNat DEF totalFrozen, PositionsTypeOK
<1>5. ScaleInv'
  BY <1>0, <1>3, <1>4 DEF ScaleInv, needsScaling
<1>6. SplitInv' /\ FairShare'
  BY <1>0, <1>3 DEF SplitInv, FairShare
<1>. QED
  BY <1>1, <1>2, <1>5, <1>6

LEMMA ScaleVotePositionsInv == ASSUME PositionsInv, ScaleVote PROVE PositionsInv'
<1>. USE DEF PositionsInv
<1>. DEFINE j == k + 1
           a == Amount(k + 1)
           r == raw(k + 1)
<1>a. k \in Nat /\ j \in 1 .. voteCount /\ voteCount \in Nat
  BY TotalsInNat DEF ScaleVote, PositionsTypeOK
<1>b. r \in Nat
  BY <1>a, TotalsInNat
<1>c. /\ votes' = votes /\ frozen' = frozen /\ pc = "scale" /\ pc' = "scale"
      /\ k' = j /\ active' = Append(active, a) /\ scaledSoFar' = scaledSoFar + a
      /\ UNCHANGED <<totalVoted, prefix, left, todo, chunk>>
  BY DEF ScaleVote, account, counting, splitting
<1>d. /\ voteCount' = voteCount /\ totalFrozen' = totalFrozen /\ effectiveVoted' = effectiveVoted
      /\ needsScaling' = needsScaling
  BY <1>c DEF voteCount, totalFrozen, effectiveVoted, needsScaling
<1>0. /\ k \in Nat /\ j \in 1 .. voteCount /\ voteCount \in Nat /\ r \in Nat
      /\ votes' = votes /\ frozen' = frozen /\ voteCount' = voteCount /\ pc = "scale" /\ pc' = "scale"
      /\ k' = j /\ active' = Append(active, a) /\ scaledSoFar' = scaledSoFar + a
      /\ UNCHANGED <<totalVoted, prefix, left, todo, chunk>>
      /\ totalFrozen' = totalFrozen /\ effectiveVoted' = effectiveVoted
      /\ needsScaling' = needsScaling
  BY <1>a, <1>b, <1>c, <1>d
<1>1. /\ totalFrozen \in Nat /\ totalVoted \in Nat /\ scaledSoFar \in Nat
      /\ prefix[k] \in Nat /\ active \in Seq(Nat) /\ Len(active) = k
      /\ prefix[j] = prefix[k] + r /\ prefix[j] <= totalVoted
      /\ totalVoted = prefix[voteCount]
  BY <1>0, TotalsInNat DEF PositionsTypeOK, CountInv, ScaleInv
<1>2. /\ a \in Nat
      /\ ~ needsScaling => scaledSoFar + a = prefix[j]
      /\ needsScaling /\ j < voteCount =>
           /\ (scaledSoFar + a) * totalVoted <= totalFrozen * prefix[j]
           /\ totalFrozen * prefix[j] <= (scaledSoFar + a + j) * totalVoted
      /\ needsScaling /\ j = voteCount => scaledSoFar + a = effectiveVoted
      /\ needsScaling => /\ a * totalVoted < r * totalFrozen + voteCount * totalVoted
                         /\ r * totalFrozen < (a + 1) * totalVoted
  <2>1. CASE ~ needsScaling
    BY <1>0, <1>1, <2>1 DEF Amount, ScaleInv
  <2>2. ASSUME needsScaling
        PROVE  /\ totalVoted > 0 /\ effectiveVoted = totalFrozen
               /\ scaledSoFar * totalVoted <= totalFrozen * prefix[k]
               /\ totalFrozen * prefix[k] <= (scaledSoFar + k) * totalVoted
    <3>1. totalVoted > totalFrozen /\ effectiveVoted = totalFrozen
      BY <1>1, <2>2 DEF needsScaling, effectiveVoted
    <3>2. totalVoted > 0
      BY <1>1, <3>1
    <3>3. k < voteCount
      BY <1>0
    <3>4. /\ scaledSoFar * totalVoted <= totalFrozen * prefix[k]
          /\ totalFrozen * prefix[k] <= (scaledSoFar + k) * totalVoted
      BY <1>c, <2>2, <3>3, Zenon DEF ScaleInv
    <3>. QED
      BY <3>1, <3>2, <3>4, Zenon
  <2>3. CASE needsScaling /\ j < voteCount
    <3>1. a = (r * totalFrozen) \div totalVoted
      BY <1>0, <2>3 DEF Amount
    <3>. HIDE DEF a, r, j
    <3>2. a \in Nat /\ a * totalVoted <= r * totalFrozen /\ r * totalFrozen < (a + 1) * totalVoted
      BY <1>0, <1>1, <2>2, <2>3, <3>1, Floor, ProductInNat
    <3>3. /\ (scaledSoFar + a) * totalVoted <= totalFrozen * (prefix[k] + r)
          /\ totalFrozen * (prefix[k] + r) <= (scaledSoFar + a + (k + 1)) * totalVoted
      BY <1>0, <1>1, <2>2, <2>3, <3>2, Accumulate
    <3>4. voteCount * totalVoted > 0
      <4>1. voteCount \in Nat /\ voteCount > 0
        BY <1>a
      <4>2. totalVoted \in Nat /\ totalVoted > 0
        BY <1>1, <2>2, <2>3
      <4>. QED
        BY <4>1, <4>2, PositiveProduct
    <3>5. r * totalFrozen \in Nat /\ a * totalVoted \in Nat /\ voteCount * totalVoted \in Nat
      BY <1>0, <1>1, <3>2, ProductInNat
    <3>6. a * totalVoted < r * totalFrozen + voteCount * totalVoted
      BY <3>2, <3>4, <3>5
    <3>. QED
      BY <1>0, <1>1, <2>3, <3>2, <3>3, <3>6 DEF j
  <2>4. CASE needsScaling /\ j = voteCount
    <3>1. a = totalFrozen - scaledSoFar
      BY <1>0, <2>2, <2>4 DEF Amount
    <3>. HIDE DEF a, r, j
    <3>2. totalVoted = prefix[k] + r
      BY <1>1, <2>4
    <3>3. /\ scaledSoFar <= totalFrozen
          /\ (totalFrozen - scaledSoFar) * totalVoted < r * totalFrozen + (k + 1) * totalVoted
          /\ r * totalFrozen < (totalFrozen - scaledSoFar + 1) * totalVoted
      BY <1>0, <1>1, <2>2, <2>4, <3>2, LastShare
    <3>. QED
      BY <1>0, <1>1, <2>2, <2>4, <3>1, <3>3 DEF j
  <2>. QED
    BY <1>0, <2>1, <2>3, <2>4
<1>. HIDE DEF a, r
<1>3. PositionsTypeOK'
  BY <1>0, <1>1, <1>2 DEF PositionsTypeOK
<1>4. CountInv'
  BY <1>0 DEF CountInv, raw
<1>5. ScaleInv'
  BY <1>0, <1>1, <1>2, SMTT(30) DEF ScaleInv
<1>6. SplitInv'
  BY <1>0 DEF SplitInv
<1>7. FairShare'
  <2>1. Len(active') = j /\ active'[j] = a
        /\ \A i \in 1 .. k : active'[i] = active[i]
    BY <1>0, <1>1, <1>2
  <2>2. \A i \in 1 .. j : raw(i)' = raw(i)
    BY <1>0 DEF raw
  <2>3. ASSUME needsScaling, NEW i \in 1 .. j
        PROVE  /\ active'[i] * totalVoted < raw(i) * totalFrozen + voteCount * totalVoted
               /\ raw(i) * totalFrozen < (active'[i] + 1) * totalVoted
    <3>1. CASE i = j
      BY <1>2, <2>1, <2>3, <3>1 DEF r
    <3>2. CASE i # j
      <4>1. i \in 1 .. Len(active) /\ i \in 1 .. k
        BY <1>0, <1>1, <3>2
      <4>. QED
        BY <1>0, <2>1, <2>3, <4>1 DEF FairShare
    <3>. QED
      BY <3>1, <3>2
  <2>. HIDE DEF j
  <2>. QED
    BY <1>0, <2>1, <2>2, <2>3 DEF FairShare
<1>. QED
  BY <1>3, <1>4, <1>5, <1>6, <1>7

LEMMA ScaleEndsPositionsInv == ASSUME PositionsInv, ScaleEnds PROVE PositionsInv'
<1>. USE DEF PositionsInv
<1>0. /\ pc = "scale" /\ pc' = "split" /\ k = voteCount /\ voteCount' = voteCount /\ voteCount \in Nat
      /\ votes' = votes /\ frozen' = frozen
      /\ left' = totalFrozen - effectiveVoted
      /\ todo' = {r \in Resource : frozen[r] > 0}
      /\ UNCHANGED <<k, totalVoted, prefix, scaledSoFar, active, chunk>>
      /\ totalFrozen' = totalFrozen /\ effectiveVoted' = effectiveVoted
      /\ needsScaling' = needsScaling
  BY TotalsInNat DEF ScaleEnds, account, counting, scaling, voteCount, totalFrozen, effectiveVoted, needsScaling
<1>1. PositionsTypeOK'
  <2>1. left' \in Nat
    BY <1>0, TotalsInNat
  <2>2. todo' \subseteq Resource
    BY <1>0
  <2>. QED
    BY <1>0, <2>1, <2>2 DEF PositionsTypeOK
<1>2. CountInv'
  BY <1>0 DEF CountInv, raw
<1>3. scaledSoFar = effectiveVoted
  <2>1. voteCount = 0 => totalVoted = 0
    BY <1>0 DEF CountInv
  <2>2. totalFrozen \in Nat /\ totalVoted \in Nat /\ totalVoted = prefix[voteCount]
    BY <1>0, TotalsInNat DEF PositionsTypeOK, CountInv
  <2>. QED
    BY <1>0, <2>1, <2>2 DEF ScaleInv, needsScaling, effectiveVoted
<1>4. ScaleInv'
  BY <1>0, <1>3 DEF ScaleInv
<1>5. SplitInv'
  <2>1. chunk = [r \in Resource |-> 0]
    BY <1>0 DEF SplitInv
  <2>2. frozen["BANDWIDTH"] \in Nat /\ frozen["ENERGY"] \in Nat
    BY DEF PositionsTypeOK, Resource
  <2>. QED
    BY <1>0, <2>1, <2>2, TotalsInNat DEF SplitInv, Resource, totalFrozen
<1>6. FairShare'
  BY <1>0 DEF FairShare, raw
<1>. QED
  BY <1>1, <1>2, <1>4, <1>5, <1>6

LEMMA SplitResourcePositionsInv ==
  ASSUME PositionsInv, NEW r \in Resource, SplitResource(r) PROVE PositionsInv'
<1>. USE DEF PositionsInv
<1>0. /\ pc = "split" /\ pc' = "split" /\ votes' = votes /\ frozen' = frozen /\ voteCount' = voteCount
      /\ left > 0 /\ r \in todo
      /\ chunk' = [chunk EXCEPT ![r] = ChunkOf(r)] /\ left' = left - ChunkOf(r)
      /\ todo' = todo \ {r}
      /\ UNCHANGED <<k, totalVoted, prefix, scaledSoFar, active>>
      /\ totalFrozen' = totalFrozen /\ effectiveVoted' = effectiveVoted
      /\ needsScaling' = needsScaling
  BY DEF SplitResource, account, counting, scaling, voteCount, totalFrozen, effectiveVoted, needsScaling
<1>1. /\ frozen \in [Resource -> Nat] /\ chunk \in [Resource -> Nat] /\ left \in Nat
      /\ ChunkOf(r) \in Nat /\ ChunkOf(r) <= left /\ ChunkOf(r) <= frozen[r]
      /\ ChunkOf(r) = left \/ ChunkOf(r) = frozen[r]
  BY DEF PositionsTypeOK, ChunkOf
<1>2. PositionsTypeOK'
  BY <1>0, <1>1 DEF PositionsTypeOK
<1>3. CountInv' /\ ScaleInv'
  BY <1>0 DEF CountInv, ScaleInv, raw
<1>4. SplitInv'
  <2>1. chunk[r] = 0 /\ todo \subseteq Resource
        /\ chunk["BANDWIDTH"] + chunk["ENERGY"] + left = totalFrozen - effectiveVoted
        /\ left <= (IF "BANDWIDTH" \in todo THEN frozen["BANDWIDTH"] ELSE 0)
                   + (IF "ENERGY" \in todo THEN frozen["ENERGY"] ELSE 0)
        /\ \A q \in todo : chunk[q] = 0
    BY <1>0 DEF SplitInv, PositionsTypeOK
  <2>2. totalFrozen \in Int /\ effectiveVoted \in Int
    BY TotalsInNat
  <2>3. CASE r = "BANDWIDTH"
    <3>1. /\ chunk'["BANDWIDTH"] = ChunkOf(r) /\ chunk'["ENERGY"] = chunk["ENERGY"]
          /\ chunk["BANDWIDTH"] = 0 /\ chunk["ENERGY"] \in Nat
          /\ frozen["BANDWIDTH"] \in Nat /\ frozen["ENERGY"] \in Nat
      BY <1>0, <1>1, <2>1, <2>3 DEF Resource
    <3>2. /\ "BANDWIDTH" \in todo /\ "BANDWIDTH" \notin todo'
          /\ "ENERGY" \in todo <=> "ENERGY" \in todo'
          /\ \A q \in todo' : chunk'[q] = 0
      BY <1>0, <1>1, <2>1, <2>3 DEF Resource
    <3>3. chunk'["BANDWIDTH"] + chunk'["ENERGY"] + left' = totalFrozen - effectiveVoted
      BY <1>0, <1>1, <2>1, <2>2, <3>1
    <3>4. left' <= (IF "BANDWIDTH" \in todo' THEN frozen["BANDWIDTH"] ELSE 0)
                   + (IF "ENERGY" \in todo' THEN frozen["ENERGY"] ELSE 0)
      BY <1>0, <1>1, <2>1, <3>1, <3>2, <2>3
    <3>. QED
      BY <1>0, <3>2, <3>3, <3>4 DEF SplitInv
  <2>4. CASE r = "ENERGY"
    <3>1. /\ chunk'["ENERGY"] = ChunkOf(r) /\ chunk'["BANDWIDTH"] = chunk["BANDWIDTH"]
          /\ chunk["ENERGY"] = 0 /\ chunk["BANDWIDTH"] \in Nat
          /\ frozen["BANDWIDTH"] \in Nat /\ frozen["ENERGY"] \in Nat
      BY <1>0, <1>1, <2>1, <2>4 DEF Resource
    <3>2. /\ "ENERGY" \in todo /\ "ENERGY" \notin todo'
          /\ "BANDWIDTH" \in todo <=> "BANDWIDTH" \in todo'
          /\ \A q \in todo' : chunk'[q] = 0
      BY <1>0, <1>1, <2>1, <2>4 DEF Resource
    <3>3. chunk'["BANDWIDTH"] + chunk'["ENERGY"] + left' = totalFrozen - effectiveVoted
      BY <1>0, <1>1, <2>1, <2>2, <3>1
    <3>4. left' <= (IF "BANDWIDTH" \in todo' THEN frozen["BANDWIDTH"] ELSE 0)
                   + (IF "ENERGY" \in todo' THEN frozen["ENERGY"] ELSE 0)
      BY <1>0, <1>1, <2>1, <3>1, <3>2, <2>4
    <3>. QED
      BY <1>0, <3>2, <3>3, <3>4 DEF SplitInv
  <2>. QED
    BY <2>3, <2>4 DEF Resource
<1>5. FairShare'
  BY <1>0, <1>1 DEF FairShare, raw
<1>. QED
  BY <1>2, <1>3, <1>4, <1>5

LEMMA SplitEndsPositionsInv == ASSUME PositionsInv, SplitEnds PROVE PositionsInv'
<1>. USE DEF PositionsInv
<1>0. /\ pc = "split" /\ pc' = "done" /\ votes' = votes /\ frozen' = frozen /\ voteCount' = voteCount
      /\ left = 0 \/ todo = {}
      /\ UNCHANGED <<k, totalVoted, prefix, scaledSoFar, active, left, todo, chunk>>
      /\ totalFrozen' = totalFrozen /\ effectiveVoted' = effectiveVoted
      /\ needsScaling' = needsScaling
  BY DEF SplitEnds, account, counting, scaling, splitting, voteCount, totalFrozen, effectiveVoted,
         needsScaling
<1>1. left = 0
  BY <1>0 DEF SplitInv, PositionsTypeOK
<1>2. PositionsTypeOK'
  BY <1>0 DEF PositionsTypeOK
<1>3. CountInv' /\ ScaleInv' /\ SplitInv' /\ FairShare'
  BY <1>0, <1>1 DEF CountInv, ScaleInv, SplitInv, FairShare, raw
<1>. QED
  BY <1>2, <1>3

-----------------------------------------------------------------------------
(* The theorems *)

THEOREM PositionsInvariance == PositionsSpec => []PositionsInv
<1>1. PositionsInit => PositionsInv
  BY InitPositionsInv
<1>2. PositionsInv /\ [PositionsNext]_positionVars => PositionsInv'
  <2>1. CASE UNCHANGED positionVars
    BY <2>1 DEF positionVars, PositionsInv, PositionsTypeOK, CountInv, ScaleInv, SplitInv, FairShare,
                voteCount, raw, totalFrozen, effectiveVoted, needsScaling
  <2>. QED
    BY <2>1, CountVotePositionsInv, CountEndsPositionsInv, ScaleVotePositionsInv, ScaleEndsPositionsInv, SplitResourcePositionsInv,
       SplitEndsPositionsInv DEF PositionsNext
<1>. QED
  BY <1>1, <1>2, PTL DEF PositionsSpec

\* The variables keep their types: no scaled vote is ever negative.
THEOREM PositionsTypeCorrect == PositionsSpec => []PositionsTypeOK
<1>1. PositionsInv => PositionsTypeOK
  BY DEF PositionsInv
<1>. QED
  BY <1>1, PositionsInvariance, PTL

\* The positions of every account add up to what it has frozen.
THEOREM ExactSumHolds == PositionsSpec => []ExactSum
<1>1. PositionsInv => ExactSum
  <2>. SUFFICES ASSUME PositionsInv, pc = "done" PROVE ExactSum
    BY DEF ExactSum
  <2>1. /\ scaledSoFar = effectiveVoted /\ left = 0
        /\ chunk["BANDWIDTH"] + chunk["ENERGY"] + left = totalFrozen - effectiveVoted
    BY DEF PositionsInv, ScaleInv, SplitInv
  <2>2. chunk["BANDWIDTH"] \in Nat /\ chunk["ENERGY"] \in Nat
    BY DEF PositionsInv, PositionsTypeOK, Resource
  <2>. QED
    BY <2>1, <2>2, TotalsInNat DEF ExactSum, PositionsInv
<1>. QED
  BY <1>1, PositionsInvariance, PTL

\* Every scaled vote stays within one SUN per vote of its exact share.
THEOREM FairShareHolds == PositionsSpec => []FairShare
<1>1. PositionsInv => FairShare
  BY DEF PositionsInv
<1>. QED
  BY <1>1, PositionsInvariance, PTL

(***************************************************************************)
(* TronWitnessLoader                                                       *)
(***************************************************************************)

Active(l) == load[l].st \in {"running", "loaded", "failed"}

\* The two promise variables name whatever is under way.
FlightInv ==
  /\ \A l \in LoadId : Active(l) <=> inflight = l
  /\ \A f \in FetchId : fetch[f].st # "free" <=> paramsInflight = f

\* A load that waits for its parameters waits for a fetch that is under way.
WaitInv ==
  \A l \in LoadId : load[l].st = "running" /\ load[l].p = "wait" =>
    /\ load[l].on \in FetchId
    /\ fetch[load[l].on].st # "free"
    /\ fetch[load[l].on].sent <= load[l].sent

\* What is under way is recent, and answers are of the time since the call.
LatencyInv ==
  /\ \A l \in LoadId : Active(l) =>
       /\ load[l].sent <= now
       /\ now <= load[l].sent + Latency
       /\ load[l].w = "ok" => load[l].sent <= load[l].raw /\ load[l].raw <= now
       /\ load[l].p = "ok" => /\ load[l].params <= now
                              /\ load[l].sent <= load[l].params + PARAMS_TTL + Latency
  /\ \A f \in FetchId : fetch[f].st # "free" =>
       /\ fetch[f].sent <= now
       /\ now <= fetch[f].sent + Latency
       /\ fetch[f].st = "set" => fetch[f].sent <= fetch[f].val /\ fetch[f].val <= now

\* How long a cache entry can outlive its data.
CacheAgeInv ==
  /\ witnessCache.raw <= now
  /\ witnessCache.params <= now
  /\ paramsCache.val <= now
  /\ paramsCache.until <= paramsCache.val + PARAMS_TTL + Latency
  /\ witnessCache.until <= witnessCache.raw + CACHE_TTL + Latency
  /\ witnessCache.until <= witnessCache.params + CACHE_TTL + PARAMS_TTL + 2 * Latency

\* What the phases of a load say of the cache.
PhaseInv ==
  \A l \in LoadId :
    /\ load[l].st \in {"running", "failed"} => ~ Live(witnessCache)
    /\ load[l].st = "loaded" =>
         /\ load[l].w = "ok" /\ load[l].p = "ok"
         /\ Live(witnessCache)
         /\ witnessCache.raw = load[l].raw
         /\ witnessCache.params = load[l].params

\* While parameters are being fetched nobody holds any; once they are cached
\* they are the newest there are.
ParamsInv ==
  /\ \A f \in FetchId : fetch[f].st = "sent" =>
       /\ ~ Live(paramsCache)
       /\ witnessCache.params <= fetch[f].sent
       /\ \A l \in LoadId : Active(l) /\ load[l].st # "failed" => load[l].p # "ok"
  /\ \A f \in FetchId : fetch[f].st = "set" =>
       /\ Live(paramsCache)
       /\ paramsCache.val = fetch[f].val
  /\ Live(paramsCache) =>
       /\ witnessCache.params <= paramsCache.val
       /\ \A l \in LoadId : load[l].st = "running" /\ load[l].p = "ok"
            => load[l].params <= paramsCache.val

\* Nobody has received anything newer than what can still be handed out.
ServedInv ==
  \A t \in Task :
    /\ task[t].raw <= now /\ task[t].params <= now
    /\ Live(witnessCache) =>
         task[t].raw <= witnessCache.raw /\ task[t].params <= witnessCache.params
    /\ Live(paramsCache) => task[t].params <= paramsCache.val
    /\ \A f \in FetchId : fetch[f].st = "sent" => task[t].params <= fetch[f].sent
    /\ \A l \in LoadId : load[l].st = "running" =>
         /\ task[t].raw <= load[l].sent
         /\ load[l].p = "ok" => task[t].params <= load[l].params

LoaderInv ==
  /\ LoaderTypeOK
  /\ FlightInv
  /\ WaitInv
  /\ LatencyInv
  /\ CacheAgeInv
  /\ PhaseInv
  /\ ParamsInv
  /\ ServedInv

-----------------------------------------------------------------------------
(* The initial states *)

LEMMA InitLoaderInv == LoaderInit => LoaderInv
  BY LoaderAssumption
  DEF LoaderInit, LoaderInv, LoaderTypeOK, FlightInv, WaitInv, LatencyInv, CacheAgeInv, PhaseInv, ParamsInv,
      ServedInv, Active, Live, NoWitnesses, NoParams, IdleLoad, IdleFetch,
      LoadRec, FetchRec, TaskRec

-----------------------------------------------------------------------------
(* One lemma per action *)

LEMMA HitCallLoaderInv ==
  ASSUME LoaderInv, NEW t \in Task, HitCall(t) PROVE LoaderInv'
<1>1. LoaderTypeOK'
  BY LoaderAssumption
  DEF LoaderInv, LoaderTypeOK, FlightInv, WaitInv, LatencyInv, CacheAgeInv, PhaseInv, ParamsInv, ServedInv, Active, Live, LoadRec, FetchRec, TaskRec,
      HitCall, Calling, Handed
<1>2. FlightInv'
  BY LoaderAssumption
  DEF LoaderInv, LoaderTypeOK, FlightInv, WaitInv, LatencyInv, CacheAgeInv, PhaseInv, ParamsInv, ServedInv, Active, Live, LoadRec, FetchRec, TaskRec,
      HitCall, Calling, Handed
<1>3. WaitInv'
  BY LoaderAssumption
  DEF LoaderInv, LoaderTypeOK, FlightInv, WaitInv, LatencyInv, CacheAgeInv, PhaseInv, ParamsInv, ServedInv, Active, Live, LoadRec, FetchRec, TaskRec,
      HitCall, Calling, Handed
<1>4. LatencyInv'
  BY LoaderAssumption
  DEF LoaderInv, LoaderTypeOK, FlightInv, WaitInv, LatencyInv, CacheAgeInv, PhaseInv, ParamsInv, ServedInv, Active, Live, LoadRec, FetchRec, TaskRec,
      HitCall, Calling, Handed
<1>5. CacheAgeInv'
  BY LoaderAssumption
  DEF LoaderInv, LoaderTypeOK, FlightInv, WaitInv, LatencyInv, CacheAgeInv, PhaseInv, ParamsInv, ServedInv, Active, Live, LoadRec, FetchRec, TaskRec,
      HitCall, Calling, Handed
<1>6. PhaseInv'
  BY LoaderAssumption
  DEF LoaderInv, LoaderTypeOK, FlightInv, WaitInv, LatencyInv, CacheAgeInv, PhaseInv, ParamsInv, ServedInv, Active, Live, LoadRec, FetchRec, TaskRec,
      HitCall, Calling, Handed
<1>7. ParamsInv'
  BY LoaderAssumption
  DEF LoaderInv, LoaderTypeOK, FlightInv, WaitInv, LatencyInv, CacheAgeInv, PhaseInv, ParamsInv, ServedInv, Active, Live, LoadRec, FetchRec, TaskRec,
      HitCall, Calling, Handed
<1>8. ServedInv'
  BY LoaderAssumption
  DEF LoaderInv, LoaderTypeOK, FlightInv, WaitInv, LatencyInv, CacheAgeInv, PhaseInv, ParamsInv, ServedInv, Active, Live, LoadRec, FetchRec, TaskRec,
      HitCall, Calling, Handed
<1>. QED
  BY <1>1, <1>2, <1>3, <1>4, <1>5, <1>6, <1>7, <1>8 DEF LoaderInv

LEMMA JoinCallLoaderInv ==
  ASSUME LoaderInv, NEW t \in Task, JoinCall(t) PROVE LoaderInv'
<1>1. LoaderTypeOK'
  BY LoaderAssumption
  DEF LoaderInv, LoaderTypeOK, FlightInv, WaitInv, LatencyInv, CacheAgeInv, PhaseInv, ParamsInv, ServedInv, Active, Live, LoadRec, FetchRec, TaskRec,
      JoinCall, Calling, Awaiting, NoWitnesses
<1>2. FlightInv'
  BY LoaderAssumption
  DEF LoaderInv, LoaderTypeOK, FlightInv, WaitInv, LatencyInv, CacheAgeInv, PhaseInv, ParamsInv, ServedInv, Active, Live, LoadRec, FetchRec, TaskRec,
      JoinCall, Calling, Awaiting, NoWitnesses
<1>3. WaitInv'
  BY LoaderAssumption
  DEF LoaderInv, LoaderTypeOK, FlightInv, WaitInv, LatencyInv, CacheAgeInv, PhaseInv, ParamsInv, ServedInv, Active, Live, LoadRec, FetchRec, TaskRec,
      JoinCall, Calling, Awaiting, NoWitnesses
<1>4. LatencyInv'
  BY LoaderAssumption
  DEF LoaderInv, LoaderTypeOK, FlightInv, WaitInv, LatencyInv, CacheAgeInv, PhaseInv, ParamsInv, ServedInv, Active, Live, LoadRec, FetchRec, TaskRec,
      JoinCall, Calling, Awaiting, NoWitnesses
<1>5. CacheAgeInv'
  BY LoaderAssumption
  DEF LoaderInv, LoaderTypeOK, FlightInv, WaitInv, LatencyInv, CacheAgeInv, PhaseInv, ParamsInv, ServedInv, Active, Live, LoadRec, FetchRec, TaskRec,
      JoinCall, Calling, Awaiting, NoWitnesses
<1>6. PhaseInv'
  BY LoaderAssumption
  DEF LoaderInv, LoaderTypeOK, FlightInv, WaitInv, LatencyInv, CacheAgeInv, PhaseInv, ParamsInv, ServedInv, Active, Live, LoadRec, FetchRec, TaskRec,
      JoinCall, Calling, Awaiting, NoWitnesses
<1>7. ParamsInv'
  BY LoaderAssumption
  DEF LoaderInv, LoaderTypeOK, FlightInv, WaitInv, LatencyInv, CacheAgeInv, PhaseInv, ParamsInv, ServedInv, Active, Live, LoadRec, FetchRec, TaskRec,
      JoinCall, Calling, Awaiting, NoWitnesses
<1>8. ServedInv'
  BY LoaderAssumption
  DEF LoaderInv, LoaderTypeOK, FlightInv, WaitInv, LatencyInv, CacheAgeInv, PhaseInv, ParamsInv, ServedInv, Active, Live, LoadRec, FetchRec, TaskRec,
      JoinCall, Calling, Awaiting, NoWitnesses
<1>. QED
  BY <1>1, <1>2, <1>3, <1>4, <1>5, <1>6, <1>7, <1>8 DEF LoaderInv

LEMMA WitnessReplyLoaderInv ==
  ASSUME LoaderInv, NEW l \in LoadId, WitnessReply(l) PROVE LoaderInv'
<1>a. /\ load' \in [LoadId -> LoadRec]
      /\ \A m \in LoadId : /\ load'[m].st = load[m].st /\ load'[m].sent = load[m].sent
                            /\ load'[m].p = load[m].p /\ load'[m].params = load[m].params
                            /\ load'[m].on = load[m].on
  BY SMTT(30) DEF LoaderInv, LoaderTypeOK, LoadRec, WitnessReply
<1>b. UNCHANGED <<now, witnessCache, paramsCache, inflight, paramsInflight, fetch, task>>
  BY DEF WitnessReply
<1>1. LoaderTypeOK'
  BY <1>a, <1>b DEF LoaderInv, LoaderTypeOK
<1>2. FlightInv'
  BY LoaderAssumption
  DEF LoaderInv, LoaderTypeOK, FlightInv, WaitInv, LatencyInv, CacheAgeInv, PhaseInv, ParamsInv, ServedInv, Active, Live, LoadRec, FetchRec, TaskRec,
      WitnessReply, IdleLoad
<1>3. WaitInv'
  BY <1>a, <1>b DEF LoaderInv, WaitInv
<1>4. LatencyInv'
  BY LoaderAssumption
  DEF LoaderInv, LoaderTypeOK, FlightInv, WaitInv, LatencyInv, CacheAgeInv, PhaseInv, ParamsInv, ServedInv, Active, Live, LoadRec, FetchRec, TaskRec,
      WitnessReply, IdleLoad
<1>5. CacheAgeInv'
  BY LoaderAssumption
  DEF LoaderInv, LoaderTypeOK, FlightInv, WaitInv, LatencyInv, CacheAgeInv, PhaseInv, ParamsInv, ServedInv, Active, Live, LoadRec, FetchRec, TaskRec,
      WitnessReply, IdleLoad
<1>6. PhaseInv'
  BY LoaderAssumption
  DEF LoaderInv, LoaderTypeOK, FlightInv, WaitInv, LatencyInv, CacheAgeInv, PhaseInv, ParamsInv, ServedInv, Active, Live, LoadRec, FetchRec, TaskRec,
      WitnessReply, IdleLoad
<1>7. ParamsInv'
  BY <1>a, <1>b DEF LoaderInv, ParamsInv, Active, Live
<1>8. ServedInv'
  BY LoaderAssumption
  DEF LoaderInv, LoaderTypeOK, FlightInv, WaitInv, LatencyInv, CacheAgeInv, PhaseInv, ParamsInv, ServedInv, Active, Live, LoadRec, FetchRec, TaskRec,
      WitnessReply, IdleLoad
<1>. QED
  BY <1>1, <1>2, <1>3, <1>4, <1>5, <1>6, <1>7, <1>8 DEF LoaderInv

LEMMA OrphanReplyLoaderInv ==
  ASSUME LoaderInv, NEW l \in LoadId, OrphanReply(l) PROVE LoaderInv'
<1>1. LoaderTypeOK'
  BY LoaderAssumption
  DEF LoaderInv, LoaderTypeOK, FlightInv, WaitInv, LatencyInv, CacheAgeInv, PhaseInv, ParamsInv, ServedInv, Active, Live, LoadRec, FetchRec, TaskRec,
      OrphanReply, IdleLoad
<1>2. FlightInv'
  BY LoaderAssumption
  DEF LoaderInv, LoaderTypeOK, FlightInv, WaitInv, LatencyInv, CacheAgeInv, PhaseInv, ParamsInv, ServedInv, Active, Live, LoadRec, FetchRec, TaskRec,
      OrphanReply, IdleLoad
<1>3. WaitInv'
  BY LoaderAssumption
  DEF LoaderInv, LoaderTypeOK, FlightInv, WaitInv, LatencyInv, CacheAgeInv, PhaseInv, ParamsInv, ServedInv, Active, Live, LoadRec, FetchRec, TaskRec,
      OrphanReply, IdleLoad
<1>4. LatencyInv'
  BY LoaderAssumption
  DEF LoaderInv, LoaderTypeOK, FlightInv, WaitInv, LatencyInv, CacheAgeInv, PhaseInv, ParamsInv, ServedInv, Active, Live, LoadRec, FetchRec, TaskRec,
      OrphanReply, IdleLoad
<1>5. CacheAgeInv'
  BY LoaderAssumption
  DEF LoaderInv, LoaderTypeOK, FlightInv, WaitInv, LatencyInv, CacheAgeInv, PhaseInv, ParamsInv, ServedInv, Active, Live, LoadRec, FetchRec, TaskRec,
      OrphanReply, IdleLoad
<1>6. PhaseInv'
  BY LoaderAssumption
  DEF LoaderInv, LoaderTypeOK, FlightInv, WaitInv, LatencyInv, CacheAgeInv, PhaseInv, ParamsInv, ServedInv, Active, Live, LoadRec, FetchRec, TaskRec,
      OrphanReply, IdleLoad
<1>7. ParamsInv'
  BY LoaderAssumption
  DEF LoaderInv, LoaderTypeOK, FlightInv, WaitInv, LatencyInv, CacheAgeInv, PhaseInv, ParamsInv, ServedInv, Active, Live, LoadRec, FetchRec, TaskRec,
      OrphanReply, IdleLoad
<1>8. ServedInv'
  BY LoaderAssumption
  DEF LoaderInv, LoaderTypeOK, FlightInv, WaitInv, LatencyInv, CacheAgeInv, PhaseInv, ParamsInv, ServedInv, Active, Live, LoadRec, FetchRec, TaskRec,
      OrphanReply, IdleLoad
<1>. QED
  BY <1>1, <1>2, <1>3, <1>4, <1>5, <1>6, <1>7, <1>8 DEF LoaderInv

LEMMA LoadResolvesLoaderInv ==
  ASSUME LoaderInv, NEW l \in LoadId, LoadResolves(l) PROVE LoaderInv'
<1>1. LoaderTypeOK'
  <2>1. load' \in [LoadId -> LoadRec]
    BY SMTT(30) DEF LoaderInv, LoaderTypeOK, LoadRec, LoadResolves
  <2>. QED
    BY <2>1, LoaderAssumption DEF LoaderInv, LoaderTypeOK, LoadRec, LoadResolves
<1>2. FlightInv'
  BY LoaderAssumption
  DEF LoaderInv, LoaderTypeOK, FlightInv, WaitInv, LatencyInv, CacheAgeInv, PhaseInv, ParamsInv, ServedInv, Active, Live, LoadRec, FetchRec, TaskRec,
      LoadResolves, IdleLoad
<1>3. WaitInv'
  BY LoaderAssumption
  DEF LoaderInv, LoaderTypeOK, FlightInv, WaitInv, LatencyInv, CacheAgeInv, PhaseInv, ParamsInv, ServedInv, Active, Live, LoadRec, FetchRec, TaskRec,
      LoadResolves, IdleLoad
<1>4. LatencyInv'
  BY LoaderAssumption
  DEF LoaderInv, LoaderTypeOK, FlightInv, WaitInv, LatencyInv, CacheAgeInv, PhaseInv, ParamsInv, ServedInv, Active, Live, LoadRec, FetchRec, TaskRec,
      LoadResolves, IdleLoad
<1>5. CacheAgeInv'
  BY LoaderAssumption
  DEF LoaderInv, LoaderTypeOK, FlightInv, WaitInv, LatencyInv, CacheAgeInv, PhaseInv, ParamsInv, ServedInv, Active, Live, LoadRec, FetchRec, TaskRec,
      LoadResolves, IdleLoad
<1>6. PhaseInv'
  BY LoaderAssumption
  DEF LoaderInv, LoaderTypeOK, FlightInv, WaitInv, LatencyInv, CacheAgeInv, PhaseInv, ParamsInv, ServedInv, Active, Live, LoadRec, FetchRec, TaskRec,
      LoadResolves, IdleLoad
<1>7. ParamsInv'
  BY LoaderAssumption
  DEF LoaderInv, LoaderTypeOK, FlightInv, WaitInv, LatencyInv, CacheAgeInv, PhaseInv, ParamsInv, ServedInv, Active, Live, LoadRec, FetchRec, TaskRec,
      LoadResolves, IdleLoad
<1>8. ServedInv'
  BY LoaderAssumption
  DEF LoaderInv, LoaderTypeOK, FlightInv, WaitInv, LatencyInv, CacheAgeInv, PhaseInv, ParamsInv, ServedInv, Active, Live, LoadRec, FetchRec, TaskRec,
      LoadResolves, IdleLoad
<1>. QED
  BY <1>1, <1>2, <1>3, <1>4, <1>5, <1>6, <1>7, <1>8 DEF LoaderInv

LEMMA LoadRejectsLoaderInv ==
  ASSUME LoaderInv, NEW l \in LoadId, LoadRejects(l) PROVE LoaderInv'
<1>1. LoaderTypeOK'
  <2>1. load' \in [LoadId -> LoadRec]
    BY SMTT(30) DEF LoaderInv, LoaderTypeOK, LoadRec, LoadRejects
  <2>. QED
    BY <2>1, LoaderAssumption DEF LoaderInv, LoaderTypeOK, LoadRec, LoadRejects
<1>2. FlightInv'
  BY LoaderAssumption
  DEF LoaderInv, LoaderTypeOK, FlightInv, WaitInv, LatencyInv, CacheAgeInv, PhaseInv, ParamsInv, ServedInv, Active, Live, LoadRec, FetchRec, TaskRec,
      LoadRejects, IdleLoad
<1>3. WaitInv'
  BY LoaderAssumption
  DEF LoaderInv, LoaderTypeOK, FlightInv, WaitInv, LatencyInv, CacheAgeInv, PhaseInv, ParamsInv, ServedInv, Active, Live, LoadRec, FetchRec, TaskRec,
      LoadRejects, IdleLoad
<1>4. LatencyInv'
  BY LoaderAssumption
  DEF LoaderInv, LoaderTypeOK, FlightInv, WaitInv, LatencyInv, CacheAgeInv, PhaseInv, ParamsInv, ServedInv, Active, Live, LoadRec, FetchRec, TaskRec,
      LoadRejects, IdleLoad
<1>5. CacheAgeInv'
  BY LoaderAssumption
  DEF LoaderInv, LoaderTypeOK, FlightInv, WaitInv, LatencyInv, CacheAgeInv, PhaseInv, ParamsInv, ServedInv, Active, Live, LoadRec, FetchRec, TaskRec,
      LoadRejects, IdleLoad
<1>6. PhaseInv'
  BY LoaderAssumption
  DEF LoaderInv, LoaderTypeOK, FlightInv, WaitInv, LatencyInv, CacheAgeInv, PhaseInv, ParamsInv, ServedInv, Active, Live, LoadRec, FetchRec, TaskRec,
      LoadRejects, IdleLoad
<1>7. ParamsInv'
  BY LoaderAssumption
  DEF LoaderInv, LoaderTypeOK, FlightInv, WaitInv, LatencyInv, CacheAgeInv, PhaseInv, ParamsInv, ServedInv, Active, Live, LoadRec, FetchRec, TaskRec,
      LoadRejects, IdleLoad
<1>8. ServedInv'
  BY LoaderAssumption
  DEF LoaderInv, LoaderTypeOK, FlightInv, WaitInv, LatencyInv, CacheAgeInv, PhaseInv, ParamsInv, ServedInv, Active, Live, LoadRec, FetchRec, TaskRec,
      LoadRejects, IdleLoad
<1>. QED
  BY <1>1, <1>2, <1>3, <1>4, <1>5, <1>6, <1>7, <1>8 DEF LoaderInv

LEMMA LoadFinallyLoaderInv ==
  ASSUME LoaderInv, NEW l \in LoadId, LoadFinally(l) PROVE LoaderInv'
<1>1. LoaderTypeOK'
  <2>1. Orphan(load[l]) \in LoadRec
    BY DEF LoaderInv, LoaderTypeOK, LoadRec, Orphan
  <2>2. load' \in [LoadId -> LoadRec]
    BY <2>1 DEF LoaderInv, LoaderTypeOK, LoadRec, LoadFinally, IdleLoad
  <2>3. task' \in [Task -> TaskRec]
    BY DEF LoaderInv, LoaderTypeOK, LoadRec, TaskRec, LoadFinally, Handed, Thrown
  <2>. QED
    BY <2>2, <2>3 DEF LoaderInv, LoaderTypeOK, LoadFinally
<1>2. FlightInv'
  BY LoaderAssumption
  DEF LoaderInv, LoaderTypeOK, FlightInv, WaitInv, LatencyInv, CacheAgeInv, PhaseInv, ParamsInv, ServedInv, Active, Live, LoadRec, FetchRec, TaskRec,
      LoadFinally, IdleLoad, Handed, Thrown, Orphan
<1>3. WaitInv'
  BY LoaderAssumption
  DEF LoaderInv, LoaderTypeOK, FlightInv, WaitInv, LatencyInv, CacheAgeInv, PhaseInv, ParamsInv, ServedInv, Active, Live, LoadRec, FetchRec, TaskRec,
      LoadFinally, IdleLoad, Handed, Thrown, Orphan
<1>4. LatencyInv'
  BY LoaderAssumption
  DEF LoaderInv, LoaderTypeOK, FlightInv, WaitInv, LatencyInv, CacheAgeInv, PhaseInv, ParamsInv, ServedInv, Active, Live, LoadRec, FetchRec, TaskRec,
      LoadFinally, IdleLoad, Handed, Thrown, Orphan
<1>5. CacheAgeInv'
  BY LoaderAssumption
  DEF LoaderInv, LoaderTypeOK, FlightInv, WaitInv, LatencyInv, CacheAgeInv, PhaseInv, ParamsInv, ServedInv, Active, Live, LoadRec, FetchRec, TaskRec,
      LoadFinally, IdleLoad, Handed, Thrown, Orphan
<1>6. PhaseInv'
  BY LoaderAssumption
  DEF LoaderInv, LoaderTypeOK, FlightInv, WaitInv, LatencyInv, CacheAgeInv, PhaseInv, ParamsInv, ServedInv, Active, Live, LoadRec, FetchRec, TaskRec,
      LoadFinally, IdleLoad, Handed, Thrown, Orphan
<1>7. ParamsInv'
  BY LoaderAssumption
  DEF LoaderInv, LoaderTypeOK, FlightInv, WaitInv, LatencyInv, CacheAgeInv, PhaseInv, ParamsInv, ServedInv, Active, Live, LoadRec, FetchRec, TaskRec,
      LoadFinally, IdleLoad, Handed, Thrown, Orphan
<1>8. ServedInv'
  BY LoaderAssumption
  DEF LoaderInv, LoaderTypeOK, FlightInv, WaitInv, LatencyInv, CacheAgeInv, PhaseInv, ParamsInv, ServedInv, Active, Live, LoadRec, FetchRec, TaskRec,
      LoadFinally, IdleLoad, Handed, Thrown, Orphan
<1>. QED
  BY <1>1, <1>2, <1>3, <1>4, <1>5, <1>6, <1>7, <1>8 DEF LoaderInv

LEMMA ParamsReplyLoaderInv ==
  ASSUME LoaderInv, NEW f \in FetchId, ParamsReply(f) PROVE LoaderInv'
<1>1. LoaderTypeOK'
  BY LoaderAssumption
  DEF LoaderInv, LoaderTypeOK, FlightInv, WaitInv, LatencyInv, CacheAgeInv, PhaseInv, ParamsInv, ServedInv, Active, Live, LoadRec, FetchRec, TaskRec,
      ParamsReply, IdleFetch
<1>2. FlightInv'
  BY LoaderAssumption
  DEF LoaderInv, LoaderTypeOK, FlightInv, WaitInv, LatencyInv, CacheAgeInv, PhaseInv, ParamsInv, ServedInv, Active, Live, LoadRec, FetchRec, TaskRec,
      ParamsReply, IdleFetch
<1>3. WaitInv'
  <2>1. \A g \in FetchId : fetch'[g].sent = fetch[g].sent
                           /\ (fetch[g].st # "free" => fetch'[g].st # "free")
    BY DEF LoaderInv, LoaderTypeOK, FetchRec, ParamsReply
  <2>2. load' = load
    BY DEF ParamsReply
  <2>. QED
    BY <2>1, <2>2 DEF LoaderInv, WaitInv
<1>4. LatencyInv'
  <2>1. /\ fetch' \in [FetchId -> FetchRec]
        /\ \A g \in FetchId \ {f} : fetch'[g] = fetch[g]
        /\ fetch'[f].st # "free" /\ fetch'[f].sent = fetch[f].sent
        /\ fetch'[f].st = "set" => fetch[f].sent <= fetch'[f].val /\ fetch'[f].val <= now
    BY DEF LoaderInv, LoaderTypeOK, FetchRec, ParamsReply
  <2>2. UNCHANGED <<now, load>> /\ fetch[f].st = "sent"
    BY DEF ParamsReply
  <2>. QED
    BY <2>1, <2>2 DEF LoaderInv, LatencyInv, Active
<1>5. CacheAgeInv'
  BY LoaderAssumption
  DEF LoaderInv, LoaderTypeOK, FlightInv, WaitInv, LatencyInv, CacheAgeInv, PhaseInv, ParamsInv, ServedInv, Active, Live, LoadRec, FetchRec, TaskRec,
      ParamsReply, IdleFetch
<1>6. PhaseInv'
  BY LoaderAssumption
  DEF LoaderInv, LoaderTypeOK, FlightInv, WaitInv, LatencyInv, CacheAgeInv, PhaseInv, ParamsInv, ServedInv, Active, Live, LoadRec, FetchRec, TaskRec,
      ParamsReply, IdleFetch
<1>7. ParamsInv'
  BY LoaderAssumption
  DEF LoaderInv, LoaderTypeOK, FlightInv, WaitInv, LatencyInv, CacheAgeInv, PhaseInv, ParamsInv, ServedInv, Active, Live, LoadRec, FetchRec, TaskRec,
      ParamsReply, IdleFetch
<1>8. ServedInv'
  BY LoaderAssumption
  DEF LoaderInv, LoaderTypeOK, FlightInv, WaitInv, LatencyInv, CacheAgeInv, PhaseInv, ParamsInv, ServedInv, Active, Live, LoadRec, FetchRec, TaskRec,
      ParamsReply, IdleFetch
<1>. QED
  BY <1>1, <1>2, <1>3, <1>4, <1>5, <1>6, <1>7, <1>8 DEF LoaderInv

LEMMA ParamsFinallyLoaderInv ==
  ASSUME LoaderInv, NEW f \in FetchId, ParamsFinally(f) PROVE LoaderInv'
<1>. DEFINE Waits(m) == load[m].st = "running" /\ load[m].p = "wait" /\ load[m].on = f
<1>a. /\ load' \in [LoadId -> LoadRec]
      /\ \A m \in LoadId :
           /\ load'[m].st = load[m].st /\ load'[m].sent = load[m].sent
           /\ load'[m].w = load[m].w /\ load'[m].raw = load[m].raw
           /\ ~ Waits(m) => load'[m] = load[m]
           /\ Waits(m) => /\ load'[m].p = "ok" => fetch[f].st = "set"
                          /\ load'[m].p # "wait"
                          /\ load'[m].params = fetch[f].val
  <2>1. \A m \in LoadId : Waits(m) => load'[m] = Supplied(load[m], fetch[f])
    BY DEF ParamsFinally
  <2>2. \A m \in LoadId : ~ Waits(m) => load'[m] = load[m]
    BY DEF ParamsFinally
  <2>3. \A m \in LoadId :
          LET s == Supplied(load[m], fetch[f]) IN
          /\ s \in LoadRec
          /\ s.st = load[m].st /\ s.sent = load[m].sent /\ s.w = load[m].w
          /\ s.raw = load[m].raw /\ s.params = fetch[f].val /\ s.p # "wait"
          /\ s.p = "ok" => fetch[f].st = "set"
    <3>1. ASSUME NEW ld \in LoadRec, NEW ft \in FetchRec
          PROVE  LET s == Supplied(ld, ft) IN
                 /\ s \in LoadRec
                 /\ s.st = ld.st /\ s.sent = ld.sent /\ s.w = ld.w
                 /\ s.raw = ld.raw /\ s.params = ft.val /\ s.p # "wait"
                 /\ s.p = "ok" => ft.st = "set"
      BY DEF LoadRec, FetchRec, Supplied
    <3>2. fetch[f] \in FetchRec /\ \A m \in LoadId : load[m] \in LoadRec
      BY DEF LoaderInv, LoaderTypeOK
    <3>. QED
      BY <3>1, <3>2
  <2>4. \A m \in LoadId : load'[m] \in LoadRec
    BY <2>1, <2>2, <2>3 DEF LoaderInv, LoaderTypeOK
  <2>5. load' \in [LoadId -> LoadRec]
    BY <2>4 DEF ParamsFinally
  <2>. QED
    BY <2>1, <2>2, <2>3, <2>5
<1>b. /\ UNCHANGED <<now, witnessCache, paramsCache, inflight, task>>
      /\ paramsInflight' = None
      /\ fetch' = [fetch EXCEPT ![f] = IdleFetch]
      /\ fetch[f].st \in {"set", "failed"}
  BY DEF ParamsFinally
<1>c. \A g \in FetchId : g # f => fetch[g].st = "free"
  BY <1>b, LoaderAssumption DEF LoaderInv, FlightInv
<1>d. \A g \in FetchId : fetch'[g].st = "free"
  BY <1>b, <1>c DEF LoaderInv, LoaderTypeOK, IdleFetch
<1>. HIDE DEF Waits
<1>1. LoaderTypeOK'
  BY <1>a, <1>b DEF LoaderInv, LoaderTypeOK, FetchRec, IdleFetch
<1>2. FlightInv'
  BY <1>a, <1>b, <1>d, LoaderAssumption DEF LoaderInv, FlightInv, Active
<1>3. WaitInv'
  BY <1>a, <1>c DEF LoaderInv, WaitInv, Waits
<1>4. LatencyInv'
  <2>1. ASSUME NEW m \in LoadId, Waits(m), load'[m].p = "ok"
        PROVE  load'[m].params <= now /\ load[m].sent <= load'[m].params + PARAMS_TTL + Latency
    BY <1>a, <1>b, <2>1, LoaderAssumption
    DEF LoaderInv, LoaderTypeOK, LoadRec, FetchRec, LatencyInv, WaitInv, Active, Waits
  <2>. QED
    BY <1>a, <1>b, <1>d, <2>1 DEF LoaderInv, LatencyInv, Active
<1>5. CacheAgeInv'
  BY <1>b DEF LoaderInv, CacheAgeInv
<1>6. PhaseInv'
  BY <1>a, <1>b DEF LoaderInv, PhaseInv, Live, Waits
<1>7. ParamsInv'
  BY <1>a, <1>b, <1>d DEF LoaderInv, LoaderTypeOK, LoadRec, FetchRec, ParamsInv, Active, Live, Waits
<1>8. ServedInv'
  <2>1. ASSUME NEW t \in Task, NEW m \in LoadId, Waits(m), load'[m].p = "ok"
        PROVE  task[t].params <= load'[m].params
    BY <1>a, <1>b, <2>1 DEF LoaderInv, ParamsInv, ServedInv, Live, Waits
  <2>. QED
    BY <1>a, <1>b, <1>d, <2>1 DEF LoaderInv, ServedInv, Live
<1>. QED
  BY <1>1, <1>2, <1>3, <1>4, <1>5, <1>6, <1>7, <1>8 DEF LoaderInv

\* A new load only starts when no load is active.
LEMMA StartCallLoaderInv ==
  ASSUME LoaderInv, NEW t \in Task, StartCall(t) PROVE LoaderInv'
<1>1. PICK l \in LoadId :
        /\ load[l].st = "free"
        /\ CachedParams(l) \/ JoinParams(l) \/ FetchParams(l)
        /\ inflight' = l
        /\ task' = [task EXCEPT ![t] = Awaiting(@, l)]
  BY DEF StartCall, FreeLoads
<1>2. /\ inflight = None
      /\ ~ Live(witnessCache)
      /\ witnessCache' = NoWitnesses
      /\ now' = now
  BY DEF StartCall, MustStartLoad
<1>3. \A m \in LoadId : ~ Active(m)
  BY <1>2, LoaderAssumption DEF LoaderInv, FlightInv
<1>4. CASE CachedParams(l)
  <2>0. /\ Live(paramsCache)
        /\ load' = [load EXCEPT ![l] = [StartedLoad(None) EXCEPT !.p = "ok", !.params = paramsCache.val]]
        /\ UNCHANGED <<paramsCache, paramsInflight, fetch>>
    BY <1>4 DEF CachedParams
  <2>1. LoaderTypeOK'
    BY <1>1, <1>2, <1>3, <2>0, LoaderAssumption
    DEF LoaderInv, LoaderTypeOK, FlightInv, WaitInv, LatencyInv, CacheAgeInv, PhaseInv, ParamsInv, ServedInv, Active, Live, LoadRec, FetchRec, TaskRec,
        Awaiting, NoWitnesses, NoParams, StartedLoad
  <2>2. FlightInv'
    BY <1>1, <1>2, <1>3, <2>0, LoaderAssumption
    DEF LoaderInv, LoaderTypeOK, FlightInv, WaitInv, LatencyInv, CacheAgeInv, PhaseInv, ParamsInv, ServedInv, Active, Live, LoadRec, FetchRec, TaskRec,
        Awaiting, NoWitnesses, NoParams, StartedLoad
  <2>3. WaitInv'
    BY <1>1, <1>2, <1>3, <2>0, LoaderAssumption
    DEF LoaderInv, LoaderTypeOK, FlightInv, WaitInv, LatencyInv, CacheAgeInv, PhaseInv, ParamsInv, ServedInv, Active, Live, LoadRec, FetchRec, TaskRec,
        Awaiting, NoWitnesses, NoParams, StartedLoad
  <2>4. LatencyInv'
    BY <1>1, <1>2, <1>3, <2>0, LoaderAssumption
    DEF LoaderInv, LoaderTypeOK, FlightInv, WaitInv, LatencyInv, CacheAgeInv, PhaseInv, ParamsInv, ServedInv, Active, Live, LoadRec, FetchRec, TaskRec,
        Awaiting, NoWitnesses, NoParams, StartedLoad
  <2>5. CacheAgeInv'
    BY <1>1, <1>2, <1>3, <2>0, LoaderAssumption
    DEF LoaderInv, LoaderTypeOK, FlightInv, WaitInv, LatencyInv, CacheAgeInv, PhaseInv, ParamsInv, ServedInv, Active, Live, LoadRec, FetchRec, TaskRec,
        Awaiting, NoWitnesses, NoParams, StartedLoad
  <2>6. PhaseInv'
    BY <1>1, <1>2, <1>3, <2>0, LoaderAssumption
    DEF LoaderInv, LoaderTypeOK, FlightInv, WaitInv, LatencyInv, CacheAgeInv, PhaseInv, ParamsInv, ServedInv, Active, Live, LoadRec, FetchRec, TaskRec,
        Awaiting, NoWitnesses, NoParams, StartedLoad
  <2>7. ParamsInv'
    BY <1>1, <1>2, <1>3, <2>0, LoaderAssumption
    DEF LoaderInv, LoaderTypeOK, FlightInv, WaitInv, LatencyInv, CacheAgeInv, PhaseInv, ParamsInv, ServedInv, Active, Live, LoadRec, FetchRec, TaskRec,
        Awaiting, NoWitnesses, NoParams, StartedLoad
  <2>8. ServedInv'
    BY <1>1, <1>2, <1>3, <2>0, LoaderAssumption
    DEF LoaderInv, LoaderTypeOK, FlightInv, WaitInv, LatencyInv, CacheAgeInv, PhaseInv, ParamsInv, ServedInv, Active, Live, LoadRec, FetchRec, TaskRec,
        Awaiting, NoWitnesses, NoParams, StartedLoad
  <2>. QED
    BY <2>1, <2>2, <2>3, <2>4, <2>5, <2>6, <2>7, <2>8 DEF LoaderInv
<1>5. CASE JoinParams(l)
  <2>0. /\ ~ Live(paramsCache)
        /\ paramsInflight # None
        /\ paramsCache' = NoParams
        /\ load' = [load EXCEPT ![l] = StartedLoad(paramsInflight)]
        /\ UNCHANGED <<paramsInflight, fetch>>
    BY <1>5 DEF JoinParams
  <2>1. LoaderTypeOK'
    BY <1>1, <1>2, <1>3, <2>0, LoaderAssumption
    DEF LoaderInv, LoaderTypeOK, FlightInv, WaitInv, LatencyInv, CacheAgeInv, PhaseInv, ParamsInv, ServedInv, Active, Live, LoadRec, FetchRec, TaskRec,
        Awaiting, NoWitnesses, NoParams, StartedLoad
  <2>2. FlightInv'
    BY <1>1, <1>2, <1>3, <2>0, LoaderAssumption
    DEF LoaderInv, LoaderTypeOK, FlightInv, WaitInv, LatencyInv, CacheAgeInv, PhaseInv, ParamsInv, ServedInv, Active, Live, LoadRec, FetchRec, TaskRec,
        Awaiting, NoWitnesses, NoParams, StartedLoad
  <2>3. WaitInv'
    BY <1>1, <1>2, <1>3, <2>0, LoaderAssumption
    DEF LoaderInv, LoaderTypeOK, FlightInv, WaitInv, LatencyInv, CacheAgeInv, PhaseInv, ParamsInv, ServedInv, Active, Live, LoadRec, FetchRec, TaskRec,
        Awaiting, NoWitnesses, NoParams, StartedLoad
  <2>4. LatencyInv'
    BY <1>1, <1>2, <1>3, <2>0, LoaderAssumption
    DEF LoaderInv, LoaderTypeOK, FlightInv, WaitInv, LatencyInv, CacheAgeInv, PhaseInv, ParamsInv, ServedInv, Active, Live, LoadRec, FetchRec, TaskRec,
        Awaiting, NoWitnesses, NoParams, StartedLoad
  <2>5. CacheAgeInv'
    BY <1>1, <1>2, <1>3, <2>0, LoaderAssumption
    DEF LoaderInv, LoaderTypeOK, FlightInv, WaitInv, LatencyInv, CacheAgeInv, PhaseInv, ParamsInv, ServedInv, Active, Live, LoadRec, FetchRec, TaskRec,
        Awaiting, NoWitnesses, NoParams, StartedLoad
  <2>6. PhaseInv'
    BY <1>1, <1>2, <1>3, <2>0, LoaderAssumption
    DEF LoaderInv, LoaderTypeOK, FlightInv, WaitInv, LatencyInv, CacheAgeInv, PhaseInv, ParamsInv, ServedInv, Active, Live, LoadRec, FetchRec, TaskRec,
        Awaiting, NoWitnesses, NoParams, StartedLoad
  <2>7. ParamsInv'
    BY <1>1, <1>2, <1>3, <2>0, LoaderAssumption
    DEF LoaderInv, LoaderTypeOK, FlightInv, WaitInv, LatencyInv, CacheAgeInv, PhaseInv, ParamsInv, ServedInv, Active, Live, LoadRec, FetchRec, TaskRec,
        Awaiting, NoWitnesses, NoParams, StartedLoad
  <2>8. ServedInv'
    BY <1>1, <1>2, <1>3, <2>0, LoaderAssumption
    DEF LoaderInv, LoaderTypeOK, FlightInv, WaitInv, LatencyInv, CacheAgeInv, PhaseInv, ParamsInv, ServedInv, Active, Live, LoadRec, FetchRec, TaskRec,
        Awaiting, NoWitnesses, NoParams, StartedLoad
  <2>. QED
    BY <2>1, <2>2, <2>3, <2>4, <2>5, <2>6, <2>7, <2>8 DEF LoaderInv
<1>6. CASE FetchParams(l)
  <2>0. PICK f \in FetchId :
          /\ fetch[f].st = "free"
          /\ ~ Live(paramsCache)
          /\ paramsInflight = None
          /\ paramsCache' = NoParams
          /\ fetch' = [fetch EXCEPT ![f] = [st |-> "sent", sent |-> now, val |-> 0]]
          /\ paramsInflight' = f
          /\ load' = [load EXCEPT ![l] = StartedLoad(f)]
    BY <1>6 DEF FetchParams, MustStartFetch, FreeFetches
  <2>1. LoaderTypeOK'
    BY <1>1, <1>2, <1>3, <2>0, LoaderAssumption
    DEF LoaderInv, LoaderTypeOK, FlightInv, WaitInv, LatencyInv, CacheAgeInv, PhaseInv, ParamsInv, ServedInv, Active, Live, LoadRec, FetchRec, TaskRec,
        Awaiting, NoWitnesses, NoParams, StartedLoad
  <2>2. FlightInv'
    BY <1>1, <1>2, <1>3, <2>0, LoaderAssumption
    DEF LoaderInv, LoaderTypeOK, FlightInv, WaitInv, LatencyInv, CacheAgeInv, PhaseInv, ParamsInv, ServedInv, Active, Live, LoadRec, FetchRec, TaskRec,
        Awaiting, NoWitnesses, NoParams, StartedLoad
  <2>3. WaitInv'
    BY <1>1, <1>2, <1>3, <2>0, LoaderAssumption
    DEF LoaderInv, LoaderTypeOK, FlightInv, WaitInv, LatencyInv, CacheAgeInv, PhaseInv, ParamsInv, ServedInv, Active, Live, LoadRec, FetchRec, TaskRec,
        Awaiting, NoWitnesses, NoParams, StartedLoad
  <2>4. LatencyInv'
    BY <1>1, <1>2, <1>3, <2>0, LoaderAssumption
    DEF LoaderInv, LoaderTypeOK, FlightInv, WaitInv, LatencyInv, CacheAgeInv, PhaseInv, ParamsInv, ServedInv, Active, Live, LoadRec, FetchRec, TaskRec,
        Awaiting, NoWitnesses, NoParams, StartedLoad
  <2>5. CacheAgeInv'
    BY <1>1, <1>2, <1>3, <2>0, LoaderAssumption
    DEF LoaderInv, LoaderTypeOK, FlightInv, WaitInv, LatencyInv, CacheAgeInv, PhaseInv, ParamsInv, ServedInv, Active, Live, LoadRec, FetchRec, TaskRec,
        Awaiting, NoWitnesses, NoParams, StartedLoad
  <2>6. PhaseInv'
    BY <1>1, <1>2, <1>3, <2>0, LoaderAssumption
    DEF LoaderInv, LoaderTypeOK, FlightInv, WaitInv, LatencyInv, CacheAgeInv, PhaseInv, ParamsInv, ServedInv, Active, Live, LoadRec, FetchRec, TaskRec,
        Awaiting, NoWitnesses, NoParams, StartedLoad
  <2>7. ParamsInv'
    BY <1>1, <1>2, <1>3, <2>0, LoaderAssumption
    DEF LoaderInv, LoaderTypeOK, FlightInv, WaitInv, LatencyInv, CacheAgeInv, PhaseInv, ParamsInv, ServedInv, Active, Live, LoadRec, FetchRec, TaskRec,
        Awaiting, NoWitnesses, NoParams, StartedLoad
  <2>8. ServedInv'
    BY <1>1, <1>2, <1>3, <2>0, LoaderAssumption
    DEF LoaderInv, LoaderTypeOK, FlightInv, WaitInv, LatencyInv, CacheAgeInv, PhaseInv, ParamsInv, ServedInv, Active, Live, LoadRec, FetchRec, TaskRec,
        Awaiting, NoWitnesses, NoParams, StartedLoad
  <2>. QED
    BY <2>1, <2>2, <2>3, <2>4, <2>5, <2>6, <2>7, <2>8 DEF LoaderInv
<1>. QED
  BY <1>1, <1>4, <1>5, <1>6

LEMMA TickLoaderInv ==
  ASSUME LoaderInv, Tick PROVE LoaderInv'
<1>1. LoaderTypeOK'
  BY LoaderAssumption
  DEF LoaderInv, LoaderTypeOK, FlightInv, WaitInv, LatencyInv, CacheAgeInv, PhaseInv, ParamsInv, ServedInv, Active, Live, LoadRec, FetchRec, TaskRec,
      Tick, CallbackPending, InTime
<1>2. FlightInv'
  BY LoaderAssumption
  DEF LoaderInv, LoaderTypeOK, FlightInv, WaitInv, LatencyInv, CacheAgeInv, PhaseInv, ParamsInv, ServedInv, Active, Live, LoadRec, FetchRec, TaskRec,
      Tick, CallbackPending, InTime
<1>3. WaitInv'
  BY LoaderAssumption
  DEF LoaderInv, LoaderTypeOK, FlightInv, WaitInv, LatencyInv, CacheAgeInv, PhaseInv, ParamsInv, ServedInv, Active, Live, LoadRec, FetchRec, TaskRec,
      Tick, CallbackPending, InTime
<1>4. LatencyInv'
  BY LoaderAssumption
  DEF LoaderInv, LoaderTypeOK, FlightInv, WaitInv, LatencyInv, CacheAgeInv, PhaseInv, ParamsInv, ServedInv, Active, Live, LoadRec, FetchRec, TaskRec,
      Tick, CallbackPending, InTime
<1>5. CacheAgeInv'
  BY LoaderAssumption
  DEF LoaderInv, LoaderTypeOK, FlightInv, WaitInv, LatencyInv, CacheAgeInv, PhaseInv, ParamsInv, ServedInv, Active, Live, LoadRec, FetchRec, TaskRec,
      Tick, CallbackPending, InTime
<1>6. PhaseInv'
  BY LoaderAssumption
  DEF LoaderInv, LoaderTypeOK, FlightInv, WaitInv, LatencyInv, CacheAgeInv, PhaseInv, ParamsInv, ServedInv, Active, Live, LoadRec, FetchRec, TaskRec,
      Tick, CallbackPending, InTime
<1>7. ParamsInv'
  BY LoaderAssumption
  DEF LoaderInv, LoaderTypeOK, FlightInv, WaitInv, LatencyInv, CacheAgeInv, PhaseInv, ParamsInv, ServedInv, Active, Live, LoadRec, FetchRec, TaskRec,
      Tick, CallbackPending, InTime
<1>8. ServedInv'
  BY LoaderAssumption
  DEF LoaderInv, LoaderTypeOK, FlightInv, WaitInv, LatencyInv, CacheAgeInv, PhaseInv, ParamsInv, ServedInv, Active, Live, LoadRec, FetchRec, TaskRec,
      Tick, CallbackPending, InTime
<1>. QED
  BY <1>1, <1>2, <1>3, <1>4, <1>5, <1>6, <1>7, <1>8 DEF LoaderInv

LEMMA StepLoaderInv ==
  ASSUME LoaderInv, [LoaderNext]_loaderVars PROVE LoaderInv'
<1>1. CASE UNCHANGED loaderVars
  BY <1>1 DEF loaderVars, LoaderInv, LoaderTypeOK, FlightInv, WaitInv, LatencyInv, CacheAgeInv, PhaseInv, ParamsInv, ServedInv, Active, Live
<1>2. CASE \E t \in Task : HitCall(t) \/ JoinCall(t) \/ StartCall(t)
  BY <1>2, HitCallLoaderInv, JoinCallLoaderInv, StartCallLoaderInv
<1>3. CASE \E l \in LoadId : LoadStep(l)
  BY <1>3, WitnessReplyLoaderInv, OrphanReplyLoaderInv, LoadResolvesLoaderInv, LoadRejectsLoaderInv, LoadFinallyLoaderInv
  DEF LoadStep
<1>4. CASE \E f \in FetchId : FetchStep(f)
  BY <1>4, ParamsReplyLoaderInv, ParamsFinallyLoaderInv DEF FetchStep
<1>5. CASE Tick
  BY <1>5, TickLoaderInv
<1>. QED
  BY <1>1, <1>2, <1>3, <1>4, <1>5 DEF LoaderNext

-----------------------------------------------------------------------------
(* The theorems *)

THEOREM LoaderInvariance == LoaderSpec => []LoaderInv
<1>1. LoaderInit => LoaderInv
  BY InitLoaderInv
<1>2. LoaderInv /\ [LoaderNext]_loaderVars => LoaderInv'
  BY StepLoaderInv
<1>. QED
  BY <1>1, <1>2, PTL DEF LoaderSpec

\* The variables keep their types.
THEOREM LoaderTypeCorrect == LoaderSpec => []LoaderTypeOK
<1>1. LoaderInv => LoaderTypeOK
  BY DEF LoaderInv
<1>. QED
  BY <1>1, LoaderInvariance, PTL

\* However many callers miss the cache, one load and one parameter fetch are
\* under way at most.
THEOREM SingleFlightHolds == LoaderSpec => []SingleFlight
<1>1. LoaderInv => SingleFlight
  BY LoaderAssumption DEF LoaderInv, LoaderTypeOK, FlightInv, SingleFlight, Active
<1>. QED
  BY <1>1, LoaderInvariance, PTL

\* No caller waits, or is thrown an error, over a live cache entry.
THEOREM NoWaitOverLiveEntryHolds == LoaderSpec => []NoWaitOverLiveEntry
<1>1. LoaderInv => NoWaitOverLiveEntry
  BY DEF LoaderInv, PhaseInv, NoWaitOverLiveEntry
<1>. QED
  BY <1>1, LoaderInvariance, PTL

\* A result is handed over only by a cache hit or by the end of a load, and
\* then it is the content of the cache.
LEMMA ReceivedIsCached ==
  ASSUME LoaderInv, [LoaderNext]_loaderVars, NEW t \in Task, Received(t)
  PROVE  /\ Live(witnessCache)
         /\ task'[t].raw = witnessCache.raw
         /\ task'[t].params = witnessCache.params
<1>. USE DEF LoaderInv, LoaderTypeOK, TaskRec, Received
<1>1. ASSUME UNCHANGED loaderVars PROVE FALSE
  BY <1>1 DEF loaderVars
<1>2. ASSUME NEW u \in Task, HitCall(u) PROVE Live(witnessCache) /\ task'[t] = Handed(witnessCache)
  BY <1>2 DEF HitCall
<1>3. ASSUME NEW u \in Task, JoinCall(u) PROVE FALSE
  BY <1>3 DEF JoinCall, Awaiting
<1>4. ASSUME NEW u \in Task, StartCall(u) PROVE FALSE
  BY <1>4 DEF StartCall, Awaiting
<1>5. ASSUME NEW l \in LoadId, LoadFinally(l)
      PROVE  load[l].st = "loaded" /\ task'[t] = Handed(load[l])
  BY <1>5 DEF LoadFinally, Thrown
<1>6. ASSUME NEW l \in LoadId, LoadStep(l), ~ LoadFinally(l) PROVE FALSE
  BY <1>6 DEF LoadStep, WitnessReply, OrphanReply, LoadResolves, LoadRejects
<1>7. ASSUME NEW f \in FetchId, FetchStep(f) PROVE FALSE
  BY <1>7 DEF FetchStep, ParamsReply, ParamsFinally
<1>8. ASSUME Tick PROVE FALSE
  BY <1>8 DEF Tick
<1>9. ASSUME NEW l \in LoadId, load[l].st = "loaded"
      PROVE  Live(witnessCache) /\ witnessCache.raw = load[l].raw
             /\ witnessCache.params = load[l].params
  BY <1>9 DEF PhaseInv
<1>10. ASSUME NEW l \in LoadId, LoadStep(l)
       PROVE  Live(witnessCache) /\ task'[t] = Handed(witnessCache)
  BY <1>5, <1>6, <1>9, <1>10 DEF Handed
<1>11. Live(witnessCache) /\ task'[t] = Handed(witnessCache)
  BY <1>1, <1>2, <1>3, <1>4, <1>7, <1>8, <1>10 DEF LoaderNext
<1>. QED
  BY <1>11 DEF Handed

\* The list a caller receives is younger than its own TTL and one RPC; its
\* parameters are younger than both TTLs and two RPCs.
THEOREM StalenessBoundHolds == LoaderSpec => StalenessBound
<1>1. LoaderInv /\ [LoaderNext]_loaderVars =>
        [\A t \in Task : Received(t) =>
           /\ now < task'[t].raw + CACHE_TTL + Latency
           /\ now < task'[t].params + CACHE_TTL + PARAMS_TTL + 2 * Latency]_loaderVars
  BY ReceivedIsCached, LoaderAssumption DEF LoaderInv, LoaderTypeOK, CacheAgeInv, Live
<1>. QED
  BY <1>1, LoaderInvariance, PTL DEF LoaderSpec, StalenessBound

\* No caller receives an older list, or older parameters, than any caller did
\* before.
THEOREM ServedNeverGoesBackHolds == LoaderSpec => ServedNeverGoesBack
<1>1. LoaderInv /\ [LoaderNext]_loaderVars =>
        [\A t, u \in Task : Received(t) =>
           /\ task'[t].raw >= task[u].raw
           /\ task'[t].params >= task[u].params]_loaderVars
  BY ReceivedIsCached DEF LoaderInv, LoaderTypeOK, TaskRec, ServedInv, Live
<1>. QED
  BY <1>1, LoaderInvariance, PTL DEF LoaderSpec, ServedNeverGoesBack
=============================================================================
