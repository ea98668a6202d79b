------------------------ MODULE SolanaPositionsProofs ------------------------
(***************************************************************************)
(* What loadPositions returns and what is made of it.                      *)
(*                                                                         *)
(* SolanaDiscovery: for any number of concurrent calls, any seedScanMax,   *)
(* gap limit and batch size, and any change of the accounts between the    *)
(* batches of a scan.  Everything is said of the accounts that have not    *)
(* changed since a scan began (Steady): an account that changes leaves     *)
(* that set, so a change can only weaken what is known, and a batch,       *)
(* whenever it is read, shows steady accounts as they are now.             *)
(*                                                                         *)
(* SolanaActivation: for any stakes, rate, length of the history and       *)
(* behaviour of the rest of the cluster.  The effective stake the chain    *)
(* keeps epoch by epoch solves the recursions of the package's walks as    *)
(* far as there are rows, and they have one solution each.                 *)
(***************************************************************************)
EXTENDS SolanaDiscovery, SolanaActivation, SumTheorems, TLAPS

\* Reachable, of the accounts ch.
ReachableIn(ch, s, t) ==
  /\ ch[s].kind = "stake" /\ ch[s].since < t
  /\ \A i \in SeedScanGapLimit - 1 .. s - 1 :
       \E j \in i - SeedScanGapLimit + 1 .. i : ch[j].kind # "none" /\ ch[j].since < t

\* What is found is right, ...
Faithful(ch, found, t) ==
  \A a \in Account : found[a] # NoAccount /\ ch[a].since < t => found[a] = ch[a]

\* ... nothing reachable is missing, ...
Whole(ch, found, t) == \A s \in Seed : ReachableIn(ch, s, t) => found[s] = ch[s]

\* ... nor, after the fallback, anything at all.
WholeWithGpa(ch, found, t, gpa) ==
  gpa = "ok" => \A a \in Account :
                  ch[a].kind = "stake" /\ ch[a].since < t => found[a] = ch[a]

Sound(ch, r) ==
  /\ Faithful(ch, r.found, r.begun)
  /\ Whole(ch, r.found, r.begun)
  /\ WholeWithGpa(ch, r.found, r.begun, r.gpa)

PastInv ==
  /\ \A a \in Account : chain[a].since <= now
  /\ \A c \in Caller : load[c].begun <= now
  /\ cache.begun <= now

\* A scan has seen every steady account among the seeds of its past batches.
Scanning(ch, ld) ==
  /\ ld.gpa = "off"
  /\ Faithful(ch, ld.found, ld.begun)
  /\ \A s \in Seed : s < ld.batch * SEED_SCAN_BATCH /\ ch[s].since < ld.begun =>
       /\ ch[s].kind # "none" => s \in ld.taken
       /\ ch[s].kind = "stake" => ld.found[s] = ch[s]

ScanInv == \A c \in Caller : load[c].pc = "scan" => Scanning(chain, load[c])

DoneInv == \A c \in Caller : load[c].pc \in {"gpa", "epoch"} => Sound(chain, load[c])

OnlyStakes(found) == \A a \in Account : found[a] = NoAccount \/ found[a].kind = "stake"

CacheInv == Sound(chain, cache) /\ OnlyStakes(cache.found)

IInv == TypeOK /\ PastInv /\ ScanInv /\ DoneInv /\ CacheInv

-----------------------------------------------------------------------------

\* Batch numbers stay within the scan.
LEMMA DivBound ==
  ASSUME NEW m \in Nat, NEW d \in Nat \ {0}, NEW k \in Nat, k * d <= m
  PROVE  k <= m \div d
<1>. DEFINE q == m \div d
<1>1. q \in Nat /\ m < (q + 1) * d
  BY SMTT(30)
<1>2. ASSUME k >= q + 1 PROVE FALSE
  <2>. HIDE DEF q
  <2>1. k * d >= (q + 1) * d
    <3>1. PICK x \in Nat : k = q + 1 + x
      <4>1. k - q - 1 \in Nat
        BY <1>1, <1>2
      <4>. QED
        BY <4>1, <1>1
    <3>2. k * d = (q + 1) * d + x * d /\ x * d \in Nat
      BY <3>1, <1>1
    <3>. QED
      BY <3>2, <1>1
  <2>. QED
    BY <1>1, <2>1
<1>. QED
  BY <1>1, <1>2

\* When an account changes, those that are steady afterwards were steady, and
\* are what they were.
LEMMA ChangeKeeps ==
  ASSUME TypeOK, NEW b \in Account, Change(b), NEW t \in Nat, t <= now
  PROVE  \A a \in Account : (chain'[a].since < t) =>
           chain[a].since < t /\ chain'[a] = chain[a]
BY DEF TypeOK, Change, AccountInfo

\* So what was known of the steady accounts still holds.
LEMMA ChangeKeepsReachable ==
  ASSUME TypeOK, NEW b \in Account, Change(b), NEW t \in Nat, t <= now,
         NEW s \in Seed, ReachableIn(chain', s, t)
  PROVE  ReachableIn(chain, s, t) /\ chain'[s] = chain[s]
<1>. USE DiscoveryAssumption
<1>1. Seed \subseteq Account
  BY DEF Account
<1>2. chain[s].kind = "stake" /\ chain[s].since < t /\ chain'[s] = chain[s]
  BY <1>1, ChangeKeeps DEF ReachableIn
<1>3. ASSUME NEW i \in SeedScanGapLimit - 1 .. s - 1
      PROVE  \E j \in i - SeedScanGapLimit + 1 .. i :
               chain[j].kind # "none" /\ chain[j].since < t
  <2>1. PICK j \in i - SeedScanGapLimit + 1 .. i :
          chain'[j].kind # "none" /\ chain'[j].since < t
    BY DEF ReachableIn
  <2>2. j \in Seed
    BY DEF Seed
  <2>. QED
    BY <2>1, <2>2, <1>1, ChangeKeeps
<1>. QED
  BY <1>2, <1>3 DEF ReachableIn

LEMMA ChangeKeepsSound ==
  ASSUME TypeOK, NEW b \in Account, Change(b),
         NEW r, r.begun \in Nat, r.begun <= now, Sound(chain, r)
  PROVE  Sound(chain', r)
<1>1. Faithful(chain', r.found, r.begun)
  BY ChangeKeeps DEF Sound, Faithful
<1>2. Whole(chain', r.found, r.begun)
  BY ChangeKeepsReachable DEF Sound, Whole
<1>3. WholeWithGpa(chain', r.found, r.begun, r.gpa)
  BY ChangeKeeps DEF Sound, WholeWithGpa
<1>. QED
  BY <1>1, <1>2, <1>3 DEF Sound

LEMMA ChangeKeepsScanning ==
  ASSUME TypeOK, NEW b \in Account, Change(b),
         NEW r, r.begun \in Nat, r.begun <= now, Scanning(chain, r)
  PROVE  Scanning(chain', r)
<1>1. Faithful(chain', r.found, r.begun)
  BY ChangeKeeps DEF Scanning, Faithful
<1>. QED
  BY <1>1, ChangeKeeps DEF Scanning, Account

-----------------------------------------------------------------------------
(* A batch *)

TakenBy(c) == load[c].taken \cup Taken(load[c].batch)

FoundBy(c) ==
  [a \in Account |->
     IF /\ a \in {s \in Slots(load[c].batch) :
                    \A i \in Slots(load[c].batch) : i < s => ~ GapAt(i, TakenBy(c))}
        /\ chain[a].kind \in {"filtered", "stake"}
     THEN chain[a] ELSE load[c].found[a]]

\* Below a reachable seed no slot of the batch reaches the gap limit.
LEMMA NoGapBelowReachable ==
  ASSUME TypeOK, ScanInv, NEW c \in Caller, load[c].pc = "scan",
         NEW s \in Seed, ReachableIn(chain, s, load[c].begun),
         NEW i \in Slots(load[c].batch), i < s
  PROVE  ~ GapAt(i, TakenBy(c))
<1>. USE DiscoveryAssumption
<1>. DEFINE lo == load[c].batch * SEED_SCAN_BATCH
            hi == (load[c].batch + 1) * SEED_SCAN_BATCH
<1>1. load[c].batch \in Nat
  BY DEF TypeOK, LoadRec
<1>2. lo \in Nat /\ hi \in Nat
  BY <1>1
<1>3. i \in Seed /\ lo <= i /\ i < hi
  BY DEF Slots
<1>4. \A j \in Seed : lo <= j /\ j < hi /\ chain[j].kind # "none" => j \in TakenBy(c)
  BY DEF TakenBy, Taken, Slots
<1>5. \A j \in Seed : j < lo /\ chain[j].since < load[c].begun /\ chain[j].kind # "none"
        => j \in TakenBy(c)
  BY DEF ScanInv, Scanning, TakenBy
<1>. HIDE DEF lo, hi
<1>6. SUFFICES ASSUME GapAt(i, TakenBy(c)) PROVE FALSE
  OBVIOUS
<1>7. i \in SeedScanGapLimit - 1 .. s - 1
  BY <1>3, <1>6 DEF GapAt, Seed
<1>8. PICK j \in i - SeedScanGapLimit + 1 .. i :
        chain[j].kind # "none" /\ chain[j].since < load[c].begun
  BY <1>7 DEF ReachableIn
<1>9. j \in Seed /\ j < hi
  BY <1>2, <1>3, <1>7 DEF Seed
<1>10. j \in TakenBy(c)
  BY <1>2, <1>4, <1>5, <1>8, <1>9 DEF Seed
<1>. QED
  BY <1>6, <1>10 DEF GapAt

\* A batch adds only accounts as they are.
LEMMA BatchIsFaithful ==
  ASSUME TypeOK, ScanInv, NEW c \in Caller, load[c].pc = "scan"
  PROVE  Faithful(chain, FoundBy(c), load[c].begun)
BY DEF ScanInv, Scanning, Faithful, FoundBy

\* If the scan goes on, it has seen the steady accounts of one more batch.
LEMMA BatchSeesSlots ==
  ASSUME TypeOK, ScanInv, NEW c \in Caller, load[c].pc = "scan",
         \A i \in Slots(load[c].batch) : ~ GapAt(i, TakenBy(c))
  PROVE  \A s \in Seed :
           s < (load[c].batch + 1) * SEED_SCAN_BATCH /\ chain[s].since < load[c].begun =>
             /\ chain[s].kind # "none" => s \in TakenBy(c)
             /\ chain[s].kind = "stake" => FoundBy(c)[s] = chain[s]
<1>. USE DiscoveryAssumption
<1>. DEFINE lo == load[c].batch * SEED_SCAN_BATCH
            hi == (load[c].batch + 1) * SEED_SCAN_BATCH
<1>1. load[c].batch \in Nat
  BY DEF TypeOK, LoadRec
<1>2. lo \in Nat /\ hi \in Nat
  BY <1>1
<1>3. SUFFICES ASSUME NEW s \in Seed, s < hi, chain[s].since < load[c].begun
      PROVE  /\ chain[s].kind # "none" => s \in TakenBy(c)
             /\ chain[s].kind = "stake" => FoundBy(c)[s] = chain[s]
  OBVIOUS
<1>4. CASE s < lo
  <2>1. s \notin Slots(load[c].batch)
    BY <1>2, <1>4 DEF Slots, Seed
  <2>. QED
    BY <1>3, <1>4, <2>1 DEF ScanInv, Scanning, TakenBy, FoundBy, Account
<1>5. CASE lo <= s
  <2>1. s \in Slots(load[c].batch)
    BY <1>3, <1>5 DEF Slots
  <2>. QED
    BY <2>1 DEF TakenBy, Taken, FoundBy, Account
<1>. QED
  BY <1>2, <1>4, <1>5 DEF Seed

\* If it ends, on the gap limit or on the last batch, nothing reachable is
\* missing.
LEMMA LastBatchIsWhole ==
  ASSUME TypeOK, ScanInv, NEW c \in Caller, load[c].pc = "scan",
         ~ (/\ MoreBatches(load[c].batch)
            /\ \A i \in Slots(load[c].batch) : ~ GapAt(i, TakenBy(c)))
  PROVE  Whole(chain, FoundBy(c), load[c].begun)
<1>. USE DiscoveryAssumption
<1>. DEFINE lo == load[c].batch * SEED_SCAN_BATCH
            hi == (load[c].batch + 1) * SEED_SCAN_BATCH
<1>1. load[c].batch \in Nat
  BY DEF TypeOK, LoadRec
<1>2. lo \in Nat /\ hi \in Nat
  BY <1>1
<1>3. SUFFICES ASSUME NEW s \in Seed, ReachableIn(chain, s, load[c].begun)
      PROVE  FoundBy(c)[s] = chain[s]
  BY DEF Whole
<1>4. \A i \in Slots(load[c].batch) : i < s => ~ GapAt(i, TakenBy(c))
  BY <1>3, NoGapBelowReachable
<1>5. s < hi
  <2>1. CASE ~ MoreBatches(load[c].batch)
    BY <1>2, <2>1 DEF MoreBatches, Seed
  <2>2. CASE \E i \in Slots(load[c].batch) : GapAt(i, TakenBy(c))
    <3>1. PICK i \in Slots(load[c].batch) : GapAt(i, TakenBy(c))
      BY <2>2
    <3>2. i \in Seed /\ i < hi /\ ~ (i < s)
      BY <1>4, <3>1 DEF Slots
    <3>. QED
      BY <1>2, <3>2 DEF Seed
  <2>. QED
    BY <2>1, <2>2
<1>6. CASE s < lo
  <2>1. s \notin Slots(load[c].batch)
    BY <1>2, <1>6 DEF Slots, Seed
  <2>2. load[c].found[s] = chain[s]
    BY <1>3, <1>6 DEF ScanInv, Scanning, ReachableIn
  <2>. QED
    BY <2>1, <2>2 DEF FoundBy, Account
<1>7. CASE lo <= s
  <2>1. s \in Slots(load[c].batch)
    BY <1>5, <1>7 DEF Slots
  <2>. QED
    BY <1>3, <1>4, <2>1 DEF FoundBy, Account, ReachableIn
<1>. QED
  BY <1>2, <1>6, <1>7 DEF Seed

-----------------------------------------------------------------------------
(* Types *)

LEMMA NothingFoundType == NothingFound \in [Account -> AccountInfo]
BY DEF NothingFound, NoAccount, AccountInfo, Kind

LEMMA AtType ==
  ASSUME NEW pc \in {"idle", "scan", "gpa", "epoch", "returned", "threw"}
  PROVE  At(pc) \in LoadRec
<1>1. 0 \in 0 .. LastBatch
  BY DiscoveryAssumption DEF LastBatch
<1>. QED
  BY <1>1, NothingFoundType DEF At, LoadRec

LEMMA DeliverType ==
  ASSUME TypeOK, NEW c \in Caller, NEW ld \in LoadRec, Deliver(c, ld),
         UNCHANGED <<now, chain, changes, enableGpa>>
  PROVE  TypeOK'
<1>1. Positions(ld.found) \in [Account -> AccountInfo]
  BY NothingFoundType DEF Positions, LoadRec, NothingFound
<1>2. [ld EXCEPT !.pc = "returned", !.found = Positions(@)] \in LoadRec
  BY <1>1 DEF LoadRec
<1>3. [found |-> Positions(ld.found), begun |-> ld.begun,
       gpa |-> ld.gpa, until |-> now + StakeCacheTtl]
        \in [found : [Account -> AccountInfo], begun : Nat,
             gpa : {"off", "ok", "failed"}, until : Nat]
  BY <1>1, DiscoveryAssumption DEF LoadRec, TypeOK
<1>. QED
  BY <1>2, <1>3 DEF TypeOK, Deliver

LEMMA DiscoveredType ==
  ASSUME TypeOK, NEW c \in Caller, NEW ld \in LoadRec, Discovered(c, ld),
         UNCHANGED <<now, chain, changes, enableGpa>>
  PROVE  TypeOK'
<1>1. CASE ld.found = NothingFound
  BY <1>1, DeliverType DEF Discovered
<1>2. CASE ld.found # NothingFound
  <2>1. [ld EXCEPT !.pc = "epoch"] \in LoadRec
    BY DEF LoadRec
  <2>. QED
    BY <1>2, <2>1 DEF Discovered, TypeOK
<1>. QED
  BY <1>1, <1>2

\* The call after a batch, as BatchReply computes it.
AfterBatch(c) == [load[c] EXCEPT !.taken = TakenBy(c), !.found = FoundBy(c)]
AfterScan(c) == [AfterBatch(c) EXCEPT !.batch = 0, !.taken = {}]

GoesOn(c) ==
  /\ MoreBatches(load[c].batch)
  /\ \A i \in Slots(load[c].batch) : ~ GapAt(i, TakenBy(c))

LEMMA BatchCases ==
  ASSUME TypeOK, NEW c \in Caller, BatchReply(c)
  PROVE  \/ /\ GoesOn(c)
            /\ load' = [load EXCEPT ![c] = [AfterBatch(c) EXCEPT !.batch = load[c].batch + 1]]
            /\ UNCHANGED cache
         \/ /\ ~ GoesOn(c)
            /\ load' = [load EXCEPT ![c] = [AfterScan(c) EXCEPT !.pc = "gpa"]]
            /\ UNCHANGED cache
         \/ /\ ~ GoesOn(c)
            /\ Discovered(c, AfterScan(c))
<1>1. AfterBatch(c) =
        [load[c] EXCEPT !.taken = load[c].taken \cup Taken(load[c].batch),
           !.found = [a \in Account |->
              IF a \in {s \in Slots(load[c].batch) :
                          \A i \in Slots(load[c].batch) :
                            i < s => ~ GapAt(i, load[c].taken \cup Taken(load[c].batch))}
                 /\ chain[a].kind \in {"filtered", "stake"}
              THEN chain[a] ELSE @[a]]]
  BY DEF AfterBatch, TakenBy, FoundBy, TypeOK, LoadRec
<1>. QED
  BY <1>1 DEF BatchReply, GoesOn, AfterScan, TakenBy

LEMMA AfterScanType ==
  ASSUME TypeOK, NEW c \in Caller
  PROVE  AfterBatch(c) \in LoadRec /\ AfterScan(c) \in LoadRec
<1>1. TakenBy(c) \in SUBSET Seed
  BY DEF TakenBy, Taken, Slots, TypeOK, LoadRec
<1>2. FoundBy(c) \in [Account -> AccountInfo]
  BY DEF FoundBy, TypeOK, LoadRec
<1>3. 0 \in 0 .. LastBatch
  BY DiscoveryAssumption DEF LastBatch
<1>. QED
  BY <1>1, <1>2, <1>3 DEF AfterBatch, AfterScan, TypeOK, LoadRec

LEMMA TypeInvariant ==
  ASSUME TypeOK, [Next]_vars
  PROVE  TypeOK'
<1>1. ASSUME NEW a \in Account, Change(a) PROVE TypeOK'
  BY <1>1 DEF Change, TypeOK, AccountInfo
<1>2. ASSUME NEW c \in Caller, HitCall(c) PROVE TypeOK'
  <2>1. [At("returned") EXCEPT !.called = now, !.begun = cache.begun,
                               !.gpa = cache.gpa, !.found = cache.found] \in LoadRec
    BY AtType DEF TypeOK, LoadRec
  <2>. QED
    BY <1>2, <2>1 DEF HitCall, TypeOK
<1>3. ASSUME NEW c \in Caller, MissCall(c) PROVE TypeOK'
  <2>1. StartedScan \in LoadRec
    BY AtType DEF StartedScan, TypeOK, LoadRec
  <2>. QED
    BY <1>3, <2>1, NothingFoundType DEF MissCall, TypeOK, NoEntry
<1>4. ASSUME NEW c \in Caller, BatchReply(c) PROVE TypeOK'
  <2>1. UNCHANGED <<now, chain, changes, enableGpa>>
    BY <1>4 DEF BatchReply
  <2>2. ASSUME GoesOn(c),
               load' = [load EXCEPT ![c] = [AfterBatch(c) EXCEPT !.batch = load[c].batch + 1]],
               UNCHANGED cache
        PROVE  TypeOK'
    <3>1. load[c].batch + 1 \in 0 .. LastBatch
      <4>1. load[c].batch \in Nat
        BY DEF TypeOK, LoadRec
      <4>2. (load[c].batch + 1) * SEED_SCAN_BATCH <= SeedScanMax
        BY <2>2 DEF GoesOn, MoreBatches
      <4>3. load[c].batch + 1 <= LastBatch
        BY <4>1, <4>2, DivBound, DiscoveryAssumption DEF LastBatch
      <4>4. LastBatch \in Nat
        BY DiscoveryAssumption DEF LastBatch
      <4>. QED
        BY <4>1, <4>3, <4>4
    <3>2. [AfterBatch(c) EXCEPT !.batch = load[c].batch + 1] \in LoadRec
      BY <3>1, AfterScanType DEF LoadRec
    <3>. QED
      BY <2>1, <2>2, <3>2 DEF TypeOK
  <2>3. ASSUME load' = [load EXCEPT ![c] = [AfterScan(c) EXCEPT !.pc = "gpa"]],
               UNCHANGED cache
        PROVE  TypeOK'
    <3>1. [AfterScan(c) EXCEPT !.pc = "gpa"] \in LoadRec
      BY AfterScanType DEF LoadRec
    <3>. QED
      BY <2>1, <2>3, <3>1 DEF TypeOK
  <2>4. ASSUME Discovered(c, AfterScan(c)) PROVE TypeOK'
    BY <2>1, <2>4, AfterScanType, DiscoveredType
  <2>. QED
    BY <1>4, <2>2, <2>3, <2>4, BatchCases
<1>5. ASSUME NEW c \in Caller, GpaReply(c) PROVE TypeOK'
  <2>1. Merged(load[c].found) \in [Account -> AccountInfo]
    BY DEF Merged, TypeOK, LoadRec
  <2>2. [load[c] EXCEPT !.gpa = "ok", !.found = Merged(@)] \in LoadRec
    BY <2>1 DEF TypeOK, LoadRec
  <2>. QED
    BY <1>5, <2>2, DiscoveredType DEF GpaReply
<1>6. ASSUME NEW c \in Caller, GpaFails(c) PROVE TypeOK'
  <2>1. [load[c] EXCEPT !.gpa = "failed"] \in LoadRec
    BY DEF TypeOK, LoadRec
  <2>. QED
    BY <1>6, <2>1, DiscoveredType DEF GpaFails
<1>7. ASSUME NEW c \in Caller, EpochReply(c) PROVE TypeOK'
  BY <1>7, DeliverType DEF EpochReply, TypeOK
<1>8. ASSUME NEW c \in Caller, Throw(c) \/ Forget(c) PROVE TypeOK'
  BY <1>8, AtType DEF Throw, Forget, TypeOK
<1>9. CASE Tick
  BY <1>9 DEF Tick, TypeOK
<1>10. CASE UNCHANGED vars
  BY <1>10 DEF vars, TypeOK
<1>. QED
  BY <1>1, <1>2, <1>3, <1>4, <1>5, <1>6, <1>7, <1>8, <1>9, <1>10 DEF Next, LoadStep

\* Every call and every cache entry keeps its type.
THEOREM TypeCorrect == Spec => []TypeOK
<1>1. Init => TypeOK
  <2>. SUFFICES ASSUME Init PROVE TypeOK
    OBVIOUS
  <2>1. NoEntry \in [found : [Account -> AccountInfo], begun : Nat,
                     gpa : {"off", "ok", "failed"}, until : Nat]
    BY NothingFoundType DEF NoEntry
  <2>. QED
    BY <2>1, AtType DEF Init, TypeOK, AccountInfo
<1>. QED
  BY <1>1, TypeInvariant, PTL DEF Spec

-----------------------------------------------------------------------------
(* The invariant *)

\* The parts of IInv beside the types.
Inv == PastInv /\ ScanInv /\ DoneInv /\ CacheInv

\* A step that leaves the chain and the cache alone, and takes one call to a
\* state of which the invariant says nothing, or what is known.
LEMMA CallStep ==
  ASSUME TypeOK, Inv, NEW c \in Caller, NEW ld \in LoadRec,
         load' = [load EXCEPT ![c] = ld], UNCHANGED <<now, chain>>,
         cache' = cache \/ cache' = NoEntry,
         ld.begun <= now,
         ld.pc = "scan" => Scanning(chain, ld),
         ld.pc \in {"gpa", "epoch"} => Sound(chain, ld)
  PROVE  Inv'
<1>. USE DEF TypeOK
<1>1. \A d \in Caller : load'[d] = IF d = c THEN ld ELSE load[d]
  OBVIOUS
<1>2. PastInv'
  BY <1>1 DEF Inv, PastInv, NoEntry
<1>3. ScanInv' /\ DoneInv'
  BY <1>1 DEF Inv, ScanInv, DoneInv
<1>4. CacheInv'
  <2>1. CASE cache' = cache
    BY <2>1 DEF Inv, CacheInv
  <2>2. CASE cache' = NoEntry
    <3>1. \A a \in Account : NoEntry.found[a] = NoAccount
      BY DEF NoEntry, NothingFound
    <3>2. \A s \in Seed : ~ ReachableIn(chain, s, 0)
      BY DEF ReachableIn, AccountInfo, Account
    <3>. QED
      BY <2>2, <3>1, <3>2
         DEF CacheInv, Sound, Faithful, Whole, WholeWithGpa, OnlyStakes, NoEntry
  <2>. QED
    BY <2>1, <2>2
<1>. QED
  BY <1>2, <1>3, <1>4 DEF Inv

\* Dropping the accounts that are no stake of the authority loses nothing.
LEMMA PositionsSound ==
  ASSUME TypeOK, NEW ld \in LoadRec, Sound(chain, ld)
  PROVE  /\ Faithful(chain, Positions(ld.found), ld.begun)
         /\ Whole(chain, Positions(ld.found), ld.begun)
         /\ WholeWithGpa(chain, Positions(ld.found), ld.begun, ld.gpa)
         /\ OnlyStakes(Positions(ld.found))
<1>1. \A a \in Account :
        Positions(ld.found)[a] = IF ld.found[a].kind = "stake" THEN ld.found[a] ELSE NoAccount
  BY DEF Positions
<1>2. Seed \subseteq Account
  BY DEF Account
<1>. QED
  BY <1>1, <1>2 DEF Sound, Faithful, Whole, WholeWithGpa, OnlyStakes, ReachableIn

LEMMA DeliverStep ==
  ASSUME TypeOK, Inv, NEW c \in Caller, NEW ld \in LoadRec, Deliver(c, ld),
         UNCHANGED <<now, chain>>, ld.begun <= now, Sound(chain, ld)
  PROVE  Inv'
<1>. DEFINE new == [ld EXCEPT !.pc = "returned", !.found = Positions(@)]
<1>1. new.pc = "returned" /\ new.begun = ld.begun
  BY DEF LoadRec
<1>2. load' = [load EXCEPT ![c] = new]
  BY DEF Deliver
<1>. HIDE DEF new
<1>3. \A d \in Caller : load'[d] = IF d = c THEN new ELSE load[d]
  BY <1>2 DEF TypeOK
<1>4. PastInv'
  BY <1>1, <1>3 DEF Inv, PastInv, Deliver
<1>5. ScanInv' /\ DoneInv'
  BY <1>1, <1>3 DEF Inv, ScanInv, DoneInv
<1>6. CacheInv'
  BY PositionsSound DEF Deliver, CacheInv, Sound
<1>. QED
  BY <1>4, <1>5, <1>6 DEF Inv

LEMMA DiscoveredStep ==
  ASSUME TypeOK, Inv, NEW c \in Caller, NEW ld \in LoadRec, Discovered(c, ld),
         UNCHANGED <<now, chain>>, ld.begun <= now, Sound(chain, ld)
  PROVE  Inv'
<1>1. CASE ld.found = NothingFound
  BY <1>1, DeliverStep DEF Discovered
<1>2. CASE ld.found # NothingFound
  <2>. DEFINE new == [ld EXCEPT !.pc = "epoch"]
  <2>1. /\ new \in LoadRec
        /\ new.pc = "epoch"
        /\ new.begun = ld.begun /\ new.found = ld.found /\ new.gpa = ld.gpa
    BY DEF LoadRec
  <2>2. load' = [load EXCEPT ![c] = new] /\ cache' = cache
    BY <1>2 DEF Discovered
  <2>. HIDE DEF new
  <2>3. Sound(chain, new)
    BY <2>1 DEF Sound
  <2>. QED
    BY <2>1, <2>2, <2>3, CallStep
<1>. QED
  BY <1>1, <1>2

LEMMA BatchStep ==
  ASSUME TypeOK, Inv, NEW c \in Caller, BatchReply(c)
  PROVE  Inv'
<1>. DEFINE b == load[c].batch
<1>1. load[c].pc = "scan" /\ UNCHANGED <<now, chain>>
  BY DEF BatchReply
<1>2. /\ AfterBatch(c) \in LoadRec
      /\ AfterBatch(c).pc = "scan"
      /\ AfterBatch(c).begun = load[c].begun
      /\ AfterBatch(c).gpa = "off"
      /\ AfterBatch(c).found = FoundBy(c)
      /\ AfterBatch(c).taken = TakenBy(c)
  BY <1>1, AfterScanType DEF AfterBatch, TypeOK, LoadRec, Inv, ScanInv, Scanning
<1>3. /\ AfterScan(c) \in LoadRec
      /\ AfterScan(c).begun = load[c].begun
      /\ AfterScan(c).gpa = "off"
      /\ AfterScan(c).found = FoundBy(c)
  BY <1>2, AfterScanType DEF AfterScan, LoadRec
<1>4. load[c].begun <= now
  BY DEF Inv, PastInv
<1>5. Faithful(chain, FoundBy(c), load[c].begun)
  BY <1>1, BatchIsFaithful DEF Inv
<1>6. ASSUME GoesOn(c),
             load' = [load EXCEPT ![c] = [AfterBatch(c) EXCEPT !.batch = b + 1]],
             UNCHANGED cache
      PROVE  Inv'
  <2>. DEFINE new == [AfterBatch(c) EXCEPT !.batch = b + 1]
  <2>1. /\ new.pc = "scan" /\ new.gpa = "off" /\ new.begun = load[c].begun
        /\ new.batch = b + 1 /\ new.found = FoundBy(c) /\ new.taken = TakenBy(c)
    BY <1>2 DEF LoadRec
  <2>2. new \in LoadRec
    <3>1. load' \in [Caller -> LoadRec]
      BY TypeInvariant DEF TypeOK, Next, LoadStep
    <3>2. load'[c] = new
      BY <1>6 DEF TypeOK
    <3>. QED
      BY <3>1, <3>2
  <2>3. \A s \in Seed :
          s < (b + 1) * SEED_SCAN_BATCH /\ chain[s].since < load[c].begun =>
            /\ chain[s].kind # "none" => s \in TakenBy(c)
            /\ chain[s].kind = "stake" => FoundBy(c)[s] = chain[s]
    BY <1>1, <1>6, BatchSeesSlots DEF GoesOn, Inv
  <2>4. load' = [load EXCEPT ![c] = new] /\ cache' = cache
    BY <1>6
  <2>. HIDE DEF new, b
  <2>5. Scanning(chain, new)
    BY <1>5, <2>1, <2>3 DEF Scanning
  <2>. QED
    BY <1>1, <1>4, <2>1, <2>2, <2>4, <2>5, CallStep
<1>7. ASSUME ~ GoesOn(c) PROVE Sound(chain, AfterScan(c))
  <2>1. Whole(chain, FoundBy(c), load[c].begun)
    BY <1>1, <1>7, LastBatchIsWhole DEF GoesOn, Inv
  <2>. QED
    BY <1>3, <1>5, <2>1 DEF Sound, WholeWithGpa
<1>8. ASSUME ~ GoesOn(c),
             load' = [load EXCEPT ![c] = [AfterScan(c) EXCEPT !.pc = "gpa"]],
             UNCHANGED cache
      PROVE  Inv'
  <2>. DEFINE new == [AfterScan(c) EXCEPT !.pc = "gpa"]
  <2>1. /\ new \in LoadRec
        /\ new.pc = "gpa" /\ new.gpa = "off"
        /\ new.begun = load[c].begun /\ new.found = FoundBy(c)
    BY <1>3 DEF LoadRec
  <2>2. load' = [load EXCEPT ![c] = new] /\ cache' = cache
    BY <1>8
  <2>. HIDE DEF new
  <2>3. Sound(chain, new)
    BY <1>3, <1>7, <1>8, <2>1 DEF Sound
  <2>. QED
    BY <1>1, <1>4, <2>1, <2>2, <2>3, CallStep
<1>9. ASSUME ~ GoesOn(c), Discovered(c, AfterScan(c)) PROVE Inv'
  BY <1>1, <1>3, <1>4, <1>7, <1>9, DiscoveredStep
<1>. QED
  BY <1>6, <1>8, <1>9, BatchCases

LEMMA GpaStep ==
  ASSUME TypeOK, Inv, NEW c \in Caller, GpaReply(c) \/ GpaFails(c)
  PROVE  Inv'
<1>1. /\ load[c].pc = "gpa" /\ UNCHANGED <<now, chain>>
      /\ load[c].begun <= now /\ Sound(chain, load[c])
  BY DEF GpaReply, GpaFails, Inv, PastInv, DoneInv
<1>2. CASE GpaReply(c)
  <2>. DEFINE new == [load[c] EXCEPT !.gpa = "ok", !.found = Merged(@)]
  <2>1. Merged(load[c].found) \in [Account -> AccountInfo]
    BY DEF Merged, TypeOK, LoadRec
  <2>2. /\ new \in LoadRec /\ new.begun = load[c].begun
        /\ new.found = Merged(load[c].found) /\ new.gpa = "ok"
    BY <2>1 DEF TypeOK, LoadRec
  <2>3. Discovered(c, new)
    BY <1>2 DEF GpaReply
  <2>. HIDE DEF new
  <2>4. Faithful(chain, new.found, new.begun)
    BY <1>1, <2>2 DEF Sound, Faithful, Merged
  <2>5. Whole(chain, new.found, new.begun)
    BY <1>1, <2>2 DEF Sound, Whole, Merged, Account, ReachableIn, NoAccount
  <2>6. WholeWithGpa(chain, new.found, new.begun, new.gpa)
    BY <1>1, <2>2 DEF Sound, Faithful, WholeWithGpa, Merged
  <2>. QED
    BY <1>1, <2>2, <2>3, <2>4, <2>5, <2>6, DiscoveredStep DEF Sound
<1>3. CASE GpaFails(c)
  <2>. DEFINE new == [load[c] EXCEPT !.gpa = "failed"]
  <2>1. /\ new \in LoadRec /\ new.begun = load[c].begun
        /\ new.found = load[c].found /\ new.gpa = "failed"
    BY DEF TypeOK, LoadRec
  <2>2. Discovered(c, new)
    BY <1>3 DEF GpaFails
  <2>. HIDE DEF new
  <2>3. Sound(chain, new)
    BY <1>1, <2>1 DEF Sound, WholeWithGpa
  <2>. QED
    BY <1>1, <2>1, <2>2, <2>3, DiscoveredStep
<1>. QED
  BY <1>2, <1>3

LEMMA Preservation ==
  ASSUME TypeOK, Inv, [Next]_vars
  PROVE  Inv'
<1>1. ASSUME NEW a \in Account, Change(a) PROVE Inv'
  <2>1. UNCHANGED <<now, cache, load>>
    BY <1>1 DEF Change
  <2>2. \A c \in Caller : load[c].begun \in Nat /\ load[c].begun <= now
    BY DEF TypeOK, LoadRec, Inv, PastInv
  <2>3. cache.begun \in Nat /\ cache.begun <= now
    BY DEF TypeOK, Inv, PastInv
  <2>4. PastInv'
    BY <1>1, <2>1 DEF Change, TypeOK, AccountInfo, Inv, PastInv
  <2>5. ScanInv'
    BY <1>1, <2>1, <2>2, ChangeKeepsScanning DEF Inv, ScanInv
  <2>6. DoneInv'
    BY <1>1, <2>1, <2>2, ChangeKeepsSound DEF Inv, DoneInv
  <2>7. CacheInv'
    BY <1>1, <2>1, <2>3, ChangeKeepsSound DEF Inv, CacheInv
  <2>. QED
    BY <2>4, <2>5, <2>6, <2>7 DEF Inv
<1>2. ASSUME NEW c \in Caller, HitCall(c) PROVE Inv'
  <2>. DEFINE new == [At("returned") EXCEPT !.called = now, !.begun = cache.begun,
                        !.gpa = cache.gpa, !.found = cache.found]
  <2>1. new \in LoadRec /\ new.pc = "returned" /\ new.begun = cache.begun
    BY AtType DEF At, TypeOK, LoadRec
  <2>2. load' = [load EXCEPT ![c] = new] /\ UNCHANGED <<now, chain, cache>>
    BY <1>2 DEF HitCall
  <2>3. cache.begun <= now
    BY DEF Inv, PastInv
  <2>. HIDE DEF new
  <2>. QED
    BY <2>1, <2>2, <2>3, CallStep
<1>3. ASSUME NEW c \in Caller, MissCall(c) PROVE Inv'
  <2>1. StartedScan \in LoadRec
    BY AtType DEF StartedScan, TypeOK, LoadRec
  <2>2. /\ StartedScan.pc = "scan" /\ StartedScan.begun = now /\ StartedScan.batch = 0
        /\ StartedScan.gpa = "off" /\ StartedScan.found = NothingFound
    BY DEF StartedScan, At
  <2>3. Scanning(chain, StartedScan)
    BY <2>2, DiscoveryAssumption DEF Scanning, Faithful, NothingFound, Seed
  <2>4. now <= now
    BY DEF TypeOK
  <2>. QED
    BY <1>3, <2>1, <2>2, <2>3, <2>4, CallStep DEF MissCall
<1>4. ASSUME NEW c \in Caller, BatchReply(c) PROVE Inv'
  BY <1>4, BatchStep
<1>5. ASSUME NEW c \in Caller, GpaReply(c) \/ GpaFails(c) PROVE Inv'
  BY <1>5, GpaStep
<1>6. ASSUME NEW c \in Caller, EpochReply(c) PROVE Inv'
  <2>1. load[c] \in LoadRec /\ load[c].begun <= now /\ Sound(chain, load[c])
    BY <1>6 DEF EpochReply, TypeOK, Inv, PastInv, DoneInv
  <2>. QED
    BY <1>6, <2>1, DeliverStep DEF EpochReply
<1>7. ASSUME NEW c \in Caller, Throw(c) \/ Forget(c) PROVE Inv'
  <2>1. PICK pc \in {"threw", "idle"} : load' = [load EXCEPT ![c] = At(pc)]
    BY <1>7 DEF Throw, Forget
  <2>2. At(pc) \in LoadRec
    BY AtType
  <2>3. At(pc).pc = pc /\ At(pc).begun = 0
    BY DEF At
  <2>4. 0 <= now
    BY DEF TypeOK
  <2>5. UNCHANGED <<now, chain, cache>>
    BY <1>7 DEF Throw, Forget
  <2>. QED
    BY <2>1, <2>2, <2>3, <2>4, <2>5, CallStep
<1>8. CASE Tick
  <2>1. UNCHANGED <<chain, cache, load>> /\ now' = now + 1
    BY <1>8 DEF Tick
  <2>. QED
    BY <2>1 DEF TypeOK, AccountInfo, LoadRec, Inv, PastInv, ScanInv, DoneInv, CacheInv
<1>9. CASE UNCHANGED vars
  BY <1>9 DEF vars, Inv, PastInv, ScanInv, DoneInv, CacheInv
<1>. QED
  BY <1>1, <1>2, <1>3, <1>4, <1>5, <1>6, <1>7, <1>8, <1>9 DEF Next, LoadStep

\* IInv is an inductive invariant.
THEOREM Invariance == Spec => []IInv
<1>1. Init => Inv
  <2>. SUFFICES ASSUME Init PROVE Inv
    OBVIOUS
  <2>1. \A c \in Caller : load[c].pc = "idle" /\ load[c].begun = 0
    BY DEF Init, At
  <2>2. \A a \in Account : chain[a].since = 0 /\ NoEntry.found[a] = NoAccount
    BY DEF Init, NoEntry, NothingFound
  <2>3. cache = NoEntry /\ NoEntry.begun = 0 /\ NoEntry.gpa = "off" /\ now = 1
    BY DEF Init, NoEntry
  <2>4. \A s \in Seed : ~ ReachableIn(chain, s, 0)
    BY <2>2 DEF ReachableIn, Account
  <2>. QED
    BY <2>1, <2>2, <2>3, <2>4
       DEF Inv, PastInv, ScanInv, DoneInv, CacheInv, Sound, Faithful, Whole,
           WholeWithGpa, OnlyStakes
<1>2. TypeOK /\ Inv /\ [Next]_vars => Inv'
  BY Preservation
<1>3. TypeOK /\ Inv => IInv
  BY DEF Inv, IInv
<1>. QED
  BY <1>1, <1>2, <1>3, TypeCorrect, PTL DEF Spec

-----------------------------------------------------------------------------
(* What calls return *)

LEMMA DeliverReturns ==
  ASSUME TypeOK, NEW c \in Caller, NEW ld \in LoadRec, Deliver(c, ld)
  PROVE  /\ \A d \in Caller : d # c => load'[d] = load[d]
         /\ cache'.found = load'[c].found
         /\ cache'.begun = load'[c].begun
         /\ cache'.gpa = load'[c].gpa
BY DEF Deliver, TypeOK, LoadRec

LEMMA DiscoveredReturns ==
  ASSUME TypeOK, NEW c \in Caller, NEW ld \in LoadRec, Discovered(c, ld),
         NEW d \in Caller, Returns(d)
  PROVE  /\ cache'.found = load'[d].found
         /\ cache'.begun = load'[d].begun
         /\ cache'.gpa = load'[d].gpa
<1>1. CASE ld.found = NothingFound
  BY <1>1, DeliverReturns DEF Discovered, Returns
<1>2. CASE ld.found # NothingFound
  <2>1. FALSE
    BY <1>2 DEF Discovered, Returns, TypeOK, LoadRec
  <2>. QED
    BY <2>1
<1>. QED
  BY <1>1, <1>2

\* What a call returns is, at that moment, the content of the cache.
LEMMA ReturnedIsCached ==
  ASSUME TypeOK, [Next]_vars, NEW d \in Caller, Returns(d)
  PROVE  /\ chain' = chain
         /\ cache'.found = load'[d].found
         /\ cache'.begun = load'[d].begun
         /\ cache'.gpa = load'[d].gpa
<1>. DEFINE Goal == /\ chain' = chain
                    /\ cache'.found = load'[d].found
                    /\ cache'.begun = load'[d].begun
                    /\ cache'.gpa = load'[d].gpa
<1>1. ASSUME NEW c \in Caller, HitCall(c) PROVE Goal
  <2>. DEFINE new == [At("returned") EXCEPT !.called = now, !.begun = cache.begun,
                        !.gpa = cache.gpa, !.found = cache.found]
  <2>1. new.begun = cache.begun /\ new.gpa = cache.gpa /\ new.found = cache.found
    BY DEF At
  <2>2. load' = [load EXCEPT ![c] = new] /\ UNCHANGED <<chain, cache>>
    BY <1>1 DEF HitCall
  <2>. HIDE DEF new
  <2>. QED
    BY <2>1, <2>2 DEF Returns, TypeOK
<1>2. ASSUME NEW c \in Caller, MissCall(c) \/ Throw(c) \/ Forget(c) PROVE Goal
  <2>1. \A pc \in {"idle", "scan", "threw"} : At(pc).pc = pc /\ StartedScan.pc = "scan"
    BY DEF At, StartedScan
  <2>. QED
    BY <1>2, <2>1 DEF MissCall, Throw, Forget, Returns, TypeOK
<1>3. ASSUME NEW c \in Caller, BatchReply(c) PROVE Goal
  <2>1. chain' = chain
    BY <1>3 DEF BatchReply
  <2>2. CASE Discovered(c, AfterScan(c))
    BY <2>1, <2>2, AfterScanType, DiscoveredReturns
  <2>3. ASSUME load' = [load EXCEPT ![c] = [AfterBatch(c) EXCEPT !.batch = load[c].batch + 1]]
        PROVE  Goal
    <3>1. [AfterBatch(c) EXCEPT !.batch = load[c].batch + 1].pc = "scan"
      BY <1>3 DEF AfterBatch, BatchReply, TypeOK, LoadRec
    <3>. QED
      BY <2>3, <3>1 DEF Returns, TypeOK
  <2>4. ASSUME load' = [load EXCEPT ![c] = [AfterScan(c) EXCEPT !.pc = "gpa"]]
        PROVE  Goal
    <3>1. [AfterScan(c) EXCEPT !.pc = "gpa"].pc = "gpa"
      BY AfterScanType DEF LoadRec
    <3>. QED
      BY <2>4, <3>1 DEF Returns, TypeOK
  <2>. QED
    BY <1>3, <2>2, <2>3, <2>4, BatchCases
<1>4. ASSUME NEW c \in Caller, GpaReply(c) PROVE Goal
  <2>1. Merged(load[c].found) \in [Account -> AccountInfo]
    BY DEF Merged, TypeOK, LoadRec
  <2>2. [load[c] EXCEPT !.gpa = "ok", !.found = Merged(@)] \in LoadRec
    BY <2>1 DEF TypeOK, LoadRec
  <2>. QED
    BY <1>4, <2>2, DiscoveredReturns DEF GpaReply
<1>5. ASSUME NEW c \in Caller, GpaFails(c) PROVE Goal
  <2>1. [load[c] EXCEPT !.gpa = "failed"] \in LoadRec
    BY DEF TypeOK, LoadRec
  <2>. QED
    BY <1>5, <2>1, DiscoveredReturns DEF GpaFails
<1>6. ASSUME NEW c \in Caller, EpochReply(c) PROVE Goal
  BY <1>6, DeliverReturns DEF EpochReply, Returns, TypeOK
<1>7. ASSUME NEW a \in Account, Change(a) PROVE Goal
  BY <1>7 DEF Change, Returns
<1>8. CASE Tick
  BY <1>8 DEF Tick, Returns
<1>9. CASE UNCHANGED vars
  BY <1>9 DEF vars, Returns
<1>. QED
  BY <1>1, <1>2, <1>3, <1>4, <1>5, <1>6, <1>7, <1>8, <1>9 DEF Next, LoadStep

LEMMA ReturnedIsSound ==
  ASSUME IInv, [Next]_vars, NEW d \in Caller, Returns(d)
  PROVE  Sound(chain, load'[d]) /\ OnlyStakes(load'[d].found)
<1>1. CacheInv'
  BY Preservation DEF IInv, Inv
<1>. QED
  BY <1>1, ReturnedIsCached DEF CacheInv, Sound, IInv

\* A returned position is the account as it is, unless it changed after the
\* scan began.
THEOREM NoGhostsHolds == Spec => NoGhosts
<1>1. IInv /\ [Next]_vars =>
        [\A c \in Caller : Returns(c) =>
           \A a \in Account :
             load'[c].found[a] # NoAccount /\ Steady(a, load'[c].begun)
             => chain[a].kind = "stake" /\ load'[c].found[a] = chain[a]]_vars
  BY ReturnedIsSound DEF Sound, Faithful, OnlyStakes, Steady
<1>. QED
  BY <1>1, Invariance, PTL DEF Spec, NoGhosts

\* The gap limit hides nothing but what lies above a gap.
THEOREM NothingMissedHolds == Spec => NothingMissed
<1>1. IInv /\ [Next]_vars =>
        [\A c \in Caller : Returns(c) =>
           \A s \in Seed : Reachable(s, load'[c].begun) => load'[c].found[s] = chain[s]]_vars
  BY ReturnedIsSound DEF Sound, Whole, ReachableIn, Reachable, Steady
<1>. QED
  BY <1>1, Invariance, PTL DEF Spec, NothingMissed

\* After the fallback, no steady account is missing.
THEOREM FallbackSeesAllHolds == Spec => FallbackSeesAll
<1>1. IInv /\ [Next]_vars =>
        [\A c \in Caller : Returns(c) /\ load'[c].gpa = "ok" =>
           \A a \in Account :
             chain[a].kind = "stake" /\ Steady(a, load'[c].begun)
             => load'[c].found[a] = chain[a]]_vars
  BY ReturnedIsSound DEF Sound, WholeWithGpa, Steady
<1>. QED
  BY <1>1, Invariance, PTL DEF Spec, FallbackSeesAll
-----------------------------------------------------------------------------
(* SolanaActivation *)

-----------------------------------------------------------------------------
(* Types *)

Moment == 0 .. U64_MAX
AccountRec == [kind : {"none", "Initialized", "Stake"}, activation : Moment, deactivation : Moment]

\* The rows the sysvar keeps in epoch n.
Kept(n) == {e \in 0 .. n - 1 : e > n - 1 - HistoryDepth}
Histories == UNION {[Kept(n) -> Amounts] : n \in Epoch}

ReadRec ==
  [called : BOOLEAN, accounts : [StakeAccount -> AccountRec] \cup {<<>>},
   clock : -1 .. MaxEpoch, history : Histories, readIn : -1 .. MaxEpoch]

ActivationTypeOK ==
  /\ epoch \in Epoch
  /\ account \in [StakeAccount -> AccountRec]
  /\ effective \in [StakeAccount -> [Epoch -> Nat]]
  /\ history \in [Kept(epoch) -> Amounts]
  /\ read \in ReadRec

-----------------------------------------------------------------------------
(* The invariant *)

\* acc is as far as it can be at moment n.
By(acc, n) ==
  /\ acc.activation <= n \/ acc.activation = U64_MAX
  /\ acc.deactivation <= n \/ acc.deactivation = U64_MAX

\* What has become of the stake of an account, e being its effective stake by
\* epoch: an account is deactivated after it was delegated, warms up from
\* nothing or was effective from the beginning, and none delegated and
\* deactivated in one epoch ever counts.
StakeOf(acc, stake, e, n) ==
  /\ By(acc, n)
  /\ acc.kind = "Initialized" => \A f \in 0 .. n : e[f] = 0
  /\ acc.kind = "Stake" =>
       /\ \A f \in 0 .. n : e[f] <= stake
       /\ acc.activation = U64_MAX => \A f \in 0 .. n : f <= acc.deactivation => e[f] = stake
       /\ acc.activation # U64_MAX => acc.activation <= acc.deactivation /\ e[acc.activation] = 0
       /\ SameEpoch(acc) => \A f \in 0 .. n : f >= acc.activation => e[f] = 0

StakeInv == \A s \in StakeAccount : StakeOf(account[s], Stake[s], effective[s], epoch)

\* What one epoch makes of stake that warms up, and of stake that cools down.
Warmed(stake, part, row) ==
  IF stake - part > 0
  THEN Min({stake, part + Moved(stake - part, row.activating, row.effective)}) ELSE part
Cooled(part, row) ==
  IF part > 0 THEN Max({0, part - Moved(part, row.deactivating, row.effective)}) ELSE part

\* The row of epoch f is the one by which the chain has moved the stake, and
\* the stake is part of it.
RowOf(acc, stake, e, f, row) ==
  acc.kind = "Stake" =>
    /\ acc.activation <= f /\ f < acc.deactivation =>
         stake - e[f] <= row.activating /\ e[f + 1] = Warmed(stake, e[f], row)
    /\ acc.deactivation <= f =>
         e[f] <= row.deactivating /\ e[f + 1] = Cooled(e[f], row)

RowsOf(h) == \A s \in StakeAccount, f \in DOMAIN h : RowOf(account[s], Stake[s], effective[s], f, h[f])

\* What a call has read, it has read by part, the accounts before the clock.
ReadInv ==
  /\ read.clock <= epoch /\ read.readIn <= epoch
  /\ read.clock # -1 \/ read.readIn # -1 => read.called
  /\ read.history \in [(IF read.readIn = -1 THEN {} ELSE Kept(read.readIn)) -> Amounts]
  /\ read.called =>
       /\ read.accounts \in [StakeAccount -> AccountRec]
       /\ \A s \in StakeAccount :
            By(read.accounts[s], IF read.clock = -1 THEN epoch ELSE read.clock)

AInv == ActivationTypeOK /\ StakeInv /\ RowsOf(history) /\ RowsOf(read.history) /\ ReadInv

-----------------------------------------------------------------------------
(* Numbers *)

\* A set of naturals that is not empty has a least element.
LEMMA Least ==
  ASSUME NEW S, S \subseteq Nat, S # {}
  PROVE  Min(S) \in S /\ \A n \in S : Min(S) <= n
<1>1. PICK m \in S : \A n \in S : ~ (<<n, m>> \in OpToRel(<, Nat))
  <2>1. IsWellFoundedOn(OpToRel(<, Nat), Nat)
    BY NatLessThanWellFounded
  <2>. QED
    BY <2>1, WFMin
<1>2. ASSUME NEW n \in S, n < m PROVE FALSE
  <2>1. <<n, m>> \in OpToRel(<, Nat)
    BY <1>2 DEF OpToRel
  <2>. QED
    BY <1>1, <2>1
<1>3. \A n \in S : m <= n
  BY <1>2
<1>. QED
  BY <1>3 DEF Min

LEMMA MinOfTwo ==
  ASSUME NEW a \in Nat, NEW b \in Nat
  PROVE  Min({a, b}) = IF a <= b THEN a ELSE b
<1>1. Min({a, b}) \in {a, b} /\ \A n \in {a, b} : Min({a, b}) <= n
  BY Least, {a, b} \subseteq Nat, {a, b} # {}
<1>. QED
  BY <1>1

LEMMA MaxOfTwo ==
  ASSUME NEW a \in Int, NEW b \in Int
  PROVE  Max({a, b}) = IF a >= b THEN a ELSE b
<1>1. \E x \in {a, b} : \A y \in {a, b} : x >= y
  BY a >= b \/ b >= a
<1>2. Max({a, b}) \in {a, b} /\ \A y \in {a, b} : Max({a, b}) >= y
  BY <1>1 DEF Max
<1>. QED
  BY <1>2

LEMMA NatProduct == ASSUME NEW a \in Nat, NEW b \in Nat PROVE a * b \in Nat
  OBVIOUS

\* Some stake moves in every epoch, however small its part.
LEMMA MovedFact ==
  ASSUME NEW a \in Nat, NEW total \in Nat \ {0}, NEW c \in Nat
  PROVE  Moved(a, total, c) \in Nat /\ Moved(a, total, c) >= 1
<1>. DEFINE x == a * c * RateNum
            y == total * RateDen
<1>1. x \in Nat
  BY NatProduct, ActivationAssumption
<1>2. y \in Nat /\ y > 0
  BY ActivationAssumption
<1>. HIDE DEF x, y
<1>3. x \div y \in Int
  BY <1>1, <1>2
<1>4. Moved(a, total, c) = Max({1, x \div y})
  BY DEF Moved, x, y
<1>. QED
  BY <1>3, <1>4, MaxOfTwo

LEMMA WarmedFact ==
  ASSUME NEW stake \in Nat, NEW part \in Nat, part <= stake, NEW row \in Amounts,
         stake - part <= row.activating
  PROVE  /\ Warmed(stake, part, row) \in Nat /\ Warmed(stake, part, row) <= stake
         /\ stake = part => Warmed(stake, part, row) = stake
<1>1. CASE stake - part > 0
  <2>1. /\ stake - part \in Nat /\ row.activating \in Nat \ {0} /\ row.effective \in Nat
    BY <1>1 DEF Amounts
  <2>. DEFINE m == Moved(stake - part, row.activating, row.effective)
  <2>2. m \in Nat
    BY <2>1, MovedFact
  <2>. HIDE DEF m
  <2>3. Warmed(stake, part, row) = Min({stake, part + m})
    BY <1>1 DEF Warmed, m
  <2>4. Min({stake, part + m}) = IF stake <= part + m THEN stake ELSE part + m
    BY <2>2, MinOfTwo, part + m \in Nat
  <2>. QED
    BY <1>1, <2>2, <2>3, <2>4
<1>2. CASE ~ (stake - part > 0)
  BY <1>2 DEF Warmed
<1>. QED
  BY <1>1, <1>2

LEMMA CooledFact ==
  ASSUME NEW part \in Nat, NEW row \in Amounts, part <= row.deactivating
  PROVE  /\ Cooled(part, row) \in Nat /\ Cooled(part, row) <= part
<1>1. CASE part > 0
  <2>1. row.deactivating \in Nat \ {0} /\ row.effective \in Nat
    BY <1>1 DEF Amounts
  <2>. DEFINE m == Moved(part, row.deactivating, row.effective)
  <2>2. m \in Nat
    BY <2>1, MovedFact
  <2>. HIDE DEF m
  <2>3. Cooled(part, row) = Max({0, part - m})
    BY <1>1 DEF Cooled, m
  <2>4. Max({0, part - m}) = IF 0 >= part - m THEN 0 ELSE part - m
    BY <2>2, MaxOfTwo, part - m \in Int
  <2>. QED
    BY <1>1, <2>2, <2>3, <2>4
<1>2. CASE ~ (part > 0)
  BY <1>2 DEF Cooled
<1>. QED
  BY <1>1, <1>2

\* Two functions that agree at a, and at every step on from where they agree,
\* agree up to b.
LEMMA Along ==
  ASSUME NEW a \in Nat, NEW b \in Nat, a <= b, NEW f, NEW g, f[a] = g[a],
         \A e \in a .. b : e < b /\ f[e] = g[e] => f[e + 1] = g[e + 1]
  PROVE  \A e \in a .. b : f[e] = g[e]
<1>. DEFINE T == {e \in a .. b : f[e] # g[e]}
<1>. SUFFICES ASSUME T # {} PROVE FALSE
  OBVIOUS
<1>. DEFINE m == Min(T)
<1>1. m \in T /\ \A e \in T : m <= e
  BY Least, T \subseteq Nat
<1>. HIDE DEF m
<1>2. m \in a .. b /\ m # a /\ f[m] # g[m]
  BY <1>1
<1>3. m - 1 \in a .. b /\ m - 1 < b /\ m - 1 \notin T
  BY <1>1, <1>2
<1>. QED
  BY <1>2, <1>3, (m - 1) + 1 = m

\* A function that keeps v from one epoch to the next keeps it up to b.
LEMMA Keeps ==
  ASSUME NEW a \in Nat, NEW b \in Nat, a <= b, NEW f, NEW v, f[a] = v,
         \A e \in a .. b : e < b /\ f[e] = v => f[e + 1] = v
  PROVE  f[b] = v
<1>. DEFINE g == [e \in a .. b |-> v]
<1>1. \A e \in a .. b : f[e] = g[e]
  <2>1. \A e \in a .. b : g[e] = v
    OBVIOUS
  <2>2. f[a] = g[a]
    BY <2>1
  <2>3. \A e \in a .. b : e < b /\ f[e] = g[e] => f[e + 1] = g[e + 1]
    BY <2>1, \A e \in a .. b : e < b => e + 1 \in a .. b
  <2>. HIDE DEF g
  <2>. QED
    BY <2>2, <2>3, Along
<1>. QED
  BY <1>1

-----------------------------------------------------------------------------
(* The package's walks *)

\* Where the warmup is walked, the turn of its loop is what the chain does.
WarmTurn(stake, part, row) == Min({stake, part + Moved(stake - part, row.activating, row.effective)})

LEMMA WarmTurnFact ==
  ASSUME NEW stake \in Nat, NEW part \in Nat, part <= stake, NEW row \in Amounts,
         row.activating # 0
  PROVE  WarmTurn(stake, part, row) = Warmed(stake, part, row)
<1>1. CASE stake - part > 0
  BY <1>1 DEF WarmTurn, Warmed
<1>2. CASE part = stake
  <2>1. row.activating \in Nat \ {0} /\ row.effective \in Nat /\ stake - part \in Nat
    BY <1>2 DEF Amounts
  <2>. DEFINE m == Moved(stake - part, row.activating, row.effective)
  <2>2. m \in Nat
    BY <2>1, MovedFact
  <2>3. WarmTurn(stake, part, row) = Min({stake, part + m})
    BY DEF WarmTurn
  <2>. HIDE DEF m
  <2>4. Min({stake, part + m}) = IF stake <= part + m THEN stake ELSE part + m
    BY <2>2, MinOfTwo, part + m \in Nat
  <2>. QED
    BY <1>2, <2>2, <2>3, <2>4 DEF Warmed
<1>. QED
  BY <1>1, <1>2

IsWarmWalk(at, stake, a, last, h) ==
  at = [e \in a .. last |-> IF e = a THEN 0 ELSE WarmTurn(stake, at[e - 1], h[e - 1])]

WarmSolution(stake, a, last, h) == CHOOSE at : IsWarmWalk(at, stake, a, last, h)

LEMMA WarmedUpDef ==
  ASSUME NEW stake, NEW acc, NEW target
  PROVE  WarmedUp(stake, acc, target) =
           WarmSolution(stake, acc.activation, WarmupEnd(acc, target), read.history)
             [WarmupEnd(acc, target)]
  BY DEF WarmedUp, WarmSolution, IsWarmWalk, WarmTurn

\* The recursion has one solution, the chain's own effective stake.
LEMMA WarmWalkUnique ==
  ASSUME NEW stake, NEW a \in Nat, NEW last \in Nat, a <= last, NEW h, NEW g, NEW w,
         IsWarmWalk(g, stake, a, last, h), IsWarmWalk(w, stake, a, last, h)
  PROVE  w[last] = g[last]
<1>1. w[a] = g[a]
  BY DEF IsWarmWalk
<1>2. \A f \in a .. last : f < last /\ w[f] = g[f] => w[f + 1] = g[f + 1]
  <2>. TAKE f \in a .. last
  <2>. HAVE f < last /\ w[f] = g[f]
  <2>1. f + 1 \in a .. last /\ f + 1 # a /\ (f + 1) - 1 = f
    OBVIOUS
  <2>2. w[f + 1] = WarmTurn(stake, w[f], h[f]) /\ g[f + 1] = WarmTurn(stake, g[f], h[f])
    BY <2>1 DEF IsWarmWalk
  <2>. QED
    BY <2>2
<1>3. \A f \in a .. last : w[f] = g[f]
  BY <1>1, <1>2, Along
<1>. QED
  BY <1>3

\* From nothing at a, and row by row up to last, e is what the chain does.
WarmPath(stake, a, last, h, e) ==
  /\ e[a] = 0
  /\ \A f \in a .. last : f < last =>
       /\ e[f] \in Nat /\ e[f] <= stake
       /\ h[f] \in Amounts /\ h[f].activating # 0
       /\ e[f + 1] = Warmed(stake, e[f], h[f])

LEMMA WarmWalk ==
  ASSUME NEW stake \in Nat, NEW a \in Nat, NEW last \in Nat, a <= last, NEW h, NEW e,
         WarmPath(stake, a, last, h, e)
  PROVE  WarmSolution(stake, a, last, h)[last] = e[last]
<1>. DEFINE g == [f \in a .. last |-> e[f]]
            w == WarmSolution(stake, a, last, h)
<1>1. e[a] = 0 /\ \A f \in a .. last : f < last => e[f + 1] = WarmTurn(stake, e[f], h[f])
  BY WarmTurnFact DEF WarmPath
<1>2. IsWarmWalk(g, stake, a, last, h)
  <2>1. ASSUME NEW f \in a .. last, f # a
        PROVE  g[f] = WarmTurn(stake, g[f - 1], h[f - 1])
    <3>1. f - 1 \in a .. last /\ f - 1 < last /\ (f - 1) + 1 = f
      BY <2>1
    <3>. QED
      BY <1>1, <3>1
  <2>2. g[a] = 0
    BY <1>1
  <2>3. g = [f \in a .. last |-> g[f]]
    OBVIOUS
  <2>. HIDE DEF g
  <2>. QED
    BY <2>1, <2>2, <2>3 DEF IsWarmWalk
<1>3. IsWarmWalk(w, stake, a, last, h)
  <2>. HIDE DEF g
  <2>. QED
    BY <1>2 DEF WarmSolution
<1>. HIDE DEF g, w
<1>4. w[last] = g[last]
  BY <1>2, <1>3, WarmWalkUnique
<1>. QED
  BY <1>4 DEF w, g

CoolTurn(part, row) == Max({0, part - Moved(part, row.deactivating, row.effective)})

LEMMA CoolTurnFact ==
  ASSUME NEW part \in Nat, NEW row \in Amounts, row.deactivating # 0
  PROVE  CoolTurn(part, row) = Cooled(part, row)
<1>1. CASE part > 0
  BY <1>1 DEF CoolTurn, Cooled
<1>2. CASE part = 0
  <2>1. row.deactivating \in Nat \ {0} /\ row.effective \in Nat
    BY DEF Amounts
  <2>. DEFINE m == Moved(part, row.deactivating, row.effective)
  <2>2. m \in Nat
    BY <2>1, MovedFact
  <2>3. CoolTurn(part, row) = Max({0, part - m})
    BY DEF CoolTurn
  <2>. HIDE DEF m
  <2>4. Max({0, part - m}) = IF 0 >= part - m THEN 0 ELSE part - m
    BY <2>2, MaxOfTwo, part - m \in Int
  <2>. QED
    BY <1>2, <2>2, <2>3, <2>4 DEF Cooled
<1>. QED
  BY <1>1, <1>2

IsCoolWalk(at, from, d, last, h) ==
  at = [e \in d .. last |-> IF e = d THEN from ELSE CoolTurn(at[e - 1], h[e - 1])]

CoolSolution(from, d, last, h) == CHOOSE at : IsCoolWalk(at, from, d, last, h)

CooldownEnd(acc, target) ==
  Min({target} \cup
      {e \in acc.deactivation .. target :
         e \notin Rows \/ read.history[e].deactivating = 0})

LEMMA CooledDownDef ==
  ASSUME NEW from, NEW acc, NEW target
  PROVE  CooledDown(from, acc, target) =
           CoolSolution(from, acc.deactivation, CooldownEnd(acc, target), read.history)
             [CooldownEnd(acc, target)]
  BY DEF CooledDown, CoolSolution, IsCoolWalk, CoolTurn, CooldownEnd

LEMMA CoolWalkUnique ==
  ASSUME NEW from, NEW d \in Nat, NEW last \in Nat, d <= last, NEW h, NEW g, NEW w,
         IsCoolWalk(g, from, d, last, h), IsCoolWalk(w, from, d, last, h)
  PROVE  w[last] = g[last]
<1>1. w[d] = g[d]
  BY DEF IsCoolWalk
<1>2. \A f \in d .. last : f < last /\ w[f] = g[f] => w[f + 1] = g[f + 1]
  <2>. TAKE f \in d .. last
  <2>. HAVE f < last /\ w[f] = g[f]
  <2>1. f + 1 \in d .. last /\ f + 1 # d /\ (f + 1) - 1 = f
    OBVIOUS
  <2>2. w[f + 1] = CoolTurn(w[f], h[f]) /\ g[f + 1] = CoolTurn(g[f], h[f])
    BY <2>1 DEF IsCoolWalk
  <2>. QED
    BY <2>2
<1>3. \A f \in d .. last : w[f] = g[f]
  BY <1>1, <1>2, Along
<1>. QED
  BY <1>3

CoolPath(from, d, last, h, e) ==
  /\ e[d] = from
  /\ \A f \in d .. last : f < last =>
       /\ e[f] \in Nat /\ h[f] \in Amounts /\ h[f].deactivating # 0
       /\ e[f + 1] = Cooled(e[f], h[f])

LEMMA CoolWalk ==
  ASSUME NEW from, NEW d \in Nat, NEW last \in Nat, d <= last, NEW h, NEW e,
         CoolPath(from, d, last, h, e)
  PROVE  CoolSolution(from, d, last, h)[last] = e[last]
<1>. DEFINE g == [f \in d .. last |-> e[f]]
            w == CoolSolution(from, d, last, h)
<1>1. e[d] = from /\ \A f \in d .. last : f < last => e[f + 1] = CoolTurn(e[f], h[f])
  BY CoolTurnFact DEF CoolPath
<1>2. IsCoolWalk(g, from, d, last, h)
  <2>1. ASSUME NEW f \in d .. last, f # d PROVE g[f] = CoolTurn(g[f - 1], h[f - 1])
    <3>1. f - 1 \in d .. last /\ f - 1 < last /\ (f - 1) + 1 = f
      BY <2>1
    <3>. QED
      BY <1>1, <3>1
  <2>2. g[d] = from
    BY <1>1
  <2>3. g = [f \in d .. last |-> g[f]]
    OBVIOUS
  <2>. HIDE DEF g
  <2>. QED
    BY <2>1, <2>2, <2>3 DEF IsCoolWalk
<1>3. IsCoolWalk(w, from, d, last, h)
  <2>. HIDE DEF g
  <2>. QED
    BY <1>2 DEF CoolSolution
<1>. HIDE DEF g, w
<1>4. w[last] = g[last]
  BY <1>2, <1>3, CoolWalkUnique
<1>. QED
  BY <1>4 DEF w, g

-----------------------------------------------------------------------------
(* The invariant holds *)

LEMMA StakeFact ==
  ASSUME NEW s \in StakeAccount
  PROVE  Stake[s] \in Nat /\ Stake[s] > 0
  BY ActivationAssumption

LEMMA KeptFact ==
  ASSUME NEW n \in Epoch
  PROVE  Kept(n) \subseteq 0 .. n - 1 /\ Kept(n) \subseteq Epoch
  BY ActivationAssumption DEF Kept, Epoch

LEMMA NoHistory ==
  /\ <<>> \in [{} -> Amounts] /\ <<>> \in [Kept(0) -> Amounts] /\ DOMAIN <<>> = {}
  /\ <<>> \in Histories
<1>1. <<>> \in [{} -> Amounts] /\ DOMAIN <<>> = {}
  OBVIOUS
<1>2. Kept(0) = {} /\ 0 \in Epoch
  BY ActivationAssumption DEF Kept, Epoch
<1>. QED
  BY <1>1, <1>2 DEF Histories

LEMMA UnreadFact == Unread \in ReadRec
  BY NoHistory, ActivationAssumption DEF Unread, ReadRec

LEMMA AccountRecs ==
  /\ Closed \in AccountRec /\ Initialized \in AccountRec
  /\ \A e \in Epoch : Delegated(e) \in AccountRec
  /\ Delegated(U64_MAX) \in AccountRec
  /\ Closed.kind = "none" /\ Initialized.kind = "Initialized"
  /\ \A e \in Moment : Delegated(e).kind = "Stake" /\ Delegated(e).activation = e
                         /\ Delegated(e).deactivation = U64_MAX
  /\ Closed.activation = U64_MAX /\ Closed.deactivation = U64_MAX
  /\ Initialized.activation = U64_MAX /\ Initialized.deactivation = U64_MAX
<1>1. U64_MAX \in Moment /\ Epoch \subseteq Moment
  BY ActivationAssumption DEF Moment, Epoch, U64_MAX
<1>2. /\ Closed \in AccountRec /\ Closed.kind = "none"
      /\ Closed.activation = U64_MAX /\ Closed.deactivation = U64_MAX
  BY <1>1 DEF AccountRec, Closed
<1>3. /\ Initialized \in AccountRec /\ Initialized.kind = "Initialized"
      /\ Initialized.activation = U64_MAX /\ Initialized.deactivation = U64_MAX
  BY <1>2 DEF Initialized, AccountRec
<1>4. ASSUME NEW e \in Moment
      PROVE  /\ Delegated(e) \in AccountRec /\ Delegated(e).kind = "Stake"
             /\ Delegated(e).activation = e /\ Delegated(e).deactivation = U64_MAX
  <2>. DEFINE c == [Closed EXCEPT !.kind = "Stake"]
  <2>1. c \in AccountRec /\ c.kind = "Stake" /\ c.deactivation = U64_MAX
    BY <1>2 DEF AccountRec
  <2>2. Delegated(e) = [c EXCEPT !.activation = e]
    BY DEF Delegated
  <2>. HIDE DEF c
  <2>. QED
    BY <2>1, <2>2 DEF AccountRec
<1>. QED
  BY <1>1, <1>2, <1>3, <1>4

LEMMA InitInv == ActivationInit => AInv
<1>. SUFFICES ASSUME ActivationInit PROVE AInv
  OBVIOUS
<1>. USE DEF ActivationInit
<1>1. ActivationTypeOK
  <2>1. epoch \in Epoch /\ epoch = 0
    BY ActivationAssumption DEF Epoch
  <2>2. account \in [StakeAccount -> AccountRec]
    BY AccountRecs
  <2>3. effective \in [StakeAccount -> [Epoch -> Nat]]
    BY StakeFact
  <2>. QED
    BY <2>1, <2>2, <2>3, NoHistory, UnreadFact DEF ActivationTypeOK
<1>2. \A s \in StakeAccount : StakeOf(account[s], Stake[s], effective[s], epoch)
  <2>. TAKE s \in StakeAccount
  <2>1. 0 .. epoch = {0} /\ 0 \in Epoch /\ U64_MAX \in Nat /\ U64_MAX > 0 /\ U64_MAX \in Moment
    BY ActivationAssumption DEF Epoch, U64_MAX, Moment
  <2>2. effective[s][0] = IF account[s].kind = "Stake" THEN Stake[s] ELSE 0
    BY <2>1
  <2>3. \/ account[s] = Initialized /\ effective[s][0] = 0
        \/ account[s] = Delegated(U64_MAX) /\ effective[s][0] = Stake[s]
    <3>1. account[s] \in {Initialized, Delegated(U64_MAX)}
      OBVIOUS
    <3>. QED
      BY <2>1, <2>2, <3>1, AccountRecs
  <2>. QED
    BY <2>1, <2>3, StakeFact, AccountRecs DEF StakeOf, By, SameEpoch
<1>3. RowsOf(history) /\ RowsOf(read.history)
  BY NoHistory DEF RowsOf, Unread
<1>4. ReadInv
  BY NoHistory, ActivationAssumption DEF ReadInv, Unread
<1>. QED
  BY <1>1, <1>2, <1>3, <1>4 DEF AInv, StakeInv

\* One account changes, and what the chain has done to its stake stays right.
LEMMA AccountStep ==
  ASSUME AInv, NEW s \in StakeAccount, NEW acc \in AccountRec,
         account' = [account EXCEPT ![s] = acc],
         UNCHANGED <<epoch, effective, history, read>>,
         StakeOf(acc, Stake[s], effective[s], epoch),
         \A f \in 0 .. epoch - 1, row \in Amounts :
           RowOf(account[s], Stake[s], effective[s], f, row)
             => RowOf(acc, Stake[s], effective[s], f, row)
  PROVE  AInv'
<1>. USE DEF AInv
<1>1. account \in [StakeAccount -> AccountRec]
  BY DEF ActivationTypeOK
<1>2. \A t \in StakeAccount : account'[t] = IF t = s THEN acc ELSE account[t]
  BY <1>1
<1>3. ActivationTypeOK'
  BY <1>1 DEF ActivationTypeOK
<1>4. StakeInv'
  BY <1>2 DEF StakeInv
<1>5. ASSUME NEW h, RowsOf(h), NEW n \in 0 .. epoch, NEW D \in SUBSET (0 .. n - 1), h \in [D -> Amounts]
      PROVE  \A t \in StakeAccount, f \in DOMAIN h :
               RowOf(account'[t], Stake[t], effective'[t], f, h[f])
  <2>. TAKE t \in StakeAccount, f \in DOMAIN h
  <2>1. f \in 0 .. epoch - 1 /\ h[f] \in Amounts
    <3>1. f \in D /\ h[f] \in Amounts
      BY <1>5
    <3>2. epoch \in Nat
      BY DEF ActivationTypeOK, Epoch
    <3>. QED
      BY <3>1, <3>2
  <2>2. RowOf(account[t], Stake[t], effective[t], f, h[f])
    BY <1>5 DEF RowsOf
  <2>. QED
    BY <1>2, <2>1, <2>2
<1>6. RowsOf(history)'
  <2>1. epoch \in 0 .. epoch /\ Kept(epoch) \subseteq 0 .. epoch - 1 /\ history \in [Kept(epoch) -> Amounts]
    BY KeptFact DEF ActivationTypeOK, Epoch
  <2>2. \A t \in StakeAccount, f \in DOMAIN history :
          RowOf(account'[t], Stake[t], effective'[t], f, history[f])
    BY <1>5, <2>1
  <2>. QED
    BY <2>2 DEF RowsOf
<1>7. RowsOf(read.history)'
  <2>. DEFINE D == IF read.readIn = -1 THEN {} ELSE Kept(read.readIn)
              n == IF read.readIn = -1 THEN 0 ELSE read.readIn
  <2>1. n \in 0 .. epoch /\ D \subseteq 0 .. n - 1
    BY KeptFact DEF ActivationTypeOK, ReadInv, ReadRec, Epoch
  <2>2. read.history \in [D -> Amounts]
    BY DEF ReadInv
  <2>. HIDE DEF D, n
  <2>3. \A t \in StakeAccount, f \in DOMAIN read.history :
          RowOf(account'[t], Stake[t], effective'[t], f, read.history[f])
    BY <1>5, <2>1, <2>2
  <2>. QED
    BY <2>3 DEF RowsOf
<1>8. ReadInv'
  BY DEF ReadInv
<1>. QED
  BY <1>3, <1>4, <1>6, <1>7, <1>8

LEMMA EpochFact ==
  ASSUME AInv
  PROVE  /\ epoch \in Nat /\ epoch <= MaxEpoch /\ MaxEpoch \in Nat /\ epoch \in Moment
         /\ U64_MAX = MaxEpoch + 1 /\ U64_MAX \in Moment /\ epoch \in 0 .. epoch
  BY ActivationAssumption DEF AInv, ActivationTypeOK, Epoch, U64_MAX, Moment

LEMMA AccountFields ==
  ASSUME AInv, NEW s \in StakeAccount
  PROVE  /\ account[s] \in AccountRec
         /\ account[s].activation \in Moment /\ account[s].deactivation \in Moment
         /\ StakeOf(account[s], Stake[s], effective[s], epoch)
         /\ \A f \in Epoch : effective[s][f] \in Nat
  BY DEF AInv, ActivationTypeOK, AccountRec, StakeInv

LEMMA DelegateStep ==
  ASSUME AInv, NEW s \in StakeAccount, Delegate(s)
  PROVE  AInv'
<1>1. Delegated(epoch) \in AccountRec /\ epoch \in Moment
  BY AccountRecs, EpochFact DEF AInv, ActivationTypeOK
<1>. DEFINE acc == Delegated(epoch)
<1>2. acc.kind = "Stake" /\ acc.activation = epoch /\ acc.deactivation = U64_MAX
  BY <1>1, AccountRecs
<1>3. account[s].kind = "Initialized"
  BY DEF Delegate
<1>. HIDE DEF acc
<1>4. StakeOf(acc, Stake[s], effective[s], epoch)
  BY <1>2, <1>3, AccountFields, EpochFact, StakeFact DEF StakeOf, By, SameEpoch
<1>5. \A f \in 0 .. epoch - 1, row \in Amounts : RowOf(acc, Stake[s], effective[s], f, row)
  BY <1>2, EpochFact DEF RowOf
<1>. QED
  BY <1>1, <1>4, <1>5, AccountStep DEF Delegate, acc

LEMMA DeactivateStep ==
  ASSUME AInv, NEW s \in StakeAccount, Deactivate(s)
  PROVE  AInv'
<1>. DEFINE acc == [account[s] EXCEPT !.deactivation = epoch]
<1>1. /\ acc \in AccountRec /\ acc.kind = account[s].kind
      /\ acc.activation = account[s].activation /\ acc.deactivation = epoch
  BY AccountFields, EpochFact DEF AccountRec
<1>2. account[s].kind = "Stake" /\ account[s].deactivation = U64_MAX
  BY DEF Deactivate
<1>3. account' = [account EXCEPT ![s] = acc]
  BY DEF Deactivate
<1>. HIDE DEF acc
<1>4. StakeOf(acc, Stake[s], effective[s], epoch)
  BY <1>1, <1>2, AccountFields, EpochFact DEF StakeOf, By, SameEpoch, Moment
<1>5. \A f \in 0 .. epoch - 1, row \in Amounts :
        RowOf(account[s], Stake[s], effective[s], f, row) => RowOf(acc, Stake[s], effective[s], f, row)
  BY <1>1, <1>2, EpochFact DEF RowOf
<1>. QED
  BY <1>1, <1>3, <1>4, <1>5, AccountStep DEF Deactivate

LEMMA WithdrawStep ==
  ASSUME AInv, NEW s \in StakeAccount, Withdraw(s)
  PROVE  AInv'
<1>1. Closed.kind = "none" /\ Closed \in AccountRec
  BY AccountRecs
<1>2. StakeOf(Closed, Stake[s], effective[s], epoch)
  BY <1>1, AccountRecs DEF StakeOf, By
<1>3. \A f \in 0 .. epoch - 1, row \in Amounts : RowOf(Closed, Stake[s], effective[s], f, row)
  BY <1>1 DEF RowOf
<1>. QED
  BY <1>1, <1>2, <1>3, AccountStep DEF Withdraw

\* The stake that is still to move is a part of the row.
LEMMA RowFact ==
  ASSUME AInv, NEW rest \in Rest
  PROVE  /\ Row(rest) \in Amounts
         /\ \A s \in StakeAccount :
              /\ WarmingUp(s) \in Nat /\ WarmingUp(s) <= Row(rest).activating
              /\ CoolingDown(s) \in Nat /\ CoolingDown(s) <= Row(rest).deactivating
<1>1. ASSUME NEW s \in StakeAccount
      PROVE  effective[s][epoch] \in Nat /\ WarmingUp(s) \in Nat /\ CoolingDown(s) \in Nat
  <2>1. effective[s][epoch] \in Nat
    BY <1>1, AccountFields DEF AInv, ActivationTypeOK
  <2>2. account[s].kind = "Stake" => effective[s][epoch] <= Stake[s]
    BY <1>1, AccountFields, EpochFact DEF StakeOf
  <2>. QED
    BY <2>1, <2>2, StakeFact DEF WarmingUp, CoolingDown, Deactivated
<1>2. ASSUME NEW f, f \in [StakeAccount -> Nat]
      PROVE  SumFunction(f) \in Nat /\ \A s \in StakeAccount : f[s] <= SumFunction(f)
  <2>1. DOMAIN f = StakeAccount /\ \A s \in StakeAccount : f[s] \in Nat
    BY <1>2
  <2>2. IsFiniteSet(StakeAccount)
    BY ActivationAssumption
  <2>3. SumFunction(f) = SumFunctionOnSet(f, StakeAccount)
    BY <2>1 DEF SumFunction
  <2>4. SumFunctionOnSet(f, StakeAccount) \in Nat
    BY <2>1, <2>2, SumInNat
  <2>5. ASSUME NEW s \in StakeAccount PROVE f[s] <= SumFunctionOnSet(f, StakeAccount)
    <3>1. SumFunctionOnSet(f, StakeAccount) = f[s] + SumFunctionOnSet(f, StakeAccount \ {s})
      BY <2>1, <2>2, SumTerm
    <3>2. SumFunctionOnSet(f, StakeAccount \ {s}) \in Nat
      BY <2>1, <2>2, FS_Subset, SumInNat
    <3>. QED
      BY <2>1, <3>1, <3>2
  <2>. QED
    BY <2>3, <2>4, <2>5
<1>. DEFINE e == [s \in StakeAccount |-> effective[s][epoch]]
            w == [s \in StakeAccount |-> WarmingUp(s)]
            c == [s \in StakeAccount |-> CoolingDown(s)]
<1>3. /\ e \in [StakeAccount -> Nat] /\ w \in [StakeAccount -> Nat] /\ c \in [StakeAccount -> Nat]
      /\ \A s \in StakeAccount : w[s] = WarmingUp(s) /\ c[s] = CoolingDown(s)
  BY <1>1
<1>4. Row(rest) = [effective |-> rest.effective + SumFunction(e),
                   activating |-> rest.activating + SumFunction(w),
                   deactivating |-> rest.deactivating + SumFunction(c)]
  BY DEF Row
<1>. HIDE DEF e, w, c
<1>5. rest.effective \in Nat /\ rest.activating \in Nat /\ rest.deactivating \in Nat
  BY ActivationAssumption
<1>6. SumFunction(e) \in Nat /\ SumFunction(w) \in Nat /\ SumFunction(c) \in Nat
  BY <1>2, <1>3
<1>7. \A s \in StakeAccount : w[s] <= SumFunction(w) /\ c[s] <= SumFunction(c)
  BY <1>2, <1>3
<1>8. Row(rest) \in Amounts
  BY <1>4, <1>5, <1>6 DEF Amounts
<1>9. ASSUME NEW s \in StakeAccount
      PROVE  WarmingUp(s) <= Row(rest).activating /\ CoolingDown(s) <= Row(rest).deactivating
  BY <1>1, <1>3, <1>4, <1>5, <1>6, <1>7
<1>. QED
  BY <1>1, <1>8, <1>9

\* The chain's step in terms of one account.
LEMMA NextEffective ==
  ASSUME AInv, NEW rest \in Rest, NEW s \in StakeAccount
  PROVE  LET acc == account[s]
             part == effective[s][epoch]
             next == Next_effective(s, Row(rest))
         IN  /\ acc.kind # "Stake" => next = part
             /\ acc.kind = "Stake" /\ epoch < acc.deactivation =>
                  Stake[s] - part <= Row(rest).activating /\ next = Warmed(Stake[s], part, Row(rest))
             /\ acc.kind = "Stake" /\ acc.deactivation <= epoch =>
                  part <= Row(rest).deactivating /\ next = Cooled(part, Row(rest))
<1>. DEFINE row == Row(rest)
            part == effective[s][epoch]
<1>1. /\ row \in Amounts /\ part \in Nat
      /\ WarmingUp(s) <= row.activating /\ CoolingDown(s) <= row.deactivating
  BY RowFact, AccountFields DEF AInv, ActivationTypeOK
<1>2. account[s].deactivation \in Nat /\ epoch \in Nat
  BY AccountFields, EpochFact DEF Moment
<1>. HIDE DEF row, part
<1>3. CASE account[s].kind # "Stake"
  <2>1. WarmingUp(s) = 0 /\ CoolingDown(s) = 0
    BY <1>3 DEF WarmingUp, CoolingDown, Deactivated
  <2>. QED
    BY <1>3, <2>1 DEF Next_effective, part
<1>4. CASE account[s].kind = "Stake" /\ epoch < account[s].deactivation
  <2>1. WarmingUp(s) = Stake[s] - part /\ CoolingDown(s) = 0
    BY <1>2, <1>4 DEF WarmingUp, CoolingDown, Deactivated, part
  <2>2. Next_effective(s, row) = Warmed(Stake[s], part, row)
    BY <2>1 DEF Next_effective, Warmed, part
  <2>. QED
    BY <1>1, <1>2, <1>4, <2>1, <2>2 DEF row, part
<1>5. CASE account[s].kind = "Stake" /\ account[s].deactivation <= epoch
  <2>1. WarmingUp(s) = 0 /\ CoolingDown(s) = part
    BY <1>2, <1>5 DEF WarmingUp, CoolingDown, Deactivated, part
  <2>2. Next_effective(s, row) = Cooled(part, row)
    BY <2>1 DEF Next_effective, Cooled, part
  <2>. QED
    BY <1>1, <1>2, <1>5, <2>1, <2>2 DEF row, part
<1>. QED
  BY <1>2, <1>3, <1>4, <1>5

LEMMA EpochStep ==
  ASSUME AInv, NEW rest \in Rest, EpochEnds(rest)
  PROVE  AInv'
<1>. DEFINE row == Row(rest)
            next(s) == Next_effective(s, row)
<1>1. /\ epoch \in Nat /\ epoch < MaxEpoch /\ epoch' = epoch + 1 /\ epoch' \in Epoch
      /\ epoch \in Epoch /\ MaxEpoch \in Nat /\ U64_MAX = MaxEpoch + 1
  BY EpochFact DEF EpochEnds, Epoch
<1>2. /\ UNCHANGED <<account, read>>
      /\ effective' = [s \in StakeAccount |-> [effective[s] EXCEPT ![epoch + 1] = next(s)]]
      /\ history' = [e \in {f \in 0 .. epoch : f > epoch - HistoryDepth} |->
                       IF e = epoch THEN row ELSE history[e]]
  BY DEF EpochEnds
<1>3. row \in Amounts
  BY RowFact
<1>. HIDE DEF row, next
<1>4. ASSUME NEW s \in StakeAccount
      PROVE  LET acc == account[s]
                 part == effective[s][epoch]
             IN  /\ part \in Nat /\ acc.activation \in Moment /\ acc.deactivation \in Moment
                 /\ acc.kind # "Stake" => next(s) = part
                 /\ acc.kind = "Stake" => part <= Stake[s]
                 /\ acc.kind = "Stake" /\ epoch < acc.deactivation =>
                      /\ Stake[s] - part <= row.activating /\ next(s) = Warmed(Stake[s], part, row)
                      /\ next(s) \in Nat /\ next(s) <= Stake[s]
                      /\ part = Stake[s] => next(s) = Stake[s]
                 /\ acc.kind = "Stake" /\ acc.deactivation <= epoch =>
                      /\ part <= row.deactivating /\ next(s) = Cooled(part, row)
                      /\ next(s) \in Nat /\ next(s) <= part
                 /\ next(s) \in Nat
  <2>. DEFINE acc == account[s]
              part == effective[s][epoch]
  <2>1. part \in Nat /\ acc.activation \in Moment /\ acc.deactivation \in Moment
    BY <1>1, AccountFields
  <2>2. acc.kind = "Stake" => part <= Stake[s]
    BY AccountFields, EpochFact DEF StakeOf
  <2>3. /\ acc.kind # "Stake" => next(s) = part
        /\ acc.kind = "Stake" /\ epoch < acc.deactivation =>
             Stake[s] - part <= row.activating /\ next(s) = Warmed(Stake[s], part, row)
        /\ acc.kind = "Stake" /\ acc.deactivation <= epoch =>
             part <= row.deactivating /\ next(s) = Cooled(part, row)
    BY NextEffective DEF row, next
  <2>4. Stake[s] \in Nat /\ (epoch < acc.deactivation \/ acc.deactivation <= epoch)
    BY <1>1, <2>1, StakeFact DEF Moment
  <2>. HIDE DEF part, acc
  <2>5. acc.kind = "Stake" /\ epoch < acc.deactivation =>
          next(s) \in Nat /\ next(s) <= Stake[s] /\ (part = Stake[s] => next(s) = Stake[s])
    BY <1>3, <2>1, <2>2, <2>3, StakeFact, WarmedFact
  <2>6. acc.kind = "Stake" /\ acc.deactivation <= epoch => next(s) \in Nat /\ next(s) <= part
    BY <1>3, <2>1, <2>3, CooledFact
  <2>7. next(s) \in Nat
    BY <2>1, <2>3, <2>4, <2>5, <2>6
  <2>. QED
    BY <2>1, <2>2, <2>3, <2>5, <2>6, <2>7 DEF acc, part
<1>5. effective \in [StakeAccount -> [Epoch -> Nat]]
  BY DEF AInv, ActivationTypeOK
<1>6. ASSUME NEW s \in StakeAccount
      PROVE  /\ effective'[s] \in [Epoch -> Nat]
             /\ \A f \in 0 .. epoch : effective'[s][f] = effective[s][f]
             /\ effective'[s][epoch + 1] = next(s)
  <2>1. effective'[s] = [effective[s] EXCEPT ![epoch + 1] = next(s)]
    BY <1>2
  <2>2. epoch + 1 \in Epoch /\ effective[s] \in [Epoch -> Nat] /\ next(s) \in Nat
    BY <1>1, <1>4, <1>5
  <2>3. \A f \in 0 .. epoch : f \in Epoch /\ f # epoch + 1
    BY <1>1 DEF Epoch
  <2>. HIDE DEF next
  <2>. QED
    BY <2>1, <2>2, <2>3
<1>7. history' \in [Kept(epoch') -> Amounts]
  <2>1. Kept(epoch') = {f \in 0 .. epoch : f > epoch - HistoryDepth}
    BY <1>1 DEF Kept
  <2>2. history \in [Kept(epoch) -> Amounts]
    BY DEF AInv, ActivationTypeOK
  <2>3. \A f \in Kept(epoch') : f # epoch => f \in Kept(epoch)
    BY <1>1, ActivationAssumption DEF Kept
  <2>. QED
    BY <1>2, <1>3, <2>1, <2>2, <2>3
<1>8. ActivationTypeOK'
  <2>1. effective' \in [StakeAccount -> [Epoch -> Nat]]
    <3>1. effective' = [s \in StakeAccount |-> effective'[s]]
      BY <1>2
    <3>. QED
      BY <1>6, <3>1
  <2>. QED
    BY <1>1, <1>2, <1>7, <2>1 DEF AInv, ActivationTypeOK
<1>9. ASSUME NEW s \in StakeAccount
      PROVE  StakeOf(account[s], Stake[s], effective'[s], epoch + 1)
  <2>1. StakeOf(account[s], Stake[s], effective[s], epoch)
    BY AccountFields
  <2>2. \A f \in 0 .. epoch + 1 : f \in 0 .. epoch \/ f = epoch + 1
    BY <1>1
  <2>3. Stake[s] \in Nat /\ Stake[s] > 0
    BY StakeFact
  <2>4. By(account[s], epoch + 1)
    BY <1>1, <1>4, <2>1 DEF StakeOf, By, Moment
  <2>5. account[s].kind = "Initialized" => \A f \in 0 .. epoch + 1 : effective'[s][f] = 0
    BY <1>1, <1>4, <1>6, <2>1, <2>2 DEF StakeOf
  <2>6. ASSUME account[s].kind = "Stake"
        PROVE  /\ \A f \in 0 .. epoch + 1 : effective'[s][f] <= Stake[s]
               /\ account[s].activation = U64_MAX => \A f \in 0 .. epoch + 1 :
                    f <= account[s].deactivation => effective'[s][f] = Stake[s]
               /\ account[s].activation # U64_MAX =>
                    /\ account[s].activation <= account[s].deactivation
                    /\ effective'[s][account[s].activation] = 0
               /\ SameEpoch(account[s]) => \A f \in 0 .. epoch + 1 :
                    f >= account[s].activation => effective'[s][f] = 0
    <3>1. effective'[s][epoch + 1] <= Stake[s]
      BY <1>1, <1>4, <1>6, <2>3, <2>6 DEF Moment
    <3>2. \A f \in 0 .. epoch + 1 : effective'[s][f] <= Stake[s]
      BY <1>6, <2>1, <2>2, <2>6, <3>1 DEF StakeOf
    <3>3. account[s].activation = U64_MAX => \A f \in 0 .. epoch + 1 :
            f <= account[s].deactivation => effective'[s][f] = Stake[s]
      <4>. SUFFICES ASSUME account[s].activation = U64_MAX, NEW f \in 0 .. epoch + 1,
                           f <= account[s].deactivation
                    PROVE  effective'[s][f] = Stake[s]
        OBVIOUS
      <4>1. CASE f \in 0 .. epoch
        BY <1>6, <2>1, <2>6, <4>1 DEF StakeOf
      <4>2. CASE f = epoch + 1
        <5>1. account[s].deactivation \in Nat
          BY <1>1, <1>4 DEF Moment
        <5>2. epoch < account[s].deactivation /\ epoch <= account[s].deactivation /\ epoch \in 0 .. epoch
          BY <1>1, <4>2, <5>1
        <5>3. effective[s][epoch] = Stake[s]
          BY <2>1, <2>6, <5>2 DEF StakeOf
        <5>. QED
          BY <1>4, <1>6, <2>6, <4>2, <5>2, <5>3
      <4>. QED
        BY <2>2, <4>1, <4>2
    <3>4. account[s].activation # U64_MAX =>
            /\ account[s].activation <= account[s].deactivation
            /\ effective'[s][account[s].activation] = 0
      BY <1>1, <1>4, <1>6, <2>1, <2>6 DEF StakeOf, By, Moment
    <3>5. SameEpoch(account[s]) => \A f \in 0 .. epoch + 1 :
            f >= account[s].activation => effective'[s][f] = 0
      <4>. SUFFICES ASSUME SameEpoch(account[s])
                    PROVE  \A f \in 0 .. epoch + 1 : f >= account[s].activation => effective'[s][f] = 0
        OBVIOUS
      <4>1. account[s].deactivation <= epoch /\ account[s].activation <= epoch
        BY <2>1 DEF SameEpoch, StakeOf, By
      <4>2. effective[s][epoch] = 0
        BY <1>1, <2>1, <2>6, <4>1 DEF StakeOf
      <4>3. next(s) = 0
        BY <1>4, <2>6, <4>1, <4>2
      <4>. QED
        BY <1>6, <2>1, <2>2, <2>6, <4>3 DEF StakeOf
    <3>. QED
      BY <3>2, <3>3, <3>4, <3>5
  <2>. QED
    BY <2>4, <2>5, <2>6 DEF StakeOf
<1>10. StakeInv'
  BY <1>1, <1>2, <1>9 DEF StakeInv
\* The rows of the past.
<1>11. ASSUME NEW s \in StakeAccount, NEW f \in 0 .. epoch - 1, NEW r,
              RowOf(account[s], Stake[s], effective[s], f, r)
       PROVE  RowOf(account'[s], Stake[s], effective'[s], f, r)
  <2>1. f \in 0 .. epoch /\ f + 1 \in 0 .. epoch
    BY <1>1
  <2>2. effective'[s][f] = effective[s][f] /\ effective'[s][f + 1] = effective[s][f + 1]
    BY <1>6, <2>1
  <2>. QED
    BY <1>2, <1>11, <2>2 DEF RowOf
<1>12. RowsOf(history)'
  <2>1. ASSUME NEW s \in StakeAccount, NEW f \in DOMAIN history'
        PROVE  RowOf(account'[s], Stake[s], effective'[s], f, history'[f])
    <3>1. f \in 0 .. epoch
      BY <1>2
    <3>2. CASE f = epoch
      <4>1. history'[f] = row
        BY <1>2, <3>2
      <4>2. epoch \in 0 .. epoch
        BY <1>1
      <4>. QED
        BY <1>1, <1>2, <1>4, <1>6, <3>2, <4>1, <4>2 DEF RowOf, Moment
    <3>3. CASE f # epoch
      <4>1. f \in 0 .. epoch - 1 /\ f \in Kept(epoch) /\ history'[f] = history[f]
        <5>1. f > epoch - HistoryDepth /\ history'[f] = history[f]
          BY <1>2, <3>3
        <5>2. HistoryDepth \in Nat
          BY ActivationAssumption
        <5>. QED
          BY <1>1, <3>1, <3>3, <5>1, <5>2 DEF Kept
      <4>2. DOMAIN history = Kept(epoch)
        BY DEF AInv, ActivationTypeOK
      <4>3. RowOf(account[s], Stake[s], effective[s], f, history[f])
        BY <4>1, <4>2 DEF AInv, RowsOf
      <4>. QED
        BY <1>11, <4>1, <4>3
    <3>. QED
      BY <3>2, <3>3
  <2>. QED
    BY <2>1 DEF RowsOf
<1>13. RowsOf(read.history)'
  <2>1. ASSUME NEW s \in StakeAccount, NEW f \in DOMAIN read.history
        PROVE  RowOf(account'[s], Stake[s], effective'[s], f, read.history[f])
    <3>1. read.readIn # -1 /\ f \in Kept(read.readIn)
      BY DEF AInv, ReadInv
    <3>2. read.readIn \in Epoch /\ read.readIn <= epoch
      BY <1>1, <3>1 DEF AInv, ActivationTypeOK, ReadInv, ReadRec, Epoch
    <3>3. f \in 0 .. epoch - 1
      BY <1>1, <3>1, <3>2, KeptFact DEF Epoch
    <3>4. RowOf(account[s], Stake[s], effective[s], f, read.history[f])
      BY DEF AInv, RowsOf
    <3>. QED
      BY <1>11, <3>3, <3>4
  <2>. QED
    BY <1>2, <2>1 DEF RowsOf
<1>14. ReadInv'
  <2>1. \A acc \in AccountRec : By(acc, epoch) => By(acc, epoch + 1)
    BY <1>1 DEF By, AccountRec, Moment
  <2>2. read.clock <= epoch + 1 /\ read.readIn <= epoch + 1
    BY <1>1 DEF AInv, ActivationTypeOK, ReadRec, ReadInv
  <2>. QED
    BY <1>1, <1>2, <2>1, <2>2 DEF AInv, ReadInv
<1>. QED
  BY <1>8, <1>10, <1>12, <1>13, <1>14 DEF AInv

LEMMA ReadStep ==
  ASSUME AInv, ReadAccounts \/ ReadClock \/ ReadHistory \/ Return
  PROVE  AInv'
<1>1. UNCHANGED <<epoch, account, effective, history>>
  BY DEF ReadAccounts, ReadClock, ReadHistory, Return
<1>2. /\ epoch \in Epoch /\ history \in [Kept(epoch) -> Amounts] /\ history \in Histories
      /\ -1 \in -1 .. MaxEpoch /\ epoch \in -1 .. MaxEpoch /\ read \in ReadRec
      /\ account \in [StakeAccount -> AccountRec] /\ MaxEpoch \in Nat
  BY EpochFact DEF AInv, ActivationTypeOK, Histories, Epoch
<1>3. \A s \in StakeAccount : By(account[s], epoch)
  BY AccountFields DEF StakeOf
<1>4. SUFFICES read' \in ReadRec /\ RowsOf(read'.history) /\ ReadInv'
  BY <1>1 DEF AInv, ActivationTypeOK, StakeInv, RowsOf
<1>5. CASE ReadAccounts
  <2>1. /\ read' = [read EXCEPT !.called = TRUE, !.accounts = account]
        /\ read.clock = -1 /\ read.readIn = -1
    BY <1>5 DEF ReadAccounts, AInv, ReadInv
  <2>. QED
    BY <1>1, <1>2, <1>3, <2>1 DEF ReadRec, AInv, ReadInv
<1>6. CASE ReadClock
  <2>1. read' = [read EXCEPT !.clock = epoch] /\ read.called /\ read.clock = -1
    BY <1>6 DEF ReadClock
  <2>2. epoch # -1 /\ epoch <= epoch
    BY <1>2 DEF Epoch
  <2>. QED
    BY <1>1, <1>2, <1>3, <2>1, <2>2 DEF ReadRec, AInv, ReadInv
<1>7. CASE ReadHistory
  <2>1. read' = [read EXCEPT !.history = history, !.readIn = epoch] /\ read.called
    BY <1>7 DEF ReadHistory
  <2>2. epoch # -1 /\ epoch <= epoch
    BY <1>2 DEF Epoch
  <2>. QED
    BY <1>1, <1>2, <1>3, <2>1, <2>2 DEF ReadRec, AInv, ReadInv
<1>8. CASE Return
  <2>1. read' = Unread
    BY <1>8 DEF Return
  <2>2. -1 <= epoch
    BY <1>2 DEF Epoch
  <2>. QED
    BY <1>1, <2>1, <2>2, NoHistory, UnreadFact DEF ReadInv, Unread, RowsOf
<1>. QED
  BY <1>5, <1>6, <1>7, <1>8

LEMMA NextInv == AInv /\ [ActivationNext]_activationVars => AInv'
<1>. SUFFICES ASSUME AInv, [ActivationNext]_activationVars PROVE AInv'
  OBVIOUS
<1>1. CASE UNCHANGED activationVars
  BY <1>1 DEF activationVars, AInv, ActivationTypeOK, StakeInv, RowsOf, ReadInv
<1>2. ASSUME NEW s \in StakeAccount, Delegate(s) \/ Deactivate(s) \/ Withdraw(s) PROVE AInv'
  BY <1>2, DelegateStep, DeactivateStep, WithdrawStep
<1>3. ASSUME NEW rest \in Rest, EpochEnds(rest) PROVE AInv'
  BY <1>3, EpochStep
<1>4. CASE ReadAccounts \/ ReadClock \/ ReadHistory \/ Return
  BY <1>4, ReadStep
<1>. QED
  BY <1>1, <1>2, <1>3, <1>4 DEF ActivationNext

THEOREM ActivationInvariance == ActivationSpec => []AInv
  BY InitInv, NextInv, PTL DEF ActivationSpec

-----------------------------------------------------------------------------
(* What the package computes *)

LEMMA LoadedFact ==
  ASSUME AInv, Loaded
  PROVE  /\ read.clock \in Nat /\ read.clock <= epoch /\ read.clock < U64_MAX
         /\ read.readIn \in Nat /\ read.readIn <= epoch /\ epoch \in Nat /\ epoch < U64_MAX
         /\ Rows = Kept(read.readIn)
         /\ \A f \in Rows : f \in 0 .. read.readIn - 1 /\ read.history[f] \in Amounts
         /\ \A f, g \in Nat : f \in Rows /\ f <= g /\ g < read.readIn => g \in Rows
         /\ \A s \in StakeAccount :
              read.accounts[s] \in AccountRec /\ By(read.accounts[s], read.clock)
         /\ RowsOf(read.history)
<1>1. /\ read.clock \in Epoch /\ read.clock <= epoch /\ read.readIn \in Epoch
      /\ read.readIn <= epoch /\ read.called
  BY DEF AInv, ActivationTypeOK, ReadInv, ReadRec, Loaded, Epoch
<1>2. read.history \in [Kept(read.readIn) -> Amounts]
  BY DEF AInv, ReadInv, Loaded
<1>3. Rows = Kept(read.readIn)
  BY <1>2 DEF Rows
<1>4. \A f \in Rows : f \in 0 .. read.readIn - 1 /\ read.history[f] \in Amounts
  BY <1>1, <1>2, <1>3, KeptFact
<1>5. \A f, g \in Nat : f \in Rows /\ f <= g /\ g < read.readIn => g \in Rows
  BY <1>1, <1>3, ActivationAssumption DEF Kept, Epoch
<1>6. \A s \in StakeAccount :
        read.accounts[s] \in AccountRec /\ By(read.accounts[s], read.clock)
  BY <1>1 DEF AInv, ReadInv, Loaded
<1>. QED
  BY <1>1, <1>3, <1>4, <1>5, <1>6, EpochFact DEF AInv, Epoch

\* An account that has not changed since it was read, and what is known of it.
Unchanged(s) ==
  /\ AInv /\ Loaded /\ s \in StakeAccount
  /\ account[s] = read.accounts[s] /\ account[s].kind = "Stake"

LEMMA StakeKnown ==
  ASSUME NEW s, Unchanged(s)
  PROVE  LET acc == account[s] IN
         /\ Stake[s] \in Nat /\ Stake[s] > 0
         /\ acc.activation \in Nat /\ acc.deactivation \in Nat
         /\ acc.activation <= read.clock \/ acc.activation = U64_MAX
         /\ acc.deactivation <= read.clock \/ acc.deactivation = U64_MAX
         /\ \A f \in 0 .. epoch : effective[s][f] \in Nat /\ effective[s][f] <= Stake[s]
         /\ acc.activation = U64_MAX => \A f \in 0 .. epoch :
              f <= acc.deactivation => effective[s][f] = Stake[s]
         /\ acc.activation # U64_MAX =>
              acc.activation <= acc.deactivation /\ effective[s][acc.activation] = 0
         /\ SameEpoch(acc) => \A f \in 0 .. epoch : f >= acc.activation => effective[s][f] = 0
         /\ \A f \in Rows : RowOf(acc, Stake[s], effective[s], f, read.history[f])
<1>. USE DEF Unchanged
<1>1. \A f \in 0 .. epoch : f \in Epoch
  BY EpochFact DEF Epoch
<1>2. account[s].activation \in Nat /\ account[s].deactivation \in Nat
  BY AccountFields, ActivationAssumption DEF Moment, U64_MAX
<1>3. By(account[s], read.clock)
  BY LoadedFact
<1>4. StakeOf(account[s], Stake[s], effective[s], epoch)
  BY AccountFields
<1>5. \A f \in Rows : RowOf(account[s], Stake[s], effective[s], f, read.history[f])
  BY DEF AInv, RowsOf, Rows
<1>6. \A f \in 0 .. epoch : effective[s][f] \in Nat
  BY <1>1, AccountFields
<1>. QED
  BY <1>2, <1>3, <1>4, <1>5, <1>6, StakeFact DEF By, StakeOf

\* The warmup walk ends in the epoch it is asked for, at the deactivation, or
\* where it stops, with what the chain has there.
LEMMA WarmedUpFact ==
  ASSUME NEW s, Unchanged(s), account[s].activation \in Rows,
         account[s].activation <= read.clock
  PROVE  \E last \in account[s].activation .. read.clock :
           /\ WarmedUp(Stake[s], account[s], read.clock) = effective[s][last]
           /\ last <= account[s].deactivation
           /\ \/ last = read.clock \/ last = account[s].deactivation
              \/ last \notin Rows \/ read.history[last].activating = 0
<1>. DEFINE acc == account[s]
            a == acc.activation
            d == acc.deactivation
            T == read.clock
            last == WarmupEnd(acc, T)
            e == effective[s]
            h == read.history
<1>1. /\ a \in Nat /\ d \in Nat /\ T \in Nat /\ a <= T /\ T <= epoch /\ epoch \in Nat
      /\ epoch < U64_MAX /\ a # U64_MAX /\ a <= d /\ e[a] = 0 /\ Stake[s] \in Nat
      /\ \A f \in 0 .. epoch : e[f] \in Nat /\ e[f] <= Stake[s]
      /\ \A f \in Rows : RowOf(acc, Stake[s], e, f, h[f]) /\ h[f] \in Amounts
  BY StakeKnown, LoadedFact DEF Unchanged
<1>2. acc.kind = "Stake"
  BY DEF Unchanged
<1>. HIDE DEF acc
<1>. DEFINE stops == WarmupStops(acc, T)
            ends == {T, d} \cup stops
<1>3. stops = {f \in a .. T : f \notin Rows \/ h[f].activating = 0}
  BY DEF WarmupStops
<1>. HIDE DEF stops
<1>4. ends \subseteq Nat /\ \A f \in ends : a <= f
  BY <1>1, <1>3
<1>5. last = Min(ends)
  BY DEF WarmupEnd, stops
<1>6. last \in ends /\ \A f \in ends : last <= f
  BY <1>4, <1>5, Least
<1>. HIDE DEF last
<1>7. last \in Nat /\ a <= last /\ last <= T /\ last <= d
  BY <1>1, <1>4, <1>6
<1>8. ASSUME NEW f \in a .. last, f < last
      PROVE  /\ e[f] \in Nat /\ e[f] <= Stake[s] /\ h[f] \in Amounts /\ h[f].activating # 0
             /\ e[f + 1] = Warmed(Stake[s], e[f], h[f])
  <2>1. f \in a .. T /\ f \notin stops /\ f \in 0 .. epoch /\ f < d
    BY <1>1, <1>6, <1>7, <1>8
  <2>2. f \in Rows /\ h[f].activating # 0
    BY <1>3, <2>1
  <2>. QED
    BY <1>1, <1>2, <1>8, <2>1, <2>2 DEF RowOf
<1>9. WarmSolution(Stake[s], a, last, h)[last] = e[last]
  <2>. HIDE DEF a, d, T, e, h, ends
  <2>1. WarmPath(Stake[s], a, last, h, e)
    BY <1>1, <1>8 DEF WarmPath
  <2>. QED
    BY <1>1, <1>7, <2>1, WarmWalk
<1>10. WarmedUp(Stake[s], acc, T) = e[last]
  BY <1>9, WarmedUpDef DEF last
<1>11. last = T \/ last = d \/ last \notin Rows \/ h[last].activating = 0
  BY <1>3, <1>6
<1>. QED
  BY <1>7, <1>10, <1>11 DEF acc

\* At a deactivation the package knows what the chain had warmed up.
LEMMA WarmAtDeactivation ==
  ASSUME NEW s, Unchanged(s), account[s].deactivation <= read.clock,
         read.clock <= read.readIn, LongEnough(s)
  PROVE  stakeAndActivating(Stake[s], account[s], read.clock).effective
           = effective[s][account[s].deactivation]
<1>. DEFINE acc == account[s]
            a == acc.activation
            d == acc.deactivation
            T == read.clock
            e == effective[s]
            h == read.history
<1>1. /\ a \in Nat /\ d \in Nat /\ T \in Nat /\ T <= epoch /\ epoch \in Nat
      /\ epoch < U64_MAX /\ (a <= T \/ a = U64_MAX) /\ d # U64_MAX /\ d \in 0 .. epoch
      /\ Stake[s] \in Nat /\ acc.kind = "Stake" /\ U64_MAX \in Nat /\ read.readIn \in Nat
  BY StakeKnown, LoadedFact, EpochFact DEF Unchanged
<1>2. CASE a = U64_MAX
  <2>1. e[d] = Stake[s]
    BY <1>1, <1>2, StakeKnown
  <2>. QED
    BY <1>2, <2>1 DEF stakeAndActivating
<1>3. CASE a # U64_MAX /\ a = d
  <2>1. SameEpoch(acc)
    BY <1>3 DEF SameEpoch
  <2>2. e[d] = 0
    BY <1>1, <1>3, <2>1, StakeKnown
  <2>. QED
    BY <1>3, <2>1, <2>2 DEF stakeAndActivating
<1>4. CASE a # U64_MAX /\ a # d
  <2>1. a < d /\ a < T /\ ~ SameEpoch(acc)
    BY <1>1, <1>4, StakeKnown DEF SameEpoch
  <2>2. stakeAndActivating(Stake[s], acc, T).effective =
          IF a \in Rows THEN WarmedUp(Stake[s], acc, T) ELSE Stake[s]
    BY <1>1, <1>4, <2>1 DEF stakeAndActivating
  <2>3. CASE a \notin Rows
    <3>1. Deactivated(acc, T)
      BY <1>1 DEF Deactivated
    <3>2. e[d] = Stake[s]
      BY <1>4, <2>1, <2>3, <3>1 DEF LongEnough
    <3>. QED
      BY <2>2, <2>3, <3>2
  <2>4. CASE a \in Rows
    <3>1. PICK last \in a .. T :
            /\ WarmedUp(Stake[s], acc, T) = e[last]
            /\ last <= d
            /\ last = T \/ last = d \/ last \notin Rows \/ h[last].activating = 0
      BY <1>1, <2>1, <2>4, WarmedUpFact
    <3>2. last \in Nat /\ a <= last /\ last <= T
      BY <1>1
    <3>3. CASE last = d
      BY <2>2, <2>4, <3>1, <3>3
    <3>4. CASE last < d
      <4>1. \A f \in last .. d : f < d => f \in Rows /\ f \in 0 .. epoch /\ a <= f
        BY <1>1, <2>4, <3>2, LoadedFact DEF Unchanged
      <4>2. last \in Rows /\ h[last].activating = 0
        BY <1>1, <3>1, <3>2, <3>4, <4>1
      <4>3. \A f \in last .. d : f < d =>
              /\ e[f] \in Nat /\ e[f] <= Stake[s] /\ h[f] \in Amounts
              /\ Stake[s] - e[f] <= h[f].activating
              /\ e[f + 1] = Warmed(Stake[s], e[f], h[f])
        BY <1>1, <4>1, StakeKnown, LoadedFact DEF RowOf, Unchanged
      <4>. HIDE DEF acc, a, d, T, e, h
      <4>4. e[last] = Stake[s]
        BY <1>1, <3>2, <3>4, <4>2, <4>3
      <4>5. \A f \in last .. d : f < d /\ e[f] = Stake[s] => e[f + 1] = Stake[s]
        BY <1>1, <4>3, WarmedFact
      <4>6. e[d] = Stake[s]
        BY <1>1, <3>2, <3>4, <4>4, <4>5, Keeps
      <4>. QED
        BY <2>2, <2>4, <3>1, <4>4, <4>6 DEF acc, a, d, T, e
    <3>. QED
      BY <1>1, <3>1, <3>2, <3>3, <3>4
  <2>. QED
    BY <2>3, <2>4
<1>. QED
  BY <1>2, <1>3, <1>4

\* After a deactivation the package knows what the chain has left.
LEMMA CooledDownFact ==
  ASSUME NEW s, Unchanged(s), account[s].deactivation < read.clock,
         read.clock <= read.readIn, account[s].deactivation \in Rows
  PROVE  CooledDown(effective[s][account[s].deactivation], account[s], read.clock)
           = effective[s][read.clock]
<1>. DEFINE acc == account[s]
            d == acc.deactivation
            T == read.clock
            last == CooldownEnd(acc, T)
            e == effective[s]
            h == read.history
<1>1. /\ d \in Nat /\ T \in Nat /\ d < T /\ T <= epoch /\ epoch \in Nat /\ acc.kind = "Stake"
      /\ \A f \in 0 .. epoch : e[f] \in Nat
      /\ \A f \in Rows : RowOf(acc, Stake[s], e, f, h[f]) /\ h[f] \in Amounts
  BY StakeKnown, LoadedFact DEF Unchanged
<1>2. \A f \in d .. T : f < T => f \in Rows /\ f \in 0 .. epoch
  BY <1>1, LoadedFact DEF Unchanged
<1>3. \A f \in d .. T : f < T =>
        /\ e[f] \in Nat /\ h[f] \in Amounts /\ e[f] <= h[f].deactivating
        /\ e[f + 1] = Cooled(e[f], h[f])
  BY <1>1, <1>2 DEF RowOf
<1>. HIDE DEF acc
<1>. DEFINE ends == {T} \cup {f \in d .. T : f \notin Rows \/ h[f].deactivating = 0}
<1>4. ends \subseteq d .. T /\ ends \subseteq Nat
  BY <1>1
<1>5. last = Min(ends)
  BY DEF CooldownEnd
<1>6. last \in ends /\ \A f \in ends : last <= f
  BY <1>4, <1>5, Least
<1>. HIDE DEF last
<1>7. last \in d .. T /\ last \in Nat
  BY <1>1, <1>4, <1>6
<1>8. \A f \in d .. last : f < last => h[f].deactivating # 0
  BY <1>1, <1>2, <1>6, <1>7
<1>9. last = T \/ h[last].deactivating = 0
  BY <1>1, <1>2, <1>6, <1>7
<1>. HIDE DEF d, T, e, h, ends
<1>10. CoolSolution(e[d], d, last, h)[last] = e[last]
  <2>1. CoolPath(e[d], d, last, h, e)
    BY <1>1, <1>3, <1>7, <1>8 DEF CoolPath
  <2>2. d \in Nat /\ last \in Nat /\ d <= last
    BY <1>1, <1>7
  <2>. QED
    BY <2>1, <2>2, CoolWalk
<1>11. CooledDown(e[d], acc, T) = e[last]
  BY <1>10, CooledDownDef DEF last, d, h
<1>12. CASE last = T
  BY <1>11, <1>12 DEF acc, d, T, e
<1>13. CASE last < T
  <2>1. e[last] = 0
    BY <1>1, <1>3, <1>7, <1>9, <1>13
  <2>2. \A f \in last .. T : f < T /\ e[f] = 0 => e[f + 1] = 0
    <3>. TAKE f \in last .. T
    <3>. HAVE f < T /\ e[f] = 0
    <3>1. f \in d .. T
      BY <1>1, <1>7
    <3>2. e[f + 1] = Cooled(e[f], h[f])
      BY <1>3, <3>1
    <3>. QED
      BY <3>2 DEF Cooled
  <2>3. last \in Nat /\ T \in Nat /\ last <= T
    BY <1>1, <1>7
  <2>4. e[T] = 0
    BY <2>1, <2>2, <2>3, Keeps
  <2>. QED
    BY <1>11, <2>1, <2>4 DEF acc, d, T, e
<1>. QED
  BY <1>1, <1>7, <1>12, <1>13

\* What the package makes of three parts.
Described(parts, all) ==
  IF parts.deactivating > 0 THEN [status |-> "Pending", amount |-> parts.deactivating]
  ELSE IF parts.activating > 0 \/ parts.effective > 0
  THEN [status |-> "Active", amount |-> parts.effective + parts.activating]
  ELSE [status |-> "Claimable", amount |-> all]

LEMMA DelegationFact ==
  ASSUME NEW s, Position(s) \in Amounts
  PROVE  Delegation(s) = Described(Position(s), lamports(s, read.accounts[s]))
<1>. DEFINE parts == Position(s)
<1>1. parts.deactivating \in Nat /\ parts.activating \in Nat /\ parts.effective \in Nat
  BY DEF Amounts
<1>2. Delegation(s) = [status |-> mapPositionStatus(deriveStatus(parts)),
                       amount |-> positionAmount(s, parts)]
  BY DEF Delegation
<1>. HIDE DEF parts
<1>3. CASE parts.deactivating > 0
  <2>1. mapPositionStatus(deriveStatus(parts)) = "Pending"
    BY <1>1, <1>3 DEF deriveStatus, mapPositionStatus
  <2>. QED
    BY <1>2, <1>3, <2>1 DEF positionAmount, Described, parts
<1>4. CASE parts.deactivating = 0 /\ (parts.activating > 0 \/ parts.effective > 0)
  <2>1. mapPositionStatus(deriveStatus(parts)) = "Active"
    BY <1>1, <1>4 DEF deriveStatus, mapPositionStatus
  <2>. QED
    BY <1>2, <1>4, <2>1 DEF positionAmount, Described, parts
<1>5. CASE parts.deactivating = 0 /\ ~ (parts.activating > 0 \/ parts.effective > 0)
  <2>1. mapPositionStatus(deriveStatus(parts)) = "Claimable"
    BY <1>1, <1>5 DEF deriveStatus, mapPositionStatus
  <2>. QED
    BY <1>2, <1>5, <2>1 DEF positionAmount, Described, parts
<1>. QED
  BY <1>1, <1>3, <1>4, <1>5

\* One position agrees with the chain.
LEMMA PositionAgrees ==
  ASSUME AInv, Loaded, NEW s \in StakeAccount, Comparable(s)
  PROVE  Delegation(s) = Truth(s, read.clock)
<1>. DEFINE acc == account[s]
            T == read.clock
            e == effective[s]
            parts == computeStakeActivation(Stake[s], acc, T)
<1>1. acc = read.accounts[s]
  BY DEF Comparable
<1>2. CASE acc.kind # "Stake"
  <2>1. Position(s) = [effective |-> 0, activating |-> 0, deactivating |-> 0]
    BY <1>1, <1>2 DEF Position
  <2>2. Delegation(s) = Described(Position(s), lamports(s, acc)) /\ Position(s) \in Amounts
    BY <1>1, <2>1, DelegationFact DEF Amounts
  <2>3. Delegation(s) = [status |-> "Claimable", amount |-> lamports(s, acc)]
    BY <2>1, <2>2 DEF Described
  <2>. QED
    BY <1>2, <2>3 DEF Truth, Deactivated
<1>3. CASE acc.kind = "Stake"
  <2>1. Unchanged(s)
    BY <1>1, <1>3 DEF Unchanged
  <2>2. /\ acc.activation \in Nat /\ acc.deactivation \in Nat /\ T \in Nat /\ U64_MAX \in Nat
        /\ acc.activation <= T \/ acc.activation = U64_MAX
        /\ acc.deactivation <= T \/ acc.deactivation = U64_MAX
        /\ T < U64_MAX /\ T \in 0 .. epoch /\ Stake[s] \in Nat /\ Stake[s] > 0
        /\ \A f \in 0 .. epoch : e[f] \in Nat /\ e[f] <= Stake[s]
        /\ acc.activation # U64_MAX => acc.activation <= acc.deactivation
    BY <2>1, StakeKnown, LoadedFact, EpochFact
  <2>3. Position(s) = parts
    BY <1>1, <1>3 DEF Position
  <2>4. CASE T < acc.deactivation
    <3>. DEFINE warm == stakeAndActivating(Stake[s], acc, T)
    <3>1. acc.deactivation = U64_MAX /\ ~ SameEpoch(acc) /\ ~ Deactivated(acc, T)
      BY <2>2, <2>4 DEF SameEpoch, Deactivated
    <3>2. warm.effective \in Nat /\ warm.activating \in Nat
          /\ warm.effective + warm.activating = Stake[s]
      <4>1. CASE acc.activation = U64_MAX
        BY <2>2, <4>1 DEF stakeAndActivating
      <4>2. CASE acc.activation # U64_MAX
        <5>. DEFINE w == IF T = acc.activation THEN 0
                         ELSE IF acc.activation \in Rows THEN WarmedUp(Stake[s], acc, T)
                         ELSE Stake[s]
        <5>1. w \in Nat /\ w <= Stake[s]
          <6>1. CASE T # acc.activation /\ acc.activation \in Rows
            <7>1. PICK last \in acc.activation .. T : WarmedUp(Stake[s], acc, T) = e[last]
              BY <2>1, <2>2, <4>2, <6>1, WarmedUpFact
            <7>2. last \in 0 .. epoch
              BY <2>2, EpochFact
            <7>. QED
              BY <2>2, <6>1, <7>1, <7>2
          <6>. QED
            BY <2>2, <6>1
        <5>2. warm = [effective |-> w, activating |-> Stake[s] - w]
          BY <2>2, <3>1, <4>2 DEF stakeAndActivating
        <5>. HIDE DEF w
        <5>. QED
          BY <2>2, <5>1, <5>2
      <4>. QED
        BY <4>1, <4>2
    <3>3. parts = [effective |-> warm.effective, activating |-> warm.activating, deactivating |-> 0]
      BY <2>4 DEF computeStakeActivation
    <3>. HIDE DEF warm, parts
    <3>4. parts \in Amounts
      BY <3>2, <3>3 DEF Amounts
    <3>5. Delegation(s) = Described(parts, lamports(s, acc))
      BY <1>1, <2>3, <3>4, DelegationFact
    <3>6. Delegation(s) = [status |-> "Active", amount |-> Stake[s]]
      BY <2>2, <3>2, <3>3, <3>5 DEF Described
    <3>. QED
      BY <1>3, <3>1, <3>6 DEF Truth
  <2>5. CASE acc.deactivation <= T
    <3>1. Deactivated(acc, T) /\ T <= read.readIn /\ LongEnough(s)
      BY <1>3, <2>5 DEF Deactivated, Comparable
    <3>2. stakeAndActivating(Stake[s], acc, T).effective = e[acc.deactivation]
      BY <2>1, <2>2, <2>5, <3>1, WarmAtDeactivation, LoadedFact
    <3>. DEFINE left == IF T = acc.deactivation THEN e[acc.deactivation]
                        ELSE IF acc.deactivation \in Rows
                        THEN CooledDown(e[acc.deactivation], acc, T)
                        ELSE 0
    <3>3. parts = [effective |-> left, activating |-> 0, deactivating |-> left]
      BY <2>2, <2>5, <3>2 DEF computeStakeActivation
    <3>4. left = e[T]
      <4>1. CASE T = acc.deactivation
        BY <4>1
      <4>2. CASE T # acc.deactivation /\ acc.deactivation \in Rows
        BY <2>1, <2>2, <2>5, <3>1, <4>2, CooledDownFact
      <4>3. CASE T # acc.deactivation /\ acc.deactivation \notin Rows
        BY <3>1, <4>3 DEF LongEnough
      <4>. QED
        BY <4>1, <4>2, <4>3
    <3>. HIDE DEF left, parts
    <3>5. e[T] \in Nat
      BY <2>2
    <3>6. parts \in Amounts
      BY <3>3, <3>4, <3>5 DEF Amounts
    <3>7. Delegation(s) = Described(parts, lamports(s, acc))
      BY <1>1, <2>3, <3>6, DelegationFact
    <3>8. Delegation(s) = IF e[T] > 0 THEN [status |-> "Pending", amount |-> e[T]]
                          ELSE [status |-> "Claimable", amount |-> lamports(s, acc)]
      BY <3>3, <3>4, <3>5, <3>7 DEF Described
    <3>. QED
      BY <1>3, <3>1, <3>8 DEF Truth
  <2>. QED
    BY <2>2, <2>4, <2>5
<1>. QED
  BY <1>2, <1>3

LEMMA TruthFact ==
  ASSUME AInv, Loaded, NEW s \in StakeAccount
  PROVE  /\ Truth(s, read.clock).amount \in Nat
         /\ lamports(s, account[s]) \in Nat
         /\ lamports(s, account[s]) = 0 =>
              Truth(s, read.clock) = [status |-> "Claimable", amount |-> 0]
<1>1. Stake[s] \in Nat /\ Stake[s] > 0 /\ RentExempt \in Nat
  BY StakeFact, ActivationAssumption
<1>2. lamports(s, account[s]) = IF account[s].kind = "none" THEN 0 ELSE Stake[s] + RentExempt
  BY DEF lamports
<1>3. read.clock \in Epoch
  BY LoadedFact, EpochFact DEF Epoch
<1>4. effective[s][read.clock] \in Nat
  BY <1>3, AccountFields
<1>. QED
  BY <1>1, <1>2, <1>4 DEF Truth, Deactivated

LEMMA Agreement == AInv => AgreesWithChain
<1>. SUFFICES ASSUME AInv, Loaded
              PROVE  /\ \A s \in DOMAIN Delegations :
                          Comparable(s) => Delegations[s] = Truth(s, read.clock)
                     /\ (\A s \in StakeAccount : Comparable(s)) =>
                          \A type \in {"Active", "Pending", "Claimable"} :
                            getBalances(Delegations)[type] =
                              SumFunction([s \in StakeAccount |->
                                LET true == Truth(s, read.clock)
                                IN  IF true.status = type THEN true.amount ELSE 0])
  BY DEF AgreesWithChain
<1>1. /\ DOMAIN Delegations = {t \in StakeAccount : lamports(t, read.accounts[t]) > 0}
      /\ \A s \in DOMAIN Delegations : s \in StakeAccount /\ Delegations[s] = Delegation(s)
  BY DEF Delegations
<1>2. ASSUME NEW s \in DOMAIN Delegations, Comparable(s)
      PROVE  Delegations[s] = Truth(s, read.clock)
  BY <1>1, <1>2, PositionAgrees
<1>3. ASSUME \A s \in StakeAccount : Comparable(s),
             NEW type \in {"Active", "Pending", "Claimable"}
      PROVE  getBalances(Delegations)[type] =
               SumFunction([s \in StakeAccount |->
                 LET true == Truth(s, read.clock)
                 IN  IF true.status = type THEN true.amount ELSE 0])
  <2>. DEFINE d == Delegations
              amounts == [s \in DOMAIN d |-> d[s].amount]
              S == {s \in DOMAIN d : d[s].status = type}
              true(s) == Truth(s, read.clock)
              g == [s \in StakeAccount |-> IF true(s).status = type THEN true(s).amount ELSE 0]
  <2>1. getBalances(d)[type] = SumFunctionOnSet(amounts, S)
    BY DEF getBalances
  <2>2. SumFunction(g) = SumFunctionOnSet(g, StakeAccount)
    BY DEF SumFunction
  <2>3. S \subseteq StakeAccount
    BY <1>1
  <2>4. ASSUME NEW s \in StakeAccount PROVE g[s] \in Nat
    BY TruthFact
  <2>5. ASSUME NEW s \in S PROVE amounts[s] = g[s]
    BY <1>1, <1>2, <1>3
  <2>6. ASSUME NEW s \in StakeAccount \ S PROVE g[s] = 0
    <3>1. CASE s \in DOMAIN d
      BY <1>2, <1>3, <3>1
    <3>2. CASE s \notin DOMAIN d
      <4>1. lamports(s, account[s]) = 0
        BY <1>1, <1>3, <3>2, TruthFact DEF Comparable
      <4>. QED
        BY <4>1, TruthFact
    <3>. QED
      BY <3>1, <3>2
  <2>7. IsFiniteSet(StakeAccount)
    BY ActivationAssumption
  <2>. HIDE DEF amounts, S, g
  <2>8. SumFunctionOnSet(amounts, S) = SumFunctionOnSet(g, StakeAccount)
    BY <2>3, <2>4, <2>5, <2>6, <2>7, SumSelected
  <2>9. getBalances(d)[type] = SumFunction(g)
    BY <2>1, <2>2, <2>8
  <2>. QED
    BY <2>9 DEF g
<1>. QED
  BY <1>2, <1>3

\* The status and the amount of a position, and the balances, are those of the
\* chain in the epoch of the clock that was read, for any stakes, rate, length
\* of the history and behaviour of the rest of the cluster.
THEOREM AgreesWithChainHolds == ActivationSpec => []AgreesWithChain
  BY ActivationInvariance, Agreement, PTL
=============================================================================
