--------------------------- MODULE SolanaDiscovery ---------------------------
(***************************************************************************)
(* How the Solana package finds the stake positions of a wallet            *)
(* (packages/solana/src/solana-chain/services/load-positions.ts):          *)
(* concurrent getDelegations and getBalances calls share a cache entry,    *)
(* and on a miss each runs a scan of its own over the seed-derived stake   *)
(* accounts, batch by batch, while the chain goes on.  Unlike the Tron     *)
(* loader, nothing dedups concurrent misses and nothing invalidates the    *)
(* entry when a transaction is sent.                                       *)
(*                                                                         *)
(* One authority is modelled: entries of different authorities do not      *)
(* interact.  A stake position is abstracted to the moment since which its *)
(* account has been as it is.  Decoding and the activation arithmetic add  *)
(* nothing to what is found or missed, and are left out.                   *)
(***************************************************************************)
EXTENDS Integers

CONSTANTS
  Caller,           \* concurrent calls of loadPositions
  Other,            \* stake accounts not derived from a seed
  SeedScanMax,      \* seedScanMax
  SeedScanGapLimit, \* seedScanGapLimit
  SEED_SCAN_BATCH,
  StakeCacheTtl,    \* stakeCacheTtlMs
  MaxChanges,       \* bound on the changes of accounts
  MaxTime           \* bound on the clock

ASSUME DiscoveryAssumption ==
  /\ SeedScanMax \in Nat
  /\ SeedScanGapLimit \in Nat \ {0}
  /\ SEED_SCAN_BATCH \in Nat \ {0}
  /\ StakeCacheTtl \in Nat
  /\ MaxChanges \in Nat
  /\ MaxTime \in Nat
  /\ Other \cap Int = {}

Seed == 0 .. SeedScanMax
Account == Seed \cup Other
LastBatch == SeedScanMax \div SEED_SCAN_BATCH

\* "stake": a stake account of the authority; "filtered": one of the stake
\* program that loadPositions drops after it has decoded it (foreign staker
\* or withdrawer, no lamports); "foreign": the account of another program.
Kind == {"none", "foreign", "filtered", "stake"}

VARIABLES
  now,        \* Date.now()
  chain,      \* the accounts: [kind, since]
  changes,    \* how many changes there have been
  enableGpa,  \* enableGpaFallback, fixed
  cache,      \* the entry of the authority: [found, begun, gpa, until]
  load        \* the calls of loadPositions

vars == <<now, chain, changes, enableGpa, cache, load>>

AccountInfo == [kind : Kind, since : Nat]
NoAccount == [kind |-> "none", since |-> 0]
NothingFound == [a \in Account |-> NoAccount]

\* A call: when it was made (called), when the scan that feeds its result
\* began (begun), which batch it awaits, the seeds it has seen taken, and
\* byAddress (found), the result itself once it has returned.
LoadRec ==
  [pc : {"idle", "scan", "gpa", "epoch", "returned", "threw"},
   called : Nat, begun : Nat, batch : 0 .. LastBatch, taken : SUBSET Seed,
   gpa : {"off", "ok", "failed"}, found : [Account -> AccountInfo]]

TypeOK ==
  /\ now \in Nat
  /\ chain \in [Account -> AccountInfo]
  /\ changes \in Nat
  /\ enableGpa \in BOOLEAN
  /\ cache \in [found : [Account -> AccountInfo], begun : Nat,
                gpa : {"off", "ok", "failed"}, until : Nat]
  /\ load \in [Caller -> LoadRec]

NoEntry == [found |-> NothingFound, begun |-> 0, gpa |-> "off", until |-> 0]

At(pc) ==
  [pc |-> pc, called |-> 0, begun |-> 0, batch |-> 0, taken |-> {},
   gpa |-> "off", found |-> NothingFound]

Init ==
  /\ now = 1
  /\ chain \in [Account -> [kind : Kind, since : {0}]]
  /\ changes = 0
  /\ enableGpa \in BOOLEAN
  /\ cache = NoEntry
  /\ load = [c \in Caller |-> At("idle")]

-----------------------------------------------------------------------------
(* The chain: transactions of this wallet or of others create accounts,    *)
(* delegate, deactivate, withdraw from and close them.                     *)

Change(a) ==
  /\ changes < MaxChanges
  /\ changes' = changes + 1
  /\ \E k \in Kind :
       /\ k # chain[a].kind \/ k = "stake"
       /\ chain' = [chain EXCEPT ![a] = [kind |-> k, since |-> now]]
  /\ UNCHANGED <<now, enableGpa, cache, load>>

Tick ==
  /\ now < MaxTime
  /\ now' = now + 1
  /\ UNCHANGED <<chain, changes, enableGpa, cache, load>>

-----------------------------------------------------------------------------
(* loadPositions *)

Live(entry) == now < entry.until

\* cache.get hits; the empty list is a hit like any other.
HitCall(c) ==
  /\ load[c].pc = "idle"
  /\ Live(cache)
  /\ load' = [load EXCEPT ![c] =
       [At("returned") EXCEPT !.called = now, !.begun = cache.begun,
                              !.gpa = cache.gpa, !.found = cache.found]]
  /\ UNCHANGED <<now, chain, changes, enableGpa, cache>>

\* Mutant of StartedScan: the scan starts from the positions last cached.
ResumedScan ==
  [At("scan") EXCEPT !.called = now, !.begun = now, !.found = cache.found]

StartedScan == [At("scan") EXCEPT !.called = now, !.begun = now]

\* A miss: get drops what has expired, and the first batch is requested.
MissCall(c) ==
  /\ load[c].pc = "idle"
  /\ ~ Live(cache)
  /\ load' = [load EXCEPT ![c] = StartedScan]
  /\ cache' = NoEntry
  /\ UNCHANGED <<now, chain, changes, enableGpa>>

\* The end of loadPositions: the positions are cached and returned.
Positions(found) ==
  [a \in Account |-> IF found[a].kind = "stake" THEN found[a] ELSE NoAccount]

Deliver(c, ld) ==
  /\ cache' = [found |-> Positions(ld.found), begun |-> ld.begun,
               gpa |-> ld.gpa, until |-> now + StakeCacheTtl]
  /\ load' = [load EXCEPT ![c] = [ld EXCEPT !.pc = "returned", !.found = Positions(@)]]

\* With nothing in byAddress the empty list is cached and returned at once;
\* otherwise the epoch and the stake history are awaited.
Discovered(c, ld) ==
  IF ld.found = NothingFound
  THEN Deliver(c, ld)
  ELSE /\ load' = [load EXCEPT ![c] = [ld EXCEPT !.pc = "epoch"]]
       /\ UNCHANGED cache

Slots(b) == {s \in Seed : b * SEED_SCAN_BATCH <= s /\ s < (b + 1) * SEED_SCAN_BATCH}

\* Mutant of Taken: the owner is tested before consecutiveEmpty is reset.
TakenByStake(b) == {s \in Slots(b) : chain[s].kind \in {"filtered", "stake"}}

Taken(b) == {s \in Slots(b) : chain[s].kind # "none"}

\* consecutiveEmpty reaches the gap limit at slot i, T being the seeds taken.
GapAt(i, T) ==
  /\ i + 1 >= SeedScanGapLimit
  /\ \A j \in i - SeedScanGapLimit + 1 .. i : j \notin T

\* Mutant of MoreBatches: `start <= seedMax` tested before the increment.
OneMoreBatch(b) == b * SEED_SCAN_BATCH <= SeedScanMax

MoreBatches(b) == (b + 1) * SEED_SCAN_BATCH <= SeedScanMax

\* A getMultipleAccounts batch, read at one moment: its slots are visited in
\* order up to the first at which the gap limit is reached.
BatchReply(c) ==
  /\ load[c].pc = "scan"
  /\ LET b == load[c].batch
         T == load[c].taken \cup Taken(b)
         visited == {s \in Slots(b) : \A i \in Slots(b) : i < s => ~ GapAt(i, T)}
         ld == [load[c] EXCEPT !.taken = T,
                  !.found = [a \in Account |->
                     IF a \in visited /\ chain[a].kind \in {"filtered", "stake"}
                     THEN chain[a] ELSE @[a]]]
         scanned == [ld EXCEPT !.batch = 0, !.taken = {}]
     IN  IF MoreBatches(b) /\ \A i \in Slots(b) : ~ GapAt(i, T)
         THEN /\ load' = [load EXCEPT ![c] = [ld EXCEPT !.batch = b + 1]]
              /\ UNCHANGED cache
         ELSE IF enableGpa
         THEN /\ load' = [load EXCEPT ![c] = [scanned EXCEPT !.pc = "gpa"]]
              /\ UNCHANGED cache
         ELSE Discovered(c, scanned)
  /\ UNCHANGED <<now, chain, changes, enableGpa>>

\* Mutant of Merged: the fallback only counts if the scan found nothing.
MergedIfEmpty(found) ==
  [a \in Account |-> IF found = NothingFound /\ chain[a].kind = "stake"
                     THEN chain[a] ELSE found[a]]

\* byAddress with the stake accounts of the authority it does not have yet.
Merged(found) ==
  [a \in Account |-> IF found[a] = NoAccount /\ chain[a].kind = "stake"
                     THEN chain[a] ELSE found[a]]

GpaReply(c) ==
  /\ load[c].pc = "gpa"
  /\ Discovered(c, [load[c] EXCEPT !.gpa = "ok", !.found = Merged(@)])
  /\ UNCHANGED <<now, chain, changes, enableGpa>>

\* A failure of the fallback is logged, and the load goes on without it.
GpaFails(c) ==
  /\ load[c].pc = "gpa"
  /\ Discovered(c, [load[c] EXCEPT !.gpa = "failed"])
  /\ UNCHANGED <<now, chain, changes, enableGpa>>

EpochReply(c) ==
  /\ load[c].pc = "epoch"
  /\ Deliver(c, load[c])
  /\ UNCHANGED <<now, chain, changes, enableGpa>>

\* A batch, or the epoch or the history, fails: loadPositions rejects.
Throw(c) ==
  /\ load[c].pc \in {"scan", "epoch"}
  /\ load' = [load EXCEPT ![c] = At("threw")]
  /\ UNCHANGED <<now, chain, changes, enableGpa, cache>>

\* The caller is done with the outcome, and may call again.
Forget(c) ==
  /\ load[c].pc \in {"returned", "threw"}
  /\ load' = [load EXCEPT ![c] = At("idle")]
  /\ UNCHANGED <<now, chain, changes, enableGpa, cache>>

LoadStep(c) ==
  \/ HitCall(c) \/ MissCall(c)
  \/ BatchReply(c) \/ GpaReply(c) \/ GpaFails(c) \/ EpochReply(c)
  \/ Throw(c) \/ Forget(c)

Next ==
  \/ \E a \in Account : Change(a)
  \/ \E c \in Caller : LoadStep(c)
  \/ Tick

Spec == Init /\ [][Next]_vars

-----------------------------------------------------------------------------
(* Properties *)

Returns(c) == load[c].pc # "returned" /\ load'[c].pc = "returned"

\* Account a has not changed since before time t.
Steady(a, t) == chain[a].since < t

\* Seed s holds a stake account that a scan begun at t cannot miss: no window
\* of SeedScanGapLimit seeds below s is without an account that has stayed.
Reachable(s, t) ==
  /\ chain[s].kind = "stake" /\ Steady(s, t)
  /\ \A i \in SeedScanGapLimit - 1 .. s - 1 :
       \E j \in i - SeedScanGapLimit + 1 .. i : chain[j].kind # "none" /\ Steady(j, t)

\* No position is a ghost: from the cache or from a scan, torn by whatever
\* happened between its batches, a position that is returned is the account
\* as it is now, unless the account changed after the scan began.
NoGhosts ==
  [][\A c \in Caller : Returns(c) =>
       \A a \in Account :
         load'[c].found[a] # NoAccount /\ Steady(a, load'[c].begun)
         => chain[a].kind = "stake" /\ load'[c].found[a] = chain[a]]_vars

\* The gap limit hides nothing else: a seed account below which every gap
\* stayed short is in the result, however the accounts around it came and went
\* between two batches.
NothingMissed ==
  [][\A c \in Caller : Returns(c) =>
       \A s \in Seed : Reachable(s, load'[c].begun) => load'[c].found[s] = chain[s]]_vars

\* With a getProgramAccounts answer merged in, no gap and no foreign creator
\* hides an account.
FallbackSeesAll ==
  [][\A c \in Caller : Returns(c) /\ load'[c].gpa = "ok" =>
       \A a \in Account :
         chain[a].kind = "stake" /\ Steady(a, load'[c].begun)
         => load'[c].found[a] = chain[a]]_vars

\* "After a successful stake-mutating tx: wait for confirmation, then re-query
\* (or wait for TTL)": a call made a whole StakeCacheTtl after an account
\* changed does not return the account as it was.
CurrentAfterTtl ==
  [][\A c \in Caller : Returns(c) =>
       \A a \in Account :
         /\ load'[c].found[a] # NoAccount
         /\ chain[a].since + StakeCacheTtl <= load'[c].called
         => load'[c].found[a] = chain[a]]_vars
=============================================================================
