# Guardian Stake SDK: TLA+ models

TLA+ specifications of the Guardian Stake SDK (`src/packages/*`), the TLC
configurations that check them on small instances, and TLAPS proofs of their
main properties for every value of the constants.

The SDK is a TypeScript library: one Node or browser process, one event loop,
no storage. What is hard in it is what happens *between* two awaits. Callers
overlap, share caches and promises, RPCs fail or answer late, and the chain
moves on while the SDK reads it in several requests. The models take one
uninterrupted run of JavaScript (a call up to its first await, a promise
callback, the settling of an RPC) as one step.

## 1. Inventory

Paths are relative to `src/packages/`.

| Component | State | Operations | What is hard | What makes it correct |
|---|---|---|---|---|
| SDK cache, `sdk/src/cache` | a Map of values with expiration | set, get, has, delete, clear, size | eviction is lazy; the expiry instant | no client can tell it from entries that vanish on time |
| SDK router, `sdk/src/sdk` | a Map of services by chain id, built once | one delegating method per operation | the last service wins on a repeated id | - |
| RPC transport, `sdk/src/rpc` | none | fetchOrError: axios with a 16 s timeout, no redirects | error status, no answer, timeout | every call settles |
| Tron witness load, `tron/.../staking-service.ts` | two TTL caches, two promises in flight | load, doLoad, getParams | concurrent misses, one of two RPCs failing, TTLs that add up | single flight, bounded age, no step back, no poisoned promise |
| Tron brokerage, same file | TTL cache and promises by SR | getBrokerageCached, enrichApr, mapWithConcurrency | overlapping pages, worker pool, failures | one fetch per SR, a failure reaches only who waited for it, input order kept |
| Tron positions, same file | none (arithmetic on one account) | scaleVotesToFrozen, splitRemainderByResource | votes beyond the frozen amount, rounding | positions sum to exactly what is frozen, and fairly |
| Tron balance, fee, validation | none | getBalances, estimateFee, assert* | the account checked is not the one the transaction meets | what was checked is refused only if something changed |
| Tron sign and build | none (private fields of the arguments) | sign, prehash, compile | external signer between two calls, expiry | a signature is only attached to what was signed |
| Tron broadcast, `tron/.../rpc` | none | broadcast | accepted, rejected, lost answer | the caller is told the truth |
| Solana discovery, `solana/.../load-positions.ts` | TTL cache by authority | loadPositions, seedScan, mergeGpaFallback | scans torn by changes of the chain, gap limit, concurrent misses, swallowed failure | nothing returned that never was; nothing hidden that stayed |
| Solana activation, `solana/.../state` | none | computeStakeActivation, decode | epoch borders, pruned history, clock and history read apart | status and amount are the chain's |
| Solana validators, delegations, balances | TTL cache of validator inputs | getValidators, getDelegations, getBalances | degraded inputs cached | views agree on one position list |
| Solana build, sign, fee, broadcast | none; the chain's blockhashes expire | buildUnsignedTx, sign, prehash, compile, broadcast | two builds on one free seed, lost answer, re-sign | a stake is not made twice unknowingly |
| BSC staking | two TTL caches | getValidators, getDelegations | count and entries of the unbond queue read apart; unhandled rejection | claim indices name the requests shown |
| BSC sign, fee, nonce, balance, broadcast | none | as named | shares rounded, rate that rises, nonces taken, external signer | everything undelegated leaves nothing; as for Tron |
| Cardano selection and body, `cardano/.../tx` | none | selectUtxos, selectUtxosPaged, buildBody | paging while UTXOs change; fee estimated before selection | inputs distinct and sufficient; body balances; the estimate pays |
| Cardano staking, balance, RPC, keys | none | reads | - | - |

**How they interact.** `GuardianSDK` routes a call to the service object of one
chain. Services of a chain share an RPC client; the Tron fee service asks the
Tron staking service for its witness map (the same cached load); Solana's
`getDelegations` and `getBalances` share one `loadPositions` cache. Chains
share nothing but code. Nothing is pushed to the SDK: all change outside is
seen through RPCs.

## 2. Modules

| Module | Models | Composes |
|---|---|---|
| `TtlCacheSpec` | the contract of the cache: entries vanish at their time | |
| `TtlCache` | `createInMemoryCache` with lazy eviction | implements `TtlCacheSpec` |
| `TronWitnessLoader` | `load`, `doLoad`, `getParams` | its caches are TTL entries |
| `MapWithConcurrency` | the worker pool `mapWithConcurrency` | |
| `TronBrokerage`, `MCTronBrokerage` | concurrent enrichments with brokerage cache and promises | each call implements `MapWithConcurrency` |
| `TronPositions` | the position arithmetic of `getDelegations` | |
| `SolanaDiscovery`, `MCSolanaDiscovery` | `loadPositions` over a chain that changes | its cache is a TTL entry |
| `SolanaSessions`, `MCSolanaSessions` | build, sign, broadcast and retry of concurrent callers | sessions, wallet, accounts and blockhashes |
| `SolanaActivation`, `MCSolanaActivation` | the walk over the stake history, positions and balances | the package's walk beside the chain's own |
| `CardanoSessions`, `MCCardanoSessions` | estimate, paged selection, body, signing, submission | sessions, wallet, account, mempool |
| `BscWallet`, `MCBscWallet` | staking transactions, and the listing of delegations | both over one chain |
| `TronSessions`, `MCTronSessions` | check, quote, build, sign, broadcast of concurrent callers | sessions, account, mempool |
| `BuildingBlocksProofs` | theorems about `TtlCache`, `MapWithConcurrency`, `TronPositions` and `TronWitnessLoader` | extends the four |
| `SolanaPositionsProofs` | theorems about `SolanaDiscovery` and `SolanaActivation`, the two parts of `loadPositions` | extends both |
| `SumTheorems` | lemmas about sums over finite sets | |
| other `*Proofs` | theorems about the module of that name | |

### How state and actions correspond to the code

*TtlCache.* `store` is the Map, `last` the last call with its answer. `Set`,
`GetHit`/`GetMiss` (the two outcomes of `get`; a miss deletes an expired
entry), `Has`, `Delete`, `Clear` are the methods. `Contract` maps `content` to
the entries that have not expired. `size()` changes nothing and is documented
to count expired entries; it is left out. `ClockTick` is time; a `clock` stepped
back is not modelled.

*TronWitnessLoader.* `witnessCache`, `paramsCache`, `inflight`,
`paramsInflight` are the variables of `createStakingService`; `load` and
`fetch` hold the activations of `doLoad` and of `getChainParameters`; `task`
the callers. A call is `HitCall`, `JoinCall` or `StartCall` (which includes
`getParams` as `CachedParams`, `JoinParams` or `FetchParams`, up to the await
of `Promise.all`). `WitnessReply` and `ParamsReply` are answers or failures;
`LoadResolves`/`LoadRejects` is `Promise.all`; `LoadFinally` and
`ParamsFinally` are the `finally` callbacks with the resumption of those who
wait. A load that failed on one RPC leaves the other an orphan. Data is
reduced to the time it is from, which is what age and order need.

*MapWithConcurrency.* `nextIndex`, `results` and the workers are those of the
function; `Launch` is the synchronous start of all workers, `ItemResolves` a
worker that stores a result and claims the next index, `ItemRejects` a
rejection that `Promise.all` passes on while the other workers continue. No
function that this repository passes in rejects; that the map ends if one did is
the function's own contract.

*TronBrokerage.* Per call the pool above, its `fn` being `enrichApr`; shared
between calls `brokerageCache` and `brokerageInflight`. `Asking`/`Asked` is
`getBrokerageCached` up to its return; `FetchReply` the `then` and `catch`
callbacks, `FetchFinally` the `finally`. `Pool(c)` maps a call to
`MapWithConcurrency`. A call here is the part of getValidators or
getDelegations after `load()`. Voted addresses that are not witnesses do not
ask for a brokerage and are left out.

*TronPositions.* Each `reduce`, `map` or `for` is a loop of actions: `CountVote`
(the first `reduce`), `ScaleVote` (`scaleVotesToFrozen`), `SplitResource` (one
turn of `splitRemainderByResource`, largest first). bigints are integers; the
division is the flooring one of non-negative bigints. `prefix` is a history
variable for the proof.

*SolanaDiscovery.* `chain` is the ledger: the kind of each account and the time
since which it is as it is. `Change` is anything that happens to an account.
`HitCall`/`MissCall` start a call; `BatchReply` processes one
`getMultipleAccounts` batch with its loop over the slots, gap count and reset;
`GpaReply`/`GpaFails` the optional fallback; `EpochReply` the end, with the
filter and `cache.set`; an empty result is cached at once. `Throw` is any RPC
that rejects.

The four session modules have one shape. `session[s]` is what a caller holds
between two calls into the SDK, and what a call holds between two awaits: its
intent, what it has read, the message built, the transaction, and a program
counter. A read of the chain is a step of its own; the code between two reads
is part of the step that follows them. `sign` and `prehash` ... `compile` are
two ways to the same transaction: with the right key, with another one, and
with the bytes of another call (a message is the data it stands for, so its
hash is itself). A broadcast is `Accepted` or `NotAccepted`, and in both the
answer may be lost; `Rebroadcast` is the caller who sends the same transaction
again. `Land` applies it to the chain, `refused` collects what a node or the
chain turned down.
Whatever is said of the chain itself (`Accepts`, `Land`, epochs) is external
code, modelled as far as the package relies on it.

*SolanaSessions.* `Start`, `ReadHash`, `ReadBalance`, `ReadAccount`,
`ReadClock` are the RPCs of `buildDelegate`, `buildUndelegate` and
`buildClaimDelegate` (`tx-builder.ts`); `BuildDelegate` is `findNextFreeSeed`
and the funding gate, `BuildOnAccount` the gates on an
existing account. A blockhash is the height it was issued at. `ErrorFor` is the
mapping of send errors to SDK errors, `Resign` the retry loop of `README.md:625`.
The seeds are read as one step: `SolanaDiscovery` has the torn read.

*SolanaActivation.* The chain's `effective` moves once an epoch, like the
runtime does; the package starts from an account and walks the rows again.
`ReadAccounts`, `ReadClock`, `ReadHistory` may have ends of epochs between them.
Quotients are exact, where the code rounds floating-point numbers: a difference
of one lamport that this causes is not seen. Rewards, splits, merges and
re-delegation of a deactivated account are left out; lockups too, which the
labels ignore. `clampToStake` never acts in the model, as its comment expects.

*CardanoSessions.* `need` holds the reads of the `Promise.all` that are out, in
any order; `FetchPage` is a turn of the loop of `selectUtxosPaged` (page 1 is the
seed page). `Without` is the wallet after a body lands: what is left of it stays
in order, which is what pages rely on. `Quote` is `estimateFee`, `BuildBody` is
`selectInputs` and `buildBody` up to its signature or hash. Bodies have their
inputs, certificates, withdrawal, output, fee, and `ttl`; `Size` counts parts
instead of CBOR bytes.

*BscWallet.* `EstimateCall`, `EstimateGas` are `estimateFee`, `ReadNonce`,
`BuildCall` what `sign` and `prehash` do before they sign, with `bnbToShares`;
the call's value is read when it is built, at a rate that `RewardPaid` raises
and `Slash` lowers. `Slash` also sends the validator to jail, where nothing may be
delegated to it until `Unjail` (`bsc/README.md:172`, `:182`). A nonce that a
pending transaction has is taken (`fee-service.ts:78`), until the node forgets that
transaction (`Expired`). `sign` signs with any key; under another key than the
wallet's the transaction is another account's, and the wallet stays as it is.
`View`, `ReadPooled`, `Count`, `ReadRequests`, `Answer` are a `getDelegations`:
`index.ts:47` and `README.md:59` make one multicall of what is asked for in one
turn, and viem splits it by calldata size, hence `BatchSize`.

*TronSessions.* `CheckAccount` and `Quote` are `estimateFee` with the
assertions of `validations.ts` and the burn for bandwidth, the full one for a
claim that names no account; `cooling` is the 24 hours between two
`ClaimRewards` (`tron/README.md:66`); `Sign`, `Prehash`
and `Compile` are the services of that name with `buildRawTx`. `Told` is what
`broadcast` makes of the node's answer.

## 3. Runs

| Run | Question | Bounds and why they are enough |
|---|---|---|
| `ttl_cache` | `ImplementsContract`: lazy eviction is invisible | 2 keys and values; TTLs 0, 1, 3 and the default 2 below and above the steps of a clock of 5, so that overwriting, expiry at the exact instant and deletion of an expired entry happen |
| `tron_witness_loader` | `SingleFlight`, `NoWaitOverLiveEntry`, `StalenessBound`, `ServedNeverGoesBack`, `EveryCallSettles`, `InflightIsReleased` | 2 callers, 2 slots for loads and fetches (a second one would show a broken single flight, and lets an orphan live beside a new load), witness TTL 2 above parameter TTL 1, RPC latency 1, clock 6: two full generations of both caches |
| `map_with_concurrency` | `NoItemTwice`, `ResolvedInOrder`, `WithinLimit`, `Quiesces` | up to 5 items, limits 0 to 4: empty list, limit 0, fewer and more items than workers |
| `tron_positions` | `ExactSum`, `FairShare` | up to 3 votes of up to 4, up to 5 frozen per resource, unit 2: with and without scaling, dust, zero amounts, both resources |
| `tron_brokerage` | `OneFetchPerSR`, `DefaultOnlyFromOwnWait`, `EveryCallIsAMap`, `EveryPageIsDelivered` | 2 calls over 3 SRs; pages longer than the limit of 2, overlapping in another order, and empty; TTL 1 so that an entry expires between the calls |
| `solana_discovery` | `NoGhosts`, `NothingMissed`, `FallbackSeesAll` | 2 callers, two batches of 2 seeds, gap limit 2 that spans the batch border, 1 foreign-created account, 2 changes at any point; callers are interchangeable (symmetry; the run has no liveness property) |
| `solana_sessions` | `StakedOnceUnlessWarned`, `RefusedOnlyIfChanged` | 2 callers, 2 seeds, blockhashes valid for 1 block of 3, 2 attempts, 1 deposit from outside; 9 starting points: both seeds free with a rich wallet or one that pays exactly one delegation, one taken, a deactivated, a locked, a foreign account, one of another authority, and an unreadable beside an uninitialized one; with and without preflight |
| `solana_activation` | `AgreesWithChain` | stakes of 5 and 3, rate 1/4, two ways for the rest of the cluster to move, history of 3 rows, 5 epochs: warmups and cooldowns of one to several epochs, overlapping, deactivated in the epoch of activation, and rows pruned before they are walked |
| `cardano_sessions` | `EstimateSuffices`, `RefusedOnlyIfChanged` | 1 caller and one change from outside, or 2 callers that change the wallet for each other; 2 pages of 2 UTXOs; 9 wallets: one more UTXO needed for signing than for the estimate, a token between two pages, ADA only behind the pages read; key new, active, retired, earning. A lovelace is 1600 of mainnet's, a unit of size 36 bytes, so fee, deposit and minimum are in proportion |
| `bsc_wallet` | `NoRequestTwice`, `MaxLeavesNothing`, `RefusedOnlyIfChanged` | 2 callers, or 1 and a listing, or 1 and a reward, a slash of each validator, jail and release; 2 validators, one whose value converts back to a share less than is held, the other in jail or not; 2 requests of which 1 can be claimed, a limit of 3, 1 BNB counted as 2 so that an amount may be below it |
| `tron_sessions` | `RefusedOnlyIfChanged` | 2 callers, or 1 and a change of the account; a poor account that a Delegate can empty, one with something frozen, voted, waiting, matured and earned, and the same in the cooldown of its last claim; a vote for an account that is no Super Representative; expiry after the block, 2 blocks |
| `solana_requery` | *violated*: `CurrentAfterTtl` | see below |

Deadlock is checked, except in `map_with_concurrency`, `tron_positions`,
`tron_brokerage` and the four session runs, whose calls end. Every
`pass` run fires every action of its specification.

**What the session properties leave open.** `RefusedOnlyIfChanged` says, for
each chain, that a transaction the package built is refused only for a cause
that came after the reads it was built from. What the code itself leaves to the
chain is excused by name in the property:

- Solana: the wallet must keep enough for its own rent beside the transaction
  (only Delegate has a funding gate, and not for that), and a claim on an
  account still cooling down is built. An account that does not decode skips every
  gate but existence and owner (`tx-builder.ts:301`), and one that is
  Uninitialized or a RewardsPool passes those of a claim: such transactions are
  built for the chain to judge.
- Tron (`Unchecked`): `estimateFee` does not subtract the burn for bandwidth from
  what a Delegate may freeze, does not look at the number of unfreezes that wait,
  and checks nothing for the two claims, neither that there is something to claim
  nor the 24 hours since the last `ClaimRewards` (`tron/README.md:66`).
  `availableTronPower` counts the earlier votes as spent, though a vote replaces
  them: stricter than the chain. `sign` builds for the key's own address,
  ignoring `transaction.account`.
- Cardano: a key that is registered but delegates to no pool counts as
  unregistered (`sign-service.ts:181`), so a second registration is built.
  `cardano/README.md:917` says that the certificate "is still included but is
  harmless on-chain"; the ledger refuses the transaction of a key that is
  registered, so the sentence and the program disagree with the chain. The
  refund is today's `key_deposit` (`sign-service.ts:105`), not what was paid. And
  "covers UTXO-set changes between estimation and signing"
  (`fee-service.ts:17`) holds while the tenth the buffer adds pays for the body's
  inputs, about eight on mainnet. The first guard of `buildBody` cannot act:
  the selection target contains the minimum of the change.
- BSC: the position or the queue of the validator changed since the estimate or
  the build; the nonce was taken, by a block or by a transaction that still waits
  (two callers who read the same nonce: `nonce-service.ts:5`); the in-process
  signer had another key, which `sign` does not compare with
  `transaction.account`; the validator to delegate to is in jail by then; a slash
  came between the estimate and the build, and the amount of BNB converts to more
  shares than are held; or the amount is no share at all, which nothing checks at
  the build. `NoRequestTwice` holds as long as one multicall answers all
  requests; beyond about fifteen of them, the two halves may be of two blocks and
  a claim in between shifts one into the other. `validateSignArgs`
  (`validations.ts:17`), which `bsc/README.md:673` relies on, is never called.
- Tron's `broadcast` resolves with the txid of a rejection that carries one, and
  throws if the node took the transaction but gave no txid or its answer was
  lost; `broadcast-service.ts:9` says that a throw always is a rejection. A
  repeated transaction is the same one on the chain, so nothing is done twice.

`AgreesWithChain` excludes one order of the reads: history read before the end
of an epoch and clock after it (`load-positions.ts:79`). A position deactivated
in the ended epoch has no row yet, which the walk (`activation.ts:84`) reads like a
row pruned long ago, and is labelled Claimable too early.

**A finding.** `solana/README.md:774` advises to wait for confirmation and then
re-query "or wait for TTL", and :204 calls `getDelegations` after the TTL the
source of truth. The entry's TTL counts from the *end* of a load
(`load-positions.ts:137`), and nothing invalidates it. A scan that read an account
just before it changed can be written to the cache after the change and be
served for a whole TTL from then: a caller that waits one TTL from its
confirmation still gets the old position. `solana_requery` shows that trace. The
bound that does hold is the TTL plus the length of a load.

### Fairness

- Tron: every RPC settles because `fetchOrError` has a 16 s timeout, and the
  event loop runs queued callbacks: weak fairness on the steps of loads,
  fetches and workers. Callers need not call and the clock need not move.
- `MapWithConcurrency` assumes that `fn` settles; in `TronBrokerage` it does,
  by the same timeout.
- The session modules state safety only: a caller need not go on, and whether a
  transaction lands is the chain's affair.
- `SolanaDiscovery` states no liveness: the transport of `@solana/kit` is used
  without a timeout in this code, so nothing says an RPC ends.

In `TronWitnessLoader` callbacks run before the clock moves (they take no time
compared with TTLs of minutes), and an RPC settles within `Latency`.

## 4. Proofs

All constants are arbitrary; the assumptions are the named `ASSUME`s of the
modules, which TLC evaluates in the runs: TTLs, limits and amounts are natural,
and positive where the code's constants are (`BROKERAGE_TTL`, `SUN_PER_TRX`,
Cardano's minimum of a UTXO); the SRs, validators and stake
accounts are finitely many; `None` is no call, slot or SR; seeds are no other
accounts. The proofs rest on what
`Init` says of the outside too: a BSC credit contract always has shares that
nobody can redeem (its dead shares), requests of a queue have numbers of their
own, and UTXOs are not listed twice.

- **BuildingBlocksProofs**, `TronWitnessLoader`: `LoaderTypeOK`, `SingleFlight`,
  `NoWaitOverLiveEntry`, `StalenessBound` and `ServedNeverGoesBack`. None is
  inductive alone. `LoaderInv` adds: what is active is the one in flight and
  every waiter waits for it (`FlightInv`, `WaitInv`); data is no older than the
  call that asked for it (`LatencyInv`); an entry ends at most TTL plus latency
  after its data, and the parameters inside the witness entry carry both
  (`CacheAgeInv`); a load runs only beside a dead entry (`PhaseInv`); while
  parameters are fetched nobody holds any (`ParamsInv`); and nobody has received
  anything newer than what can still be handed out (`ServedInv`). One lemma per
  action, then both action properties from `ReceivedIsCached`: what a caller
  receives is in the cache at that moment.
- **BuildingBlocksProofs**, `TtlCache`: the refinement of `TtlCacheSpec`, step by
  step. The one subtle step is time: the entry that comes to its end at
  `ClockTick` vanishes from the contract's map and stays in the code's.
- **BuildingBlocksProofs**, `MapWithConcurrency`: claimed indices are below
  `nextIndex` and distinct (`ClaimInv`), and every index below it is either
  awaited, stored, or was lost to a rejection (`CoverInv`); so all workers done
  without a rejection means all results stored. `WithinLimit` follows because
  every call out has a worker of its own.
- **BuildingBlocksProofs**, `TronPositions`: the scaled sum stays within the
  frozen share of the votes counted so far (`prefix`), which is what makes the
  dust of the last vote non-negative and below one SUN per vote; the split keeps
  `left` equal to the remainder and below what the resources to visit still hold.
- **TronBrokerageProofs** proves `TypeOK`, `OneFetchPerSR`,
  `DefaultOnlyFromOwnWait` and `EveryCallIsAMap`. The invariant says that a fetch
  that has not reached its `finally` callback is the one in `brokerageInflight`
  (`FetchInv`), so who finds no promise there starts the only fetch. That a
  failure reaches only who waited for it needs that a failed fetch stands beside
  no fresh entry (`FreshInv`): no answer can have been stored while it was out,
  for it was the only one. The refinement is stated for one call and proved for
  each: its page stays what it was called with (`PageInv`), and a step of another
  call, of a fetch or of time is a stutter of its pool.
- **SolanaPositionsProofs**, `SolanaDiscovery`: `NoGhosts`, `NothingMissed` and
  `FallbackSeesAll`. The invariant speaks only of accounts steady since the scan
  began: what is found of them is right, and none in a past batch is missing. A
  seed that is `Reachable` has a steady account in every window of the gap limit
  below it, hence no gap can end the scan before it, whatever the others do
  between batches.
- **SolanaPositionsProofs**, `SolanaActivation`: `AgreesWithChain`. What is
  inductive (`AInv`) is a relation of three things: the account, the effective
  stake the chain keeps for it, and the rows. Each row that is kept is the one by
  which the chain moved the stake in that epoch, and what warms up or cools down
  is a part of it (`RowOf`), so a row whose total is zero is one after which
  nothing moves; and the stake at its two turning points is what the code assumes
  (`StakeOf`). Then the chain's own sequence solves the recursion of each walk as
  far as there are rows (`WarmWalk`, `CoolWalk`), the solution is unique (a
  smallest epoch of disagreement, `Along`), and where the walk stops early the
  sequence is constant from there (`Keeps`).
- **SolanaSessionsProofs** proves `TypeOK`, `StakedOnceUnlessWarned` and
  `RefusedOnlyIfChanged`. The first two from `IInv`: a session that was not
  warned has posted one transaction at most, and then has been told so and is at
  its end (`OnceOf`: BLOCKHASH_EXPIRED is never said of a transaction that was
  forwarded); only a session that builds waits for reads (`NeedOf`).
  `RefusedOnlyIfChanged` needs `JInv`: what has been read passed the gates
  (`ReadOf`), the message is backed by it (`BuiltOf`), or is an account no gate
  could judge (`Unjudged`), and the transaction is that message under the
  wallet's key or has expired (`TxOf`); a gate on lockups stays passed because
  epochs only grow. Then each clause of the chain's `Accepts` either holds
  because a gate of the builder checked it on the same state, or names what
  changed.
- **TronSessionsProofs** proves `TypeOK`, which says more than types: with any
  interleaving of landings and changes no balance, no frozen amount and no
  unfreeze that waits falls below zero; and `RefusedOnlyIfChanged`. For the
  latter `FaithfulInv` says that what a session signs fits its intent and
  what it read (`Fits`) and passed the assertion of that account; if the account
  is the one read, each clause of the chain's `Accepts` is that assertion or is
  excused by `Unchecked`.
- **BscWalletProofs** proves `TypeOK`, `NoRequestTwice`, `MaxLeavesNothing` and
  `RefusedOnlyIfChanged`. `PoolInv` keeps every pool above zero, and with it the
  shares an amount of BNB converts to only fall while the validator is not slashed
  (`RateFalls`): what the estimate found to be held covers what is built later.
  A slash in between is the exception the property names. A call for everything
  takes the shares held when it is built, at whatever rate (`Built`).
  `SoundInv` says that the call of a session is backed by the position, the queue
  and the nonce it read. Claims shift the entries of a queue and not
  their numbers (`Numbered`), so two entries of one multicall are two requests
  (`ReadInv`).
- **CardanoSessionsProofs** proves `TypeOK`, `EstimateSuffices` and
  `RefusedOnlyIfChanged`. Pages that were not torn are the start of *one* wallet
  (`PagesInv`), whose UTXOs have ids of their own (`WalletInv`): selected inputs
  are distinct, and each id is worth what it was when it was read. The body is
  balanced over them (`BodyInv`: what settles it is the account it was built
  from). `EstimateInv` keeps the fee at the smallest body plus the
  buffer, hence above the minimum of every body the buffer pays for. Refusals
  are taken clause by clause of `Accepts`: an input is gone, the account or the
  deposit changed, the time to live ended, or the clause was kept.
- **SumTheorems**: the sum of a function over a finite set does not depend on the
  order of its terms (`SumTerm`), is natural, and stays the same under other
  names (`SumRenamed`) and without terms that are zero (`SumSelected`). The
  recursion behind the library's sum cannot be reached by the induction theorems
  (their operator parameter); a counterexample that is smallest among the finite
  subsets takes their place.

**Model-checked only:**

- liveness (`EveryCallSettles`, `InflightIsReleased`, `Quiesces`,
  `EveryPageIsDelivered`), out of the prover's reach under fairness;
- `CurrentAfterTtl`, which does not hold (see the finding).

## 5. Not modelled

- **Pure functions of one value**: parsing, ABI and CBOR encoding, addresses,
  hashes, keys and signatures, the APR formulas (floating point), formatting and
  logging. No interleaving or state is involved.
- **Stateless views**: balances of Tron, BSC and Cardano, `getDelegations` of
  Cardano, and the validator and pool lists, which combine one or two RPCs. The
  BSC and Solana validator caches are written by whichever miss ends last;
  `in-memory-cache.ts:21` documents that as harmless.
- **The SDK router**: a lookup in a Map built once.
- **Labels of Tron, BSC and Cardano positions** (Pending or Claimable by time),
  one comparison each. Solana's are modelled.
- **The ledgers beyond what the SDK relies on**: Cardano's rule that rewards
  may only be withdrawn by a key that delegates its vote, CBOR widths, gas
  amounts and the BNB balance, what a BSC transaction signed with another key does
  to that key's account, the other delegators (they move the rate of a validator
  only through rewards and slashes), Tron's energy, and what BSC does with an index of
  a claim.
- **Limits of number types**: TronWeb's safe integers, u64 encodings.
- **What a runtime does with an unhandled rejection** (BSC's
  `stakingSummaryPromise`, `staking-service.ts:288`).
- **Limits across calls**: the brokerage limit of 8 holds per call
  (`WithinLimit`); two concurrent calls may have 16 requests out. The code has
  no limit on the service as a whole, so none is stated.

## 6. What is left

What the plan named is written, the external-signer flow inside the session
module of each chain. What would come next:

1. One abstract specification of an external-signer flow, implemented by
   `prehash` and `compile` of the four chains; now each session module has its
   own `Compiles`, under its own `RefusedOnlyIfChanged`.
2. Two multicalls of unbond requests in `BscWallet`, to show where the listing
   stops being consistent.
3. The validator lists with the degraded inputs that Solana caches.
