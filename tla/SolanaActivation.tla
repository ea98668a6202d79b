--------------------------- MODULE SolanaActivation ---------------------------
(***************************************************************************)
(* What the Solana package says of the stake accounts it has found: the    *)
(* warmup and cooldown walk over the stake history                         *)
(* (state/activation.ts), the status and the amount made of it             *)
(* (state/stake-account.ts, services/staking-service.ts) and their sums    *)
(* (services/balance-service.ts).  The accounts are read first, then the   *)
(* clock and the history in parallel, while epochs end: see the end of     *)
(* loadPositions.                                                          *)
(*                                                                         *)
(* The chain moves the effective stake of each account once per epoch and  *)
(* forgets it has done so; the package starts from the account and walks   *)
(* the rows of the history again.  A row is the cluster at the end of an   *)
(* epoch: the stake accounts of the wallet and the rest, which does as it  *)
(* likes.  The quotients are exact, as on the chain, where the code rounds *)
(* them to floats; rewards, splits and merges are left out.                *)
(***************************************************************************)
EXTENDS Integers, FiniteSetsExt, Functions

CONSTANTS
  StakeAccount,      \* the stake accounts of the wallet
  Stake,             \* the stake an account delegates, by account
  RentExempt,        \* rentExemptReserve
  RateNum, RateDen,  \* warmupCooldownRate, a quotient
  Rest,              \* what the rest of the cluster may be at the end of an epoch
  HistoryDepth,      \* how many rows the StakeHistory sysvar keeps
  MaxEpoch           \* bound on the epochs

ASSUME ActivationAssumption ==
  /\ IsFiniteSet(StakeAccount)
  /\ Stake \in [StakeAccount -> Nat \ {0}]
  /\ RentExempt \in Nat
  /\ RateNum \in Nat \ {0} /\ RateDen \in Nat \ {0}
  /\ Rest \subseteq [effective : Nat, activating : Nat, deactivating : Nat]
  /\ HistoryDepth \in Nat \ {0}
  /\ MaxEpoch \in Nat

Epoch == 0 .. MaxEpoch
U64_MAX == MaxEpoch + 1

VARIABLES
  epoch,      \* Clock.epoch
  account,    \* the stake accounts
  effective,  \* the effective stake of each account, epoch by epoch
  history,    \* the StakeHistory sysvar: a row for each epoch it keeps
  read        \* one call of getDelegations or getBalances

activationVars == <<epoch, account, effective, history, read>>

\* What a row says of the cluster, and what computeStakeActivation says of an
\* account.
Amounts == [effective : Nat, activating : Nat, deactivating : Nat]

Closed == [kind |-> "none", activation |-> U64_MAX, deactivation |-> U64_MAX]
Initialized == [Closed EXCEPT !.kind = "Initialized"]
Delegated(e) == [Closed EXCEPT !.kind = "Stake", !.activation = e]

lamports(s, acc) == IF acc.kind = "none" THEN 0 ELSE Stake[s] + RentExempt

\* No call, or one that awaits its answers: the accounts, the clock and the
\* history it has read, and the epoch the history was read in.
Unread ==
  [called |-> FALSE, accounts |-> <<>>, clock |-> -1, history |-> <<>>, readIn |-> -1]

\* An account delegated before the first epoch has been effective all along.
ActivationInit ==
  /\ epoch = 0
  /\ account \in [StakeAccount -> {Initialized, Delegated(U64_MAX)}]
  /\ effective = [s \in StakeAccount |-> [e \in Epoch |->
       IF account[s].kind = "Stake" /\ e = 0 THEN Stake[s] ELSE 0]]
  /\ history = <<>>
  /\ read = Unread

-----------------------------------------------------------------------------
(* The chain *)

SameEpoch(acc) == acc.activation = acc.deactivation /\ acc.activation # U64_MAX

Deactivated(acc, e) == acc.kind = "Stake" /\ acc.deactivation <= e

\* The stake of s still to become effective, and still to cease to be.
WarmingUp(s) ==
  IF account[s].kind = "Stake" /\ ~ Deactivated(account[s], epoch)
  THEN Stake[s] - effective[s][epoch] ELSE 0
CoolingDown(s) ==
  IF Deactivated(account[s], epoch) THEN effective[s][epoch] ELSE 0

Inactive(s) ==
  \/ account[s].kind = "Initialized"
  \/ Deactivated(account[s], epoch) /\ effective[s][epoch] = 0

\* An account that was deactivated is not delegated again.
Delegate(s) ==
  /\ account[s].kind = "Initialized"
  /\ account' = [account EXCEPT ![s] = Delegated(epoch)]
  /\ UNCHANGED <<epoch, effective, history, read>>

Deactivate(s) ==
  /\ account[s].kind = "Stake"
  /\ account[s].deactivation = U64_MAX
  /\ account' = [account EXCEPT ![s].deactivation = epoch]
  /\ UNCHANGED <<epoch, effective, history, read>>

Withdraw(s) ==
  /\ Inactive(s)
  /\ account' = [account EXCEPT ![s] = Closed]
  /\ UNCHANGED <<epoch, effective, history, read>>

\* The row of the epoch that ends.
Row(rest) ==
  [effective |-> rest.effective + SumFunction([s \in StakeAccount |-> effective[s][epoch]]),
   activating |-> rest.activating + SumFunction([s \in StakeAccount |-> WarmingUp(s)]),
   deactivating |-> rest.deactivating + SumFunction([s \in StakeAccount |-> CoolingDown(s)])]

\* The part of amount that the rate of the cluster moves in an epoch, amount
\* being its part of a total.
Moved(amount, total, clusterEffective) ==
  Max({1, (amount * clusterEffective * RateNum) \div (total * RateDen)})

\* Stake warms up and cools down in proportion to its part of the row.
Next_effective(s, row) ==
  LET now == effective[s][epoch]
  IN  IF WarmingUp(s) > 0
      THEN Min({Stake[s], now + Moved(WarmingUp(s), row.activating, row.effective)})
      ELSE IF CoolingDown(s) > 0
      THEN Max({0, now - Moved(now, row.deactivating, row.effective)})
      ELSE now

EpochEnds(rest) ==
  /\ epoch < MaxEpoch
  /\ epoch' = epoch + 1
  /\ LET row == Row(rest)
     IN  /\ effective' = [s \in StakeAccount |->
              [effective[s] EXCEPT ![epoch + 1] = Next_effective(s, row)]]
         /\ history' = [e \in {f \in 0 .. epoch : f > epoch - HistoryDepth} |->
                          IF e = epoch THEN row ELSE history[e]]
  /\ UNCHANGED <<account, read>>

-----------------------------------------------------------------------------
(* state/activation.ts *)

Rows == DOMAIN read.history

\* Where the history has no row any more, or nothing warms up.
WarmupStops(acc, target) ==
  {e \in acc.activation .. target : e \notin Rows \/ read.history[e].activating = 0}

\* Mutant of WarmupEnd: the walk goes on past the deactivation.
WarmupEndAtTarget(acc, target) == Min({target} \cup WarmupStops(acc, target))

WarmupEnd(acc, target) == Min({target, acc.deactivation} \cup WarmupStops(acc, target))

\* The loop of stakeAndActivating.
WarmedUp(stake, acc, target) ==
  LET last == WarmupEnd(acc, target)
      at[e \in acc.activation .. last] ==
        IF e = acc.activation THEN 0
        ELSE LET row == read.history[e - 1]
             IN  Min({stake, at[e - 1] + Moved(stake - at[e - 1], row.activating, row.effective)})
  IN  at[last]

\* Without a row the stake counts as effective; activating is its complement,
\* or nothing where the delegation never took effect.
stakeAndActivating(stake, acc, target) ==
  LET warm == IF target = acc.activation THEN 0
              ELSE IF acc.activation \in Rows THEN WarmedUp(stake, acc, target)
              ELSE stake
  IN  IF acc.activation = U64_MAX
      THEN [effective |-> stake, activating |-> 0]
      ELSE IF SameEpoch(acc) \/ target < acc.activation
      THEN [effective |-> 0, activating |-> 0]
      ELSE [effective |-> warm, activating |-> stake - warm]

\* The loop of computeStakeActivation after the deactivation.
CooledDown(from, acc, target) ==
  LET last == Min({target} \cup
                  {e \in acc.deactivation .. target :
                     e \notin Rows \/ read.history[e].deactivating = 0})
      at[e \in acc.deactivation .. last] ==
        IF e = acc.deactivation THEN from
        ELSE LET row == read.history[e - 1]
             IN  Max({0, at[e - 1] - Moved(at[e - 1], row.deactivating, row.effective)})
  IN  at[last]

computeStakeActivation(stake, acc, target) ==
  LET warm == stakeAndActivating(stake, acc, target)
      left == IF target = acc.deactivation THEN warm.effective
              ELSE IF acc.deactivation \in Rows
              THEN CooledDown(warm.effective, acc, target)
              ELSE 0
  IN  IF target < acc.deactivation
      THEN [effective |-> warm.effective, activating |-> warm.activating, deactivating |-> 0]
      ELSE [effective |-> left, activating |-> 0, deactivating |-> left]

deriveStatus(parts) ==
  CASE parts.deactivating > 0 -> "deactivating"
    [] parts.deactivating = 0 /\ parts.activating > 0 -> "activating"
    [] parts.deactivating = 0 /\ parts.activating = 0 /\ parts.effective > 0 -> "active"
    [] OTHER -> "inactive"

-----------------------------------------------------------------------------
(* The rest of loadPositions, getDelegations and getBalances *)

\* toStakePosition: an account that delegates nothing is inactive.
Position(s) ==
  LET acc == read.accounts[s]
  IN  IF acc.kind = "Stake"
      THEN computeStakeActivation(Stake[s], acc, read.clock)
      ELSE [effective |-> 0, activating |-> 0, deactivating |-> 0]

mapPositionStatus(status) ==
  CASE status \in {"active", "activating"} -> "Active"
    [] status = "deactivating" -> "Pending"
    [] status = "inactive" -> "Claimable"

positionAmount(s, position) ==
  LET status == mapPositionStatus(deriveStatus(position))
  IN  CASE status = "Active" -> position.effective + position.activating
        [] status = "Pending" -> position.deactivating
        [] status = "Claimable" -> lamports(s, read.accounts[s])

Delegation(s) ==
  [status |-> mapPositionStatus(deriveStatus(Position(s))),
   amount |-> positionAmount(s, Position(s))]

\* Closed accounts are omitted.
Delegations ==
  [s \in {t \in StakeAccount : lamports(t, read.accounts[t]) > 0} |-> Delegation(s)]

getBalances(delegations) ==
  [type \in {"Active", "Pending", "Claimable"} |->
     SumFunctionOnSet([s \in DOMAIN delegations |-> delegations[s].amount],
                      {s \in DOMAIN delegations : delegations[s].status = type})]

\* The accounts, which one getMultipleAccounts answer holds.
ReadAccounts ==
  /\ ~ read.called
  /\ read' = [read EXCEPT !.called = TRUE, !.accounts = account]
  /\ UNCHANGED <<epoch, account, effective, history>>

ReadClock ==
  /\ read.called /\ read.clock = -1
  /\ read' = [read EXCEPT !.clock = epoch]
  /\ UNCHANGED <<epoch, account, effective, history>>

ReadHistory ==
  /\ read.called /\ read.readIn = -1
  /\ read' = [read EXCEPT !.history = history, !.readIn = epoch]
  /\ UNCHANGED <<epoch, account, effective, history>>

\* Both answers are there: Delegations, and getBalances of them, are made.
Loaded == read.clock # -1 /\ read.readIn # -1

Return ==
  /\ Loaded
  /\ read' = Unread
  /\ UNCHANGED <<epoch, account, effective, history>>

ActivationNext ==
  \/ \E s \in StakeAccount : Delegate(s) \/ Deactivate(s) \/ Withdraw(s)
  \/ \E rest \in Rest : EpochEnds(rest)
  \/ ReadAccounts \/ ReadClock \/ ReadHistory \/ Return

ActivationSpec == ActivationInit /\ [][ActivationNext]_activationVars

-----------------------------------------------------------------------------
(* Properties *)

\* What the chain says of s in epoch e.
Truth(s, e) ==
  LET acc == account[s]
  IN  IF acc.kind = "Stake" /\ ~ Deactivated(acc, e)
      THEN [status |-> "Active", amount |-> Stake[s]]
      ELSE IF Deactivated(acc, e) /\ effective[s][e] > 0
      THEN [status |-> "Pending", amount |-> effective[s][e]]
      ELSE [status |-> "Claimable", amount |-> lamports(s, acc)]

\* The history the code walks is long enough for s: an activation it no longer
\* has a row for was complete when the deactivation came, and a deactivation
\* it has no row for is complete, as the code takes them to be.
LongEnough(s) ==
  LET acc == account[s]
  IN  Deactivated(acc, read.clock) =>
        /\ acc.activation \notin Rows \cup {U64_MAX} /\ ~ SameEpoch(acc)
           => effective[s][acc.deactivation] = Stake[s]
        /\ acc.deactivation \notin Rows \cup {read.clock} => effective[s][read.clock] = 0

\* s has not changed since it was read, and the history is not older than the
\* clock where s is deactivated: a row that is not there yet reads like one
\* that is there no more.
Comparable(s) ==
  /\ account[s] = read.accounts[s]
  /\ Deactivated(account[s], read.clock) => read.readIn >= read.clock
  /\ LongEnough(s)

\* The status and the amount of a position are those the chain gives it in
\* the epoch of the clock that was read, and so are the balances, however the
\* reads fell between the ends of epochs.
AgreesWithChain ==
  Loaded =>
    /\ \A s \in DOMAIN Delegations :
         Comparable(s) => Delegations[s] = Truth(s, read.clock)
    /\ (\A s \in StakeAccount : Comparable(s)) =>
         \A type \in {"Active", "Pending", "Claimable"} :
           getBalances(Delegations)[type] =
             SumFunction([s \in StakeAccount |->
               LET true == Truth(s, read.clock)
               IN  IF true.status = type THEN true.amount ELSE 0])
=============================================================================
