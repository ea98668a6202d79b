--------------------------- MODULE TronPositions ---------------------------
(***************************************************************************)
(* How the Tron staking service reconstructs the Active and Frozen         *)
(* positions of an account that getAccount returned: the arithmetic of     *)
(* getDelegations, scaleVotesToFrozen and splitRemainderByResource         *)
(* (packages/tron/src/tron-chain/services/staking-service.ts).             *)
(*                                                                         *)
(* Votes count whole TRX, frozen amounts are SUN.  A partial unfreeze      *)
(* leaves the votes as they were, so votes may exceed what is frozen.      *)
(* Each loop of the code is a loop of actions; amounts are bigint, hence   *)
(* unbounded integers.                                                     *)
(***************************************************************************)
EXTENDS Integers, Sequences

CONSTANTS
  Unit,       \* SUN_PER_TRX
  MaxVotes,   \* bounds on the accounts considered: number of votes,
  MaxCount,   \* count of one vote,
  MaxFrozen   \* amount frozen for one resource

ASSUME PositionsAssumption ==
  /\ Unit \in Nat \ {0}
  /\ MaxVotes \in Nat
  /\ MaxCount \in Nat
  /\ MaxFrozen \in Nat

Resource == {"BANDWIDTH", "ENERGY"}

VARIABLES
  votes,        \* account.votes: the vote counts
  frozen,       \* account.frozen: SUN per resource, 0 if there is no entry
  pc,           \* which loop runs
  k,            \* how many votes the current loop has done
  totalVoted,   \* the accumulator of the first reduce ...
  prefix,       \* ... and its value after each vote
  scaledSoFar,
  active,       \* the amounts scaleVotesToFrozen has produced
  left,
  todo,         \* resources splitRemainderByResource has still to visit
  chunk         \* the Frozen amount of each resource

account == <<votes, frozen>>
counting == <<totalVoted, prefix>>
scaling == <<scaledSoFar, active>>
splitting == <<left, todo, chunk>>
positionVars == <<votes, frozen, pc, k, totalVoted, prefix, scaledSoFar, active, left, todo, chunk>>

voteCount == Len(votes)
totalFrozen == frozen["BANDWIDTH"] + frozen["ENERGY"]
effectiveVoted == IF totalVoted <= totalFrozen THEN totalVoted ELSE totalFrozen

PositionsTypeOK ==
  /\ votes \in Seq(Nat)
  /\ frozen \in [Resource -> Nat]
  /\ pc \in {"count", "scale", "split", "done"}
  /\ k \in 0 .. voteCount
  /\ totalVoted \in Nat
  /\ prefix \in [0 .. voteCount -> Nat]
  /\ scaledSoFar \in Nat
  /\ active \in Seq(Nat)
  /\ left \in Nat
  /\ todo \in SUBSET Resource
  /\ chunk \in [Resource -> Nat]

PositionsInit ==
  /\ \E m \in 0 .. MaxVotes : votes \in [1 .. m -> 0 .. MaxCount]
  /\ frozen \in [Resource -> 0 .. MaxFrozen]
  /\ pc = "count"
  /\ k = 0
  /\ totalVoted = 0
  /\ prefix = [j \in 0 .. voteCount |-> 0]
  /\ scaledSoFar = 0
  /\ active = <<>>
  /\ left = 0
  /\ todo = {}
  /\ chunk = [r \in Resource |-> 0]

raw(j) == votes[j] * Unit

CountVote ==
  /\ pc = "count" /\ k < voteCount
  /\ totalVoted' = totalVoted + raw(k + 1)
  /\ prefix' = [prefix EXCEPT ![k + 1] = totalVoted']
  /\ k' = k + 1
  /\ UNCHANGED <<account, pc, scaling, splitting>>

CountEnds ==
  /\ pc = "count" /\ k = voteCount
  /\ pc' = "scale"
  /\ k' = 0
  /\ UNCHANGED <<account, counting, scaling, splitting>>

needsScaling == totalVoted > totalFrozen

\* Mutants of Amount: rounding up, and the dust dropped.
AmountRoundedUp(j) ==
  IF ~ needsScaling THEN raw(j)
  ELSE IF j = voteCount THEN effectiveVoted - scaledSoFar
  ELSE (raw(j) * totalFrozen + totalVoted - 1) \div totalVoted
AmountWithoutDust(j) ==
  IF ~ needsScaling THEN raw(j) ELSE (raw(j) * totalFrozen) \div totalVoted

\* The share of vote j in what is frozen; the last vote takes what is left.
Amount(j) ==
  IF ~ needsScaling THEN raw(j)
  ELSE IF j = voteCount THEN effectiveVoted - scaledSoFar
  ELSE (raw(j) * totalFrozen) \div totalVoted

ScaleVote ==
  /\ pc = "scale" /\ k < voteCount
  /\ active' = Append(active, Amount(k + 1))
  /\ scaledSoFar' = scaledSoFar + Amount(k + 1)
  /\ k' = k + 1
  /\ UNCHANGED <<account, pc, counting, splitting>>

ScaleEnds ==
  /\ pc = "scale" /\ k = voteCount
  /\ pc' = "split"
  /\ left' = totalFrozen - effectiveVoted
  /\ todo' = {r \in Resource : frozen[r] > 0}
  /\ UNCHANGED <<account, k, counting, scaling, chunk>>

ChunkOf(r) == IF frozen[r] < left THEN frozen[r] ELSE left

\* The resource with the largest frozen amount of those still to visit.
SplitResource(r) ==
  /\ pc = "split" /\ left > 0
  /\ r \in todo
  /\ \A q \in todo : frozen[q] <= frozen[r]
  /\ chunk' = [chunk EXCEPT ![r] = ChunkOf(r)]
  /\ left' = left - ChunkOf(r)
  /\ todo' = todo \ {r}
  /\ UNCHANGED <<account, pc, k, counting, scaling>>

SplitEnds ==
  /\ pc = "split"
  /\ left = 0 \/ todo = {}
  /\ pc' = "done"
  /\ UNCHANGED <<account, k, counting, scaling, splitting>>

PositionsNext ==
  \/ CountVote \/ CountEnds
  \/ ScaleVote \/ ScaleEnds
  \/ (\E r \in Resource : SplitResource(r)) \/ SplitEnds

PositionsSpec == PositionsInit /\ [][PositionsNext]_positionVars

-----------------------------------------------------------------------------
(* Properties *)

\* "Sum Active + Sum Frozen = Sum frozen": whatever the votes and however much
\* was unfrozen, the positions account for exactly what is staked.
ExactSum ==
  pc = "done" => scaledSoFar + chunk["BANDWIDTH"] + chunk["ENERGY"] = totalFrozen

\* A scaled vote differs from its exact share, raw * frozen / voted, by less
\* than one SUN per vote: rounding never moves a stake to another SR.
FairShare ==
  needsScaling /\ pc # "count" =>
    \A j \in 1 .. Len(active) :
      LET exact == raw(j) * totalFrozen IN
      /\ active[j] * totalVoted < exact + voteCount * totalVoted
      /\ exact < (active[j] + 1) * totalVoted
=============================================================================
