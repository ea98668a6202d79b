------------------------------ MODULE BscWallet ------------------------------
(***************************************************************************)
(* One BNB Smart Chain wallet: calls that build, sign and broadcast its    *)
(* staking transactions (packages/bsc/src/smartchain/services/             *)
(* sign-service.ts, fee-service.ts, nonce-service.ts), composed with calls *)
(* that list its delegations (services/staking-service.ts) while those     *)
(* transactions land.                                                      *)
(*                                                                         *)
(* A listing reads the pooled amounts, the number of unbond requests and   *)
(* then each request by its index, in separate requests; what is asked for *)
(* in one turn goes out as one multicall (index.ts:47), of BatchSize calls *)
(* at most.  BNB are counted in shares of the validator's credit contract, *)
(* which every reward makes dearer and every slash cheaper.                *)
(***************************************************************************)
EXTENDS Integers, Sequences, FiniteSets

CONSTANTS
  Session,    \* callers that each want one transaction
  Viewer,     \* callers of getDelegations
  Validator,
  Amount,     \* amounts a caller may name
  MaxUnbond,  \* unbond requests the contract allows a delegator
  UnbondClamp, \* MAX_PENDING_UNBOND_COUNT
  BatchSize,  \* calls of one multicall
  MIN_DELEGATION_AMOUNT, \* 1 BNB
  Penalty,    \* amounts an offence of a validator may cost
  MaxRewards, MaxSlashes \* bounds

ASSUME BscAssumption ==
  /\ Validator # {} /\ IsFiniteSet(Validator)
  /\ Amount \subseteq Nat /\ Penalty \subseteq Nat \ {0}
  /\ {MaxUnbond, UnbondClamp, BatchSize, MIN_DELEGATION_AMOUNT} \subseteq Nat \ {0}
  /\ {MaxRewards, MaxSlashes} \subseteq Nat

VARIABLES
  nonce,    \* of the wallet, counting what a block has taken
  shares,   \* of the wallet, in each credit contract
  pooled,   \* BNB of each credit contract
  total,    \* shares of each credit contract
  queue,    \* unbond requests of the wallet, as each credit contract lists them
  requests, \* unbond requests there have been
  mempool,  \* the wallet's transactions that a node has accepted and no block has yet
  refused,  \* transactions a node refused when they were last sent, or that reverted
  rewards,  \* how often a reward was paid
  slashes,  \* how often each validator was slashed
  jailed,   \* validators that may not be delegated to
  session, viewer

pools == <<shares, pooled, total, queue, requests>>
events == <<rewards, slashes, jailed>>
chain == <<nonce, pools, mempool, refused, events>>
vars == <<chain, session, viewer>>

Type == {"Delegate", "Undelegate", "Redelegate", "ClaimDelegate"}

\* index is the request a claim names; to is the new validator of a Redelegate.
Intent ==
  [type : Type, at : Validator, to : Validator, amount : Amount \cup {0}, max : BOOLEAN,
   index : 0 .. MaxUnbond]

\* Those the fields of which mean something.
Meaningful(i) ==
  /\ i.type # "ClaimDelegate" => i.index = 0
  /\ i.type \in {"Delegate", "ClaimDelegate"} => ~i.max
  /\ i.type # "Redelegate" => i.to = i.at
  /\ i.type = "ClaimDelegate" \/ i.max => i.amount = 0

Request == [id : Nat, unlocked : BOOLEAN]
Call == [type : Type, at : Validator, to : Validator, amount : Nat, index : Nat, nonce : Nat]
NoCall == [type |-> "Delegate", at |-> CHOOSE v \in Validator : TRUE,
           to |-> CHOOSE v \in Validator : TRUE, amount |-> 0, index |-> 0, nonce |-> 0]
NoIntent == [type |-> "Delegate", at |-> NoCall.at, to |-> NoCall.to, amount |-> 0,
             max |-> FALSE, index |-> 0]

Key == {"wallet", "other"}
Transaction == [call : Call, sig : [key : Key, over : Call]]
SignedBy(key, c) == [call |-> c, sig |-> [key |-> key, over |-> c]]

\* For the properties: before is what the chain held when gas was estimated,
\* its slashes those of the validator when the call to estimate was built, and
\* held the shares when the call to sign was.
Held == [shares : Nat, queue : Seq(Request), slashes : Nat]
SessionRec ==
  [pc : {"idle", "estimating", "simulating", "estimated", "building", "built", "signed",
         "error", "sent", "threw"},
   intent : {i \in [type : Type, at : Validator, to : Validator, amount : Nat, max : BOOLEAN,
                    index : Nat] : Meaningful(i)},
   call : Call, estimated : BOOLEAN, before : Held, held : Nat, tx : Transaction]

Listed == [at : Validator, index : Nat, id : Nat, claimable : BOOLEAN]
ViewerRec ==
  [pc : {"idle", "counting", "reading", "answered", "threw"}, pooledRead : BOOLEAN,
   active : SUBSET Validator, want : SUBSET (Validator \X Nat), listed : SUBSET Listed]

TypeOK ==
  /\ {nonce, requests, rewards} \subseteq Nat
  /\ {shares, pooled, total, slashes} \subseteq [Validator -> Nat]
  /\ jailed \subseteq Validator
  /\ queue \in [Validator -> Seq(Request)]
  /\ \A v \in Validator : Len(queue[v]) <= MaxUnbond
  /\ mempool \subseteq Transaction /\ refused \subseteq Transaction
  /\ session \in [Session -> SessionRec]
  /\ viewer \in [Viewer -> ViewerRec]

IdleSession ==
  [pc |-> "idle", intent |-> NoIntent, call |-> NoCall, estimated |-> FALSE,
   before |-> [shares |-> 0, queue |-> <<>>, slashes |-> 0], held |-> 0, tx |-> SignedBy("wallet", NoCall)]
IdleViewer == [pc |-> "idle", pooledRead |-> FALSE, active |-> {}, want |-> {}, listed |-> {}]

\* A request has a number of its own.
Numbered ==
  \A v \in Validator : \A j \in DOMAIN queue[v] :
    /\ queue[v][j].id \in 1 .. requests
    /\ \A w \in Validator : \A k \in DOMAIN queue[w] :
         queue[v][j].id = queue[w][k].id => v = w /\ j = k

\* Every credit contract holds shares that nobody can redeem.
Init ==
  /\ nonce \in Nat /\ requests \in Nat
  /\ shares \in [Validator -> Nat] /\ pooled \in [Validator -> Nat] /\ total \in [Validator -> Nat]
  /\ \A v \in Validator : shares[v] < total[v] /\ total[v] <= pooled[v]
  /\ queue \in [Validator -> {q \in Seq(Request) : Len(q) <= MaxUnbond}] /\ Numbered
  /\ mempool = {} /\ refused = {}
  /\ rewards = 0 /\ slashes = [v \in Validator |-> 0]
  /\ jailed \in SUBSET Validator
  /\ session = [s \in Session |-> IdleSession]
  /\ viewer = [w \in Viewer |-> IdleViewer]

-----------------------------------------------------------------------------
(* The chain: StakeHub and the credit contracts.  Which of the unlocked    *)
(* requests a claim pays is left open.                                     *)

SharesFor(v, bnb) == (bnb * total[v]) \div pooled[v]
ValueOf(v, n) == (n * pooled[v]) \div total[v]

Unlocked(v) == {k \in DOMAIN queue[v] : queue[v][k].unlocked}

Accepts(c) ==
  CASE c.type = "Delegate" -> c.to \notin jailed
    [] c.type = "Undelegate" ->
         c.amount > 0 /\ c.amount <= shares[c.at] /\ Len(queue[c.at]) < MaxUnbond
    [] c.type = "Redelegate" ->
         c.amount > 0 /\ c.amount <= shares[c.at] /\ c.to # c.at /\ c.to \notin jailed
    [] c.type = "ClaimDelegate" -> c.index + 1 \in Unlocked(c.at)

\* A signature over the bytes makes them a transaction of whoever signed.
Verifies(t) == t.sig.over = t.call
OfWallet(t) == t.sig.key = "wallet"

\* A block has one with its nonce, or it would replace one that is pending.
NonceTaken(t) ==
  \/ t.call.nonce < nonce
  \/ \E u \in mempool \ {t} : u.call.nonce = t.call.nonce

\* n shares out of v, worth less than their share of the pool by rounding.
Out(v, n) == [s |-> shares[v] - n, p |-> pooled[v] - ValueOf(v, n), t |-> total[v] - n]

Stake(v, bnb, s, p, t) ==
  /\ shares' = [s EXCEPT ![v] = @ + SharesFor(v, bnb)]
  /\ total' = [t EXCEPT ![v] = @ + SharesFor(v, bnb)]
  /\ pooled' = [p EXCEPT ![v] = @ + bnb]

\* The ways to leave out some of n requests and keep the order of the others.
Remaining(n) ==
  UNION {{e \in [1 .. m -> 1 .. n] : \A i, j \in 1 .. m : i < j => e[i] < e[j]} : m \in 0 .. n - 1}

Execute(c) ==
  LET o == Out(c.at, c.amount)
      s == [shares EXCEPT ![c.at] = o.s]
      p == [pooled EXCEPT ![c.at] = o.p]
      t == [total EXCEPT ![c.at] = o.t] IN
  \/ /\ c.type = "Delegate"
     /\ Stake(c.at, c.amount, shares, pooled, total)
     /\ UNCHANGED <<queue, requests>>
  \/ /\ c.type = "Undelegate"
     /\ shares' = s /\ pooled' = p /\ total' = t
     /\ requests' = requests + 1
     /\ queue' = [queue EXCEPT ![c.at] = Append(@, [id |-> requests + 1, unlocked |-> FALSE])]
  \/ /\ c.type = "Redelegate"
     /\ Stake(c.to, ValueOf(c.at, c.amount), s, p, t)
     /\ UNCHANGED <<queue, requests>>
  \/ /\ c.type = "ClaimDelegate"
     /\ \E e \in Remaining(Len(queue[c.at])) :
          /\ DOMAIN queue[c.at] \ Unlocked(c.at) \subseteq {e[j] : j \in DOMAIN e}
          /\ queue' = [queue EXCEPT ![c.at] = [j \in DOMAIN e |-> queue[c.at][e[j]]]]
     /\ UNCHANGED <<shares, pooled, total, requests>>

\* A block takes the transaction with the next nonce, and it may revert.
Land(t) ==
  /\ t \in mempool /\ t.call.nonce = nonce
  /\ mempool' = mempool \ {t}
  /\ nonce' = nonce + 1
  /\ IF Accepts(t.call)
     THEN Execute(t.call) /\ UNCHANGED refused
     ELSE refused' = refused \cup {t} /\ UNCHANGED pools
  /\ UNCHANGED <<events, session, viewer>>

\* No block takes it, until the nodes forget it.
Expired(t) ==
  /\ t \in mempool
  /\ mempool' = mempool \ {t}
  /\ UNCHANGED <<nonce, pools, refused, events, session, viewer>>

\* A validator in jail earns nothing.
RewardPaid(v) ==
  /\ rewards < MaxRewards /\ v \notin jailed
  /\ rewards' = rewards + 1
  /\ pooled' = [pooled EXCEPT ![v] = @ + 1]
  /\ UNCHANGED <<nonce, shares, total, queue, requests, mempool, refused, slashes, jailed,
                 session, viewer>>

\* An offence costs the pool a penalty, never all of it, and the validator goes to jail.
Slash(v) ==
  /\ slashes[v] < MaxSlashes
  /\ \E n \in Penalty : n < pooled[v] /\ pooled' = [pooled EXCEPT ![v] = @ - n]
  /\ slashes' = [slashes EXCEPT ![v] = @ + 1]
  /\ jailed' = jailed \cup {v}
  /\ UNCHANGED <<nonce, shares, total, queue, requests, mempool, refused, rewards, session, viewer>>

Unjail(v) ==
  /\ v \in jailed
  /\ jailed' = jailed \ {v}
  /\ UNCHANGED <<nonce, pools, mempool, refused, rewards, slashes, session, viewer>>

\* The unbonding period of the oldest locked request ends.
Unlock(v) ==
  /\ \E k \in DOMAIN queue[v] :
       /\ ~queue[v][k].unlocked /\ \A j \in 1 .. k - 1 : queue[v][j].unlocked
       /\ queue' = [queue EXCEPT ![v][k].unlocked = TRUE]
  /\ UNCHANGED <<nonce, shares, pooled, total, requests, mempool, refused, events, session, viewer>>

-----------------------------------------------------------------------------
(* estimateFee, getNonce, then sign, or prehash and compile *)

Throw(s) == session' = [session EXCEPT ![s].pc = "threw"]

\* Mutant of BnbToShares: isMaxAmount converts what the position is worth.
BnbToSharesAlways(i) ==
  SharesFor(i.at, IF i.max THEN ValueOf(i.at, shares[i.at]) ELSE i.amount)

\* The exact balance for isMaxAmount, and else the conversion at today's rate.
BnbToShares(i) == IF i.max THEN shares[i.at] ELSE SharesFor(i.at, i.amount)

\* buildCallData: a guard and the one read it may need
BelowMinimum(i) == i.type = "Delegate" /\ i.amount < MIN_DELEGATION_AMOUNT
CallFor(i, n) ==
  [type |-> i.type, at |-> i.at, to |-> i.to, index |-> i.index, nonce |-> n,
   amount |-> CASE i.type = "Delegate" -> i.amount
                [] i.type \in {"Undelegate", "Redelegate"} -> BnbToShares(i)
                [] i.type = "ClaimDelegate" -> 0]

\* A caller has the fee estimated, or makes one up.
Start(s) ==
  /\ session[s].pc = "idle"
  /\ \E i \in {j \in Intent : Meaningful(j)}, pc \in {"estimating", "estimated"} :
       session' = [session EXCEPT ![s].intent = i, ![s].pc = pc]
  /\ UNCHANGED <<chain, viewer>>

EstimateCall(s) ==
  /\ session[s].pc = "estimating"
  /\ IF BelowMinimum(session[s].intent) THEN Throw(s)
     ELSE session' = [session EXCEPT ![s].call = CallFor(session[s].intent, 0),
                                     ![s].before.slashes = slashes[session[s].intent.at],
                                     ![s].pc = "simulating"]
  /\ UNCHANGED <<chain, viewer>>

\* estimateGas runs the call, and fails if it would revert.
EstimateGas(s) ==
  LET c == session[s].call IN
  /\ session[s].pc = "simulating"
  /\ IF Accepts(c)
     THEN session' = [session EXCEPT
            ![s].estimated = TRUE, ![s].pc = "estimated", ![s].call = NoCall,
            ![s].before = [shares |-> shares[c.at], queue |-> queue[c.at], slashes |-> @.slashes]]
     ELSE Throw(s)
  /\ UNCHANGED <<chain, viewer>>

\* getNonce counts what a block has taken, not what is in the mempool.
ReadNonce(s) ==
  /\ session[s].pc = "estimated"
  /\ session' = [session EXCEPT ![s].call.nonce = nonce, ![s].pc = "building"]
  /\ UNCHANGED <<chain, viewer>>

BuildCall(s) ==
  /\ session[s].pc = "building"
  /\ IF BelowMinimum(session[s].intent) THEN Throw(s)
     ELSE session' = [session EXCEPT ![s].call = CallFor(session[s].intent, @.nonce),
                                     ![s].held = shares[session[s].intent.at],
                                     ![s].pc = "built"]
  /\ UNCHANGED <<chain, viewer>>

ReadFails(s) ==
  /\ session[s].pc \in {"estimating", "simulating", "estimated", "building"}
  /\ Throw(s)
  /\ UNCHANGED <<chain, viewer>>

Signed(s, t) ==
  session' = [session EXCEPT ![s].pc = "signed", ![s].call = NoCall, ![s].tx = t]

\* sign: nothing compares the key with transaction.account.
Sign(s) ==
  /\ session[s].pc = "built"
  /\ \E key \in Key : Signed(s, SignedBy(key, session[s].call))
  /\ UNCHANGED <<chain, viewer>>

Prehashed == {session[s].call : s \in {r \in Session : session[r].pc = "built"}}

\* Mutant of Compiles: the signer is not recovered.
CompilesUnverified(bytes, sig) == TRUE

\* compile: the signature over these very bytes recovers to transaction.account.
Compiles(bytes, sig) == sig = [key |-> "wallet", over |-> bytes]

\* The external signer may use another key, and the caller confuse two prehashes.
Compile(s) ==
  /\ session[s].pc = "built"
  /\ \E sig \in [key : Key, over : Prehashed] :
       /\ Compiles(session[s].call, sig)
       /\ Signed(s, [call |-> session[s].call, sig |-> sig])
  /\ UNCHANGED <<chain, viewer>>

\* The node takes it, and its answer arrives or is lost.  Under another key it
\* is another account's, and what becomes of it leaves the wallet as it is.
Accepted(s) ==
  LET t == session[s].tx IN
  /\ session[s].pc = "signed" /\ Verifies(t)
  /\ IF OfWallet(t)
     THEN ~NonceTaken(t) /\ mempool' = mempool \cup {t}
     ELSE UNCHANGED mempool
  /\ refused' = refused \ {t}
  /\ \E told \in {"sent", "error"} : session' = [session EXCEPT ![s].pc = told]
  /\ UNCHANGED <<nonce, pools, events, viewer>>

\* The node refuses it, or the request does not arrive.
NotAccepted(s) ==
  LET t == session[s].tx IN
  /\ session[s].pc = "signed"
  /\ \/ /\ ~Verifies(t) \/ ~OfWallet(t) \/ NonceTaken(t)
        /\ refused' = refused \cup {t}
     \/ UNCHANGED refused
  /\ session' = [session EXCEPT ![s].pc = "error"]
  /\ UNCHANGED <<nonce, pools, mempool, events, viewer>>

\* After an error the caller may send the same bytes again.
Rebroadcast(s) ==
  /\ session[s].pc = "error"
  /\ session' = [session EXCEPT ![s].pc = "signed"]
  /\ UNCHANGED <<chain, viewer>>

-----------------------------------------------------------------------------
(* getDelegations *)

\* The pooled amounts and the numbers of requests go out as two multicalls.
View(w) ==
  /\ viewer[w].pc = "idle"
  /\ viewer' = [viewer EXCEPT ![w].pc = "counting"]
  /\ UNCHANGED <<chain, session>>

\* Nothing pooled is no delegation, nor is a contract that fails on its own.
ReadPooled(w) ==
  /\ viewer[w].pc \in {"counting", "reading"} /\ ~viewer[w].pooledRead
  /\ \E answering \in SUBSET Validator :
       viewer' = [viewer EXCEPT ![w].pooledRead = TRUE,
                                ![w].active = {v \in answering : ValueOf(v, shares[v]) > 0}]
  /\ UNCHANGED <<chain, session>>

Clamped(n) == IF n > UnbondClamp THEN UnbondClamp ELSE n

Count(w) ==
  /\ viewer[w].pc = "counting"
  /\ \E answering \in SUBSET Validator :
       viewer' = [viewer EXCEPT
         ![w].pc = "reading",
         ![w].want = {r \in answering \X (1 .. MaxUnbond) : r[2] <= Clamped(Len(queue[r[1]]))}]
  /\ UNCHANGED <<chain, session>>

\* Mutant of IndexOf: one below.
IndexBelow(k) == k - 2

\* The contract counts requests from 0.
IndexOf(k) == k - 1

\* Mutant of Batches: every call a request of its own.
BatchesOfOne(want) == {b \in SUBSET want : Cardinality(b) = 1}

\* The calls of one turn go out together, BatchSize of them at a time.
Batches(want) ==
  IF Cardinality(want) <= BatchSize THEN {want} \ {{}}
  ELSE {b \in SUBSET want : Cardinality(b) = BatchSize}

\* A batch is answered as of one block; an index past the end reverts.
ReadRequests(w) ==
  /\ viewer[w].pc = "reading"
  /\ \E b \in Batches(viewer[w].want) :
       IF \E r \in b : r[2] > Len(queue[r[1]])
       THEN viewer' = [viewer EXCEPT ![w].pc = "threw", ![w].want = {}]
       ELSE viewer' = [viewer EXCEPT
              ![w].want = @ \ b,
              ![w].listed = @ \cup {[at |-> r[1], index |-> IndexOf(r[2]),
                                     id |-> queue[r[1]][r[2]].id,
                                     claimable |-> queue[r[1]][r[2]].unlocked] : r \in b}]
  /\ UNCHANGED <<chain, session>>

Answer(w) ==
  /\ viewer[w].pc = "reading" /\ viewer[w].want = {} /\ viewer[w].pooledRead
  /\ viewer' = [viewer EXCEPT ![w].pc = "answered"]
  /\ UNCHANGED <<chain, session>>

ViewFails(w) ==
  /\ viewer[w].pc \in {"counting", "reading"}
  /\ viewer' = [viewer EXCEPT ![w].pc = "threw", ![w].want = {}]
  /\ UNCHANGED <<chain, session>>

ChainStep ==
  \/ \E t \in mempool : Land(t) \/ Expired(t)
  \/ \E v \in Validator : RewardPaid(v) \/ Slash(v) \/ Unjail(v) \/ Unlock(v)

SessionStep(s) ==
  \/ Start(s) \/ EstimateCall(s) \/ EstimateGas(s) \/ ReadNonce(s) \/ BuildCall(s)
  \/ ReadFails(s) \/ Sign(s) \/ Compile(s)
  \/ Accepted(s) \/ NotAccepted(s) \/ Rebroadcast(s)

ViewerStep(w) ==
  View(w) \/ ReadPooled(w) \/ Count(w) \/ ReadRequests(w) \/ Answer(w) \/ ViewFails(w)

Next == ChainStep \/ (\E s \in Session : SessionStep(s)) \/ (\E w \in Viewer : ViewerStep(w))

Spec == Init /\ [][Next]_vars

-----------------------------------------------------------------------------
(* Properties *)

\* No unbond request is listed twice, and so counted twice by getBalances,
\* although requests are read by index while claims move them down the queue:
\* as long as they fit into one multicall.
NoRequestTwice ==
  \A w \in Viewer : Cardinality(viewer[w].listed) <= BatchSize =>
    \A a, b \in viewer[w].listed : a.id = b.id => a = b

\* An Undelegate or Redelegate of everything that lands leaves no share
\* behind, whatever rewards and penalties moved the rate since it was built,
\* unless the position changed: the reason for isMaxAmount (sign-service.ts:64).
MaxLeavesNothing ==
  [][\A s \in Session :
       LET i == session[s].intent
           t == session[s].tx IN
       /\ i.max /\ t.call.type = i.type
       /\ t \in mempool \ mempool' /\ nonce' > nonce /\ t \notin refused'
       /\ shares[i.at] = session[s].held
       => shares'[i.at] = 0]_vars

\* A transaction whose fee was estimated is refused or reverts only if it was
\* signed with another key, if its nonce was taken, if its validator's position
\* or requests have changed since the estimate or the build, if the validator it
\* delegates to is in jail by now, or if what it takes out is no share by now or
\* was converted after the validator had been slashed.
RefusedOnlyIfChanged ==
  [][\A s \in Session :
       LET t == session[s].tx
           c == t.call
           before == session[s].before IN
       t \in refused' \ refused /\ session[s].estimated =>
         \/ ~OfWallet(t)
         \/ NonceTaken(t)
         \/ shares[c.at] # before.shares \/ shares[c.at] # session[s].held
         \/ queue[c.at] # before.queue
         \/ c.type \in {"Delegate", "Redelegate"} /\ c.to \in jailed
         \/ c.type \in {"Undelegate", "Redelegate"} /\ c.amount = 0
         \/ /\ c.type \in {"Undelegate", "Redelegate"} /\ ~session[s].intent.max
            /\ slashes[c.at] # before.slashes]_vars

=============================================================================
