----------------------------- MODULE TronSessions -----------------------------
(***************************************************************************)
(* Concurrent staking transactions of one Tron wallet: the checks and the  *)
(* quote of estimateFee (packages/tron/src/tron-chain/services/            *)
(* fee-service.ts, validations.ts), the transaction TronWeb builds from    *)
(* what tx/tx-builder.ts passes it, signed in process or by an external    *)
(* signer (services/sign-service.ts), and the broadcast with what the      *)
(* caller is told of it (rpc/tron-rpc-client.ts), while the account        *)
(* changes and transactions expire.                                        *)
(*                                                                         *)
(* A contract is what it does, for whom, under which reference block, so   *)
(* that two equal contracts are one transaction, as their txID says.       *)
(***************************************************************************)
EXTENDS Integers, Sequences, FiniteSets, Functions

CONSTANTS
  Session,       \* callers that each want one transaction
  SR,            \* accounts a caller may vote for
  Witness,       \* those of them that are Super Representatives, as the witness map has it
  Amount,        \* amounts in SUN a caller may name
  SUN_PER_TRX,
  ESTIMATED_TX_BANDWIDTH, \* at a price of 1 SUN a point
  MaxUnfreezing, \* unfreezes the chain lets wait at a time
  Life,          \* blocks until a transaction expires
  MaxHeight, MaxChanges  \* bounds

ASSUME TronSessionsAssumption ==
  /\ SUN_PER_TRX \in Nat \ {0}
  /\ Amount \subseteq Nat /\ SR # {} /\ IsFiniteSet(SR) /\ Witness \subseteq SR
  /\ {ESTIMATED_TX_BANDWIDTH, MaxUnfreezing, Life, MaxHeight, MaxChanges} \subseteq Nat

VARIABLES
  height,   \* of the chain
  account,  \* of the wallet
  mempool,  \* transactions a node has accepted and no block has yet
  landed,   \* transactions executed
  refused,  \* transactions a node or a block refused
  changes,  \* how often the account changed on its own
  session

chain == <<height, account, mempool, landed, refused, changes>>
vars == <<chain, session>>

Resource == {"BANDWIDTH", "ENERGY"}
Type == {"Delegate", "Undelegate", "Vote", "ClaimDelegate", "ClaimRewards"}
Key == {"wallet", "other"}

\* locked are the unfreezes that wait, matured what those that do not add up
\* to, bandwidth what is available of both kinds; cooling is whether rewards
\* were claimed in the last 24 hours.
Account ==
  [balance : Nat, frozen : [Resource -> Nat], votes : [SR -> Nat], locked : Seq(Nat),
   matured : Nat, reward : Nat, bandwidth : Nat, cooling : BOOLEAN]

AnySR == CHOOSE r \in SR : TRUE
Intent == [type : Type, amount : Amount, resource : Resource, sr : SR, max : BOOLEAN]

\* Those the fields of which mean something.
Meaningful(i) ==
  /\ i.type \in {"Vote", "ClaimDelegate", "ClaimRewards"} => i.resource = "ENERGY" /\ ~i.max
  /\ i.type \in {"ClaimDelegate", "ClaimRewards"} => \A a \in Amount : i.amount <= a
  /\ i.type # "Vote" => i.sr = AnySR

Contract ==
  [type : Type, owner : Key, amount : Nat, resource : Resource, sr : SR, votes : Nat, ref : Nat]
Transaction == [call : Contract, sig : [key : Key, over : Contract]]
SignedBy(key, c) == [call |-> c, sig |-> [key |-> key, over |-> c]]

\* _rawTx: raw_data_hex, the structured raw_data, and what txID is the hash of.
Raw(contracts) == [hex : contracts, shown : contracts, id : contracts]

NoIntent == [type |-> "ClaimRewards", amount |-> 0, resource |-> "ENERGY", sr |-> AnySR, max |-> FALSE]
NoContract ==
  [type |-> "ClaimRewards", owner |-> "wallet", amount |-> 0, resource |-> "ENERGY",
   sr |-> AnySR, votes |-> 0, ref |-> 0]
NoAccount ==
  [balance |-> 0, frozen |-> [r \in Resource |-> 0], votes |-> [r \in SR |-> 0],
   locked |-> <<>>, matured |-> 0, reward |-> 0, bandwidth |-> 0, cooling |-> FALSE]

\* before is the account estimateFee checked, for the property.
SessionRec ==
  [pc : {"idle", "checking", "quoting", "estimated", "prehashed", "signed", "error", "sent", "threw"},
   intent : Intent \cup {NoIntent}, estimated : BOOLEAN, before : Account, fee : Nat,
   call : Contract, tx : Transaction]

TypeOK ==
  /\ {height, changes} \subseteq Nat
  /\ account \in Account
  /\ mempool \subseteq Transaction /\ landed \subseteq Transaction /\ refused \subseteq Transaction
  /\ session \in [Session -> SessionRec]

Idle ==
  [pc |-> "idle", intent |-> NoIntent, estimated |-> FALSE, before |-> NoAccount, fee |-> 0,
   call |-> NoContract, tx |-> SignedBy("wallet", NoContract)]

Init ==
  /\ height = 0
  /\ account \in Account
  /\ mempool = {} /\ landed = {} /\ refused = {}
  /\ changes = 0
  /\ session = [s \in Session |-> Idle]

-----------------------------------------------------------------------------
(* The chain, as the checks of the package anticipate it.  A vote replaces *)
(* those before it; what an unfreeze does to the votes is left open.       *)

Frozen(a) == a.frozen["BANDWIDTH"] + a.frozen["ENERGY"]
Burned(a) ==
  IF a.bandwidth >= ESTIMATED_TX_BANDWIDTH THEN 0 ELSE ESTIMATED_TX_BANDWIDTH - a.bandwidth

Accepts(c, a) ==
  /\ a.balance >= Burned(a)
  /\ CASE c.type = "Delegate" -> c.amount >= SUN_PER_TRX /\ c.amount <= a.balance - Burned(a)
       [] c.type = "Undelegate" ->
            c.amount > 0 /\ c.amount <= a.frozen[c.resource] /\ Len(a.locked) < MaxUnfreezing
       [] c.type = "Vote" ->
            c.votes > 0 /\ c.votes * SUN_PER_TRX <= Frozen(a) /\ c.sr \in Witness
       [] c.type = "ClaimDelegate" -> a.matured > 0
       [] c.type = "ClaimRewards" -> a.reward > 0 /\ ~a.cooling

Expired(c) == height > c.ref + Life
Verifies(t) == t.sig = [key |-> t.call.owner, over |-> t.call]

\* What a contract of the wallet makes of its account.
After(c, a) ==
  LET b == [a EXCEPT !.balance = @ - Burned(a)] IN
  CASE c.type = "Delegate" ->
         {[b EXCEPT !.balance = @ - c.amount, !.frozen[c.resource] = @ + c.amount]}
    [] c.type = "Undelegate" ->
         {[b EXCEPT !.frozen[c.resource] = @ - c.amount, !.locked = Append(@, c.amount),
                    !.votes = v] : v \in {a.votes, NoAccount.votes}}
    [] c.type = "Vote" -> {[b EXCEPT !.votes = [NoAccount.votes EXCEPT ![c.sr] = c.votes]]}
    [] c.type = "ClaimDelegate" -> {[b EXCEPT !.balance = @ + a.matured, !.matured = 0]}
    [] c.type = "ClaimRewards" -> {[b EXCEPT !.balance = @ + a.reward, !.reward = 0, !.cooling = TRUE]}

\* The next block takes it, or finds it invalid by now.
Land(t) ==
  /\ t \in mempool /\ ~Expired(t.call)
  /\ mempool' = mempool \ {t}
  /\ \/ /\ t.call.owner = "wallet" => Accepts(t.call, account)
        /\ landed' = landed \cup {t}
        /\ account' \in IF t.call.owner = "wallet" THEN After(t.call, account) ELSE {account}
        /\ UNCHANGED refused
     \/ /\ t.call.owner = "wallet" => ~Accepts(t.call, account)
        /\ refused' = refused \cup {t}
        /\ UNCHANGED <<account, landed>>
  /\ UNCHANGED <<height, changes, session>>

\* No block took it in time.
Drop(t) ==
  /\ t \in mempool /\ Expired(t.call)
  /\ mempool' = mempool \ {t}
  /\ UNCHANGED <<height, account, landed, refused, changes, session>>

NextBlock ==
  /\ height < MaxHeight
  /\ height' = height + 1
  /\ UNCHANGED <<account, mempool, landed, refused, changes, session>>

\* An unfreeze matures, a reward is paid, the cooldown of a claim ends,
\* bandwidth is used or regained, or another program of the wallet pays something.
AccountChanges ==
  /\ changes < MaxChanges
  /\ changes' = changes + 1
  /\ \/ /\ account.locked # <<>>
        /\ account' = [account EXCEPT !.locked = Tail(@), !.matured = @ + Head(account.locked)]
     \/ account' = [account EXCEPT !.reward = @ + 1]
     \/ account.cooling /\ account' = [account EXCEPT !.cooling = FALSE]
     \/ \E n \in {0, 2 * ESTIMATED_TX_BANDWIDTH} : account' = [account EXCEPT !.bandwidth = n]
     \/ account.balance > 0 /\ account' = [account EXCEPT !.balance = @ - 1]
  /\ UNCHANGED <<height, mempool, landed, refused, session>>

-----------------------------------------------------------------------------
(* estimateFee *)

Throw(s) == session' = [session EXCEPT ![s] = [Idle EXCEPT !.pc = "threw"]]

\* A caller has the fee estimated, or makes one up.
Start(s) ==
  /\ session[s].pc = "idle"
  /\ \E i \in {j \in Intent : Meaningful(j)}, pc \in {"checking", "estimated"} :
       session' = [session EXCEPT ![s].intent = i, ![s].pc = pc]
  /\ UNCHANGED chain

AvailableTronPower(a) ==
  LET voted == SUN_PER_TRX * SumFunctionOnSet(a.votes, SR) IN
  IF Frozen(a) > voted THEN Frozen(a) - voted ELSE 0

\* assertFreeze, assertUnfreeze, assertVote; nothing is asserted of a claim.
Passes(i, a) ==
  CASE i.type = "Delegate" -> i.amount >= SUN_PER_TRX /\ i.amount <= a.balance
    [] i.type = "Undelegate" -> i.amount > 0 /\ i.amount <= a.frozen[i.resource]
    [] i.type = "Vote" ->
         /\ i.amount > 0 /\ i.amount % SUN_PER_TRX = 0
         /\ i.sr \in Witness
         /\ i.amount <= AvailableTronPower(a)
    [] i.type \in {"ClaimDelegate", "ClaimRewards"} -> TRUE

CheckAccount(s) ==
  /\ session[s].pc = "checking"
  /\ IF Passes(session[s].intent, account)
     THEN session' = [session EXCEPT ![s].pc = "quoting", ![s].before = account]
     ELSE Throw(s)
  /\ UNCHANGED chain

\* Mutant of Shortfall: not floored at 0.
ShortfallBelowZero(available) == ESTIMATED_TX_BANDWIDTH - available

Shortfall(available) ==
  IF available >= ESTIMATED_TX_BANDWIDTH THEN 0 ELSE ESTIMATED_TX_BANDWIDTH - available

\* A claim may name no account, and is quoted as if there were no bandwidth.
Quoted(type) ==
  {Shortfall(account.bandwidth)}
    \cup IF type \in {"ClaimDelegate", "ClaimRewards"} THEN {ESTIMATED_TX_BANDWIDTH} ELSE {}

Quote(s) ==
  /\ session[s].pc = "quoting"
  /\ \E fee \in Quoted(session[s].intent.type) :
       session' = [session EXCEPT ![s].pc = "estimated", ![s].estimated = TRUE, ![s].fee = fee]
  /\ UNCHANGED chain

-----------------------------------------------------------------------------
(* sign, or prehash and compile, and broadcast *)

Buildable(i) ==
  CASE i.type = "Delegate" -> ~i.max /\ i.amount >= SUN_PER_TRX
    [] i.type = "Undelegate" -> ~i.max /\ i.amount > 0
    [] i.type = "Vote" -> i.amount % SUN_PER_TRX = 0 /\ i.amount > 0
    [] i.type \in {"ClaimDelegate", "ClaimRewards"} -> TRUE

\* Mutant of VotesOf: votes are counted in SUN.
VotesInSun(sun) == sun

VotesOf(sun) == sun \div SUN_PER_TRX

\* buildUnsignedTx: TronWeb adds the latest block, its only read.
BuildUnsignedTx(i, owner) ==
  [type |-> i.type, owner |-> owner, resource |-> i.resource, sr |-> i.sr, ref |-> height,
   amount |-> IF i.type \in {"Delegate", "Undelegate"} THEN i.amount ELSE 0,
   votes |-> IF i.type = "Vote" THEN VotesOf(i.amount) ELSE 0]

Signed(s, c, t) ==
  session' = [session EXCEPT ![s].pc = "signed", ![s].call = c, ![s].tx = t]

\* sign builds for the owner of the key, whoever transaction.account is.
Sign(s) ==
  /\ session[s].pc = "estimated" /\ Buildable(session[s].intent)
  /\ \E key \in Key :
       LET c == BuildUnsignedTx(session[s].intent, key) IN Signed(s, c, SignedBy(key, c))
  /\ UNCHANGED chain

Prehash(s) ==
  /\ session[s].pc = "estimated" /\ Buildable(session[s].intent)
  /\ session' = [session EXCEPT ![s].pc = "prehashed",
                                ![s].call = BuildUnsignedTx(session[s].intent, "wallet")]
  /\ UNCHANGED chain

\* A read fails, or buildUnsignedTx throws.
Fails(s) ==
  /\ session[s].pc \in {"checking", "quoting", "estimated"}
  /\ Throw(s)
  /\ UNCHANGED chain

Prehashed == {session[s].call : s \in {r \in Session : session[r].pc = "prehashed"}}

\* compile: txID is the hash of raw_data_hex, raw_data is what that encodes,
\* and the signature over txID recovers to its owner.
Compiles(raw, sig) ==
  /\ raw.id = raw.hex
  /\ raw.shown = raw.hex
  /\ sig = [key |-> raw.shown.owner, over |-> raw.id]

\* The caller may confuse two prehashes, and the signer use another key.
Compile(s) ==
  /\ session[s].pc = "prehashed"
  /\ \E raw \in Raw(Prehashed), sig \in [key : Key, over : Prehashed] :
       /\ Compiles(raw, sig)
       /\ Signed(s, session[s].call, [call |-> raw.shown, sig |-> sig])
  /\ UNCHANGED chain

\* The answer has a txid, has none, or is lost.
Answer == {"txid", "none", "lost"}

\* broadcast resolves with a txid whatever result says, and throws without.
Told(answer) == IF answer = "txid" THEN "sent" ELSE "error"

Duplicate(t) == t \in mempool \cup landed

Sound(t) ==
  /\ Verifies(t) /\ ~Expired(t.call) /\ ~Duplicate(t)
  /\ t.call.owner = "wallet" => Accepts(t.call, account)

Accepted(s) ==
  LET t == session[s].tx IN
  /\ session[s].pc = "signed" /\ Sound(t)
  /\ mempool' = mempool \cup {t}
  /\ \E a \in Answer : session' = [session EXCEPT ![s].pc = Told(a)]
  /\ UNCHANGED <<height, account, landed, refused, changes>>

\* The node refuses it, or the request does not arrive.
NotAccepted(s) ==
  LET t == session[s].tx IN
  /\ session[s].pc = "signed"
  /\ \/ /\ ~Sound(t)
        /\ refused' = refused \cup {t}
        /\ \E a \in Answer : session' = [session EXCEPT ![s].pc = Told(a)]
     \/ /\ session' = [session EXCEPT ![s].pc = "error"]
        /\ UNCHANGED refused
  /\ UNCHANGED <<height, account, mempool, landed, changes>>

\* After an error the caller may send the same transaction again.
Rebroadcast(s) ==
  /\ session[s].pc = "error"
  /\ session' = [session EXCEPT ![s].pc = "signed"]
  /\ UNCHANGED chain

ChainStep == NextBlock \/ AccountChanges \/ \E t \in mempool : Land(t) \/ Drop(t)

SessionStep(s) ==
  \/ Start(s) \/ CheckAccount(s) \/ Quote(s)
  \/ Sign(s) \/ Prehash(s) \/ Fails(s) \/ Compile(s)
  \/ Accepted(s) \/ NotAccepted(s) \/ Rebroadcast(s)

Next == ChainStep \/ \E s \in Session : SessionStep(s)

Spec == Init /\ [][Next]_vars

-----------------------------------------------------------------------------
(* Properties *)

\* What estimateFee does not look at: that a Delegate leaves nothing to burn
\* for bandwidth, the limit of unfreezes, whether there is anything to claim,
\* and the cooldown of ClaimRewards.
Unchecked(c, a) ==
  \/ a.balance < Burned(a)
  \/ c.type = "Delegate" /\ c.amount > a.balance - Burned(a)
  \/ c.type = "Undelegate" /\ Len(a.locked) >= MaxUnfreezing
  \/ c.type = "ClaimDelegate" /\ a.matured = 0
  \/ c.type = "ClaimRewards" /\ (a.reward = 0 \/ a.cooling)

\* A transaction of the wallet that estimateFee has passed, built and signed
\* by either way, is refused only if the account has changed since the check,
\* it has expired, it is there already, or for what is never checked.
RefusedOnlyIfChanged ==
  [][\A s \in Session :
       LET t == session[s].tx IN
       /\ t \in refused' \ refused /\ session[s].estimated
       /\ t.call = session[s].call /\ t.call.owner = "wallet"
       => \/ account # session[s].before
          \/ Expired(t.call) \/ Duplicate(t)
          \/ Unchecked(t.call, account)]_vars

=============================================================================
