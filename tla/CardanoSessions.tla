--------------------------- MODULE CardanoSessions ---------------------------
(***************************************************************************)
(* Stake transactions of one Cardano wallet (packages/cardano/src/         *)
(* cardano-chain): the fee estimated from one reading of the wallet        *)
(* (services/fee-service.ts), the body built from a second one, with       *)
(* inputs selected page by page (tx/coin-selection.ts, tx/tx-helpers.ts),  *)
(* signed in process or by an external signer (services/sign-service.ts),  *)
(* and submitted to a ledger that other transactions, epochs and parameter *)
(* updates change between any two reads.                                   *)
(*                                                                         *)
(* Every read of a Promise.all is a step of its own, in any order.         *)
(***************************************************************************)
EXTENDS Integers, Sequences, FiniteSets, Functions

CONSTANTS
  Session,             \* callers that each want one transaction
  Claim,               \* amounts a caller may ask to claim
  CallerFee,           \* fees a caller may make up
  Deposit,             \* values the parameter key_deposit may have
  Coin,                \* lovelace a UTXO may be received with
  MinFeeA, MinFeeB,    \* min_fee_a, min_fee_b
  MinUtxo,             \* computeMinOutputLovelace at the wallet's address
  BaseSize, InputSize, CertSize, WithdrawalSize, \* parts of a transaction's size
  PageSize, MaxPages,  \* DEFAULT_UTXO_PAGE_SIZE, DEFAULT_MAX_UTXO_PAGES
  Validity,            \* TTL_VALIDITY_SLOTS
  Reward,              \* what an epoch pays
  MaxSlot, MaxChanges  \* bounds

ASSUME CardanoAssumption ==
  /\ Claim \cup CallerFee \cup Deposit \cup Coin \subseteq Nat
  /\ {MinFeeA, MinFeeB, BaseSize, InputSize, CertSize, WithdrawalSize,
      Validity, Reward, MaxSlot, MaxChanges} \subseteq Nat
  /\ {MinUtxo, PageSize, MaxPages} \subseteq Nat \ {0}

VARIABLES
  slot,       \* of the latest block
  wallet,     \* UTXOs of the payment address, newest first
  account,    \* the reward account
  keyDeposit, \* the parameter
  mempool,    \* transactions a node has accepted and no block has yet
  refused,    \* transactions a node or the ledger refused
  births,     \* UTXOs there have been
  changes,    \* how often something else has changed the ledger
  session

vars == <<slot, wallet, account, keyDeposit, mempool, refused, births, changes, session>>
ledger == <<slot, wallet, account, keyDeposit, mempool, refused, births, changes>>

Utxo == [id : Nat, ada : Nat, pure : BOOLEAN]

\* "Idle" is registered but delegates to no pool.
Account == [state : {"None", "Idle", "Active"}, rewards : Nat, deposit : Nat]
NoAccount == [state |-> "None", rewards |-> 0, deposit |-> 0]

Type == {"Delegate", "Redelegate", "Undelegate", "ClaimRewards"}
Intent == [type : Type \ {"ClaimRewards"}, amount : {0}]
            \cup [type : {"ClaimRewards"}, amount : Claim]

Certificate == {"StakeRegistration", "StakeDelegation", "StakeDeregistration"}
Body == [inputs : SUBSET Nat, change : Nat, fee : Nat, ttl : Nat,
         certs : Seq(Certificate), withdrawal : Nat]
NoBody == [inputs |-> {}, change |-> 0, fee |-> 0, ttl |-> 0, certs |-> <<>>, withdrawal |-> 0]

\* A witness: the key it names, and the key that signed what.
Key == {"payment", "staking", "other"}
Witness == [vkey : Key, by : Key, over : Body]
Transaction == [body : Body, payment : Witness, staking : Witness]
SignedBy(key, b) == [vkey |-> key, by |-> key, over |-> b]
Signed(b) ==
  [body |-> b, payment |-> SignedBy("payment", b), staking |-> SignedBy("staking", b)]

SessionRec ==
  [pc : {"idle", "estimating", "signing", "built", "signed", "error", "sent", "threw"},
   intent : Intent, need : SUBSET {"params", "utxos", "block", "account"},
   collected : Seq(Utxo), page : 0 .. MaxPages, full : BOOLEAN,
   account : Account, keyDeposit : Nat, ttl : Nat, fee : Nat, estimated : BOOLEAN,
   seen : Seq(Utxo), torn : BOOLEAN, body : Body, tx : Transaction]

TypeOK ==
  /\ {slot, keyDeposit, births, changes} \subseteq Nat
  /\ wallet \in Seq(Utxo)
  /\ account \in Account
  /\ mempool \subseteq Transaction /\ refused \subseteq Transaction
  /\ session \in [Session -> SessionRec]

Idle ==
  [pc |-> "idle", intent |-> [type |-> "Delegate", amount |-> 0], need |-> {},
   collected |-> <<>>, page |-> 0, full |-> FALSE, account |-> NoAccount, keyDeposit |-> 0,
   ttl |-> 0, fee |-> 0, estimated |-> FALSE, seen |-> <<>>, torn |-> FALSE,
   body |-> NoBody, tx |-> Signed(NoBody)]

Ids(q) == {q[k].id : k \in DOMAIN q}
Total(q, I) == SumFunctionOnSet([k \in I |-> q[k].ada], I)

Init ==
  /\ slot \in Nat \ {0}
  /\ wallet \in Seq(Utxo)
  /\ \A j, k \in DOMAIN wallet : wallet[j].id = wallet[k].id => j = k
  /\ births \in Nat /\ \A k \in DOMAIN wallet : wallet[k].id <= births
  /\ account \in Account /\ (account.state = "None" => account = NoAccount)
  /\ keyDeposit \in Deposit
  /\ mempool = {} /\ refused = {}
  /\ changes = 0
  /\ session = [s \in Session |-> Idle]

-----------------------------------------------------------------------------
(* The ledger, as the builder's own arithmetic anticipates it. *)

Parts(b) ==
  InputSize * Cardinality(b.inputs) + CertSize * Len(b.certs)
    + (IF b.withdrawal > 0 THEN WithdrawalSize ELSE 0)
Size(b) == BaseSize + Parts(b)
MinFee(b) == MinFeeA * Size(b) + MinFeeB

Has(b, cert) == \E k \in DOMAIN b.certs : b.certs[k] = cert
Spent(b) == {k \in DOMAIN wallet : wallet[k].id \in b.inputs}

Balanced(b) ==
  Total(wallet, Spent(b)) + b.withdrawal
      + (IF Has(b, "StakeDeregistration") THEN account.deposit ELSE 0)
    = b.change + b.fee + (IF Has(b, "StakeRegistration") THEN keyDeposit ELSE 0)

Accepts(b) ==
  /\ slot < b.ttl
  /\ b.inputs # {} /\ b.inputs \subseteq Ids(wallet)
  /\ \A k \in Spent(b) : wallet[k].pure
  /\ b.change >= MinUtxo /\ b.fee >= MinFee(b) /\ Balanced(b)
  /\ Has(b, "StakeRegistration") => account.state = "None"
  /\ Has(b, "StakeDelegation") => account.state # "None" \/ Has(b, "StakeRegistration")
  /\ Has(b, "StakeDeregistration") => account.state # "None" /\ account.rewards = b.withdrawal
  /\ b.withdrawal > 0 => account.state # "None" /\ account.rewards = b.withdrawal

Verifies(t) == t.payment = SignedBy("payment", t.body) /\ t.staking = SignedBy("staking", t.body)

AccountAfter(b) ==
  IF Has(b, "StakeDeregistration") THEN NoAccount
  ELSE [account EXCEPT !.rewards = @ - b.withdrawal,
                       !.deposit = IF Has(b, "StakeRegistration") THEN keyDeposit ELSE @,
                       !.state = IF Has(b, "StakeDelegation") THEN "Active" ELSE @]

\* The UTXOs of q that are not in I, in their order.
Without(q, I) ==
  LET kept == {k \in DOMAIN q : q[k].id \notin I}
      At(j) == CHOOSE k \in kept : Cardinality({i \in kept : i < k}) = j - 1 IN
  [j \in 1 .. Cardinality(kept) |-> q[At(j)]]

\* A block takes a transaction, or the node finds that it no longer can.
Land(t) ==
  /\ t \in mempool
  /\ mempool' = mempool \ {t}
  /\ IF Verifies(t) /\ Accepts(t.body)
     THEN /\ births' = births + 1
          /\ wallet' = <<[id |-> births + 1, ada |-> t.body.change, pure |-> TRUE]>>
                         \o Without(wallet, t.body.inputs)
          /\ account' = AccountAfter(t.body)
          /\ UNCHANGED refused
     ELSE /\ refused' = refused \cup {t}
          /\ UNCHANGED <<births, wallet, account>>
  /\ UNCHANGED <<slot, keyDeposit, changes, session>>

NextSlot ==
  /\ slot < MaxSlot
  /\ slot' = slot + 1
  /\ UNCHANGED <<wallet, account, keyDeposit, mempool, refused, births, changes, session>>

Change ==
  /\ changes < MaxChanges
  /\ changes' = changes + 1
  /\ UNCHANGED <<slot, mempool, refused, session>>

\* Somebody pays the wallet, in lovelace alone or with tokens.
Receive ==
  /\ Change
  /\ \E c \in Coin, p \in BOOLEAN :
       wallet' = <<[id |-> births + 1, ada |-> c, pure |-> p]>> \o wallet
  /\ births' = births + 1
  /\ UNCHANGED <<account, keyDeposit>>

\* Another program with the wallet's keys spends a UTXO.
Spend ==
  /\ Change
  /\ \E k \in DOMAIN wallet : wallet' = Without(wallet, {wallet[k].id})
  /\ UNCHANGED <<account, keyDeposit, births>>

\* An epoch pays a reward or changes the parameter, a pool retires, another
\* program with the wallet's keys registers or deregisters.
Epoch ==
  /\ Change
  /\ \/ /\ account.state = "Active"
        /\ account' = [account EXCEPT !.rewards = @ + Reward]
        /\ UNCHANGED keyDeposit
     \/ /\ keyDeposit' \in Deposit \ {keyDeposit}
        /\ UNCHANGED account
     \/ /\ account.state = "Active"
        /\ account' = [account EXCEPT !.state = "Idle"]
        /\ UNCHANGED keyDeposit
     \/ /\ account.state = "None"
        /\ account' = [account EXCEPT !.state = "Active", !.deposit = keyDeposit]
        /\ UNCHANGED keyDeposit
     \/ /\ account.state # "None" /\ account.rewards = 0
        /\ account' = NoAccount
        /\ UNCHANGED keyDeposit
  /\ UNCHANGED <<wallet, births>>

-----------------------------------------------------------------------------
(* What a transaction costs and carries (tx-helpers.ts).  The account and  *)
(* the parameter are those that were read.                                 *)

\* Registered means delegating: the code reads active, nothing else.
Registered(a) == a.state = "Active"
Delegates(type) == type \in {"Delegate", "Redelegate"}

Certificates(type, a) ==
  CASE Delegates(type) ->
         (IF Registered(a) THEN <<>> ELSE <<"StakeRegistration">>) \o <<"StakeDelegation">>
    [] type = "Undelegate" -> <<"StakeDeregistration">>
    [] type = "ClaimRewards" -> <<>>

\* rewardAccountWithdrawal: all of it or nothing, whatever amount was asked for.
Withdrawal(i, a) == IF Delegates(i.type) THEN 0 ELSE a.rewards

Required(type, fee, a, deposit) ==
  fee + IF Delegates(type) /\ ~Registered(a) THEN deposit ELSE 0

\* computeSelectionTarget of a session, under the fee it uses by now
Fee(s) == IF session[s].pc = "estimating" THEN MinFeeB ELSE session[s].fee
Owed(s) == Required(session[s].intent.type, Fee(s), session[s].account, session[s].keyDeposit)
Target(s) == Owed(s) + MinUtxo

-----------------------------------------------------------------------------
(* Selection (coin-selection.ts) *)

PureIn(q) == {k \in DOMAIN q : q[k].pure}
PureAda(q) == Total(q, PureIn(q))

\* Largest first; equal ones stay in the order they were read.
Before(q, j, k) == q[j].ada > q[k].ada \/ (q[j].ada = q[k].ada /\ j < k)

\* A UTXO is taken iff those before it do not reach the target.
SelectUtxos(q, target) ==
  {k \in PureIn(q) : Total(q, {j \in PureIn(q) : Before(q, j, k)}) < target}

Page(n) ==
  SubSeq(wallet, (n - 1) * PageSize + 1,
         IF n * PageSize <= Len(wallet) THEN n * PageSize ELSE Len(wallet))

Covered(s) == PureAda(session[s].collected) >= Target(s)

\* Mutant of MorePages: one page too many.
MorePagesOffByOne(page) == page <= MaxPages
MorePages(page) == page < MaxPages

-----------------------------------------------------------------------------
(* estimateFee, then sign or prehash *)

Throw(s) ==
  session' = [session EXCEPT ![s] = [@ EXCEPT !.pc = "threw", !.need = {}, !.collected = <<>>]]

EstimateReads == {"params", "utxos", "account"}
SigningReads == EstimateReads \cup {"block"}

\* A caller has the fee estimated, or makes one up.
Start(s) ==
  /\ session[s].pc = "idle"
  /\ \E i \in Intent :
       \/ session' = [session EXCEPT ![s] = [@ EXCEPT
             !.intent = i, !.pc = "estimating", !.need = EstimateReads]]
       \/ \E f \in CallerFee :
            session' = [session EXCEPT ![s] = [@ EXCEPT
              !.intent = i, !.pc = "signing", !.need = SigningReads, !.fee = f]]
  /\ UNCHANGED ledger

Reads(s, what) == what \in session[s].need

ReadParams(s) ==
  /\ Reads(s, "params")
  /\ session' = [session EXCEPT ![s] = [@ EXCEPT
       !.need = session[s].need \ {"params"}, !.keyDeposit = keyDeposit]]
  /\ UNCHANGED ledger

ReadUtxos(s) ==
  /\ Reads(s, "utxos")
  /\ session' = [session EXCEPT ![s] = [@ EXCEPT
       !.need = session[s].need \ {"utxos"}, !.collected = Page(1), !.page = 1,
       !.full = Len(Page(1)) = PageSize, !.seen = wallet, !.torn = FALSE]]
  /\ UNCHANGED ledger

ReadBlock(s) ==
  /\ Reads(s, "block")
  /\ session' = [session EXCEPT ![s] = [@ EXCEPT
       !.need = session[s].need \ {"block"}, !.ttl = slot + Validity]]
  /\ UNCHANGED ledger

\* getAccountOrNull: an account that is not there and null are treated alike.
ReadAccount(s) ==
  /\ Reads(s, "account")
  /\ session' = [session EXCEPT ![s] = [@ EXCEPT
       !.need = session[s].need \ {"account"}, !.account = account]]
  /\ UNCHANGED ledger

\* A request fails, and with it the whole call.
ReadFails(s) ==
  /\ session[s].pc \in {"estimating", "signing"}
  /\ Throw(s)
  /\ UNCHANGED ledger

\* The preconditions of resolveChainState; estimateFee has none.
Permitted(s) ==
  LET i == session[s].intent
      a == session[s].account IN
  session[s].pc = "signing" =>
    /\ session[s].ttl > Validity
    /\ i.type = "Undelegate" => Registered(a)
    /\ i.type = "ClaimRewards" => i.amount > 0 /\ a.rewards > 0 /\ i.amount <= a.rewards

Resolved(s) == session[s].pc \in {"estimating", "signing"} /\ session[s].need = {}

NotPermitted(s) ==
  /\ Resolved(s) /\ ~Permitted(s)
  /\ Throw(s)
  /\ UNCHANGED ledger

\* The pages are read one by one, from a wallet that may have changed.
FetchPage(s) ==
  LET page == session[s].page + 1 IN
  /\ Resolved(s) /\ Permitted(s)
  /\ ~Covered(s) /\ session[s].full /\ MorePages(session[s].page)
  /\ session' = [session EXCEPT ![s] = [@ EXCEPT
       !.collected = session[s].collected \o Page(page), !.page = page,
       !.full = Len(Page(page)) = PageSize,
       !.torn = session[s].torn \/ wallet # session[s].seen]]
  /\ UNCHANGED ledger

NotCovered(s) ==
  /\ Resolved(s) /\ Permitted(s)
  /\ ~Covered(s) /\ ~(session[s].full /\ MorePages(session[s].page))
  /\ Throw(s)
  /\ UNCHANGED ledger

\* The inputs selected from the pages; one read twice is in the set once.
Selection(s) == SelectUtxos(session[s].collected, Target(s))
Inputs(s) == Ids([k \in Selection(s) |-> session[s].collected[k]])

BodyOf(s, change) ==
  [inputs |-> Inputs(s), change |-> change, fee |-> Fee(s), ttl |-> session[s].ttl,
   certs |-> Certificates(session[s].intent.type, session[s].account),
   withdrawal |-> Withdrawal(session[s].intent, session[s].account)]

\* Mutant of Buffered: no buffer.
Unbuffered(fee) == fee
Buffered(fee) == fee + (fee * 10) \div 100

\* The estimate is that of a mock transaction; then the caller signs.
Quote(s) ==
  /\ session[s].pc = "estimating" /\ session[s].need = {} /\ Covered(s)
  /\ session' = [session EXCEPT ![s] = [@ EXCEPT
       !.fee = Buffered(MinFee(BodyOf(s, MinUtxo))), !.estimated = TRUE,
       !.pc = "signing", !.need = SigningReads,
       !.collected = <<>>, !.page = 0, !.full = FALSE, !.account = NoAccount,
       !.keyDeposit = 0, !.seen = <<>>, !.torn = FALSE]]
  /\ UNCHANGED ledger

\* Mutant of ChangeOf: the deposit is not refunded to the change.
ChangeNoRefund(s) ==
  Total(session[s].collected, Selection(s)) - Owed(s)
    + Withdrawal(session[s].intent, session[s].account)

\* What buildBody returns to the wallet, counting what was selected twice twice.
ChangeOf(s) ==
  Total(session[s].collected, Selection(s)) - Owed(s)
    + Withdrawal(session[s].intent, session[s].account)
    + IF session[s].intent.type = "Undelegate" THEN session[s].keyDeposit ELSE 0

BuildBody(s) ==
  /\ session[s].pc = "signing" /\ session[s].need = {} /\ Permitted(s) /\ Covered(s)
  /\ IF ChangeOf(s) < MinUtxo
     THEN Throw(s)
     ELSE session' = [session EXCEPT ![s] = [@ EXCEPT
            !.pc = "built", !.body = BodyOf(s, ChangeOf(s)), !.collected = <<>>, !.seen = <<>>]]
  /\ UNCHANGED ledger

Ready(s, t) == session' = [session EXCEPT ![s] = [@ EXCEPT !.pc = "signed", !.tx = t]]

Sign(s) ==
  /\ session[s].pc = "built"
  /\ Ready(s, Signed(session[s].body))
  /\ UNCHANGED ledger

Prehashed == {session[s].body : s \in {r \in Session : session[r].pc = "built"}}

\* compile: both keys are the address's, both signatures verify over the body.
Compiles(b, payment, staking) ==
  /\ payment.vkey # staking.vkey
  /\ payment.vkey = "payment" /\ staking.vkey = "staking"
  /\ payment.by = payment.vkey /\ payment.over = b
  /\ staking.by = staking.vkey /\ staking.over = b

\* The external signer may confuse keys, and the caller two prehashes.
Compile(s) ==
  /\ session[s].pc = "built"
  /\ \E payment, staking \in [vkey : Key, by : Key, over : Prehashed] :
       /\ Compiles(session[s].body, payment, staking)
       /\ Ready(s, [body |-> session[s].body, payment |-> payment, staking |-> staking])
  /\ UNCHANGED ledger

-----------------------------------------------------------------------------
(* broadcast *)

\* The node takes it, and its answer arrives or is lost.
Accepted(s) ==
  LET t == session[s].tx IN
  /\ session[s].pc = "signed"
  /\ Verifies(t) /\ Accepts(t.body)
  /\ mempool' = mempool \cup {t}
  /\ \E told \in {"sent", "error"} : session' = [session EXCEPT ![s].pc = told]
  /\ UNCHANGED <<slot, wallet, account, keyDeposit, refused, births, changes>>

\* The node refuses it, or the request does not arrive.
NotAccepted(s) ==
  LET t == session[s].tx IN
  /\ session[s].pc = "signed"
  /\ \/ /\ ~(Verifies(t) /\ Accepts(t.body))
        /\ refused' = refused \cup {t}
     \/ UNCHANGED refused
  /\ session' = [session EXCEPT ![s].pc = "error"]
  /\ UNCHANGED <<slot, wallet, account, keyDeposit, mempool, births, changes>>

\* After an error the caller may send the same bytes again.
Rebroadcast(s) ==
  /\ session[s].pc = "error"
  /\ session' = [session EXCEPT ![s].pc = "signed"]
  /\ UNCHANGED ledger

LedgerStep == (\E t \in mempool : Land(t)) \/ NextSlot \/ Receive \/ Spend \/ Epoch

SessionStep(s) ==
  \/ Start(s) \/ ReadParams(s) \/ ReadUtxos(s) \/ ReadBlock(s) \/ ReadAccount(s)
  \/ ReadFails(s) \/ NotPermitted(s) \/ FetchPage(s) \/ NotCovered(s) \/ Quote(s)
  \/ BuildBody(s) \/ Sign(s) \/ Compile(s)
  \/ Accepted(s) \/ NotAccepted(s) \/ Rebroadcast(s)

Next == LedgerStep \/ \E s \in Session : SessionStep(s)

Spec == Init /\ [][Next]_vars

-----------------------------------------------------------------------------
(* Properties *)

\* The tenth that the buffer adds to the fee of the smallest transaction.
Buffer == ((MinFeeA * BaseSize + MinFeeB) * 10) \div 100

\* A fee that estimateFee returned pays for the body signed with it, however
\* the wallet, the account and the selection have changed in between, as long
\* as the buffer pays for the body's inputs, certificates and withdrawal:
\* "covers UTXO-set changes between estimation and signing"
\* (fee-service.ts:17) holds up to that size, about eight inputs, and no
\* further.
EstimateSuffices ==
  \A s \in Session :
    session[s].pc = "built" /\ session[s].estimated /\ MinFeeA * Parts(session[s].body) <= Buffer
      => session[s].fee >= MinFee(session[s].body)

\* What has changed since session s read it, a fee the caller made up or a
\* body that outgrew the buffer, and the two things the code does not read:
\* whether a key that delegates to no pool is registered, and the deposit the
\* key was registered with.
Excused(s, b) ==
  \/ session[s].torn \/ ~(b.inputs \subseteq Ids(wallet))
  \/ slot >= b.ttl
  \/ (~session[s].estimated \/ MinFeeA * Parts(b) > Buffer) /\ b.fee < MinFee(b)
  \/ account.state # session[s].account.state
  \/ (Has(b, "StakeDeregistration") \/ b.withdrawal > 0)
       /\ account.rewards # session[s].account.rewards
  \/ Has(b, "StakeRegistration")
       /\ (account.state = "Idle" \/ keyDeposit # session[s].keyDeposit)
  \/ Has(b, "StakeDeregistration") /\ account.deposit # session[s].keyDeposit

\* A transaction the package built is refused only for one of these: the
\* selection, the change, the certificates, the withdrawal and compile's
\* checks are together as strict as the ledger.
RefusedOnlyIfChanged ==
  [][\A s \in Session :
       session[s].tx \in refused' \ refused => Excused(s, session[s].tx.body)]_vars

=============================================================================
