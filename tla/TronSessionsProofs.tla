-------------------------- MODULE TronSessionsProofs --------------------------
(***************************************************************************)
(* Tron sessions for any number of callers, amounts and blocks.  What      *)
(* lands never takes the balance or a frozen amount below zero             *)
(* (TypeCorrect), and a transaction whose fee was estimated is refused     *)
(* only for a changed account, its age, a repetition or what the code does *)
(* not check (RefusedOnlyIfChangedHolds): what is signed is what was       *)
(* checked against the account that was read.                              *)
(***************************************************************************)
EXTENDS TronSessions, SumTheorems, SequenceTheorems, TLAPS

Pc == {"idle", "checking", "quoting", "estimated", "prehashed", "signed", "error", "sent", "threw"}

-----------------------------------------------------------------------------
(* Constants and records *)

LEMMA AnySRFact == AnySR \in SR
  BY TronSessionsAssumption DEF AnySR

LEMMA NoAccountFact == NoAccount \in Account
<1>1. /\ [r \in Resource |-> 0] \in [Resource -> Nat]
      /\ [r \in SR |-> 0] \in [SR -> Nat]
      /\ <<>> \in Seq(Nat)
  OBVIOUS
<1>. QED
  BY <1>1 DEF NoAccount, Account

LEMMA NoContractFact == NoContract \in Contract
  BY AnySRFact DEF NoContract, Contract, Type, Key, Resource

\* A contract signed with any key is a transaction.
LEMMA SignedByFact ==
  ASSUME NEW key \in Key, NEW c \in Contract
  PROVE  SignedBy(key, c) \in Transaction
  BY DEF SignedBy, Transaction

LEMMA IdleFact == Idle \in SessionRec
<1>. DEFINE t == SignedBy("wallet", NoContract)
<1>1. t \in Transaction
  BY NoContractFact, SignedByFact DEF Key
<1>2. Idle = [pc |-> "idle", intent |-> NoIntent, estimated |-> FALSE, before |-> NoAccount,
              fee |-> 0, call |-> NoContract, tx |-> t]
  BY DEF Idle
<1>. HIDE DEF t
<1>. QED
  BY <1>1, <1>2, NoAccountFact, NoContractFact DEF SessionRec

\* A session whose field is set to a value of its type is still a session.
LEMMA FieldTypes ==
  ASSUME NEW x \in SessionRec
  PROVE  /\ \A v \in Pc : [x EXCEPT !.pc = v] \in SessionRec
         /\ \A v \in Intent : [x EXCEPT !.intent = v] \in SessionRec
         /\ \A v \in BOOLEAN : [x EXCEPT !.estimated = v] \in SessionRec
         /\ \A v \in Account : [x EXCEPT !.before = v] \in SessionRec
         /\ \A v \in Nat : [x EXCEPT !.fee = v] \in SessionRec
         /\ \A v \in Contract : [x EXCEPT !.call = v] \in SessionRec
         /\ \A v \in Transaction : [x EXCEPT !.tx = v] \in SessionRec
<1>1. \A v \in Pc : [x EXCEPT !.pc = v] \in SessionRec
  BY DEF SessionRec, Pc
<1>2. \A v \in Intent : [x EXCEPT !.intent = v] \in SessionRec
  BY DEF SessionRec
<1>3. \A v \in BOOLEAN : [x EXCEPT !.estimated = v] \in SessionRec
  BY DEF SessionRec
<1>4. \A v \in Account : [x EXCEPT !.before = v] \in SessionRec
  BY DEF SessionRec
<1>5. \A v \in Nat : [x EXCEPT !.fee = v] \in SessionRec
  BY DEF SessionRec
<1>6. \A v \in Contract : [x EXCEPT !.call = v] \in SessionRec
  BY DEF SessionRec
<1>7. \A v \in Transaction : [x EXCEPT !.tx = v] \in SessionRec
  BY DEF SessionRec
<1>. QED
  BY <1>1, <1>2, <1>3, <1>4, <1>5, <1>6, <1>7

\* An account whose field is set to a value of its type is still an account.
LEMMA AccountTypes ==
  ASSUME NEW a \in Account
  PROVE  /\ \A v \in Nat : [a EXCEPT !.balance = v] \in Account
         /\ \A v \in [Resource -> Nat] : [a EXCEPT !.frozen = v] \in Account
         /\ \A v \in [SR -> Nat] : [a EXCEPT !.votes = v] \in Account
         /\ \A v \in Seq(Nat) : [a EXCEPT !.locked = v] \in Account
         /\ \A v \in Nat : [a EXCEPT !.matured = v] \in Account
         /\ \A v \in Nat : [a EXCEPT !.reward = v] \in Account
         /\ \A v \in Nat : [a EXCEPT !.bandwidth = v] \in Account
         /\ \A v \in BOOLEAN : [a EXCEPT !.cooling = v] \in Account
<1>1. \A v \in Nat : [a EXCEPT !.balance = v] \in Account
  BY DEF Account
<1>2. \A v \in [Resource -> Nat] : [a EXCEPT !.frozen = v] \in Account
  BY DEF Account
<1>3. \A v \in [SR -> Nat] : [a EXCEPT !.votes = v] \in Account
  BY DEF Account
<1>4. \A v \in Seq(Nat) : [a EXCEPT !.locked = v] \in Account
  BY DEF Account
<1>5. \A v \in Nat : [a EXCEPT !.matured = v] \in Account
  BY DEF Account
<1>6. \A v \in Nat : [a EXCEPT !.reward = v] \in Account
  BY DEF Account
<1>7. \A v \in Nat : [a EXCEPT !.bandwidth = v] \in Account
  BY DEF Account
<1>8. \A v \in BOOLEAN : [a EXCEPT !.cooling = v] \in Account
  BY DEF Account
<1>. QED
  BY <1>1, <1>2, <1>3, <1>4, <1>5, <1>6, <1>7, <1>8

LEMMA AccountFields ==
  ASSUME NEW a \in Account
  PROVE  /\ a.balance \in Nat /\ a.matured \in Nat /\ a.reward \in Nat /\ a.bandwidth \in Nat
         /\ a.frozen \in [Resource -> Nat] /\ a.votes \in [SR -> Nat]
         /\ a.locked \in Seq(Nat) /\ a.cooling \in BOOLEAN
         /\ Burned(a) \in Nat
<1>1. /\ a.balance \in Nat /\ a.matured \in Nat /\ a.reward \in Nat /\ a.bandwidth \in Nat
      /\ a.frozen \in [Resource -> Nat] /\ a.votes \in [SR -> Nat]
      /\ a.locked \in Seq(Nat) /\ a.cooling \in BOOLEAN
  BY DEF Account
<1>2. Burned(a) \in Nat
  BY <1>1, TronSessionsAssumption DEF Burned
<1>. QED
  BY <1>1, <1>2

-----------------------------------------------------------------------------
(* The chain *)

\* What a contract the chain accepts makes of an account is an account.
LEMMA AfterFact ==
  ASSUME NEW c \in Contract, NEW a \in Account, Accepts(c, a), NEW after \in After(c, a)
  PROVE  after \in Account
<1>. DEFINE b == [a EXCEPT !.balance = a.balance - Burned(a)]
<1>1. /\ c.amount \in Nat /\ c.votes \in Nat /\ c.resource \in Resource /\ c.sr \in SR
      /\ c.type \in Type
  BY DEF Contract
<1>2. a.balance - Burned(a) \in Nat
  BY AccountFields DEF Accepts
<1>3. b \in Account
  BY <1>2, AccountTypes
<1>4. /\ b.balance = a.balance - Burned(a) /\ b.frozen = a.frozen /\ b.votes = a.votes
      /\ b.locked = a.locked
  BY DEF Account
<1>. HIDE DEF b
<1>5. CASE c.type = "Delegate"
  <2>1. after = [b EXCEPT !.balance = b.balance - c.amount,
                          !.frozen = [b.frozen EXCEPT ![c.resource] = b.frozen[c.resource] + c.amount]]
    BY <1>5 DEF After, b
  <2>2. b.balance - c.amount \in Nat
    BY <1>1, <1>2, <1>4, <1>5 DEF Accepts
  <2>3. [b.frozen EXCEPT ![c.resource] = b.frozen[c.resource] + c.amount] \in [Resource -> Nat]
    BY <1>1, <1>3, AccountFields
  <2>4. [b EXCEPT !.balance = b.balance - c.amount] \in Account
    BY <1>3, <2>2, AccountTypes
  <2>. QED
    BY <2>1, <2>3, <2>4, AccountTypes
<1>6. CASE c.type = "Undelegate"
  <2>. DEFINE f == [b.frozen EXCEPT ![c.resource] = b.frozen[c.resource] - c.amount]
              l == Append(b.locked, c.amount)
  <2>0. PICK v \in {a.votes, NoAccount.votes} :
          after = [b EXCEPT !.frozen[c.resource] = b.frozen[c.resource] - c.amount,
                            !.locked = Append(b.locked, c.amount), !.votes = v]
    BY <1>6, Zenon DEF After, b
  <2>1. after = [b EXCEPT !.frozen = f, !.locked = l, !.votes = v]
    BY <2>0
  <2>2. v \in [SR -> Nat]
    BY <2>0, AccountFields, NoAccountFact
  <2>3. f \in [Resource -> Nat]
    <3>1. b.frozen \in [Resource -> Nat] /\ b.frozen[c.resource] - c.amount \in Nat
      BY <1>1, <1>4, <1>6, AccountFields DEF Accepts
    <3>. QED
      BY <3>1
  <2>4. l \in Seq(Nat)
    BY <1>1, <1>3, AccountFields, AppendProperties
  <2>. HIDE DEF f, l
  <2>5. [b EXCEPT !.frozen = f] \in Account
    BY <1>3, <2>3, AccountTypes
  <2>6. [b EXCEPT !.frozen = f, !.locked = l] \in Account
    BY <2>4, <2>5, AccountTypes
  <2>. QED
    BY <2>1, <2>2, <2>6, AccountTypes
<1>7. CASE c.type = "Vote"
  <2>. DEFINE v == [NoAccount.votes EXCEPT ![c.sr] = c.votes]
  <2>1. after = [b EXCEPT !.votes = v]
    BY <1>7 DEF After, b
  <2>2. v \in [SR -> Nat]
    BY <1>1, AccountFields, NoAccountFact
  <2>. QED
    BY <1>3, <2>1, <2>2, AccountTypes
<1>8. CASE c.type = "ClaimDelegate"
  <2>1. after = [b EXCEPT !.balance = b.balance + a.matured, !.matured = 0]
    BY <1>8 DEF After, b
  <2>2. b.balance + a.matured \in Nat
    BY <1>2, <1>4, AccountFields
  <2>3. [b EXCEPT !.balance = b.balance + a.matured] \in Account
    BY <1>3, <2>2, AccountTypes
  <2>. QED
    BY <2>1, <2>3, AccountTypes
<1>9. CASE c.type = "ClaimRewards"
  <2>1. after = [b EXCEPT !.balance = b.balance + a.reward, !.reward = 0,
                          !.cooling = TRUE]
    BY <1>9 DEF After, b
  <2>2. b.balance + a.reward \in Nat
    BY <1>2, <1>4, AccountFields
  <2>. DEFINE d == [b EXCEPT !.balance = b.balance + a.reward]
              e == [d EXCEPT !.reward = 0]
  <2>3. d \in Account
    BY <1>3, <2>2, AccountTypes
  <2>. HIDE DEF d
  <2>4. e \in Account
    BY <2>3, AccountTypes
  <2>5. after = [e EXCEPT !.cooling = TRUE]
    BY <2>1 DEF d
  <2>. HIDE DEF e
  <2>. QED
    BY <2>4, <2>5, AccountTypes
<1>. QED
  BY <1>1, <1>5, <1>6, <1>7, <1>8, <1>9 DEF Type

\* A step of the chain leaves the sessions alone.
LEMMA ChainStepType ==
  ASSUME TypeOK, UNCHANGED session,
         height' \in Nat, changes' \in Nat, account' \in Account,
         mempool' \subseteq Transaction, landed' \subseteq Transaction, refused' \subseteq Transaction
  PROVE  TypeOK'
  BY DEF TypeOK

LEMMA ChainFields ==
  ASSUME TypeOK
  PROVE  /\ height \in Nat /\ changes \in Nat /\ account \in Account
         /\ mempool \subseteq Transaction /\ landed \subseteq Transaction
         /\ refused \subseteq Transaction
  BY DEF TypeOK

LEMMA LandType == ASSUME TypeOK, NEW t \in mempool, Land(t) PROVE TypeOK'
<1>1. t \in Transaction /\ t.call \in Contract
  BY ChainFields DEF Transaction
<1>2. account' \in Account
  <2>1. CASE account' = account
    BY <2>1, ChainFields
  <2>2. CASE Accepts(t.call, account) /\ account' \in After(t.call, account)
    BY <1>1, <2>2, ChainFields, AfterFact
  <2>. QED
    BY <2>1, <2>2 DEF Land
<1>3. mempool' \subseteq Transaction /\ landed' \subseteq Transaction /\ refused' \subseteq Transaction
  BY <1>1, ChainFields DEF Land
<1>. QED
  BY <1>2, <1>3, ChainFields, ChainStepType DEF Land

LEMMA DropType == ASSUME TypeOK, NEW t \in mempool, Drop(t) PROVE TypeOK'
<1>1. mempool' \subseteq Transaction
  BY ChainFields DEF Drop
<1>. QED
  BY <1>1, ChainFields, ChainStepType DEF Drop

LEMMA NextBlockType == ASSUME TypeOK, NextBlock PROVE TypeOK'
<1>1. height' \in Nat
  BY ChainFields DEF NextBlock
<1>. QED
  BY <1>1, ChainFields, ChainStepType DEF NextBlock

LEMMA AccountChangesType == ASSUME TypeOK, AccountChanges PROVE TypeOK'
<1>. DEFINE a == account
<1>1. a \in Account /\ changes' \in Nat
  BY ChainFields DEF AccountChanges
<1>2. account' \in Account
  <2>1. CASE /\ a.locked # <<>>
             /\ account' = [a EXCEPT !.locked = Tail(a.locked),
                                     !.matured = a.matured + Head(a.locked)]
    <3>1. Head(a.locked) \in Nat /\ Tail(a.locked) \in Seq(Nat)
      BY <1>1, <2>1, AccountFields, HeadTailProperties
    <3>2. a.matured + Head(a.locked) \in Nat
      BY <1>1, <3>1, AccountFields
    <3>. HIDE DEF a
    <3>3. [a EXCEPT !.locked = Tail(a.locked)] \in Account
      BY <1>1, <3>1, AccountTypes
    <3>. QED
      BY <2>1, <3>2, <3>3, AccountTypes
  <2>2. CASE account' = [a EXCEPT !.reward = a.reward + 1]
    <3>1. a.reward + 1 \in Nat
      BY <1>1, AccountFields
    <3>. HIDE DEF a
    <3>. QED
      BY <1>1, <2>2, <3>1, AccountTypes
  <2>3. CASE \E n \in {0, 2 * ESTIMATED_TX_BANDWIDTH} : account' = [a EXCEPT !.bandwidth = n]
    <3>1. PICK n \in {0, 2 * ESTIMATED_TX_BANDWIDTH} : account' = [a EXCEPT !.bandwidth = n]
      BY <2>3
    <3>2. n \in Nat
      BY TronSessionsAssumption
    <3>. HIDE DEF a
    <3>. QED
      BY <1>1, <3>1, <3>2, AccountTypes
  <2>4. CASE a.balance > 0 /\ account' = [a EXCEPT !.balance = a.balance - 1]
    <3>1. a.balance - 1 \in Nat
      BY <1>1, <2>4, AccountFields
    <3>. HIDE DEF a
    <3>. QED
      BY <1>1, <2>4, <3>1, AccountTypes
  <2>5. CASE account' = [a EXCEPT !.cooling = FALSE]
    <3>. HIDE DEF a
    <3>. QED
      BY <1>1, <2>5, AccountTypes
  <2>. QED
    BY <2>1, <2>2, <2>3, <2>4, <2>5 DEF AccountChanges
<1>. QED
  BY <1>1, <1>2, ChainFields, ChainStepType DEF AccountChanges

-----------------------------------------------------------------------------
(* The sessions *)

\* A step of one session that leaves it well formed.
LEMMA SessionStepType ==
  ASSUME TypeOK, UNCHANGED chain,
         NEW s \in Session, NEW x \in SessionRec, session' = [session EXCEPT ![s] = x]
  PROVE  TypeOK'
<1>1. session' \in [Session -> SessionRec]
  BY DEF TypeOK
<1>. QED
  BY <1>1 DEF TypeOK, chain

LEMMA HeldFields ==
  ASSUME TypeOK, NEW s \in Session
  PROVE  /\ session[s] \in SessionRec
         /\ session[s].intent \in Intent \cup {NoIntent}
         /\ session[s].call \in Contract
         /\ session[s].tx \in Transaction
  BY DEF TypeOK, SessionRec

LEMMA ThrowType ==
  ASSUME TypeOK, NEW s \in Session, Throw(s), UNCHANGED chain
  PROVE  TypeOK'
<1>1. [Idle EXCEPT !.pc = "threw"] \in SessionRec
  BY IdleFact, FieldTypes DEF Pc
<1>. QED
  BY <1>1, SessionStepType DEF Throw

LEMMA StartType == ASSUME TypeOK, NEW s \in Session, Start(s) PROVE TypeOK'
<1>1. PICK i \in Intent, pc \in {"checking", "estimated"} :
        session' = [session EXCEPT ![s] = [session[s] EXCEPT !.intent = i, !.pc = pc]]
  BY DEF Start, TypeOK
<1>. DEFINE x == [session[s] EXCEPT !.intent = i]
<1>2. x \in SessionRec
  BY HeldFields, FieldTypes
<1>. HIDE DEF x
<1>3. [x EXCEPT !.pc = pc] \in SessionRec
  BY <1>2, FieldTypes DEF Pc
<1>. QED
  BY <1>1, <1>3, SessionStepType DEF Start, x

LEMMA CheckAccountType == ASSUME TypeOK, NEW s \in Session, CheckAccount(s) PROVE TypeOK'
<1>1. CASE Throw(s)
  BY <1>1, ThrowType DEF CheckAccount
<1>2. CASE ~ Throw(s)
  <2>1. session' = [session EXCEPT ![s] =
          [session[s] EXCEPT !.pc = "quoting", !.before = account]]
    BY <1>2 DEF CheckAccount, TypeOK
  <2>. DEFINE x == [session[s] EXCEPT !.pc = "quoting"]
  <2>2. x \in SessionRec
    BY HeldFields, FieldTypes DEF Pc
  <2>. HIDE DEF x
  <2>3. [x EXCEPT !.before = account] \in SessionRec
    BY <2>2, ChainFields, FieldTypes
  <2>. QED
    BY <2>1, <2>3, SessionStepType DEF CheckAccount, x
<1>. QED
  BY <1>1, <1>2

\* The quote is never negative, whatever bandwidth there is to spare.
LEMMA ShortfallFact == ASSUME NEW available \in Nat PROVE Shortfall(available) \in Nat
  BY TronSessionsAssumption DEF Shortfall

LEMMA QuoteType == ASSUME TypeOK, NEW s \in Session, Quote(s) PROVE TypeOK'
<1>. DEFINE x == [session[s] EXCEPT !.pc = "estimated"]
            y == [x EXCEPT !.estimated = TRUE]
<1>1. PICK fee \in Quoted(session[s].intent.type) :
        session' = [session EXCEPT ![s] = [y EXCEPT !.fee = fee]]
  BY DEF Quote, TypeOK
<1>2. fee \in Nat
  <2>1. Shortfall(account.bandwidth) \in Nat
    BY ChainFields, AccountFields, ShortfallFact
  <2>. QED
    BY <2>1, TronSessionsAssumption DEF Quoted
<1>3. x \in SessionRec
  BY HeldFields, FieldTypes DEF Pc
<1>. HIDE DEF x
<1>4. y \in SessionRec
  BY <1>3, FieldTypes
<1>. HIDE DEF y
<1>5. [y EXCEPT !.fee = fee] \in SessionRec
  BY <1>2, <1>4, FieldTypes
<1>. QED
  BY <1>1, <1>5, SessionStepType DEF Quote

LEMMA IntentFields ==
  ASSUME NEW i \in Intent \cup {NoIntent}
  PROVE  i.type \in Type /\ i.resource \in Resource /\ i.sr \in SR /\ i.amount \in Nat
<1>1. CASE i \in Intent
  BY <1>1, TronSessionsAssumption DEF Intent
<1>2. CASE i = NoIntent
  BY <1>2, AnySRFact DEF NoIntent, Type, Resource
<1>. QED
  BY <1>1, <1>2

\* What is built from an intent that passes the builder is a contract.
LEMMA BuildFact ==
  ASSUME TypeOK, NEW i \in Intent \cup {NoIntent}, NEW key \in Key
  PROVE  BuildUnsignedTx(i, key) \in Contract
<1>1. /\ i.type \in Type /\ i.resource \in Resource /\ i.sr \in SR /\ i.amount \in Nat
  BY IntentFields
<1>2. VotesOf(i.amount) \in Nat
  BY <1>1, TronSessionsAssumption DEF VotesOf
<1>3. height \in Nat
  BY ChainFields
<1>. QED
  BY <1>1, <1>2, <1>3 DEF BuildUnsignedTx, Contract

LEMMA SignedType ==
  ASSUME TypeOK, NEW s \in Session, NEW c \in Contract, NEW t \in Transaction,
         Signed(s, c, t), UNCHANGED chain
  PROVE  TypeOK'
<1>. DEFINE x == [session[s] EXCEPT !.pc = "signed"]
            y == [x EXCEPT !.call = c]
<1>1. session' = [session EXCEPT ![s] = [y EXCEPT !.tx = t]]
  BY DEF Signed, TypeOK
<1>2. x \in SessionRec
  BY HeldFields, FieldTypes DEF Pc
<1>. HIDE DEF x
<1>3. y \in SessionRec
  BY <1>2, FieldTypes
<1>. HIDE DEF y
<1>4. [y EXCEPT !.tx = t] \in SessionRec
  BY <1>3, FieldTypes
<1>. QED
  BY <1>1, <1>4, SessionStepType

LEMMA SignType == ASSUME TypeOK, NEW s \in Session, Sign(s) PROVE TypeOK'
<1>1. PICK key \in Key :
        Signed(s, BuildUnsignedTx(session[s].intent, key),
               SignedBy(key, BuildUnsignedTx(session[s].intent, key)))
  BY DEF Sign
<1>2. BuildUnsignedTx(session[s].intent, key) \in Contract
  BY HeldFields, BuildFact
<1>. QED
  BY <1>1, <1>2, SignedByFact, SignedType DEF Sign

LEMMA PrehashType == ASSUME TypeOK, NEW s \in Session, Prehash(s) PROVE TypeOK'
<1>. DEFINE c == BuildUnsignedTx(session[s].intent, "wallet")
            x == [session[s] EXCEPT !.pc = "prehashed"]
<1>1. session' = [session EXCEPT ![s] = [x EXCEPT !.call = c]]
  BY DEF Prehash, TypeOK
<1>2. c \in Contract
  BY HeldFields, BuildFact DEF Key
<1>3. x \in SessionRec
  BY HeldFields, FieldTypes DEF Pc
<1>. HIDE DEF x, c
<1>4. [x EXCEPT !.call = c] \in SessionRec
  BY <1>2, <1>3, FieldTypes
<1>. QED
  BY <1>1, <1>4, SessionStepType DEF Prehash

LEMMA CompileType == ASSUME TypeOK, NEW s \in Session, Compile(s) PROVE TypeOK'
<1>1. Prehashed \subseteq Contract
  BY HeldFields DEF Prehashed
<1>2. PICK raw \in Raw(Prehashed), sig \in [key : Key, over : Prehashed] :
        Signed(s, session[s].call, [call |-> raw.shown, sig |-> sig])
  BY DEF Compile
<1>3. raw.shown \in Contract
  BY <1>1, <1>2 DEF Raw
<1>4. [call |-> raw.shown, sig |-> sig] \in Transaction
  BY <1>1, <1>3 DEF Transaction
<1>. QED
  BY <1>2, <1>4, HeldFields, SignedType DEF Compile

\* The answer to a broadcast.
LEMMA PcType ==
  ASSUME TypeOK, NEW s \in Session, NEW pc \in Pc, session' = [session EXCEPT ![s].pc = pc]
  PROVE  session' \in [Session -> SessionRec]
<1>1. [session[s] EXCEPT !.pc = pc] \in SessionRec
  BY HeldFields, FieldTypes
<1>. QED
  BY <1>1 DEF TypeOK

LEMMA AcceptedType == ASSUME TypeOK, NEW s \in Session, Accepted(s) PROVE TypeOK'
<1>1. session' \in [Session -> SessionRec]
  BY PcType DEF Accepted, Told, Pc
<1>2. mempool' \subseteq Transaction
  BY ChainFields, HeldFields DEF Accepted
<1>. QED
  BY <1>1, <1>2 DEF Accepted, TypeOK

LEMMA NotAcceptedType == ASSUME TypeOK, NEW s \in Session, NotAccepted(s) PROVE TypeOK'
<1>1. session' \in [Session -> SessionRec]
  BY PcType DEF NotAccepted, Told, Pc
<1>2. refused' \subseteq Transaction
  BY ChainFields, HeldFields DEF NotAccepted
<1>. QED
  BY <1>1, <1>2 DEF NotAccepted, TypeOK

LEMMA RebroadcastType == ASSUME TypeOK, NEW s \in Session, Rebroadcast(s) PROVE TypeOK'
<1>1. session' \in [Session -> SessionRec]
  BY PcType DEF Rebroadcast, Pc
<1>. QED
  BY <1>1 DEF Rebroadcast, chain, TypeOK

-----------------------------------------------------------------------------
(* The theorem *)

LEMMA InitType == Init => TypeOK
<1>. SUFFICES ASSUME Init PROVE TypeOK
  OBVIOUS
<1>1. Idle \in SessionRec
  BY IdleFact
<1>. HIDE DEF Idle
<1>. QED
  BY <1>1 DEF Init, TypeOK

LEMMA NextType == TypeOK /\ [Next]_vars => TypeOK'
<1>. SUFFICES ASSUME TypeOK, [Next]_vars PROVE TypeOK'
  OBVIOUS
<1>1. CASE UNCHANGED vars
  BY <1>1 DEF vars, chain, TypeOK
<1>2. CASE ChainStep
  BY <1>2, NextBlockType, AccountChangesType, LandType, DropType DEF ChainStep
<1>3. ASSUME NEW s \in Session, SessionStep(s) PROVE TypeOK'
  <2>1. CASE Fails(s)
    BY <2>1, ThrowType DEF Fails
  <2>. QED
    BY <1>3, <2>1, StartType, CheckAccountType, QuoteType, SignType, PrehashType, CompileType,
       AcceptedType, NotAcceptedType, RebroadcastType DEF SessionStep
<1>. QED
  BY <1>1, <1>2, <1>3 DEF Next

\* Every variable keeps its type: whatever transactions land, in whatever
\* order, the chain's own rules keep the balance and what is frozen from going
\* below zero, and nothing but well-formed contracts is signed and sent.
THEOREM TypeCorrect == Spec => []TypeOK
  BY InitType, NextType, PTL DEF Spec

-----------------------------------------------------------------------------
(* What is refused *)

\* A contract that does what the intent says.
Fits(c, i) ==
  /\ c.type = i.type /\ c.resource = i.resource
  /\ c.type \in {"Delegate", "Undelegate"} => c.amount = i.amount
  /\ c.type = "Vote" => c.votes = VotesOf(i.amount) /\ c.sr = i.sr

\* A session whose transaction verifies, whose contract is of its intent, and
\* whose estimate has passed the checks.
Faithful(x) ==
  /\ Verifies(x.tx)
  /\ x.pc = "quoting" \/ x.estimated => Passes(x.intent, x.before)
  /\ x.pc \in {"idle", "checking"} => ~ x.estimated
  /\ x.pc = "idle" => x.call = NoContract
  /\ x.call = NoContract \/ Fits(x.call, x.intent)

FaithfulInv == \A s \in Session : Faithful(session[s])
IInv == TypeOK /\ FaithfulInv

LEMMA IdleFaithful == Faithful(Idle) /\ Faithful([Idle EXCEPT !.pc = "threw"])
  BY DEF Faithful, Idle, Verifies, SignedBy, NoContract

\* The whole TRX of a natural number of SUN.
LEMMA WholeTrx ==
  ASSUME NEW sun \in Nat, sun % SUN_PER_TRX = 0, sun > 0
  PROVE  VotesOf(sun) * SUN_PER_TRX = sun /\ VotesOf(sun) > 0
<1>1. SUN_PER_TRX \in Nat \ {0}
  BY TronSessionsAssumption
<1>2. sun = SUN_PER_TRX * (sun \div SUN_PER_TRX) + (sun % SUN_PER_TRX)
  BY <1>1
<1>3. sun \div SUN_PER_TRX \in Nat
  BY <1>1
<1>. QED
  BY <1>1, <1>2, <1>3 DEF VotesOf

\* What is available is never more than what is frozen.
LEMMA AvailableFact ==
  ASSUME NEW a \in Account
  PROVE  /\ AvailableTronPower(a) \in Nat /\ Frozen(a) \in Nat
         /\ AvailableTronPower(a) <= Frozen(a)
<1>1. SumFunctionOnSet(a.votes, SR) \in Nat
  BY AccountFields, SumInNat, TronSessionsAssumption
<1>2. Frozen(a) \in Nat
  BY AccountFields DEF Frozen, Resource
<1>. QED
  BY <1>1, <1>2, TronSessionsAssumption DEF AvailableTronPower

\* What has passed the checks and needs nothing that is never checked is
\* accepted.
LEMMA PassesAccepted ==
  ASSUME NEW a \in Account, NEW c \in Contract, NEW i \in Intent \cup {NoIntent},
         Passes(i, a), c = NoContract \/ Fits(c, i), ~ Unchecked(c, a)
  PROVE  Accepts(c, a)
<1>1. /\ a.balance \in Nat /\ a.frozen \in [Resource -> Nat] /\ Burned(a) \in Nat
      /\ a.matured \in Nat /\ a.reward \in Nat /\ Len(a.locked) \in Nat
  BY AccountFields
<1>2. a.balance >= Burned(a)
  BY <1>1 DEF Unchecked
<1>3. CASE c = NoContract
  BY <1>1, <1>2, <1>3 DEF NoContract, Accepts, Unchecked
<1>4. CASE Fits(c, i)
  <2>1. c.type \in Type /\ c.type = i.type /\ i.amount \in Nat /\ i.resource \in Resource
    BY <1>4, IntentFields DEF Fits
  <2>2. CASE c.type = "Delegate"
    BY <1>1, <1>2, <1>4, <2>1, <2>2 DEF Fits, Passes, Accepts, Unchecked
  <2>3. CASE c.type = "Undelegate"
    BY <1>1, <1>2, <1>4, <2>1, <2>3, TronSessionsAssumption DEF Fits, Passes, Accepts, Unchecked
  <2>4. CASE c.type = "Vote"
    <3>1. /\ i.amount > 0 /\ i.amount % SUN_PER_TRX = 0 /\ i.amount <= AvailableTronPower(a)
          /\ i.sr \in Witness
      BY <2>1, <2>4 DEF Passes
    <3>2. c.votes = VotesOf(i.amount) /\ c.sr = i.sr
      BY <1>4, <2>4 DEF Fits
    <3>3. c.votes > 0 /\ c.votes * SUN_PER_TRX = i.amount
      BY <2>1, <3>1, <3>2, WholeTrx
    <3>4. i.amount <= Frozen(a)
      BY <2>1, <3>1, AvailableFact
    <3>. QED
      BY <1>2, <2>4, <3>1, <3>2, <3>3, <3>4 DEF Accepts
  <2>5. CASE c.type = "ClaimDelegate"
    BY <1>1, <1>2, <2>5 DEF Accepts, Unchecked
  <2>6. CASE c.type = "ClaimRewards"
    BY <1>1, <1>2, <2>6 DEF Accepts, Unchecked
  <2>. QED
    BY <2>1, <2>2, <2>3, <2>4, <2>5, <2>6 DEF Type
<1>. QED
  BY <1>3, <1>4

\* A step of session s that leaves it faithful leaves every one so.
LEMMA FaithfulStep ==
  ASSUME TypeOK, FaithfulInv, NEW s \in Session, NEW x, Faithful(x),
         session' = [session EXCEPT ![s] = x]
  PROVE  FaithfulInv'
<1>1. \A r \in Session : session'[r] = IF r = s THEN x ELSE session[r]
  BY DEF TypeOK
<1>. SUFFICES ASSUME NEW r \in Session PROVE Faithful(session'[r])
  BY DEF FaithfulInv, Faithful, Verifies
<1>. QED
  BY <1>1 DEF FaithfulInv

LEMMA StartFaithful ==
  ASSUME IInv, NEW s \in Session, Start(s) PROVE FaithfulInv'
<1>1. PICK i \in Intent, pc \in {"checking", "estimated"} :
        session' = [session EXCEPT ![s] = [session[s] EXCEPT !.intent = i, !.pc = pc]]
  BY DEF Start, IInv, TypeOK
<1>. DEFINE x == [session[s] EXCEPT !.intent = i, !.pc = pc]
<1>2. /\ x.pc = pc /\ x.intent = i /\ x.call = session[s].call /\ x.tx = session[s].tx
      /\ x.estimated = session[s].estimated /\ x.before = session[s].before
  BY HeldFields DEF IInv, SessionRec
<1>. HIDE DEF x
<1>3. session[s].pc = "idle" /\ Faithful(session[s])
  BY DEF Start, IInv, FaithfulInv
<1>4. Faithful(x)
  BY <1>2, <1>3 DEF Faithful
<1>. QED
  BY <1>1, <1>4, FaithfulStep DEF IInv, x

LEMMA ThrowFaithful == ASSUME IInv, NEW s \in Session, Throw(s) PROVE FaithfulInv'
<1>. DEFINE x == [Idle EXCEPT !.pc = "threw"]
<1>1. Faithful(x)
  BY IdleFaithful
<1>2. session' = [session EXCEPT ![s] = x]
  BY DEF Throw
<1>. HIDE DEF x
<1>. QED
  BY <1>1, <1>2, FaithfulStep DEF IInv

LEMMA CheckAccountFaithful ==
  ASSUME IInv, NEW s \in Session, CheckAccount(s) PROVE FaithfulInv'
<1>1. CASE Throw(s)
  BY <1>1, ThrowFaithful
<1>2. CASE ~ Throw(s)
  <2>. DEFINE x == [session[s] EXCEPT !.pc = "quoting", !.before = account]
  <2>1. session' = [session EXCEPT ![s] = x] /\ Passes(session[s].intent, account)
    BY <1>2 DEF CheckAccount, IInv, TypeOK
  <2>2. /\ x.pc = "quoting" /\ x.intent = session[s].intent /\ x.call = session[s].call
        /\ x.tx = session[s].tx /\ x.estimated = session[s].estimated /\ x.before = account
    BY HeldFields DEF IInv, SessionRec
  <2>. HIDE DEF x
  <2>3. session[s].pc = "checking" /\ Faithful(session[s])
    BY DEF CheckAccount, IInv, FaithfulInv
  <2>4. Faithful(x)
    BY <2>1, <2>2, <2>3 DEF Faithful
  <2>. QED
    BY <2>1, <2>4, FaithfulStep DEF IInv
<1>. QED
  BY <1>1, <1>2

LEMMA QuoteFaithful == ASSUME IInv, NEW s \in Session, Quote(s) PROVE FaithfulInv'
<1>0. PICK fee \in Quoted(session[s].intent.type) :
        session' = [session EXCEPT ![s].pc = "estimated", ![s].estimated = TRUE, ![s].fee = fee]
  BY DEF Quote
<1>. DEFINE x == [session[s] EXCEPT !.pc = "estimated", !.estimated = TRUE, !.fee = fee]
<1>1. session' = [session EXCEPT ![s] = x]
  BY <1>0 DEF IInv, TypeOK
<1>2. /\ x.pc = "estimated" /\ x.intent = session[s].intent /\ x.call = session[s].call
      /\ x.tx = session[s].tx /\ x.estimated = TRUE /\ x.before = session[s].before
  BY HeldFields DEF IInv, SessionRec
<1>. HIDE DEF x
<1>3. session[s].pc = "quoting" /\ Faithful(session[s])
  BY DEF Quote, IInv, FaithfulInv
<1>4. Faithful(x)
  BY <1>2, <1>3 DEF Faithful
<1>. QED
  BY <1>1, <1>4, FaithfulStep DEF IInv

LEMMA BuildFits ==
  ASSUME NEW i, NEW key PROVE Fits(BuildUnsignedTx(i, key), i)
<1>1. /\ BuildUnsignedTx(i, key).type = i.type
      /\ BuildUnsignedTx(i, key).resource = i.resource
      /\ BuildUnsignedTx(i, key).owner = key /\ BuildUnsignedTx(i, key).sr = i.sr
      /\ BuildUnsignedTx(i, key).amount
           = IF i.type \in {"Delegate", "Undelegate"} THEN i.amount ELSE 0
      /\ BuildUnsignedTx(i, key).votes = IF i.type = "Vote" THEN VotesOf(i.amount) ELSE 0
  BY DEF BuildUnsignedTx
<1>. QED
  BY <1>1 DEF Fits

\* Signing a contract of the intent.
LEMMA SignedFaithful ==
  ASSUME IInv, NEW s \in Session, NEW c, NEW t,
         session[s].pc \in {"estimated", "prehashed"},
         c = session[s].call \/ Fits(c, session[s].intent), Verifies(t), Signed(s, c, t)
  PROVE  FaithfulInv'
<1>. DEFINE x == [session[s] EXCEPT !.pc = "signed", !.call = c, !.tx = t]
<1>1. session' = [session EXCEPT ![s] = x]
  BY DEF Signed, IInv, TypeOK
<1>2. /\ x.pc = "signed" /\ x.intent = session[s].intent /\ x.call = c /\ x.tx = t
      /\ x.estimated = session[s].estimated /\ x.before = session[s].before
  BY HeldFields DEF IInv, SessionRec
<1>. HIDE DEF x
<1>3. Faithful(session[s])
  BY DEF IInv, FaithfulInv
<1>4. Faithful(x)
  BY <1>2, <1>3 DEF Faithful
<1>. QED
  BY <1>1, <1>4, FaithfulStep DEF IInv

LEMMA SignFaithful == ASSUME IInv, NEW s \in Session, Sign(s) PROVE FaithfulInv'
<1>1. PICK key \in Key :
        Signed(s, BuildUnsignedTx(session[s].intent, key),
               SignedBy(key, BuildUnsignedTx(session[s].intent, key)))
  BY DEF Sign
<1>. DEFINE c == BuildUnsignedTx(session[s].intent, key)
<1>2. c.owner = key
  BY DEF BuildUnsignedTx
<1>3. Fits(c, session[s].intent)
  BY BuildFits
<1>4. session[s].pc = "estimated"
  BY DEF Sign
<1>. HIDE DEF c
<1>5. Verifies(SignedBy(key, c))
  BY <1>2 DEF Verifies, SignedBy
<1>. QED
  BY <1>1, <1>3, <1>4, <1>5, SignedFaithful DEF c

LEMMA PrehashFaithful == ASSUME IInv, NEW s \in Session, Prehash(s) PROVE FaithfulInv'
<1>. DEFINE c == BuildUnsignedTx(session[s].intent, "wallet")
            x == [session[s] EXCEPT !.pc = "prehashed", !.call = c]
<1>1. session' = [session EXCEPT ![s] = x]
  BY DEF Prehash, IInv, TypeOK
<1>2. Fits(c, session[s].intent)
  BY BuildFits
<1>. HIDE DEF c
<1>3. /\ x.pc = "prehashed" /\ x.intent = session[s].intent /\ x.call = c
      /\ x.tx = session[s].tx /\ x.estimated = session[s].estimated
      /\ x.before = session[s].before
  BY HeldFields DEF IInv, SessionRec
<1>. HIDE DEF x
<1>4. session[s].pc = "estimated" /\ Faithful(session[s])
  BY DEF Prehash, IInv, FaithfulInv
<1>5. Faithful(x)
  BY <1>2, <1>3, <1>4 DEF Faithful
<1>. QED
  BY <1>1, <1>5, FaithfulStep DEF IInv

\* What compile lets through is signed by its owner, whichever prehash it is of.
LEMMA CompileFaithful == ASSUME IInv, NEW s \in Session, Compile(s) PROVE FaithfulInv'
<1>1. PICK raw \in Raw(Prehashed), sig \in [key : Key, over : Prehashed] :
        /\ Compiles(raw, sig)
        /\ Signed(s, session[s].call, [call |-> raw.shown, sig |-> sig])
  BY DEF Compile
<1>2. Verifies([call |-> raw.shown, sig |-> sig])
  BY <1>1 DEF Compiles, Verifies
<1>3. session[s].pc = "prehashed"
  BY DEF Compile
<1>. QED
  BY <1>1, <1>2, <1>3, SignedFaithful

\* The answers to a broadcast, and sending again.
LEMMA PcFaithful ==
  ASSUME IInv, NEW s \in Session, NEW pc \in {"signed", "sent", "error"},
         session[s].pc \in {"signed", "error"}, session' = [session EXCEPT ![s].pc = pc]
  PROVE  FaithfulInv'
<1>. DEFINE x == [session[s] EXCEPT !.pc = pc]
<1>1. session' = [session EXCEPT ![s] = x]
  BY DEF IInv, TypeOK
<1>2. /\ x.pc = pc /\ x.intent = session[s].intent /\ x.call = session[s].call
      /\ x.tx = session[s].tx /\ x.estimated = session[s].estimated
      /\ x.before = session[s].before
  BY HeldFields DEF IInv, SessionRec
<1>. HIDE DEF x
<1>3. Faithful(session[s])
  BY DEF IInv, FaithfulInv
<1>4. Faithful(x)
  BY <1>2, <1>3 DEF Faithful
<1>. QED
  BY <1>1, <1>4, FaithfulStep DEF IInv

LEMMA InitFaithful == Init => FaithfulInv
<1>. SUFFICES ASSUME Init PROVE FaithfulInv
  OBVIOUS
<1>. HIDE DEF Idle
<1>. QED
  BY IdleFaithful DEF Init, FaithfulInv

LEMMA NextFaithful == IInv /\ [Next]_vars => FaithfulInv'
<1>. SUFFICES ASSUME IInv, [Next]_vars PROVE FaithfulInv'
  OBVIOUS
<1>1. CASE UNCHANGED session
  BY <1>1 DEF IInv, FaithfulInv, Faithful, Verifies
<1>2. CASE ChainStep
  BY <1>1, <1>2 DEF ChainStep, NextBlock, AccountChanges, Land, Drop
<1>3. ASSUME NEW s \in Session, SessionStep(s) PROVE FaithfulInv'
  <2>1. CASE Fails(s)
    BY <2>1, ThrowFaithful DEF Fails
  <2>2. CASE Accepted(s)
    BY <2>2, PcFaithful DEF Accepted, Told
  <2>3. CASE NotAccepted(s)
    BY <2>3, PcFaithful DEF NotAccepted, Told
  <2>4. CASE Rebroadcast(s)
    BY <2>4, PcFaithful DEF Rebroadcast
  <2>. QED
    BY <1>3, <2>1, <2>2, <2>3, <2>4, StartFaithful, CheckAccountFaithful, QuoteFaithful,
       SignFaithful, PrehashFaithful, CompileFaithful DEF SessionStep
<1>. QED
  BY <1>1, <1>2, <1>3 DEF Next, vars

\* What is newly refused does not verify, has expired, is there already, or is
\* not accepted from the account as it is.
LEMMA RefusedFact ==
  ASSUME IInv, Next, NEW t \in refused' \ refused, t.call.owner = "wallet", Verifies(t)
  PROVE  Expired(t.call) \/ Duplicate(t) \/ ~ Accepts(t.call, account)
<1>1. CASE ChainStep
  BY <1>1 DEF ChainStep, NextBlock, AccountChanges, Land, Drop
<1>2. ASSUME NEW s \in Session, SessionStep(s)
      PROVE  Expired(t.call) \/ Duplicate(t) \/ ~ Accepts(t.call, account)
  <2>1. CASE NotAccepted(s)
    BY <2>1 DEF NotAccepted, Sound
  <2>2. CASE ~ NotAccepted(s)
    BY <1>2, <2>2 DEF SessionStep, chain, Start, CheckAccount, Quote, Sign, Prehash, Fails,
       Compile, Accepted, Rebroadcast
  <2>. QED
    BY <2>1, <2>2
<1>. QED
  BY <1>1, <1>2 DEF Next

\* The step from the invariant to the property.
LEMMA RefusedStep ==
  ASSUME IInv, [Next]_vars
  PROVE  [\A s \in Session :
            LET t == session[s].tx IN
            /\ t \in refused' \ refused /\ session[s].estimated
            /\ t.call = session[s].call /\ t.call.owner = "wallet"
            => \/ account # session[s].before
               \/ Expired(t.call) \/ Duplicate(t)
               \/ Unchecked(t.call, account)]_vars
<1>. SUFFICES ASSUME Next, NEW s \in Session, NEW t, t = session[s].tx,
                     t \in refused' \ refused, session[s].estimated,
                     t.call = session[s].call, t.call.owner = "wallet",
                     account = session[s].before
              PROVE  Expired(t.call) \/ Duplicate(t) \/ Unchecked(t.call, account)
  OBVIOUS
<1>1. Faithful(session[s])
  BY DEF IInv, FaithfulInv
<1>2. /\ Verifies(t) /\ Passes(session[s].intent, account)
      /\ t.call = NoContract \/ Fits(t.call, session[s].intent)
  BY <1>1 DEF Faithful
<1>3. account \in Account /\ t.call \in Contract /\ session[s].intent \in Intent \cup {NoIntent}
  BY ChainFields, HeldFields DEF IInv
<1>. QED
  BY <1>2, <1>3, RefusedFact, PassesAccepted

LEMMA InitIInv == Init => IInv
  BY InitType, InitFaithful DEF IInv

LEMMA NextIInv == IInv /\ [Next]_vars => IInv'
  BY NextType, NextFaithful DEF IInv

\* Whatever the account, the blocks and the other sessions do, a session's
\* transaction verifies, its contract is of its intent, and an estimate stands
\* for a check that passed on the account it names.
THEOREM Invariance == Spec => []IInv
  BY InitIInv, NextIInv, PTL DEF Spec

\* What estimateFee passed and the package built and signed is refused only
\* for a change of the account, its expiry, a duplicate, or what is never
\* checked: the checks and the builder together are as strict as the chain.
THEOREM RefusedOnlyIfChangedHolds == Spec => RefusedOnlyIfChanged
<1>1. IInv /\ [Next]_vars
        => [\A s \in Session :
              LET t == session[s].tx IN
              /\ t \in refused' \ refused /\ session[s].estimated
              /\ t.call = session[s].call /\ t.call.owner = "wallet"
              => \/ account # session[s].before
                 \/ Expired(t.call) \/ Duplicate(t)
                 \/ Unchecked(t.call, account)]_vars
  BY RefusedStep
<1>. QED
  BY <1>1, Invariance, PTL DEF Spec, RefusedOnlyIfChanged

=============================================================================
