------------------------ MODULE SolanaSessionsProofs ------------------------
(***************************************************************************)
(* Solana sessions for any number of callers, seeds and attempts: the      *)
(* types, that a caller who was never told of an error other than          *)
(* BLOCKHASH_EXPIRED has staked at most once, and that a transaction the   *)
(* package built is refused only for what changed since it was read.       *)
(***************************************************************************)
EXTENDS SolanaSessions, FiniteSetTheorems, WellFoundedInduction, TLAPS

Pc == {"idle", "reading", "built", "signed", "expired", "error", "sent", "threw"}

\* A session that was not warned has posted one transaction at most, and has
\* come to its end if it has: no answer to it was lost.
OnceOf(x) ==
  \/ x.warned
  \/ x.posted = {}
  \/ /\ x.pc = "sent"
     /\ \E t : x.posted = {t}

\* Only a session that builds its message waits for reads.
NeedOf(x) == x.need # {} => x.pc = "reading"

\* What a step may leave a session in.
Fine(x) == x \in SessionRec /\ OnceOf(x) /\ NeedOf(x)

SessionInv == \A s \in Session : OnceOf(session[s]) /\ NeedOf(session[s])

IInv == TypeOK /\ SessionInv

-----------------------------------------------------------------------------
(* Constants and records *)

LEMMA ConstantsFact ==
  /\ {Rent, BaseFee, PriorityFee, MinDelegation, WalletMin, Validity, Fee, Quoted} \subseteq Nat
  /\ 0 \in Seed
  /\ Amount \subseteq Nat
  BY SessionsAssumption DEF Fee, Quoted, Seed

LEMMA EpochFact == ASSUME height \in Nat PROVE Epoch \in Nat
  BY SessionsAssumption DEF Epoch

LEMMA NoMessageFact ==
  /\ NoMessage \in Message
  /\ NoAccount \in Stored
  /\ SignedBy("wallet", NoMessage) \in Transaction
<1>1. NoMessage \in Message
  BY ConstantsFact DEF NoMessage, Message, Type
<1>2. NoAccount \in Stored
  BY DEF NoAccount, Stored, Kind
<1>3. SignedBy("wallet", NoMessage) \in Transaction
  BY <1>1 DEF SignedBy, Transaction, Key
<1>. QED
  BY <1>1, <1>2, <1>3

LEMMA IdleFact == Fine(Idle)
<1>. DEFINE i == [type |-> "Undelegate", seed |-> 0, amount |-> 0, fee |-> 0]
            t == SignedBy("wallet", NoMessage)
<1>1. i \in Intent
  BY ConstantsFact DEF Intent
<1>2. Idle = [pc |-> "idle", intent |-> i, attempt |-> 0, need |-> {}, hash |-> 0,
              balance |-> 0, account |-> NoAccount, msg |-> NoMessage, tx |-> t,
              posted |-> {}, warned |-> FALSE]
  BY DEF Idle
<1>3. NoMessage \in Message /\ NoAccount \in Stored /\ t \in Transaction
  BY NoMessageFact
<1>. HIDE DEF i, t
<1>4. Idle \in SessionRec
  BY <1>1, <1>2, <1>3 DEF SessionRec
<1>5. Idle.posted = {} /\ Idle.need = {}
  BY <1>2
<1>. HIDE DEF Idle
<1>. QED
  BY <1>4, <1>5 DEF Fine, OnceOf, NeedOf

\* A session whose field is set to a value of its type is still a session.
LEMMA FieldTypes ==
  ASSUME NEW x \in SessionRec
  PROVE  /\ \A v \in Pc : [x EXCEPT !.pc = v] \in SessionRec
         /\ \A v \in Intent : [x EXCEPT !.intent = v] \in SessionRec
         /\ \A v \in Nat : [x EXCEPT !.attempt = v] \in SessionRec
         /\ \A v \in SUBSET {"hash", "balance", "account", "clock"} :
              [x EXCEPT !.need = v] \in SessionRec
         /\ \A v \in Nat : [x EXCEPT !.hash = v] \in SessionRec
         /\ \A v \in Nat : [x EXCEPT !.balance = v] \in SessionRec
         /\ \A v \in Stored : [x EXCEPT !.account = v] \in SessionRec
         /\ \A v \in Message : [x EXCEPT !.msg = v] \in SessionRec
         /\ \A v \in Transaction : [x EXCEPT !.tx = v] \in SessionRec
         /\ \A v \in SUBSET Transaction : [x EXCEPT !.posted = v] \in SessionRec
         /\ \A v \in BOOLEAN : [x EXCEPT !.warned = v] \in SessionRec
<1>1. \A v \in Pc : [x EXCEPT !.pc = v] \in SessionRec
  BY DEF SessionRec, Pc
<1>2. \A v \in Intent : [x EXCEPT !.intent = v] \in SessionRec
  BY DEF SessionRec
<1>3. \A v \in Nat : [x EXCEPT !.attempt = v] \in SessionRec
  BY DEF SessionRec
<1>4. \A v \in SUBSET {"hash", "balance", "account", "clock"} : [x EXCEPT !.need = v] \in SessionRec
  BY DEF SessionRec
<1>5. \A v \in Nat : [x EXCEPT !.hash = v] \in SessionRec
  BY DEF SessionRec
<1>6. \A v \in Nat : [x EXCEPT !.balance = v] \in SessionRec
  BY DEF SessionRec
<1>7. \A v \in Stored : [x EXCEPT !.account = v] \in SessionRec
  BY DEF SessionRec
<1>8. \A v \in Message : [x EXCEPT !.msg = v] \in SessionRec
  BY DEF SessionRec
<1>9. \A v \in Transaction : [x EXCEPT !.tx = v] \in SessionRec
  BY DEF SessionRec
<1>10. \A v \in SUBSET Transaction : [x EXCEPT !.posted = v] \in SessionRec
  BY DEF SessionRec
<1>11. \A v \in BOOLEAN : [x EXCEPT !.warned = v] \in SessionRec
  BY DEF SessionRec
<1>. QED
  BY <1>1, <1>2, <1>3, <1>4, <1>5, <1>6, <1>7, <1>8, <1>9, <1>10, <1>11

\* A step of one session that leaves it fine keeps the invariant.
LEMMA SessionStepIInv ==
  ASSUME IInv, UNCHANGED chainVars,
         NEW s \in Session, NEW x, Fine(x), session' = [session EXCEPT ![s] = x]
  PROVE  IInv'
<1>1. session' \in [Session -> SessionRec]
  BY DEF IInv, TypeOK, Fine
<1>2. SessionInv'
  BY DEF IInv, TypeOK, SessionInv, Fine
<1>. QED
  BY <1>1, <1>2 DEF IInv, TypeOK, chainVars

\* A step before the broadcast does not touch what has been posted.
LEMMA UnpostedFact ==
  ASSUME IInv, NEW s \in Session, session[s].pc # "sent",
         NEW x \in SessionRec, NeedOf(x),
         x.posted = session[s].posted, x.warned = session[s].warned
  PROVE  Fine(x)
  BY DEF IInv, SessionInv, OnceOf, Fine

-----------------------------------------------------------------------------
(* Building *)

LEMMA ReadingFact ==
  ASSUME IInv, NEW s \in Session, session[s].pc # "sent",
         NEW i \in Intent, NEW a \in Nat
  PROVE  Fine(Reading(s, i, a))
<1>1. Reads(i.type) \in SUBSET {"hash", "balance", "account", "clock"}
  BY DEF Intent, Reads
<1>2. Reading(s, i, a) \in SessionRec
  BY <1>1, FieldTypes DEF Reading, IInv, TypeOK, Pc
<1>3. /\ Reading(s, i, a).posted = session[s].posted
      /\ Reading(s, i, a).warned = session[s].warned
      /\ NeedOf(Reading(s, i, a))
  BY DEF Reading, IInv, TypeOK, SessionRec, NeedOf
<1>. QED
  BY <1>2, <1>3, UnpostedFact

LEMMA StartIInv == ASSUME IInv, NEW s \in Session, Start(s) PROVE IInv'
<1>1. PICK i \in Intent : session' = [session EXCEPT ![s] = Reading(s, i, 1)]
  BY DEF Start
<1>2. Fine(Reading(s, i, 1))
  BY ReadingFact DEF Start
<1>. QED
  BY <1>1, <1>2, SessionStepIInv DEF Start

LEMMA ResignIInv == ASSUME IInv, NEW s \in Session, Resign(s) PROVE IInv'
<1>. DEFINE x == Reading(s, session[s].intent, session[s].attempt + 1)
<1>1. session' = [session EXCEPT ![s] = x]
  BY DEF Resign
<1>2. session[s].intent \in Intent /\ session[s].attempt + 1 \in Nat
  BY DEF IInv, TypeOK, SessionRec
<1>3. Fine(x)
  BY <1>2, ReadingFact DEF Resign
<1>. QED
  BY <1>1, <1>3, SessionStepIInv DEF Resign

LEMMA ThrowIInv ==
  ASSUME IInv, NEW s \in Session, session[s].pc # "sent", Throw(s), UNCHANGED chainVars
  PROVE  IInv'
<1>. DEFINE x == [session[s] EXCEPT !.pc = "threw", !.need = {}]
<1>1. session' = [session EXCEPT ![s] = x]
  BY DEF Throw, IInv, TypeOK
<1>2. x \in SessionRec
  BY FieldTypes DEF IInv, TypeOK, Pc
<1>3. x.posted = session[s].posted /\ x.warned = session[s].warned /\ NeedOf(x)
  BY DEF IInv, TypeOK, SessionRec, NeedOf
<1>. QED
  BY <1>1, <1>2, <1>3, UnpostedFact, SessionStepIInv

\* A session that waits for a read builds its message.
LEMMA WaitingFact ==
  ASSUME IInv, NEW s \in Session, session[s].need # {}
  PROVE  session[s].pc = "reading"
  BY DEF IInv, SessionInv, NeedOf

\* The types of what a step reads.
LEMMA SameFields ==
  ASSUME IInv, NEW s \in Session
  PROVE  /\ session[s].need \in SUBSET {"hash", "balance", "account", "clock"}
         /\ session[s].hash \in Nat /\ session[s].balance \in Nat
         /\ session[s].account \in Stored
         /\ session[s].intent \in Intent
         /\ height \in Nat /\ wallet \in Nat
         /\ \A i \in Seed : account[i] \in Stored
  BY DEF IInv, TypeOK, SessionRec

LEMMA ReadHashIInv == ASSUME IInv, NEW s \in Session, ReadHash(s) PROVE IInv'
<1>. DEFINE x == [session[s] EXCEPT !.need = @ \ {"hash"}, !.hash = height]
<1>1. session[s].pc = "reading"
  BY WaitingFact DEF ReadHash
<1>2. session' = [session EXCEPT ![s] = x]
  BY DEF ReadHash, IInv, TypeOK
<1>3. x \in SessionRec
  BY SameFields, FieldTypes DEF IInv, TypeOK
<1>4. x.posted = session[s].posted /\ x.warned = session[s].warned /\ NeedOf(x)
  BY <1>1 DEF IInv, TypeOK, SessionRec, NeedOf
<1>. QED
  BY <1>1, <1>2, <1>3, <1>4, UnpostedFact, SessionStepIInv DEF ReadHash

LEMMA ReadBalanceIInv == ASSUME IInv, NEW s \in Session, ReadBalance(s) PROVE IInv'
<1>. DEFINE x == [session[s] EXCEPT !.need = @ \ {"balance"}, !.balance = wallet]
<1>1. session[s].pc = "reading"
  BY WaitingFact DEF ReadBalance
<1>2. session' = [session EXCEPT ![s] = x]
  BY DEF ReadBalance, IInv, TypeOK
<1>3. x \in SessionRec
  BY SameFields, FieldTypes DEF IInv, TypeOK
<1>4. x.posted = session[s].posted /\ x.warned = session[s].warned /\ NeedOf(x)
  BY <1>1 DEF IInv, TypeOK, SessionRec, NeedOf
<1>. QED
  BY <1>1, <1>2, <1>3, <1>4, UnpostedFact, SessionStepIInv DEF ReadBalance

LEMMA ReadAccountIInv == ASSUME IInv, NEW s \in Session, ReadAccount(s) PROVE IInv'
<1>. DEFINE a == account[session[s].intent.seed]
            more == IF session[s].intent.type = "ClaimDelegate" /\ HasLockup(a)
                    THEN {"clock"} ELSE {}
            x == [session[s] EXCEPT !.account = a, !.need = (@ \ {"account"}) \cup more]
<1>1. session[s].pc = "reading"
  BY WaitingFact DEF ReadAccount
<1>2. CASE Throw(s)
  BY <1>1, <1>2, ThrowIInv DEF ReadAccount
<1>3. CASE ~ Throw(s)
  <2>1. session' = [session EXCEPT ![s] = x]
    BY <1>3 DEF ReadAccount, IInv, TypeOK
  <2>2. a \in Stored
    <3>1. session[s].intent.seed \in Seed
      BY SameFields, ConstantsFact DEF Intent
    <3>. QED
      BY <3>1, SameFields
  <2>3. x \in SessionRec
    <3>. HIDE DEF a
    <3>. QED
      BY <2>2, SameFields, FieldTypes DEF IInv, TypeOK
  <2>4. x.posted = session[s].posted /\ x.warned = session[s].warned /\ NeedOf(x)
    <3>. HIDE DEF a, more
    <3>. QED
      BY <1>1 DEF IInv, TypeOK, SessionRec, NeedOf
  <2>. QED
    BY <1>1, <2>1, <2>3, <2>4, UnpostedFact, SessionStepIInv DEF ReadAccount
<1>. QED
  BY <1>2, <1>3

LEMMA ReadClockIInv == ASSUME IInv, NEW s \in Session, ReadClock(s) PROVE IInv'
<1>. DEFINE x == [session[s] EXCEPT !.need = @ \ {"clock"}]
<1>1. session[s].pc = "reading"
  BY WaitingFact DEF ReadClock
<1>2. CASE Throw(s)
  BY <1>1, <1>2, ThrowIInv DEF ReadClock
<1>3. CASE ~ Throw(s)
  <2>1. session' = [session EXCEPT ![s] = x]
    BY <1>3 DEF ReadClock, IInv, TypeOK
  <2>2. x \in SessionRec
    BY SameFields, FieldTypes DEF IInv, TypeOK
  <2>3. x.posted = session[s].posted /\ x.warned = session[s].warned /\ NeedOf(x)
    BY <1>1 DEF IInv, TypeOK, SessionRec, NeedOf
  <2>. QED
    BY <1>1, <2>1, <2>2, <2>3, UnpostedFact, SessionStepIInv DEF ReadClock
<1>. QED
  BY <1>2, <1>3

LEMMA ReadFailsIInv == ASSUME IInv, NEW s \in Session, ReadFails(s) PROVE IInv'
  BY ThrowIInv DEF ReadFails

\* A seed is free: the lowest of them is one, since < is well founded.
LEMMA NextFreeSeedFact ==
  ASSUME Free # {}
  PROVE  NextFreeSeed \in Free /\ NextFreeSeed \in Seed
<1>. DEFINE Less == OpToRel(<, Nat)
<1>1. Free \subseteq Nat /\ Free \subseteq Seed
  BY SessionsAssumption DEF Free, Seed
<1>2. \A x \in Nat, y \in Nat : <<y, x>> \in Less <=> y < x
  BY DEF OpToRel
<1>3. IsWellFoundedOn(Less, Nat)
  BY NatLessThanWellFounded
<1>. HIDE DEF Less
<1>4. PICK i \in Free : \A j \in Free : ~ (<<j, i>> \in Less)
  BY <1>1, <1>3, WFMin, Zenon
<1>5. \A j \in Free : ~ (j < i)
  BY <1>1, <1>2, <1>4, Zenon
<1>6. Free \subseteq Nat /\ i \in Nat
  BY <1>1
<1>. HIDE DEF Free
<1>7. \A j \in Free : i <= j
  BY <1>5, <1>6
<1>. QED
  BY <1>1, <1>4, <1>7 DEF NextFreeSeed

LEMMA BuildDelegateIInv == ASSUME IInv, NEW s \in Session, BuildDelegate(s) PROVE IInv'
<1>1. session[s].pc = "reading" /\ session[s].need = {}
  BY DEF BuildDelegate
<1>2. CASE Throw(s)
  BY <1>1, <1>2, ThrowIInv DEF BuildDelegate
<1>3. CASE ~ Throw(s)
  <2>. DEFINE m == [type |-> "Delegate", seed |-> NextFreeSeed,
                    lamports |-> session[s].intent.amount + Rent, hash |-> session[s].hash]
              x == [session[s] EXCEPT !.pc = "built", !.msg = m, !.account = account[m.seed]]
  <2>1. Free # {} /\ session[s].intent.type = "Delegate" /\ Built(s, m)
    BY <1>3 DEF BuildDelegate
  <2>2. m \in Message /\ m.seed \in Seed
    <3>1. session[s].intent.amount \in Nat
      BY <2>1, SameFields, ConstantsFact DEF Intent
    <3>2. NextFreeSeed \in Seed /\ Rent \in Nat /\ session[s].hash \in Nat
      BY <2>1, NextFreeSeedFact, ConstantsFact, SameFields
    <3>. QED
      BY <3>1, <3>2 DEF Message, Type
  <2>. HIDE DEF m
  <2>3. session' = [session EXCEPT ![s] = x]
    BY <2>1 DEF Built, IInv, TypeOK
  <2>4. account[m.seed] \in Stored
    BY <2>2, SameFields
  <2>5. x \in SessionRec
    BY <2>2, <2>4, FieldTypes DEF IInv, TypeOK, Pc
  <2>6. x.posted = session[s].posted /\ x.warned = session[s].warned /\ NeedOf(x)
    BY <1>1 DEF IInv, TypeOK, SessionRec, NeedOf
  <2>. QED
    BY <1>1, <2>3, <2>5, <2>6, UnpostedFact, SessionStepIInv DEF BuildDelegate
<1>. QED
  BY <1>2, <1>3

LEMMA BuildOnAccountIInv == ASSUME IInv, NEW s \in Session, BuildOnAccount(s) PROVE IInv'
<1>1. session[s].pc = "reading" /\ session[s].need = {}
  BY DEF BuildOnAccount
<1>2. CASE Throw(s)
  BY <1>1, <1>2, ThrowIInv DEF BuildOnAccount
<1>3. CASE ~ Throw(s)
  <2>. DEFINE i == session[s].intent
              m == [type |-> i.type, seed |-> i.seed, hash |-> session[s].hash,
                    lamports |-> IF i.type = "Undelegate" THEN 0 ELSE session[s].account.lamports]
              x == [session[s] EXCEPT !.pc = "built", !.msg = m]
  <2>1. session' = [session EXCEPT ![s] = x]
    BY <1>3 DEF BuildOnAccount, IInv, TypeOK
  <2>2. m \in Message
    <3>1. i.type \in Type /\ i.seed \in Seed
      BY SameFields, ConstantsFact DEF Intent, Type
    <3>2. session[s].account.lamports \in Nat /\ session[s].hash \in Nat
      BY SameFields DEF Stored
    <3>. QED
      BY <3>1, <3>2 DEF Message
  <2>. HIDE DEF m
  <2>3. x \in SessionRec
    BY <2>2, FieldTypes DEF IInv, TypeOK, Pc
  <2>4. x.posted = session[s].posted /\ x.warned = session[s].warned /\ NeedOf(x)
    BY <1>1 DEF IInv, TypeOK, SessionRec, NeedOf
  <2>. QED
    BY <1>1, <2>1, <2>3, <2>4, UnpostedFact, SessionStepIInv DEF BuildOnAccount
<1>. QED
  BY <1>2, <1>3

-----------------------------------------------------------------------------
(* Signing *)

\* The session's message and its transaction.
LEMMA HeldFields ==
  ASSUME IInv, NEW s \in Session
  PROVE  /\ session[s] \in SessionRec
         /\ session[s].msg \in Message
         /\ session[s].tx \in Transaction
         /\ session[s].posted \in SUBSET Transaction
         /\ session[s].warned \in BOOLEAN
  BY DEF IInv, TypeOK, SessionRec

LEMMA SignedFact ==
  ASSUME IInv, NEW s \in Session, session[s].pc = "built",
         NEW t \in Transaction, Signed(s, t), UNCHANGED chainVars
  PROVE  IInv'
<1>. DEFINE x == [session[s] EXCEPT !.pc = "signed", !.msg = NoMessage, !.tx = t]
<1>1. session' = [session EXCEPT ![s] = x]
  BY DEF Signed, IInv, TypeOK
<1>2. x \in SessionRec
  <2>1. [session[s] EXCEPT !.pc = "signed"] \in SessionRec
    BY HeldFields, FieldTypes DEF Pc
  <2>2. [session[s] EXCEPT !.pc = "signed", !.msg = NoMessage] \in SessionRec
    BY <2>1, NoMessageFact, FieldTypes
  <2>. QED
    BY <2>2, FieldTypes
<1>3. session[s].need = {}
  BY DEF IInv, SessionInv, NeedOf
<1>4. x.posted = session[s].posted /\ x.warned = session[s].warned /\ x.need = session[s].need
  BY HeldFields DEF SessionRec
<1>. QED
  BY <1>1, <1>2, <1>3, <1>4, UnpostedFact, SessionStepIInv DEF NeedOf

LEMMA SignIInv == ASSUME IInv, NEW s \in Session, Sign(s) PROVE IInv'
<1>1. SignedBy("wallet", session[s].msg) \in Transaction
  BY HeldFields DEF SignedBy, Transaction, Key
<1>. QED
  BY <1>1, SignedFact DEF Sign

LEMMA CompileIInv == ASSUME IInv, NEW s \in Session, Compile(s) PROVE IInv'
<1>1. Prehashed \subseteq Message
  BY HeldFields DEF Prehashed
<1>2. PICK wire \in Prehashed : \E sig \in [key : Key, over : Prehashed] :
        Signed(s, [msg |-> wire, sig |-> sig])
  BY DEF Compile
<1>3. PICK sig \in [key : Key, over : Prehashed] : Signed(s, [msg |-> wire, sig |-> sig])
  BY <1>2
<1>4. wire \in Message /\ sig \in [key : Key, over : Message]
  BY <1>1, <1>2, <1>3
<1>5. [msg |-> wire, sig |-> sig] \in Transaction
  BY <1>4 DEF Transaction
<1>. QED
  BY <1>3, <1>5, SignedFact DEF Compile

-----------------------------------------------------------------------------
(* Broadcasting *)

\* What the caller is told leaves its session fine: an answer that may hide a
\* posted transaction is an error, and that is a warning.
LEMMA ToldFact ==
  ASSUME IInv, NEW s \in Session, session[s].pc = "signed",
         NEW outcome \in {"sent", "expired", "error"}, NEW t \in Transaction,
         NEW p \in {{}, {t}}, p = {t} => outcome \in {"sent", "error"},
         Told(s, outcome, p)
  PROVE  /\ session' \in [Session -> SessionRec]
         /\ SessionInv'
<1>. DEFINE was == session[s]
            x == [was EXCEPT !.pc = outcome, !.warned = was.warned \/ outcome = "error",
                             !.posted = was.posted \cup p]
<1>1. session' = [session EXCEPT ![s] = x]
  BY DEF Told, IInv, TypeOK
<1>2. was \in SessionRec /\ was.posted \subseteq Transaction /\ was.warned \in BOOLEAN
  BY HeldFields
<1>3. x \in SessionRec
  <2>1. [was EXCEPT !.pc = outcome] \in SessionRec
    BY <1>2, FieldTypes DEF Pc
  <2>2. (was.warned \/ outcome = "error") \in BOOLEAN
    OBVIOUS
  <2>3. [was EXCEPT !.pc = outcome, !.warned = was.warned \/ outcome = "error"] \in SessionRec
    BY <2>1, <2>2, FieldTypes
  <2>4. was.posted \cup p \in SUBSET Transaction
    BY <1>2
  <2>. HIDE DEF was
  <2>. QED
    BY <2>3, <2>4, FieldTypes
<1>4. was.need = {}
  BY DEF IInv, SessionInv, NeedOf
<1>5. was.warned \/ was.posted = {}
  BY DEF IInv, SessionInv, OnceOf
<1>6. /\ x.need = was.need /\ x.pc = outcome
      /\ x.posted = was.posted \cup p
      /\ x.warned = (was.warned \/ outcome = "error")
  <2>. HIDE DEF was
  <2>. QED
    BY <1>2 DEF SessionRec
<1>7. OnceOf(x)
  <2>. HIDE DEF was, x
  <2>1. CASE was.warned \/ outcome = "error"
    BY <1>6, <2>1 DEF OnceOf
  <2>2. CASE ~ (was.warned \/ outcome = "error") /\ p = {}
    BY <1>5, <1>6, <2>2 DEF OnceOf
  <2>3. CASE ~ (was.warned \/ outcome = "error") /\ p = {t}
    BY <1>5, <1>6, <2>3 DEF OnceOf
  <2>. QED
    BY <2>1, <2>2, <2>3
<1>8. Fine(x)
  BY <1>3, <1>4, <1>6, <1>7 DEF Fine, NeedOf
<1>. HIDE DEF x
<1>. QED
  BY <1>1, <1>8 DEF IInv, TypeOK, SessionInv, Fine

LEMMA AcceptedIInv == ASSUME IInv, NEW s \in Session, Accepted(s) PROVE IInv'
<1>. DEFINE t == session[s].tx
<1>1. t \in Transaction
  BY HeldFields
<1>2. pool' \subseteq Transaction
  BY <1>1 DEF Accepted, IInv, TypeOK
<1>3. Told(s, "sent", {t}) \/ Told(s, "error", {t})
  BY DEF Accepted, ErrorFor
<1>4. session' \in [Session -> SessionRec] /\ SessionInv'
  <2>. HIDE DEF t
  <2>. QED
    BY <1>1, <1>3, ToldFact DEF Accepted
<1>. QED
  BY <1>2, <1>4 DEF Accepted, IInv, TypeOK

LEMMA NotAcceptedIInv == ASSUME IInv, NEW s \in Session, NotAccepted(s) PROVE IInv'
<1>. DEFINE t == session[s].tx
<1>1. t \in Transaction
  BY HeldFields
<1>2. refused' \subseteq Transaction
  BY <1>1 DEF NotAccepted, IInv, TypeOK
<1>3. Told(s, "expired", {}) \/ Told(s, "error", {})
  BY DEF NotAccepted, ErrorFor
<1>4. session' \in [Session -> SessionRec] /\ SessionInv'
  <2>. HIDE DEF t
  <2>. QED
    BY <1>1, <1>3, ToldFact DEF NotAccepted
<1>. QED
  BY <1>2, <1>4 DEF NotAccepted, IInv, TypeOK

LEMMA RebroadcastIInv == ASSUME IInv, NEW s \in Session, Rebroadcast(s) PROVE IInv'
<1>. DEFINE x == [session[s] EXCEPT !.pc = "signed"]
<1>1. session' = [session EXCEPT ![s] = x]
  BY DEF Rebroadcast, IInv, TypeOK
<1>2. x \in SessionRec
  BY HeldFields, FieldTypes DEF Pc
<1>3. session[s].need = {}
  BY DEF Rebroadcast, IInv, SessionInv, NeedOf
<1>4. x.posted = session[s].posted /\ x.warned = session[s].warned /\ x.need = session[s].need
  BY HeldFields DEF SessionRec
<1>. QED
  BY <1>1, <1>2, <1>3, <1>4, UnpostedFact, SessionStepIInv DEF NeedOf, Rebroadcast

-----------------------------------------------------------------------------
(* The chain *)

\* A step of the chain leaves the sessions alone.
LEMMA ChainStepIInv ==
  ASSUME IInv, UNCHANGED <<session, skipPreflight>>,
         height' \in Nat, wallet' \in Nat, deposits' \in Nat,
         account' \in [Seed -> Stored],
         pool' \subseteq Transaction, refused' \subseteq Transaction, landed' \subseteq Message
  PROVE  IInv'
  BY DEF IInv, TypeOK, SessionInv

LEMMA ChainFields ==
  ASSUME IInv
  PROVE  /\ height \in Nat /\ wallet \in Nat /\ deposits \in Nat
         /\ account \in [Seed -> Stored]
         /\ pool \subseteq Transaction /\ refused \subseteq Transaction /\ landed \subseteq Message
  BY DEF IInv, TypeOK

\* What the chain accepts leaves a wallet and an account that are well formed.
LEMMA LandedFact ==
  ASSUME IInv, NEW m \in Message, Accepts(m)
  PROVE  After(m) \in Stored /\ wallet - Fee + Paid(m) \in Nat
<1>. DEFINE a == account[m.seed]
<1>1. m.type \in Type /\ m.seed \in Seed /\ m.lamports \in Nat
  BY DEF Message
<1>2. a \in Stored /\ wallet \in Nat /\ Epoch \in Nat /\ Fee \in Nat
  BY <1>1, ChainFields, EpochFact, ConstantsFact
<1>3. a.lamports \in Nat
  BY <1>2 DEF Stored
<1>4. wallet >= Fee
  BY DEF Accepts
<1>5. CASE m.type = "Delegate"
  <2>1. wallet >= Fee + m.lamports
    BY <1>5 DEF Accepts
  <2>2. Paid(m) = -m.lamports
    BY <1>5 DEF Paid
  <2>3. wallet - Fee + Paid(m) \in Nat
    BY <1>1, <1>2, <2>1, <2>2
  <2>4. After(m) = [kind |-> "Stake", lamports |-> m.lamports, deact |-> Never, lockup |-> 0]
    BY <1>5 DEF After
  <2>5. After(m) \in Stored
    BY <1>1, <2>4 DEF Stored, Kind
  <2>. QED
    BY <2>3, <2>5
<1>6. CASE m.type = "Undelegate"
  <2>1. Paid(m) = 0
    BY <1>6 DEF Paid
  <2>2. After(m) = [a EXCEPT !.deact = Epoch]
    BY <1>6 DEF After
  <2>. HIDE DEF a
  <2>3. After(m) \in Stored
    BY <1>2, <2>2 DEF Stored
  <2>. QED
    BY <1>2, <1>4, <2>1, <2>3
<1>7. CASE m.type = "ClaimDelegate"
  <2>1. Paid(m) = m.lamports
    BY <1>7 DEF Paid
  <2>2. a.lamports = m.lamports \/ a.lamports >= m.lamports + Rent
    BY <1>7 DEF Accepts
  <2>3. After(m) = IF a.lamports = m.lamports THEN NoAccount
                   ELSE [a EXCEPT !.lamports = a.lamports - m.lamports]
    BY <1>7 DEF After
  <2>. HIDE DEF a
  <2>4. a.lamports # m.lamports => a.lamports - m.lamports \in Nat
    BY <1>1, <1>3, <2>2, ConstantsFact
  <2>5. After(m) \in Stored
    BY <1>2, <2>3, <2>4, NoMessageFact DEF Stored
  <2>. QED
    BY <1>1, <1>2, <1>4, <2>1, <2>5
<1>. HIDE DEF a
<1>. QED
  BY <1>1, <1>5, <1>6, <1>7 DEF Type

LEMMA LandIInv == ASSUME IInv, NEW t \in pool, Land(t) PROVE IInv'
<1>1. t \in Transaction /\ t.msg \in Message
  BY ChainFields DEF Transaction
<1>2. After(t.msg) \in Stored /\ wallet - Fee + Paid(t.msg) \in Nat
  BY <1>1, LandedFact DEF Land
<1>3. account' \in [Seed -> Stored]
  BY <1>2, ChainFields DEF Land
<1>4. wallet' \in Nat /\ pool' \subseteq Transaction /\ landed' \subseteq Message
  BY <1>1, <1>2, ChainFields DEF Land
<1>. QED
  BY <1>3, <1>4, ChainFields, ChainStepIInv DEF Land

LEMMA RefuseIInv == ASSUME IInv, NEW t \in pool, Refuse(t) PROVE IInv'
<1>1. t \in Transaction
  BY ChainFields
<1>2. wallet' \in Nat
  <2>1. wallet \in Nat /\ Fee \in Nat
    BY ChainFields, ConstantsFact
  <2>2. CASE Verifies(t) /\ wallet >= Fee
    BY <2>1, <2>2 DEF Refuse
  <2>3. CASE ~ (Verifies(t) /\ wallet >= Fee)
    BY <2>1, <2>3 DEF Refuse
  <2>. QED
    BY <2>2, <2>3
<1>3. pool' \subseteq Transaction /\ refused' \subseteq Transaction
  BY <1>1, ChainFields DEF Refuse
<1>. QED
  BY <1>2, <1>3, ChainFields, ChainStepIInv DEF Refuse

LEMMA DepositIInv == ASSUME IInv, NEW a \in Seed, Deposit(a) PROVE IInv'
<1>. DEFINE was == account[a]
            k == IF was.kind = "None" THEN "Foreign" ELSE was.kind
            now == [was EXCEPT !.lamports = was.lamports + 1, !.kind = k]
<1>1. was \in Stored
  BY ChainFields
<1>2. account' = [account EXCEPT ![a] = now]
  BY ChainFields DEF Deposit
<1>3. now \in Stored
  <2>1. was.lamports + 1 \in Nat /\ k \in Kind
    BY <1>1 DEF Stored, Kind
  <2>. HIDE DEF was, k
  <2>. QED
    BY <1>1, <2>1 DEF Stored
<1>. HIDE DEF now
<1>4. account' \in [Seed -> Stored]
  BY <1>2, <1>3, ChainFields
<1>5. deposits' \in Nat
  BY ChainFields DEF Deposit
<1>. QED
  BY <1>4, <1>5, ChainFields, ChainStepIInv DEF Deposit

LEMMA NextBlockIInv == ASSUME IInv, NextBlock PROVE IInv'
<1>1. height' \in Nat /\ pool' \subseteq Transaction
  BY ChainFields DEF NextBlock
<1>. QED
  BY <1>1, ChainFields, ChainStepIInv DEF NextBlock

-----------------------------------------------------------------------------
(* The theorems *)

LEMMA InitIInv == Init => IInv
<1>. SUFFICES ASSUME Init PROVE IInv
  OBVIOUS
<1>1. Idle \in SessionRec /\ OnceOf(Idle) /\ NeedOf(Idle)
  BY IdleFact DEF Fine
<1>. HIDE DEF Idle
<1>. QED
  BY <1>1 DEF Init, IInv, TypeOK, SessionInv

LEMMA NextIInv == IInv /\ [Next]_vars => IInv'
<1>. SUFFICES ASSUME IInv, [Next]_vars PROVE IInv'
  OBVIOUS
<1>1. CASE UNCHANGED vars
  BY <1>1 DEF IInv, TypeOK, SessionInv, vars
<1>2. CASE ChainStep
  BY <1>2, LandIInv, RefuseIInv, DepositIInv, NextBlockIInv DEF ChainStep
<1>3. ASSUME NEW s \in Session, SessionStep(s) PROVE IInv'
  BY <1>3, StartIInv, ReadHashIInv, ReadBalanceIInv, ReadAccountIInv, ReadClockIInv,
     ReadFailsIInv, BuildDelegateIInv, BuildOnAccountIInv, SignIInv, CompileIInv,
     AcceptedIInv, NotAcceptedIInv, ResignIInv, RebroadcastIInv DEF SessionStep
<1>. QED
  BY <1>1, <1>2, <1>3 DEF Next

THEOREM Invariance == Spec => []IInv
  BY InitIInv, NextIInv, PTL DEF Spec

\* Every variable keeps its type: the lamports of the wallet and of a stake
\* account never go below zero, whatever lands in whatever order.
THEOREM TypeCorrect == Spec => []TypeOK
<1>1. IInv => TypeOK
  BY DEF IInv
<1>. QED
  BY <1>1, Invariance, PTL

\* One intent stakes at most once unless the caller was warned
\* (broadcast-service.ts): a session that was not has posted one transaction
\* at most.
THEOREM StakedOnceUnlessWarnedHolds == Spec => []StakedOnceUnlessWarned
<1>1. ASSUME IInv, NEW s \in Session, ~ session[s].warned
      PROVE  Cardinality({t \in session[s].posted : t.msg \in landed}) <= 1
  <2>. DEFINE p == session[s].posted
              l == {t \in p : t.msg \in landed}
  <2>1. p = {} \/ \E t : p = {t}
    BY <1>1 DEF IInv, SessionInv, OnceOf
  <2>2. IsFiniteSet(p) /\ Cardinality(p) \in {0, 1}
    BY <2>1, FS_EmptySet, FS_Singleton, Zenon
  <2>3. l \in SUBSET p
    OBVIOUS
  <2>4. IsFiniteSet(l) /\ Cardinality(l) <= Cardinality(p)
    <3>. HIDE DEF l, p
    <3>. QED
      BY <2>2, <2>3, FS_Subset
  <2>5. Cardinality(l) \in Nat
    BY <2>4, FS_CardinalityType
  <2>. QED
    BY <2>2, <2>4, <2>5
<1>2. IInv => StakedOnceUnlessWarned
  BY <1>1 DEF StakedOnceUnlessWarned
<1>. QED
  BY <1>2, Invariance, PTL

-----------------------------------------------------------------------------
(* What a message was built from *)

\* Accounts the builder's gates do not judge.
Unjudged(a) == a.kind \in {"Unreadable", "Uninitialized"}

\* Message m does what the records read by session x allow, as of height h.
Ready(x, m, h) ==
  /\ m.type \in Type
  /\ m.type = "Delegate" =>
       m.lamports # 0 /\ x.account.kind = "None" /\ x.balance >= Fee + m.lamports
  /\ m.type = "Undelegate" =>
       Unjudged(x.account) \/ (x.account.kind = "Stake" /\ x.account.deact = Never)
  /\ m.type = "ClaimDelegate" =>
       /\ \/ Unjudged(x.account)
          \/ /\ \/ x.account.kind = "Initialized"
                \/ x.account.kind = "Stake" /\ x.account.deact # Never
             /\ ~ InForce(x.account, h \div EpochBlocks)
       /\ x.account.lamports = m.lamports

\* What has been read passed the checks of the builder.
ReadOf(x, h) ==
  x.pc = "reading" /\ x.intent.type # "Delegate" /\ "account" \notin x.need =>
    /\ Passes(x.intent.type, x.account)
    /\ x.intent.type = "ClaimDelegate" /\ HasLockup(x.account) /\ "clock" \notin x.need =>
         ~ InForce(x.account, h \div EpochBlocks)

BuiltOf(x, h) == x.pc = "built" => Ready(x, x.msg, h)

Blank == SignedBy("wallet", NoMessage)
Before == {"idle", "reading", "built", "threw"}

\* A session that has signed holds a transaction that verifies and is still
\* backed by what it read, or one whose blockhash has expired.
TxOf(x, h) ==
  \/ x.tx = Blank /\ x.pc \in Before
  \/ /\ x.tx # Blank /\ Verifies(x.tx)
     /\ \/ h > x.tx.msg.hash + Validity
        \/ x.pc \in {"signed", "error", "sent"} /\ Ready(x, x.tx.msg, h)

Sound(x, h) == ReadOf(x, h) /\ BuiltOf(x, h) /\ TxOf(x, h)

SoundInv ==
  /\ \A s \in Session : Sound(session[s], height)
  /\ Blank \notin pool

JInv == IInv /\ SoundInv

\* The next block does not bring an earlier epoch.
LEMMA EpochGrows ==
  ASSUME NEW h \in Nat
  PROVE  /\ h \div EpochBlocks \in Nat /\ (h + 1) \div EpochBlocks \in Nat
         /\ h \div EpochBlocks <= (h + 1) \div EpochBlocks
<1>. DEFINE p == h \div EpochBlocks
            q == (h + 1) \div EpochBlocks
            r == h % EpochBlocks
            u == (h + 1) % EpochBlocks
<1>1. EpochBlocks \in Nat /\ EpochBlocks > 0
  BY SessionsAssumption
<1>2. p \in Nat /\ q \in Nat
  BY <1>1
<1>3. r \in 0 .. EpochBlocks - 1 /\ u \in 0 .. EpochBlocks - 1
  BY <1>1
<1>4. h = EpochBlocks * p + r /\ h + 1 = EpochBlocks * q + u
  BY <1>1
<1>. HIDE DEF p, q, r, u
<1>5. ASSUME q < p PROVE FALSE
  <2>1. PICK d \in Nat : p = q + 1 + d
    <3>1. p - q - 1 \in Nat /\ p = q + 1 + (p - q - 1)
      BY <1>2, <1>5
    <3>. QED
      BY <3>1
  <2>2. EpochBlocks * p = EpochBlocks * q + EpochBlocks + EpochBlocks * d
    BY <1>1, <1>2, <2>1
  <2>3. EpochBlocks * d \in Nat /\ EpochBlocks * q \in Nat
    BY <1>1, <1>2, <2>1
  <2>. QED
    BY <1>1, <1>3, <1>4, <2>2, <2>3
<1>. QED
  BY <1>2, <1>5 DEF p, q

\* A block later everything sound still is.
LEMMA SoundNextBlock ==
  ASSUME IInv, NEW s \in Session, NEW h \in Nat, Sound(session[s], h)
  PROVE  Sound(session[s], h + 1)
<1>. DEFINE x == session[s]
            p == h \div EpochBlocks
            q == (h + 1) \div EpochBlocks
<1>1. p \in Nat /\ q \in Nat /\ p <= q
  BY EpochGrows
<1>2. x.account.lockup \in Nat
  BY SameFields DEF Stored
<1>3. x.tx.msg.hash + Validity \in Nat
  BY HeldFields, ConstantsFact DEF Transaction, Message
<1>. HIDE DEF x, p, q
<1>4. ~ InForce(x.account, p) => ~ InForce(x.account, q)
  BY <1>1, <1>2 DEF InForce
<1>5. \A m : Ready(x, m, h) => Ready(x, m, h + 1)
  BY <1>4 DEF Ready, p, q
<1>6. ReadOf(x, h) => ReadOf(x, h + 1)
  BY <1>4 DEF ReadOf, p, q
<1>7. TxOf(x, h) => TxOf(x, h + 1)
  BY <1>3, <1>5 DEF TxOf
<1>. QED
  BY <1>5, <1>6, <1>7 DEF Sound, BuiltOf, x

\* The steps of one session.
LEMMA SessionStepSound ==
  ASSUME JInv, NEW s \in Session, NEW x, Sound(x, height),
         session' = [session EXCEPT ![s] = x], height' = height,
         Blank \notin pool'
  PROVE  SoundInv'
<1>1. \A r \in Session : session'[r] = IF r = s THEN x ELSE session[r]
  BY DEF JInv, IInv, TypeOK
<1>2. \A r \in Session : Sound(session'[r], height')
  BY <1>1 DEF JInv, SoundInv
<1>. QED
  BY <1>2 DEF SoundInv, Sound, ReadOf, BuiltOf, TxOf, Ready, Blank

\* Until it signs anew, a session holds no transaction the chain could refuse.
LEMMA TxKept ==
  ASSUME NEW was, NEW x, NEW h, TxOf(was, h),
         was.pc \in {"idle", "reading", "built", "expired"},
         x.tx = was.tx, x.pc \in Before
  PROVE  TxOf(x, h)
  BY DEF TxOf, Before

LEMMA JFacts ==
  ASSUME JInv, NEW s \in Session
  PROVE  /\ IInv
         /\ session[s] \in SessionRec
         /\ ReadOf(session[s], height) /\ BuiltOf(session[s], height) /\ TxOf(session[s], height)
         /\ Blank \notin pool
  BY HeldFields DEF JInv, SoundInv, Sound

LEMMA ReadingSound ==
  ASSUME JInv, NEW s \in Session, session[s].pc \in {"idle", "expired"},
         NEW i \in Intent, NEW a \in Nat
  PROVE  Sound(Reading(s, i, a), height)
<1>. DEFINE was == session[s]
            x == Reading(s, i, a)
<1>1. was \in SessionRec
  BY JFacts
<1>2. x.pc = "reading" /\ x.intent = i /\ x.need = Reads(i.type) /\ x.tx = was.tx
  BY <1>1 DEF Reading, SessionRec
<1>3. i.type # "Delegate" => "account" \in Reads(i.type)
  BY DEF Intent, Reads
<1>. HIDE DEF x
<1>4. ReadOf(x, height) /\ BuiltOf(x, height)
  BY <1>2, <1>3 DEF ReadOf, BuiltOf
<1>5. TxOf(x, height)
  BY <1>2, JFacts, TxKept DEF Before
<1>. QED
  BY <1>4, <1>5 DEF Sound, x

LEMMA StartSound == ASSUME JInv, NEW s \in Session, Start(s) PROVE SoundInv'
<1>1. PICK i \in Intent : session' = [session EXCEPT ![s] = Reading(s, i, 1)]
  BY DEF Start
<1>2. Sound(Reading(s, i, 1), height)
  BY ReadingSound DEF Start
<1>3. height' = height /\ Blank \notin pool'
  BY JFacts DEF Start, chainVars
<1>. QED
  BY <1>1, <1>2, <1>3, SessionStepSound

LEMMA ResignSound == ASSUME JInv, NEW s \in Session, Resign(s) PROVE SoundInv'
<1>. DEFINE x == Reading(s, session[s].intent, session[s].attempt + 1)
<1>1. session' = [session EXCEPT ![s] = x]
  BY DEF Resign
<1>2. session[s].intent \in Intent /\ session[s].attempt + 1 \in Nat
  BY JFacts DEF SessionRec
<1>3. Sound(x, height)
  BY <1>2, ReadingSound DEF Resign
<1>4. height' = height /\ Blank \notin pool'
  BY JFacts DEF Resign, chainVars
<1>. QED
  BY <1>1, <1>3, <1>4, SessionStepSound

LEMMA ThrowSound ==
  ASSUME JInv, NEW s \in Session, session[s].pc = "reading", Throw(s), UNCHANGED chainVars
  PROVE  SoundInv'
<1>. DEFINE was == session[s]
            x == [was EXCEPT !.pc = "threw", !.need = {}]
<1>1. session' = [session EXCEPT ![s] = x]
  BY DEF Throw, JInv, IInv, TypeOK
<1>2. x.pc = "threw" /\ x.tx = was.tx
  BY JFacts DEF SessionRec
<1>. HIDE DEF x
<1>3. TxOf(x, height)
  BY <1>2, JFacts, TxKept DEF Before
<1>4. Sound(x, height)
  BY <1>2, <1>3 DEF Sound, ReadOf, BuiltOf
<1>5. height' = height /\ Blank \notin pool'
  BY JFacts DEF chainVars
<1>. QED
  BY <1>1, <1>4, <1>5, SessionStepSound DEF x

\* A read or the build itself: the session stays before the signature.
LEMMA BuildingSound ==
  ASSUME JInv, NEW s \in Session, session[s].pc = "reading", UNCHANGED chainVars,
         NEW x, session' = [session EXCEPT ![s] = x], x.tx = session[s].tx,
         x.pc \in {"reading", "built"}, ReadOf(x, height), BuiltOf(x, height)
  PROVE  SoundInv'
<1>1. TxOf(x, height)
  BY JFacts, TxKept DEF Before
<1>2. height' = height /\ Blank \notin pool'
  BY JFacts DEF chainVars
<1>. QED
  BY <1>1, <1>2, SessionStepSound DEF Sound

LEMMA ReadHashSound == ASSUME JInv, NEW s \in Session, ReadHash(s) PROVE SoundInv'
<1>. DEFINE was == session[s]
            x == [was EXCEPT !.need = @ \ {"hash"}, !.hash = height]
<1>1. was.pc = "reading"
  BY JFacts, WaitingFact DEF ReadHash
<1>2. session' = [session EXCEPT ![s] = x]
  BY DEF ReadHash, JInv, IInv, TypeOK
<1>3. /\ x.tx = was.tx /\ x.pc = was.pc /\ x.intent = was.intent /\ x.account = was.account
      /\ x.need = was.need \ {"hash"}
  BY JFacts DEF SessionRec
<1>. HIDE DEF x
<1>4. ReadOf(x, height) /\ BuiltOf(x, height)
  BY <1>1, <1>3, JFacts DEF ReadOf, BuiltOf
<1>. QED
  BY <1>1, <1>2, <1>3, <1>4, BuildingSound DEF ReadHash

LEMMA ReadBalanceSound == ASSUME JInv, NEW s \in Session, ReadBalance(s) PROVE SoundInv'
<1>. DEFINE was == session[s]
            x == [was EXCEPT !.need = @ \ {"balance"}, !.balance = wallet]
<1>1. was.pc = "reading"
  BY JFacts, WaitingFact DEF ReadBalance
<1>2. session' = [session EXCEPT ![s] = x]
  BY DEF ReadBalance, JInv, IInv, TypeOK
<1>3. /\ x.tx = was.tx /\ x.pc = was.pc /\ x.intent = was.intent /\ x.account = was.account
      /\ x.need = was.need \ {"balance"}
  BY JFacts DEF SessionRec
<1>. HIDE DEF x
<1>4. ReadOf(x, height) /\ BuiltOf(x, height)
  BY <1>1, <1>3, JFacts DEF ReadOf, BuiltOf
<1>. QED
  BY <1>1, <1>2, <1>3, <1>4, BuildingSound DEF ReadBalance

LEMMA ReadAccountSound == ASSUME JInv, NEW s \in Session, ReadAccount(s) PROVE SoundInv'
<1>. DEFINE was == session[s]
            a == account[was.intent.seed]
            more == IF was.intent.type = "ClaimDelegate" /\ HasLockup(a)
                    THEN {"clock"} ELSE {}
            x == [was EXCEPT !.account = a, !.need = (was.need \ {"account"}) \cup more]
<1>1. was.pc = "reading"
  BY JFacts, WaitingFact DEF ReadAccount
<1>2. CASE Throw(s)
  BY <1>1, <1>2, ThrowSound DEF ReadAccount
<1>3. CASE ~ Throw(s)
  <2>1. session' = [session EXCEPT ![s] = x] /\ Passes(was.intent.type, a)
    BY <1>3 DEF ReadAccount, JInv, IInv, TypeOK
  <2>2. /\ x.tx = was.tx /\ x.pc = was.pc /\ x.intent = was.intent /\ x.account = a
        /\ was.intent.type = "ClaimDelegate" /\ HasLockup(a) => "clock" \in x.need
    BY JFacts DEF SessionRec
  <2>. HIDE DEF x
  <2>3. ReadOf(x, height) /\ BuiltOf(x, height)
    BY <1>1, <2>1, <2>2 DEF ReadOf, BuiltOf
  <2>. QED
    BY <1>1, <2>1, <2>2, <2>3, BuildingSound DEF ReadAccount
<1>. QED
  BY <1>2, <1>3

LEMMA ReadClockSound == ASSUME JInv, NEW s \in Session, ReadClock(s) PROVE SoundInv'
<1>. DEFINE was == session[s]
            x == [was EXCEPT !.need = @ \ {"clock"}]
<1>1. was.pc = "reading"
  BY JFacts, WaitingFact DEF ReadClock
<1>2. CASE Throw(s)
  BY <1>1, <1>2, ThrowSound DEF ReadClock
<1>3. CASE ~ Throw(s)
  <2>1. session' = [session EXCEPT ![s] = x] /\ ~ InForce(was.account, Epoch)
    BY <1>3 DEF ReadClock, JInv, IInv, TypeOK
  <2>2. /\ x.tx = was.tx /\ x.pc = was.pc /\ x.intent = was.intent /\ x.account = was.account
        /\ x.need = was.need \ {"clock"}
    BY JFacts DEF SessionRec
  <2>. HIDE DEF x
  <2>3. ReadOf(x, height) /\ BuiltOf(x, height)
    BY <1>1, <2>1, <2>2, JFacts DEF ReadOf, BuiltOf, Epoch
  <2>. QED
    BY <1>1, <2>1, <2>2, <2>3, BuildingSound DEF ReadClock
<1>. QED
  BY <1>2, <1>3

LEMMA BuildDelegateSound == ASSUME JInv, NEW s \in Session, BuildDelegate(s) PROVE SoundInv'
<1>. DEFINE was == session[s]
<1>1. was.pc = "reading"
  BY DEF BuildDelegate
<1>2. CASE Throw(s)
  BY <1>1, <1>2, ThrowSound DEF BuildDelegate
<1>3. CASE ~ Throw(s)
  <2>. DEFINE m == [type |-> "Delegate", seed |-> NextFreeSeed,
                    lamports |-> was.intent.amount + Rent, hash |-> was.hash]
              x == [was EXCEPT !.pc = "built", !.msg = m, !.account = account[m.seed]]
  <2>1. Free # {} /\ was.intent.type = "Delegate" /\ Funded(s) /\ Built(s, m)
    BY <1>3 DEF BuildDelegate
  <2>2. m.type = "Delegate" /\ m.lamports = was.intent.amount + Rent /\ m.seed = NextFreeSeed
    OBVIOUS
  <2>3. was.intent.amount \in Amount /\ was.intent.fee \in Nat
    BY <2>1, JFacts, SameFields, ConstantsFact DEF Intent
  <2>4. account[m.seed].kind = "None"
    BY <2>1, <2>2, NextFreeSeedFact DEF Free
  <2>5. m.lamports # 0 /\ was.balance >= Fee + m.lamports
    <3>1. was.intent.amount \in Nat \ {0} /\ Rent \in Nat
      BY <2>3, SessionsAssumption
    <3>2. was.balance \in Nat
      BY JFacts, SameFields
    <3>3. MaxOf(was.intent.fee, PriorityFee + Cushion) >= Fee
      BY <2>3, SessionsAssumption DEF MaxOf, Fee, Quoted
    <3>4. /\ MaxOf(was.intent.fee, PriorityFee + Cushion) \in Nat
          /\ Fee \in Nat
      BY <2>3, SessionsAssumption, ConstantsFact DEF MaxOf
    <3>5. was.balance >= was.intent.amount + Rent + MaxOf(was.intent.fee, PriorityFee + Cushion)
      BY <2>1 DEF Funded
    <3>. HIDE DEF m, was
    <3>. QED
      BY <2>2, <3>1, <3>2, <3>3, <3>4, <3>5
  <2>. HIDE DEF m
  <2>6. session' = [session EXCEPT ![s] = x]
    BY <2>1 DEF Built, JInv, IInv, TypeOK
  <2>7. /\ x.tx = was.tx /\ x.pc = "built" /\ x.msg = m
        /\ x.account = account[m.seed] /\ x.balance = was.balance
    BY JFacts DEF SessionRec
  <2>. HIDE DEF x
  <2>8. Ready(x, m, height)
    BY <2>2, <2>4, <2>5, <2>7 DEF Ready, Type
  <2>9. ReadOf(x, height) /\ BuiltOf(x, height)
    BY <2>7, <2>8 DEF ReadOf, BuiltOf
  <2>. QED
    BY <1>1, <2>6, <2>7, <2>9, BuildingSound DEF BuildDelegate
<1>. QED
  BY <1>2, <1>3

LEMMA BuildOnAccountSound == ASSUME JInv, NEW s \in Session, BuildOnAccount(s) PROVE SoundInv'
<1>. DEFINE was == session[s]
            i == was.intent
<1>1. was.pc = "reading" /\ was.need = {} /\ i.type # "Delegate"
  BY DEF BuildOnAccount
<1>2. CASE Throw(s)
  BY <1>1, <1>2, ThrowSound DEF BuildOnAccount
<1>3. CASE ~ Throw(s)
  <2>. DEFINE m == [type |-> i.type, seed |-> i.seed, hash |-> was.hash,
                    lamports |-> IF i.type = "Undelegate" THEN 0 ELSE was.account.lamports]
              x == [was EXCEPT !.pc = "built", !.msg = m]
  <2>1. session' = [session EXCEPT ![s] = x]
    BY <1>3 DEF BuildOnAccount, JInv, IInv, TypeOK
  <2>2. /\ m.type = i.type
        /\ i.type = "ClaimDelegate" => m.lamports = was.account.lamports
    OBVIOUS
  <2>. HIDE DEF m
  <2>3. x.tx = was.tx /\ x.pc = "built" /\ x.msg = m /\ x.account = was.account
    BY JFacts DEF SessionRec
  <2>4. i.type \in Type
    BY JFacts, SameFields DEF Intent, Type
  <2>5. /\ Passes(i.type, was.account)
        /\ i.type = "ClaimDelegate" /\ HasLockup(was.account)
             => ~ InForce(was.account, height \div EpochBlocks)
    BY <1>1, JFacts DEF ReadOf
  <2>. HIDE DEF x
  <2>6. Ready(x, m, height)
    BY <1>1, <2>2, <2>3, <2>4, <2>5 DEF Ready, Passes, HasLockup, Unjudged
  <2>7. ReadOf(x, height) /\ BuiltOf(x, height)
    BY <2>3, <2>6 DEF ReadOf, BuiltOf
  <2>. QED
    BY <1>1, <2>1, <2>3, <2>7, BuildingSound DEF BuildOnAccount
<1>. QED
  BY <1>2, <1>3

\* A message that is ready is not the one of a session that has not begun.
LEMMA ReadyIsNotBlank ==
  ASSUME NEW x, NEW m, NEW h, Ready(x, m, h), NEW t, t.msg = m
  PROVE  t # Blank
<1>1. Blank.msg = NoMessage
  BY DEF Blank, SignedBy
<1>2. NoMessage.type = "Delegate" /\ NoMessage.lamports = 0
  BY DEF NoMessage
<1>3. m # NoMessage
  BY <1>2 DEF Ready
<1>. QED
  BY <1>1, <1>3

LEMMA SignedSound ==
  ASSUME JInv, NEW s \in Session, session[s].pc = "built", UNCHANGED chainVars,
         NEW t, t.msg = session[s].msg, Verifies(t), Signed(s, t)
  PROVE  SoundInv'
<1>. DEFINE was == session[s]
            x == [was EXCEPT !.pc = "signed", !.msg = NoMessage, !.tx = t]
<1>1. session' = [session EXCEPT ![s] = x]
  BY DEF Signed, JInv, IInv, TypeOK
<1>2. x.pc = "signed" /\ x.tx = t /\ x.account = was.account /\ x.balance = was.balance
  BY JFacts DEF SessionRec
<1>3. Ready(was, t.msg, height)
  BY JFacts DEF BuiltOf
<1>. HIDE DEF x, was
<1>4. t # Blank
  BY <1>3, ReadyIsNotBlank
<1>5. Ready(x, t.msg, height)
  BY <1>2, <1>3 DEF Ready
<1>6. Sound(x, height)
  BY <1>2, <1>4, <1>5 DEF Sound, ReadOf, BuiltOf, TxOf
<1>7. height' = height /\ Blank \notin pool'
  BY JFacts DEF chainVars
<1>. QED
  BY <1>1, <1>6, <1>7, SessionStepSound

LEMMA SignSound == ASSUME JInv, NEW s \in Session, Sign(s) PROVE SoundInv'
<1>. DEFINE t == SignedBy("wallet", session[s].msg)
<1>1. t.msg = session[s].msg /\ Verifies(t)
  BY DEF SignedBy, Verifies
<1>2. Signed(s, t)
  BY DEF Sign
<1>. HIDE DEF t
<1>. QED
  BY <1>1, <1>2, SignedSound DEF Sign

\* compile: the bytes that were checked are those of the message that was
\* built, and the signature over them is the wallet's.
LEMMA CompileSound == ASSUME JInv, NEW s \in Session, Compile(s) PROVE SoundInv'
<1>1. PICK wire \in Prehashed : \E sig \in [key : Key, over : Prehashed] :
        /\ Compiles(session[s].msg, wire, sig)
        /\ Signed(s, [msg |-> wire, sig |-> sig])
  BY DEF Compile
<1>2. PICK sig \in [key : Key, over : Prehashed] :
        /\ Compiles(session[s].msg, wire, sig)
        /\ Signed(s, [msg |-> wire, sig |-> sig])
  BY <1>1
<1>. DEFINE t == [msg |-> wire, sig |-> sig]
<1>3. t.msg = session[s].msg /\ t.sig = sig
  BY <1>2 DEF Compiles
<1>4. sig = [key |-> "wallet", over |-> t.msg]
  BY <1>2, <1>3 DEF Compiles
<1>5. Signed(s, t)
  BY <1>2
<1>. HIDE DEF t
<1>6. Verifies(t)
  BY <1>3, <1>4 DEF Verifies
<1>. QED
  BY <1>3, <1>5, <1>6, SignedSound DEF Compile

LEMMA ToldSound ==
  ASSUME JInv, NEW s \in Session, session[s].pc = "signed", height' = height,
         pool' \subseteq pool \cup {session[s].tx},
         NEW outcome \in {"sent", "expired", "error"}, NEW p, Told(s, outcome, p),
         outcome = "expired" => Expired(session[s].tx.msg)
  PROVE  SoundInv'
<1>. DEFINE was == session[s]
            x == [was EXCEPT !.pc = outcome, !.warned = was.warned \/ outcome = "error",
                             !.posted = was.posted \cup p]
<1>1. session' = [session EXCEPT ![s] = x]
  BY DEF Told, JInv, IInv, TypeOK
<1>2. x.pc = outcome /\ x.tx = was.tx /\ x.account = was.account /\ x.balance = was.balance
  BY JFacts DEF SessionRec
<1>. HIDE DEF x
<1>3. /\ was.tx # Blank /\ Verifies(was.tx)
      /\ height > was.tx.msg.hash + Validity \/ Ready(was, was.tx.msg, height)
  BY JFacts DEF TxOf, Before
<1>4. Ready(was, was.tx.msg, height) => Ready(x, was.tx.msg, height)
  BY <1>2 DEF Ready
<1>5. TxOf(x, height)
  BY <1>2, <1>3, <1>4 DEF TxOf, Expired
<1>6. Sound(x, height)
  BY <1>2, <1>5 DEF Sound, ReadOf, BuiltOf
<1>7. Blank \notin pool'
  BY <1>3, JFacts
<1>. QED
  BY <1>1, <1>6, <1>7, SessionStepSound

LEMMA AcceptedSound == ASSUME JInv, NEW s \in Session, Accepted(s) PROVE SoundInv'
<1>1. Told(s, "sent", {session[s].tx}) \/ Told(s, "error", {session[s].tx})
  BY DEF Accepted, ErrorFor
<1>2. height' = height /\ pool' \subseteq pool \cup {session[s].tx} /\ session[s].pc = "signed"
  BY DEF Accepted
<1>. QED
  BY <1>1, <1>2, ToldSound

LEMMA NotAcceptedSound == ASSUME JInv, NEW s \in Session, NotAccepted(s) PROVE SoundInv'
<1>1. \/ Told(s, "error", {})
      \/ Told(s, "expired", {}) /\ Expired(session[s].tx.msg)
  BY DEF NotAccepted, ErrorFor
<1>2. height' = height /\ pool' = pool /\ session[s].pc = "signed"
  BY DEF NotAccepted
<1>. QED
  BY <1>1, <1>2, ToldSound

LEMMA RebroadcastSound == ASSUME JInv, NEW s \in Session, Rebroadcast(s) PROVE SoundInv'
<1>. DEFINE was == session[s]
            x == [was EXCEPT !.pc = "signed"]
<1>1. session' = [session EXCEPT ![s] = x] /\ was.pc = "error"
  BY DEF Rebroadcast, JInv, IInv, TypeOK
<1>2. x.pc = "signed" /\ x.tx = was.tx /\ x.account = was.account /\ x.balance = was.balance
  BY JFacts DEF SessionRec
<1>. HIDE DEF x
<1>3. Ready(was, was.tx.msg, height) => Ready(x, was.tx.msg, height)
  BY <1>2 DEF Ready
<1>4. Sound(x, height)
  BY <1>1, <1>2, <1>3, JFacts DEF TxOf, Before, Sound, ReadOf, BuiltOf
<1>5. height' = height /\ Blank \notin pool'
  BY JFacts DEF Rebroadcast, chainVars
<1>. QED
  BY <1>1, <1>4, <1>5, SessionStepSound

LEMMA ChainStepSound == ASSUME JInv, ChainStep PROVE SoundInv'
<1>1. session' = session
  BY DEF ChainStep, Land, Refuse, Deposit, NextBlock
<1>2. pool' \subseteq pool
  BY DEF ChainStep, Land, Refuse, Deposit, NextBlock
<1>3. height' = height \/ height' = height + 1
  BY DEF ChainStep, Land, Refuse, Deposit, NextBlock
<1>4. \A s \in Session : Sound(session[s], height')
  BY <1>3, SoundNextBlock DEF JInv, SoundInv, IInv, TypeOK
<1>. QED
  BY <1>1, <1>2, <1>4 DEF JInv, SoundInv, Sound, ReadOf, BuiltOf, TxOf, Ready, Blank

LEMMA InitSound == Init => SoundInv
<1>. SUFFICES ASSUME Init PROVE SoundInv
  OBVIOUS
<1>1. Idle.pc = "idle" /\ Idle.tx = Blank
  BY DEF Idle, Blank
<1>. HIDE DEF Idle
<1>2. Sound(Idle, height)
  BY <1>1 DEF Sound, ReadOf, BuiltOf, TxOf, Before
<1>. QED
  BY <1>2 DEF Init, SoundInv

LEMMA NextSound == JInv /\ [Next]_vars => SoundInv'
<1>. SUFFICES ASSUME JInv, [Next]_vars PROVE SoundInv'
  OBVIOUS
<1>1. CASE UNCHANGED vars
  BY <1>1 DEF vars, JInv, SoundInv, Sound, ReadOf, BuiltOf, TxOf, Ready, Blank
<1>2. CASE ChainStep
  BY <1>2, ChainStepSound
<1>3. ASSUME NEW s \in Session, SessionStep(s) PROVE SoundInv'
  <2>1. CASE ReadFails(s)
    BY <2>1, ThrowSound DEF ReadFails
  <2>. QED
    BY <1>3, <2>1, StartSound, ReadHashSound, ReadBalanceSound, ReadAccountSound, ReadClockSound,
       BuildDelegateSound, BuildOnAccountSound, SignSound, CompileSound,
       AcceptedSound, NotAcceptedSound, ResignSound, RebroadcastSound DEF SessionStep
<1>. QED
  BY <1>1, <1>2, <1>3 DEF Next

\* What a session holds is backed by what it read, at every step.
THEOREM SoundInvariance == Spec => []JInv
<1>1. Init => JInv
  BY InitIInv, InitSound DEF JInv
<1>2. JInv /\ [Next]_vars => JInv'
  BY NextIInv, NextSound DEF JInv
<1>. QED
  BY <1>1, <1>2, PTL DEF Spec

\* A transaction that is ready is accepted unless something changed.
LEMMA ReadyIsAccepted ==
  ASSUME JInv, NEW s \in Session, NEW m \in Message,
         Ready(session[s], m, height), ~ Excused(s, m)
  PROVE  Accepts(m)
<1>. DEFINE x == session[s]
            a == account[m.seed]
<1>1. a = x.account
  BY DEF Excused
<1>2. wallet \in Nat /\ x.balance \in Nat /\ Fee \in Nat /\ m.lamports \in Nat
  BY JFacts, SameFields, ConstantsFact DEF Message
<1>3. CASE m.type = "Delegate"
  <2>1. wallet >= x.balance /\ RentPaid(wallet - Fee - m.lamports)
    BY <1>2, <1>3 DEF Excused
  <2>2. a.kind = "None" /\ x.balance >= Fee + m.lamports
    BY <1>1, <1>3 DEF Ready
  <2>3. wallet >= Fee + m.lamports /\ wallet >= Fee
    BY <1>2, <2>1, <2>2
  <2>. QED
    BY <1>3, <2>1, <2>2, <2>3 DEF Accepts
<1>4. CASE m.type = "Undelegate"
  <2>1. wallet >= Fee /\ RentPaid(wallet - Fee + Paid(m)) /\ Paid(m) = 0
    BY <1>2, <1>4 DEF Excused, Paid
  <2>2. RentPaid(wallet - Fee)
    BY <1>2, <2>1
  <2>3. a.kind = "Stake" /\ a.deact = Never
    BY <1>1, <1>4 DEF Ready, Excused, Unjudged
  <2>. QED
    BY <1>4, <2>1, <2>2, <2>3 DEF Accepts
<1>5. CASE m.type = "ClaimDelegate"
  <2>1. wallet >= Fee /\ RentPaid(wallet - Fee + m.lamports) /\ ~ Cooling(a)
    BY <1>2, <1>5 DEF Excused, Paid
  <2>2. /\ a.kind = "Initialized" \/ (a.kind = "Stake" /\ a.deact # Never)
        /\ ~ InForce(a, Epoch)
        /\ a.lamports = m.lamports
    BY <1>1, <1>5 DEF Ready, Epoch, Excused, Unjudged
  <2>. QED
    BY <1>5, <2>1, <2>2 DEF Accepts
<1>. QED
  BY <1>3, <1>4, <1>5 DEF Ready, Type

\* A transaction the package built is refused only for something that changed
\* after it was read, or that the builder leaves to the chain on purpose.
THEOREM RefusedOnlyIfChangedHolds == Spec => RefusedOnlyIfChanged
<1>1. ASSUME JInv, [Next]_vars, NEW s \in Session, session[s].tx \in refused' \ refused
      PROVE  Excused(s, session[s].tx.msg)
  <2>. DEFINE t == session[s].tx
  <2>1. t \in Transaction /\ t.msg \in Message
    BY <1>1, JFacts, HeldFields DEF Transaction
  <2>2. t # Blank /\ ~ Expired(t.msg) /\ ~ (Verifies(t) /\ Accepts(t.msg))
    <3>1. CASE \E u \in pool : Refuse(u)
      BY <1>1, <3>1, JFacts DEF Refuse
    <3>2. CASE \E r \in Session : NotAccepted(r)
      <4>1. PICK r \in Session : NotAccepted(r)
        BY <3>2
      <4>2. /\ t = session[r].tx /\ session[r].pc = "signed"
            /\ ~ Expired(t.msg) /\ ~ (Verifies(t) /\ Accepts(t.msg))
        BY <1>1, <4>1 DEF NotAccepted
      <4>. QED
        BY <1>1, <4>2, JFacts DEF TxOf, Before
    <3>3. CASE UNCHANGED refused
      BY <1>1, <3>3
    <3>. QED
      BY <1>1, <3>1, <3>2, <3>3 DEF Next, ChainStep, SessionStep, vars, chainVars,
         Land, Deposit, NextBlock, Start, ReadHash, ReadBalance, ReadAccount, ReadClock,
         ReadFails, BuildDelegate, BuildOnAccount, Sign, Compile, Accepted, Resign, Rebroadcast
  <2>3. Verifies(t) /\ Ready(session[s], t.msg, height)
    BY <1>1, <2>2, JFacts DEF TxOf, Expired
  <2>. QED
    BY <1>1, <2>1, <2>2, <2>3, ReadyIsAccepted
<1>2. JInv /\ [Next]_vars =>
        [\A s \in Session :
           session[s].tx \in refused' \ refused => Excused(s, session[s].tx.msg)]_vars
  BY <1>1
<1>. QED
  BY <1>2, SoundInvariance, PTL DEF RefusedOnlyIfChanged, Spec

=============================================================================
