------------------------ MODULE CardanoSessionsProofs ------------------------
(***************************************************************************)
(* A Cardano wallet's transactions, for every number of callers, wallet,   *)
(* page size and order of changes: the types, that an estimate suffices    *)
(* for the body signed with it, and why a transaction may be refused.      *)
(***************************************************************************)
EXTENDS CardanoSessions, SumTheorems, SequenceTheorems, TLAPS

-----------------------------------------------------------------------------
(* Sets of naturals *)

\* A finite set of naturals that is not empty has a largest element.
LEMMA Largest ==
  ASSUME NEW S, IsFiniteSet(S), S \subseteq Nat, S # {}
  PROVE  \E m \in S : \A k \in S : k <= m
<1>. DEFINE above(k) == {i \in S : i > k}
            T == {above(k) : k \in S}
<1>1. PICK t \in T : \A u \in T : u \subseteq t => u = t
  <2>0. IsFiniteSet(S)
    OBVIOUS
  <2>1. T \subseteq SUBSET S /\ T # {}
    OBVIOUS
  <2>. HIDE DEF T
  <2>. QED
    BY ONLY <2>0, <2>1, SmallestSet
<1>2. PICK m \in S : t = above(m)
  OBVIOUS
<1>3. ASSUME NEW k \in S, k > m PROVE FALSE
  <2>1. above(k) \subseteq above(m)
    <3>1. k \in Nat /\ m \in Nat
      OBVIOUS
    <3>2. ASSUME NEW i \in S, i > k PROVE i > m
      BY <1>3, <3>1, <3>2
    <3>. QED
      BY <3>2
  <2>2. k \in above(m) /\ k \notin above(k)
    <3>1. k \in Nat /\ ~ (k > k)
      OBVIOUS
    <3>. QED
      BY <1>3, <3>1
  <2>. QED
    BY <1>1, <1>2, <2>1, <2>2
<1>. QED
  BY <1>3

Rank(S, k) == Cardinality({i \in S : i < k})

\* For each rank there is an element.
LEMMA Ranked ==
  ASSUME NEW S, IsFiniteSet(S), S \subseteq Nat, NEW j \in 1 .. Cardinality(S)
  PROVE  \E k \in S : Rank(S, k) = j - 1
<1>. DEFINE T == {s \in SUBSET S : \E i \in 1 .. Cardinality(s) : \A k \in s : Rank(s, k) # i - 1}
<1>. SUFFICES ASSUME T # {} PROVE FALSE
  OBVIOUS
<1>1. PICK s \in T : \A r \in T : r \subseteq s => r = s
  <2>0. IsFiniteSet(S)
    OBVIOUS
  <2>1. T \subseteq SUBSET S /\ T # {}
    OBVIOUS
  <2>. HIDE DEF T
  <2>. QED
    BY ONLY <2>0, <2>1, SmallestSet
<1>2. PICK i \in 1 .. Cardinality(s) : \A k \in s : Rank(s, k) # i - 1
  OBVIOUS
<1>3. IsFiniteSet(s) /\ s \subseteq Nat /\ s \subseteq S
  BY FS_Subset
<1>4. s # {} /\ Cardinality(s) \in Nat
  BY <1>2, <1>3, FS_EmptySet, FS_CardinalityType
<1>5. PICK m \in s : \A k \in s : k <= m
  BY <1>3, <1>4, Largest
<1>. DEFINE r == s \ {m}
<1>6. Cardinality(r) = Cardinality(s) - 1
  BY <1>3, FS_RemoveElement
<1>7. CASE i = Cardinality(s)
  <2>1. \A k \in s : k < m <=> k # m
    BY <1>3, <1>5
  <2>2. {k \in s : k < m} = r
    BY <2>1
  <2>. QED
    BY <1>2, <1>6, <1>7, <2>2 DEF Rank
<1>8. CASE i # Cardinality(s)
  <2>1. i \in 1 .. Cardinality(r)
    BY <1>4, <1>6, <1>8
  <2>2. r \notin T
    BY <1>1
  <2>. HIDE DEF r
  <2>3. PICK k \in r : Rank(r, k) = i - 1
    BY <1>3, <2>1, <2>2 DEF r
  <2>4. {n \in r : n < k} = {n \in s : n < k}
    BY <1>3, <1>5, <2>3 DEF r
  <2>. QED
    BY <1>2, <2>3, <2>4 DEF Rank, r
<1>. QED
  BY <1>7, <1>8

-----------------------------------------------------------------------------
(* Sequences of UTXOs *)

Unique(q) == \A j, k \in DOMAIN q : q[j].id = q[k].id => j = k
Born(q, n) == \A k \in DOMAIN q : q[k].id <= n

LEMMA Positions ==
  ASSUME NEW q \in Seq(Utxo)
  PROVE  /\ DOMAIN q = 1 .. Len(q) /\ Len(q) \in Nat
         /\ DOMAIN q \subseteq Nat /\ IsFiniteSet(DOMAIN q)
         /\ \A k \in DOMAIN q : q[k] \in Utxo /\ q[k].id \in Nat /\ q[k].ada \in Nat
<1>1. DOMAIN q = 1 .. Len(q) /\ Len(q) \in Nat /\ \A k \in DOMAIN q : q[k] \in Utxo
  BY LenProperties, ElementOfSeq
<1>2. IsFiniteSet(1 .. Len(q))
  BY <1>1, FS_Interval
<1>. QED
  BY <1>1, <1>2 DEF Utxo

\* What is left of a wallet: its own UTXOs, none of those that go, none twice.
LEMMA WithoutFact ==
  ASSUME NEW q \in Seq(Utxo), NEW I
  PROVE  /\ Without(q, I) \in Seq(Utxo)
         /\ \A j \in DOMAIN Without(q, I) : \E k \in DOMAIN q : Without(q, I)[j] = q[k]
         /\ Unique(q) => Unique(Without(q, I))
<1>. DEFINE kept == {k \in DOMAIN q : q[k].id \notin I}
            n == Cardinality(kept)
            At(j) == CHOOSE k \in kept : Rank(kept, k) = j - 1
            r == [j \in 1 .. n |-> q[At(j)]]
<1>1. Without(q, I) = r
  BY DEF Without, Rank
<1>2. IsFiniteSet(kept) /\ kept \subseteq Nat /\ kept \subseteq DOMAIN q
  BY Positions, FS_Subset
<1>. HIDE DEF kept
<1>3. n \in Nat
  BY <1>2, FS_CardinalityType
<1>4. ASSUME NEW j \in 1 .. n PROVE At(j) \in kept /\ Rank(kept, At(j)) = j - 1
  <2>1. \E k \in kept : Rank(kept, k) = j - 1
    BY <1>2, Ranked
  <2>. QED
    BY <2>1
<1>. HIDE DEF At
<1>5. r \in [1 .. n -> Utxo]
  BY <1>2, <1>4, Positions
<1>6. r \in Seq(Utxo) /\ DOMAIN r = 1 .. n
  BY <1>3, <1>5
<1>7. \A j \in 1 .. n : r[j] = q[At(j)] /\ At(j) \in DOMAIN q
  BY <1>2, <1>4
<1>. HIDE DEF r
<1>8. ASSUME Unique(q), NEW j \in 1 .. n, NEW k \in 1 .. n, r[j].id = r[k].id PROVE j = k
  <2>1. At(j) = At(k)
    BY <1>7, <1>8 DEF Unique
  <2>. QED
    BY <1>3, <1>4, <2>1
<1>. QED
  BY <1>1, <1>6, <1>7, <1>8 DEF Unique

\* One UTXO in front of others.
LEMMA InFront ==
  ASSUME NEW u \in Utxo, NEW q \in Seq(Utxo)
  PROVE  /\ <<u>> \o q \in Seq(Utxo)
         /\ \A j \in DOMAIN (<<u>> \o q) :
              (<<u>> \o q)[j] = u \/ \E k \in DOMAIN q : (<<u>> \o q)[j] = q[k]
         /\ Unique(q) /\ (\A k \in DOMAIN q : q[k].id # u.id) => Unique(<<u>> \o q)
<1>. DEFINE r == <<u>> \o q
<1>1. <<u>> \in Seq(Utxo) /\ Len(<<u>>) = 1 /\ <<u>>[1] = u
  OBVIOUS
<1>2. Len(q) \in Nat /\ DOMAIN q = 1 .. Len(q)
  BY Positions
<1>3. /\ r \in Seq(Utxo) /\ Len(r) = 1 + Len(q)
      /\ \A i \in 1 .. 1 + Len(q) : r[i] = IF i <= 1 THEN u ELSE q[i - 1]
  <2>. DEFINE f == <<u>>
  <2>1. f \in Seq(Utxo) /\ Len(f) = 1 /\ f[1] = u
    BY <1>1
  <2>. HIDE DEF f
  <2>2. /\ f \o q \in Seq(Utxo) /\ Len(f \o q) = 1 + Len(q)
        /\ \A i \in 1 .. 1 + Len(q) : (f \o q)[i] = IF i <= 1 THEN f[i] ELSE q[i - 1]
    <3>1. /\ f \o q \in Seq(Utxo) /\ Len(f \o q) = Len(f) + Len(q)
          /\ \A i \in 1 .. Len(f) + Len(q) :
               (f \o q)[i] = IF i <= Len(f) THEN f[i] ELSE q[i - Len(f)]
      BY <2>1, ConcatProperties, ZenonT(30)
    <3>. QED
      BY <2>1, <3>1
  <2>. QED
    BY <1>2, <2>1, <2>2 DEF f
<1>. HIDE DEF r
<1>4. DOMAIN r = 1 .. 1 + Len(q)
  BY <1>3, Positions
<1>5. \A i \in 1 .. 1 + Len(q) : i = 1 \/ i - 1 \in 1 .. Len(q)
  BY <1>2
<1>6. \A j \in DOMAIN r : r[j] = u \/ \E k \in DOMAIN q : r[j] = q[k]
  BY <1>2, <1>3, <1>4, <1>5
<1>7. ASSUME Unique(q), \A k \in DOMAIN q : q[k].id # u.id,
             NEW j \in DOMAIN r, NEW k \in DOMAIN r, r[j].id = r[k].id
      PROVE  j = k
  <2>1. /\ r[j] = IF j = 1 THEN u ELSE q[j - 1]
        /\ r[k] = IF k = 1 THEN u ELSE q[k - 1]
        /\ j \in Nat /\ k \in Nat
        /\ j # 1 => j - 1 \in DOMAIN q
        /\ k # 1 => k - 1 \in DOMAIN q
    BY <1>2, <1>3, <1>4
  <2>. QED
    BY <1>7, <2>1 DEF Unique
<1>. QED
  BY <1>3, <1>6, <1>7 DEF r, Unique
-----------------------------------------------------------------------------
(* Totals, pages and selections *)

LEMMA TotalFact ==
  ASSUME NEW q \in Seq(Utxo), NEW I, I \subseteq DOMAIN q
  PROVE  IsFiniteSet(I) /\ Total(q, I) \in Nat
<1>1. IsFiniteSet(I) /\ \A k \in I : q[k].ada \in Nat
  BY Positions, FS_Subset
<1>. DEFINE f == [k \in I |-> q[k].ada]
<1>2. \A k \in I : f[k] \in Nat
  BY <1>1
<1>. HIDE DEF f
<1>3. SumFunctionOnSet(f, I) \in Nat
  BY ONLY <1>1, <1>2, SumInNat
<1>. QED
  BY <1>1, <1>3 DEF Total, f

LEMMA NoTotal == ASSUME NEW q PROVE Total(q, {}) = 0
<1>. DEFINE f == [k \in {} |-> q[k].ada]
            none == {}
<1>1. IsFiniteSet(none)
  BY FS_EmptySet
<1>. HIDE DEF f, none
<1>2. SumFunctionOnSet(f, {}) = 0
  BY ONLY <1>1, SumRecursion
<1>. QED
  BY <1>2 DEF Total, f

\* UTXOs none of which is there twice are worth what their ids stand for.
LEMMA TotalById ==
  ASSUME NEW q \in Seq(Utxo), NEW I, I \subseteq DOMAIN q,
         \A j, k \in I : q[j].id = q[k].id => j = k,
         NEW value, \A k \in I : value[q[k].id] = q[k].ada
  PROVE  Total(q, I) = SumFunctionOnSet(value, {q[k].id : k \in I})
<1>1. IsFiniteSet(I) /\ \A k \in I : q[k].ada \in Nat
  BY Positions, FS_Subset
<1>. DEFINE f == [k \in I |-> q[k].ada]
            h == [k \in I |-> q[k].id]
<1>2. \A k \in I : f[k] \in Nat /\ value[h[k]] = f[k]
  BY <1>1
<1>3. \A j, k \in I : h[j] = h[k] => j = k
  OBVIOUS
<1>4. {h[k] : k \in I} = {q[k].id : k \in I}
  OBVIOUS
<1>. HIDE DEF f, h
<1>5. SumFunctionOnSet(value, {h[k] : k \in I}) = SumFunctionOnSet(f, I)
  BY ONLY <1>1, <1>2, <1>3, SumRenamed
<1>. QED
  BY <1>4, <1>5 DEF Total, f

LEMMA SelectionFact ==
  ASSUME NEW q \in Seq(Utxo), NEW target
  PROVE  /\ SelectUtxos(q, target) \subseteq DOMAIN q
         /\ \A k \in SelectUtxos(q, target) : q[k].pure
  BY DEF SelectUtxos, PureIn

\* What covers a target that is not nothing is not nothing.
LEMMA SelectsSome ==
  ASSUME NEW q \in Seq(Utxo), NEW target \in Int, target > 0, PureAda(q) >= target
  PROVE  SelectUtxos(q, target) # {}
<1>. DEFINE before(k) == {j \in PureIn(q) : Before(q, j, k)}
            T == {before(k) : k \in PureIn(q)}
<1>1. PureIn(q) \subseteq DOMAIN q
  BY DEF PureIn
<1>2. IsFiniteSet(PureIn(q))
  BY <1>1, TotalFact
<1>3. PureIn(q) # {}
  <2>. DEFINE pure == PureIn(q)
  <2>. SUFFICES ASSUME pure = {} PROVE FALSE
    OBVIOUS
  <2>1. PureAda(q) = Total(q, pure)
    BY DEF PureAda
  <2>. HIDE DEF pure
  <2>2. Total(q, pure) = 0
    BY NoTotal
  <2>. QED
    BY <2>1, <2>2
<1>4. PICK t \in T : \A u \in T : u \subseteq t => u = t
  <2>1. T \subseteq SUBSET PureIn(q) /\ T # {}
    BY <1>3
  <2>. HIDE DEF T
  <2>. QED
    BY ONLY <1>2, <2>1, SmallestSet
<1>5. PICK k \in PureIn(q) : t = before(k)
  OBVIOUS
<1>6. ASSUME NEW j \in before(k) PROVE FALSE
  <2>1. j \in PureIn(q) /\ Before(q, j, k)
    OBVIOUS
  <2>2. /\ q[j].ada \in Nat /\ q[k].ada \in Nat /\ j \in Nat /\ k \in Nat
    BY <1>1, <2>1, Positions
  <2>3. ASSUME NEW i \in PureIn(q), Before(q, i, j) PROVE Before(q, i, k)
    <3>1. q[i].ada \in Nat /\ i \in Nat
      BY <1>1, Positions
    <3>. QED
      BY <2>1, <2>2, <2>3, <3>1 DEF Before
  <2>4. ~ Before(q, j, j)
    BY <2>2 DEF Before
  <2>5. before(j) \subseteq before(k) /\ j \notin before(j)
    BY <2>3, <2>4
  <2>6. before(j) \in T
    BY <2>1
  <2>. QED
    BY <1>4, <1>5, <1>6, <2>5, <2>6
<1>7. Total(q, before(k)) = 0
  <2>1. before(k) = {}
    BY <1>6
  <2>. HIDE DEF before
  <2>. QED
    BY <2>1, NoTotal
<1>8. k \in SelectUtxos(q, target)
  BY <1>5, <1>7 DEF SelectUtxos
<1>. QED
  BY <1>8

LEMMA NatProduct == ASSUME NEW a \in Nat, NEW b \in Nat PROVE a * b \in Nat
  OBVIOUS

\* A page is a part of the wallet: where it starts, and how far it goes.
LEMMA PageFact ==
  ASSUME wallet \in Seq(Utxo), NEW n \in Nat \ {0}
  PROVE  /\ Page(n) \in Seq(Utxo)
         /\ (n - 1) * PageSize \in Nat /\ n * PageSize = (n - 1) * PageSize + PageSize
         /\ Len(Page(n)) <= PageSize
         /\ Len(Page(n)) > 0 => (n - 1) * PageSize + Len(Page(n)) <= Len(wallet)
         /\ \A i \in DOMAIN Page(n) : Page(n)[i] = wallet[(n - 1) * PageSize + i]
<1>. DEFINE from == (n - 1) * PageSize
            size == PageSize
            to == IF n * PageSize <= Len(wallet) THEN n * PageSize ELSE Len(wallet)
            l == Len(wallet)
<1>1. size \in Nat /\ size > 0
  BY CardanoAssumption
<1>2. from \in Nat /\ n * size = from + size
  BY <1>1, NatProduct
<1>3. l \in Nat /\ \A k \in 1 .. l : wallet[k] \in Utxo
  BY Positions
<1>4. Page(n) = SubSeq(wallet, from + 1, to) /\ to = IF from + size <= l THEN from + size ELSE l
  BY <1>2 DEF Page
<1>. HIDE DEF from, size, l, to
<1>5. to \in Int /\ from + 1 \in Int /\ to <= l /\ to <= from + size
  BY <1>1, <1>2, <1>3, <1>4
<1>6. \A i \in from + 1 .. to : wallet[i] \in Utxo
  BY <1>2, <1>3, <1>5
<1>7. /\ Page(n) \in Seq(Utxo)
      /\ Len(Page(n)) = IF from + 1 <= to THEN to - (from + 1) + 1 ELSE 0
      /\ \A i \in 1 .. to - (from + 1) + 1 : Page(n)[i] = wallet[from + 1 + i - 1]
  BY <1>4, <1>5, <1>6, SubSeqProperties
<1>8. DOMAIN Page(n) = 1 .. Len(Page(n))
  BY <1>7, Positions
<1>9. \A i \in DOMAIN Page(n) : Page(n)[i] = wallet[from + i]
  <2>. TAKE i \in DOMAIN Page(n)
  <2>1. i \in 1 .. to - (from + 1) + 1 /\ from + 1 + i - 1 = from + i
    BY <1>2, <1>5, <1>7, <1>8
  <2>. QED
    BY <1>7, <2>1
<1>. QED
  BY <1>1, <1>2, <1>5, <1>7, <1>9 DEF from, size, l
-----------------------------------------------------------------------------
(* Records *)

LEMMA ConstantFacts ==
  /\ MinFeeA \in Nat /\ MinFeeB \in Nat /\ BaseSize \in Nat /\ InputSize \in Nat
  /\ CertSize \in Nat /\ WithdrawalSize \in Nat /\ Validity \in Nat /\ Reward \in Nat
  /\ MinUtxo \in Nat /\ MinUtxo > 0 /\ PageSize \in Nat /\ PageSize > 0
  /\ MaxPages \in Nat /\ MaxPages > 0
  /\ Claim \subseteq Nat /\ CallerFee \subseteq Nat /\ Deposit \subseteq Nat /\ Coin \subseteq Nat
  BY CardanoAssumption

LEMMA NoBodyFact == NoBody \in Body
<1>1. <<>> \in Seq(Certificate)
  OBVIOUS
<1>. QED
  BY <1>1 DEF NoBody, Body

LEMMA NoAccountFact == NoAccount \in Account
  BY DEF NoAccount, Account

LEMMA SignedFact == ASSUME NEW b \in Body PROVE Signed(b) \in Transaction
<1>1. SignedBy("payment", b) \in Witness /\ SignedBy("staking", b) \in Witness
  BY DEF SignedBy, Witness, Key
<1>. QED
  BY <1>1 DEF Signed, Transaction

LEMMA IdleFact == Idle \in SessionRec
<1>. DEFINE t == Signed(NoBody)
            i == [type |-> "Delegate", amount |-> 0]
<1>1. t \in Transaction
  BY NoBodyFact, SignedFact
<1>2. i \in Intent
  BY DEF Intent, Type
<1>3. <<>> \in Seq(Utxo) /\ 0 \in 0 .. MaxPages
  BY ConstantFacts
<1>4. Idle = [pc |-> "idle", intent |-> i, need |-> {},
   collected |-> <<>>, page |-> 0, full |-> FALSE, account |-> NoAccount, keyDeposit |-> 0,
   ttl |-> 0, fee |-> 0, estimated |-> FALSE, seen |-> <<>>, torn |-> FALSE,
   body |-> NoBody, tx |-> t]
  BY DEF Idle
<1>. HIDE DEF t, i
<1>. QED
  BY <1>1, <1>2, <1>3, <1>4, NoBodyFact, NoAccountFact DEF SessionRec

LEMMA AccountFields ==
  ASSUME NEW a \in Account
  PROVE  a.state \in {"None", "Idle", "Active"} /\ a.rewards \in Nat /\ a.deposit \in Nat
  BY DEF Account

LEMMA AccountTypes ==
  ASSUME NEW a \in Account
  PROVE  /\ \A v \in {"None", "Idle", "Active"} : [a EXCEPT !.state = v] \in Account
         /\ \A v \in Nat : [a EXCEPT !.rewards = v] \in Account
         /\ \A v \in Nat : [a EXCEPT !.deposit = v] \in Account
  BY DEF Account

LEMMA IntentFields ==
  ASSUME NEW i \in Intent PROVE i.type \in Type /\ i.amount \in Nat
<1>1. CASE i \in [type : Type \ {"ClaimRewards"}, amount : {0}]
  BY <1>1
<1>2. CASE i \in [type : {"ClaimRewards"}, amount : Claim]
  BY <1>2, ConstantFacts DEF Type
<1>. QED
  BY <1>1, <1>2 DEF Intent

LEMMA BodyFields ==
  ASSUME NEW b \in Body
  PROVE  /\ b.inputs \subseteq Nat /\ b.change \in Nat /\ b.fee \in Nat /\ b.ttl \in Nat
         /\ b.certs \in Seq(Certificate) /\ b.withdrawal \in Nat
  BY DEF Body

LEMMA HeldFields ==
  ASSUME TypeOK, NEW s \in Session
  PROVE  /\ session[s] \in SessionRec
         /\ session[s].intent \in Intent
         /\ session[s].need \subseteq {"params", "utxos", "block", "account"}
         /\ session[s].collected \in Seq(Utxo) /\ session[s].seen \in Seq(Utxo)
         /\ session[s].page \in 0 .. MaxPages /\ session[s].full \in BOOLEAN
         /\ session[s].account \in Account
         /\ session[s].keyDeposit \in Nat /\ session[s].ttl \in Nat /\ session[s].fee \in Nat
         /\ session[s].estimated \in BOOLEAN /\ session[s].torn \in BOOLEAN
         /\ session[s].body \in Body /\ session[s].tx \in Transaction
<1>1. session[s] \in SessionRec
  BY DEF TypeOK
<1>. QED
  BY <1>1 DEF SessionRec

LEMMA LedgerFields ==
  ASSUME TypeOK
  PROVE  /\ slot \in Nat /\ keyDeposit \in Nat /\ births \in Nat /\ changes \in Nat
         /\ wallet \in Seq(Utxo) /\ account \in Account
         /\ mempool \subseteq Transaction /\ refused \subseteq Transaction
  BY DEF TypeOK

LEMMA TransactionFields ==
  ASSUME NEW t \in Transaction PROVE t.body \in Body
  BY DEF Transaction

-----------------------------------------------------------------------------
(* Sizes, fees and bodies *)

LEMMA CertificatesFact ==
  ASSUME NEW type \in Type, NEW a
  PROVE  Certificates(type, a) \in Seq(Certificate)
<1>1. /\ <<>> \in Seq(Certificate)
      /\ <<"StakeDeregistration">> \in Seq(Certificate)
      /\ <<"StakeRegistration">> \in Seq(Certificate)
      /\ <<"StakeDelegation">> \in Seq(Certificate)
  BY DEF Certificate
<1>2. /\ <<>> \o <<"StakeDelegation">> \in Seq(Certificate)
      /\ <<"StakeRegistration">> \o <<"StakeDelegation">> \in Seq(Certificate)
  BY <1>1, ConcatProperties
<1>3. CASE Delegates(type)
  BY <1>2, <1>3 DEF Certificates, Delegates
<1>4. CASE type = "Undelegate"
  BY <1>1, <1>4 DEF Certificates, Delegates
<1>5. CASE type = "ClaimRewards"
  BY <1>1, <1>5 DEF Certificates, Delegates
<1>. QED
  BY <1>3, <1>4, <1>5 DEF Type, Delegates

\* Which certificates there are.
LEMMA CertificatesHave ==
  ASSUME NEW type \in Type, NEW a, NEW b, b.certs = Certificates(type, a)
  PROVE  /\ Has(b, "StakeRegistration") <=> Delegates(type) /\ ~ Registered(a)
         /\ Has(b, "StakeDelegation") <=> Delegates(type)
         /\ Has(b, "StakeDeregistration") <=> type = "Undelegate"
<1>. DEFINE two == <<"StakeRegistration">> \o <<"StakeDelegation">>
<1>1. CASE Delegates(type) /\ Registered(a)
  <2>1. b.certs = <<"StakeDelegation">>
    BY <1>1 DEF Certificates, Delegates
  <2>. QED
    BY <1>1, <2>1 DEF Has, Delegates
<1>2. CASE Delegates(type) /\ ~ Registered(a)
  <2>1. b.certs = two
    BY <1>2 DEF Certificates, Delegates
  <2>2. /\ <<"StakeRegistration">> \in Seq(Certificate) /\ <<"StakeDelegation">> \in Seq(Certificate)
        /\ Len(<<"StakeRegistration">>) = 1 /\ Len(<<"StakeDelegation">>) = 1
        /\ <<"StakeRegistration">>[1] = "StakeRegistration"
        /\ <<"StakeDelegation">>[1] = "StakeDelegation"
    BY DEF Certificate
  <2>3. /\ two \in Seq(Certificate) /\ Len(two) = 2
        /\ two[1] = "StakeRegistration" /\ two[2] = "StakeDelegation"
    BY <2>2, ConcatProperties
  <2>. HIDE DEF two
  <2>4. DOMAIN two = 1 .. 2
    BY <2>3, LenProperties
  <2>. QED
    BY <1>2, <2>1, <2>3, <2>4 DEF Has, Delegates
<1>3. CASE type = "Undelegate"
  <2>1. b.certs = <<"StakeDeregistration">>
    BY <1>3 DEF Certificates, Delegates
  <2>. QED
    BY <1>3, <2>1 DEF Has, Delegates
<1>4. CASE type = "ClaimRewards"
  <2>1. b.certs = <<>>
    BY <1>4 DEF Certificates, Delegates
  <2>. QED
    BY <1>4, <2>1 DEF Has, Delegates
<1>. QED
  BY <1>1, <1>2, <1>3, <1>4 DEF Type, Delegates

LEMMA PartsFact ==
  ASSUME NEW b \in Body, IsFiniteSet(b.inputs)
  PROVE  /\ Parts(b) \in Nat /\ Size(b) = BaseSize + Parts(b)
         /\ MinFee(b) = MinFeeA * BaseSize + MinFeeA * Parts(b) + MinFeeB
         /\ MinFeeA * BaseSize \in Nat /\ MinFeeA * Parts(b) \in Nat /\ MinFee(b) \in Nat
<1>1. Cardinality(b.inputs) \in Nat /\ Len(b.certs) \in Nat
  BY BodyFields, FS_CardinalityType, LenProperties
<1>2. InputSize * Cardinality(b.inputs) \in Nat /\ CertSize * Len(b.certs) \in Nat
  BY <1>1, ConstantFacts, NatProduct
<1>. DEFINE x == InputSize * Cardinality(b.inputs)
            y == CertSize * Len(b.certs)
            z == IF b.withdrawal > 0 THEN WithdrawalSize ELSE 0
            p == Parts(b)
<1>3. x \in Nat /\ y \in Nat /\ z \in Nat /\ p = x + y + z
  BY <1>2, ConstantFacts DEF Parts
<1>4. Size(b) = BaseSize + p /\ MinFee(b) = MinFeeA * Size(b) + MinFeeB
  BY DEF Size, MinFee
<1>. HIDE DEF x, y, z, p
<1>5. p \in Nat
  BY <1>3
<1>6. /\ MinFeeA * (BaseSize + p) = MinFeeA * BaseSize + MinFeeA * p
      /\ MinFeeA * BaseSize \in Nat /\ MinFeeA * p \in Nat
  BY <1>5, ConstantFacts, NatProduct
<1>. QED
  BY <1>4, <1>5, <1>6, ConstantFacts DEF p

\* The buffer is never less for a larger fee.
LEMMA BufferedFact ==
  ASSUME NEW low \in Nat, NEW fee \in Nat, low <= fee
  PROVE  Buffered(fee) \in Nat /\ Buffered(fee) >= low + (low * 10) \div 100
  BY DEF Buffered

\* The inputs of a session: ids of UTXOs it has read.
LEMMA InputsFact ==
  ASSUME TypeOK, NEW s \in Session
  PROVE  /\ Selection(s) \subseteq DOMAIN session[s].collected
         /\ Inputs(s) = {session[s].collected[k].id : k \in Selection(s)}
         /\ Inputs(s) \subseteq Nat /\ IsFiniteSet(Inputs(s))
<1>. DEFINE q == session[s].collected
            I == Selection(s)
            f == [k \in I |-> q[k].id]
<1>1. q \in Seq(Utxo) /\ I \subseteq DOMAIN q
  BY HeldFields, SelectionFact DEF Selection
<1>2. IsFiniteSet(I)
  BY <1>1, TotalFact
<1>3. Inputs(s) = {q[k].id : k \in I}
  BY DEF Inputs, Ids
<1>4. Inputs(s) \subseteq Nat
  BY <1>1, <1>3, Positions
<1>. HIDE DEF q, I
<1>5. f \in Surjection(I, Inputs(s))
  BY <1>3 DEF Surjection
<1>. HIDE DEF f
<1>6. IsFiniteSet(Inputs(s))
  BY <1>2, <1>5, FS_Surjection
<1>. QED
  BY <1>1, <1>3, <1>4, <1>6 DEF q, I

LEMMA WithdrawalFact ==
  ASSUME NEW i \in Intent, NEW a \in Account PROVE Withdrawal(i, a) \in Nat
  BY AccountFields DEF Withdrawal

LEMMA FeeFact ==
  ASSUME TypeOK, NEW s \in Session
  PROVE  /\ Fee(s) \in Nat /\ Owed(s) \in Nat /\ Target(s) \in Nat /\ Target(s) > 0
  BY HeldFields, ConstantFacts DEF Fee, Owed, Required, Target

LEMMA BodyOfFact ==
  ASSUME TypeOK, NEW s \in Session, NEW change \in Nat
  PROVE  BodyOf(s, change) \in Body
<1>1. Inputs(s) \subseteq Nat
  BY InputsFact
<1>2. Certificates(session[s].intent.type, session[s].account) \in Seq(Certificate)
  BY HeldFields, IntentFields, CertificatesFact
<1>3. Withdrawal(session[s].intent, session[s].account) \in Nat
  BY HeldFields, WithdrawalFact
<1>4. Fee(s) \in Nat /\ session[s].ttl \in Nat
  BY FeeFact, HeldFields
<1>. QED
  BY <1>1, <1>2, <1>3, <1>4 DEF BodyOf, Body

LEMMA ChangeFact ==
  ASSUME TypeOK, NEW s \in Session
  PROVE  ChangeOf(s) \in Int
<1>1. Total(session[s].collected, Selection(s)) \in Nat
  BY InputsFact, HeldFields, TotalFact
<1>2. Withdrawal(session[s].intent, session[s].account) \in Nat
  BY HeldFields, WithdrawalFact
<1>. QED
  BY <1>1, <1>2, FeeFact, HeldFields DEF ChangeOf
-----------------------------------------------------------------------------
(* The invariant.  w is the wallet and n the births so far. *)

\* An id stands for one UTXO.
Same(q, w) == \A j \in DOMAIN q, k \in DOMAIN w : q[j].id = w[k].id => q[j] = w[k]

\* What is not registered has earned nothing.
Rewarded(a) == a.state = "None" => a.rewards = 0

WalletInv(w, n) == Unique(w) /\ Born(w, n)

\* The pages read so far are the start of one wallet there has been.
PagesInv(x, w, n) ==
  ~ x.torn =>
    /\ Unique(x.seen) /\ Born(x.seen, n) /\ Same(x.seen, w)
    /\ Len(x.collected) <= Len(x.seen)
    /\ \A k \in DOMAIN x.collected : x.collected[k] = x.seen[k]
    /\ x.pc \in {"estimating", "signing"} /\ x.full => Len(x.collected) = x.page * PageSize

\* What is still in the wallet of the inputs I is what it was when read.
Backs(value, I, w, n) ==
  /\ \A i \in I : i <= n
  /\ \A k \in DOMAIN w : w[k].id \in I => w[k].ada = value[w[k].id] /\ w[k].pure

\* What comes in is what goes out, at the account and the parameter read.
Settles(value, x) ==
  SumFunctionOnSet(value, x.body.inputs) + x.body.withdrawal
      + (IF x.intent.type = "Undelegate" THEN x.keyDeposit ELSE 0)
    = x.body.change + Required(x.intent.type, x.fee, x.account, x.keyDeposit)

BodyInv(x, w, n) ==
  x.pc \in {"built", "signed", "error", "sent"} =>
    /\ IsFiniteSet(x.body.inputs) /\ x.body.inputs # {}
    /\ x.body.fee = x.fee /\ x.body.change >= MinUtxo
    /\ x.body.certs = Certificates(x.intent.type, x.account)
    /\ x.body.withdrawal = Withdrawal(x.intent, x.account)
    /\ x.intent.type = "Undelegate" => Registered(x.account)
    /\ ~ x.torn => \E value : Backs(value, x.body.inputs, w, n) /\ Settles(value, x)

Smallest == MinFeeA * BaseSize + MinFeeB

\* What has not begun has read nothing, and what has read everything reads no
\* more.
FreshInv(x) ==
  /\ x.pc = "idle" => ~ x.full /\ ~ x.estimated
  /\ x.need # {} => x.pc \in {"estimating", "signing"}

EstimateInv(x) == x.estimated => x.fee >= Smallest + Buffer

TxInv(x) ==
  /\ Verifies(x.tx)
  /\ x.tx.body = IF x.pc \in {"signed", "error", "sent"} THEN x.body ELSE NoBody

SessionInv(x, w, n) ==
  /\ PagesInv(x, w, n) /\ BodyInv(x, w, n) /\ FreshInv(x) /\ EstimateInv(x)
  /\ TxInv(x) /\ Rewarded(x.account)

IInv ==
  /\ TypeOK
  /\ WalletInv(wallet, births) /\ Rewarded(account)
  /\ \A s \in Session : SessionInv(session[s], wallet, births)

-----------------------------------------------------------------------------
(* The ledger's steps *)

\* The wallet w2 has only what w has, and UTXOs born after it.
Follows(w2, n2, w, n) ==
  /\ n <= n2
  /\ \A k \in DOMAIN w2 : w2[k].id > n \/ \E j \in DOMAIN w : w2[k] = w[j]

LEMMA FollowsFact ==
  ASSUME NEW x \in SessionRec, NEW w \in Seq(Utxo), NEW w2 \in Seq(Utxo),
         NEW n \in Nat, NEW n2 \in Nat, Follows(w2, n2, w, n), SessionInv(x, w, n)
  PROVE  SessionInv(x, w2, n2)
<1>1. x.seen \in Seq(Utxo) /\ x.body.inputs \subseteq Nat
  BY BodyFields DEF SessionRec
<1>2. n <= n2 /\ \A k \in DOMAIN w2 : w2[k].id > n \/ \E j \in DOMAIN w : w2[k] = w[j]
  BY DEF Follows
<1>3. /\ \A k \in DOMAIN w2 : w2[k].id \in Nat
      /\ \A k \in DOMAIN x.seen : x.seen[k].id \in Nat
  BY <1>1, Positions
<1>4. ASSUME Born(x.seen, n), Same(x.seen, w)
      PROVE  Born(x.seen, n2) /\ Same(x.seen, w2)
  <2>1. Born(x.seen, n2)
    BY <1>2, <1>3, <1>4 DEF Born
  <2>2. ASSUME NEW j \in DOMAIN x.seen, NEW k \in DOMAIN w2, x.seen[j].id = w2[k].id
        PROVE  x.seen[j] = w2[k]
    <3>1. ~ (w2[k].id > n)
      BY <1>3, <1>4, <2>2 DEF Born
    <3>. QED
      BY <1>2, <1>4, <2>2, <3>1 DEF Same
  <2>. QED
    BY <2>1, <2>2 DEF Same
<1>5. PagesInv(x, w2, n2)
  BY <1>4 DEF SessionInv, PagesInv
<1>6. ASSUME NEW value, Backs(value, x.body.inputs, w, n) PROVE Backs(value, x.body.inputs, w2, n2)
  <2>1. \A i \in x.body.inputs : i \in Nat /\ i <= n /\ i <= n2
    BY <1>1, <1>2, <1>6 DEF Backs
  <2>2. ASSUME NEW k \in DOMAIN w2, w2[k].id \in x.body.inputs
        PROVE  w2[k].ada = value[w2[k].id] /\ w2[k].pure
    <3>1. ~ (w2[k].id > n)
      BY <2>1, <2>2
    <3>. QED
      BY <1>2, <1>6, <2>2, <3>1 DEF Backs
  <2>. QED
    BY <2>1, <2>2 DEF Backs
<1>7. BodyInv(x, w2, n2)
  BY <1>6 DEF SessionInv, BodyInv
<1>. QED
  BY <1>5, <1>7 DEF SessionInv

\* A step of the ledger: the wallet that follows, and a well-formed account.
LEMMA LedgerStepIInv ==
  ASSUME IInv, session' = session,
         slot' \in Nat, keyDeposit' \in Nat, births' \in Nat, changes' \in Nat,
         wallet' \in Seq(Utxo), account' \in Account, Rewarded(account'),
         mempool' \subseteq Transaction, refused' \subseteq Transaction,
         WalletInv(wallet', births'), Follows(wallet', births', wallet, births)
  PROVE  IInv'
<1>1. TypeOK'
  BY DEF IInv, TypeOK
<1>2. ASSUME NEW s \in Session PROVE SessionInv(session'[s], wallet', births')
  <2>1. SessionInv(session[s], wallet, births) /\ session[s] \in SessionRec
    BY HeldFields DEF IInv
  <2>2. wallet \in Seq(Utxo) /\ births \in Nat
    BY LedgerFields DEF IInv
  <2>3. SessionInv(session[s], wallet', births')
    BY <2>1, <2>2, FollowsFact
  <2>. QED
    BY <2>3
<1>. QED
  BY <1>1, <1>2 DEF IInv

LEMMA FollowsSame == ASSUME NEW w \in Seq(Utxo), NEW n \in Nat PROVE Follows(w, n, w, n)
  BY DEF Follows

\* The wallet without some of its UTXOs.
LEMMA WithoutFollows ==
  ASSUME NEW w \in Seq(Utxo), NEW n \in Nat, NEW I, WalletInv(w, n)
  PROVE  /\ Without(w, I) \in Seq(Utxo)
         /\ WalletInv(Without(w, I), n) /\ Follows(Without(w, I), n, w, n)
<1>1. /\ Without(w, I) \in Seq(Utxo)
      /\ \A j \in DOMAIN Without(w, I) : \E k \in DOMAIN w : Without(w, I)[j] = w[k]
      /\ Unique(Without(w, I))
  BY WithoutFact DEF WalletInv
<1>. QED
  BY <1>1 DEF WalletInv, Born, Follows

\* One more UTXO in front of what is left of the wallet.
LEMMA InFrontFollows ==
  ASSUME NEW w \in Seq(Utxo), NEW n \in Nat, NEW q \in Seq(Utxo),
         WalletInv(q, n), Follows(q, n, w, n),
         NEW u \in Utxo, u.id = n + 1
  PROVE  /\ <<u>> \o q \in Seq(Utxo)
         /\ WalletInv(<<u>> \o q, n + 1) /\ Follows(<<u>> \o q, n + 1, w, n)
<1>1. \A k \in DOMAIN q : q[k].id \in Nat /\ q[k].id <= n
  BY Positions DEF WalletInv, Born
<1>. DEFINE r == <<u>> \o q
<1>2. /\ r \in Seq(Utxo)
      /\ \A j \in DOMAIN r : r[j] = u \/ \E k \in DOMAIN q : r[j] = q[k]
      /\ Unique(r)
  <2>1. \A k \in DOMAIN q : q[k].id # u.id
    BY <1>1
  <2>. QED
    BY <2>1, InFront DEF WalletInv
<1>. HIDE DEF r
<1>3. Born(r, n + 1)
  BY <1>1, <1>2 DEF Born
<1>4. Follows(r, n + 1, w, n)
  <2>. SUFFICES ASSUME NEW k \in DOMAIN r
                PROVE  r[k].id > n \/ \E j \in DOMAIN w : r[k] = w[j]
    BY DEF Follows
  <2>1. CASE r[k] = u
    BY <2>1
  <2>2. CASE \E j \in DOMAIN q : r[k] = q[j]
    BY <2>2 DEF Follows
  <2>. QED
    BY <1>2, <2>1, <2>2
<1>. QED
  BY <1>2, <1>3, <1>4 DEF WalletInv, r

\* What an accepted body makes of the reward account.
LEMMA AccountAfterFact ==
  ASSUME TypeOK, Rewarded(account), NEW b \in Body, Accepts(b)
  PROVE  AccountAfter(b) \in Account /\ Rewarded(AccountAfter(b))
<1>1. /\ account \in Account /\ b.withdrawal \in Nat /\ account.rewards \in Nat
      /\ account.deposit \in Nat /\ keyDeposit \in Nat
      /\ account.state \in {"None", "Idle", "Active"}
  BY LedgerFields, AccountFields, BodyFields
<1>2. CASE Has(b, "StakeDeregistration")
  <2>1. AccountAfter(b) = NoAccount
    BY <1>2 DEF AccountAfter
  <2>2. Rewarded(NoAccount)
    BY DEF Rewarded, NoAccount
  <2>. QED
    BY <2>1, <2>2, NoAccountFact
<1>3. CASE ~ Has(b, "StakeDeregistration")
  <2>. DEFINE rewards == account.rewards - b.withdrawal
              deposit == IF Has(b, "StakeRegistration") THEN keyDeposit ELSE account.deposit
              state == IF Has(b, "StakeDelegation") THEN "Active" ELSE account.state
  <2>1. AccountAfter(b) = [account EXCEPT !.rewards = rewards, !.deposit = deposit, !.state = state]
    BY <1>3 DEF AccountAfter
  <2>2. rewards \in Nat /\ (account.rewards = 0 => rewards = 0)
    BY <1>1 DEF Accepts
  <2>3. deposit \in Nat /\ state \in {"None", "Idle", "Active"}
        /\ (state = "None" => account.state = "None")
    BY <1>1
  <2>. HIDE DEF rewards, deposit, state
  <2>4. [account EXCEPT !.rewards = rewards, !.deposit = deposit, !.state = state] \in Account
    BY <1>1, <2>2, <2>3 DEF Account
  <2>5. /\ AccountAfter(b).state = state /\ AccountAfter(b).rewards = rewards
    BY <1>1, <2>1 DEF Account
  <2>. QED
    BY <2>1, <2>2, <2>3, <2>4, <2>5 DEF Rewarded
<1>. QED
  BY <1>2, <1>3
LEMMA LedgerHeld ==
  ASSUME IInv
  PROVE  /\ TypeOK /\ WalletInv(wallet, births) /\ Rewarded(account)
         /\ Follows(wallet, births, wallet, births)
         /\ slot \in Nat /\ keyDeposit \in Nat /\ births \in Nat /\ changes \in Nat
         /\ wallet \in Seq(Utxo) /\ account \in Account
         /\ mempool \subseteq Transaction /\ refused \subseteq Transaction
  BY LedgerFields, FollowsSame DEF IInv

LEMMA LandIInv == ASSUME IInv, NEW t \in mempool, Land(t) PROVE IInv'
<1>1. /\ t \in Transaction /\ t.body \in Body /\ t.body.change \in Nat
      /\ mempool' \subseteq Transaction
  BY LedgerHeld, TransactionFields, BodyFields DEF Land
<1>2. /\ session' = session /\ slot' = slot /\ keyDeposit' = keyDeposit /\ changes' = changes
  BY DEF Land
<1>3. CASE Verifies(t) /\ Accepts(t.body)
  <2>. DEFINE u == [id |-> births + 1, ada |-> t.body.change, pure |-> TRUE]
              q == Without(wallet, t.body.inputs)
  <2>1. /\ births' = births + 1 /\ wallet' = <<u>> \o q
        /\ account' = AccountAfter(t.body) /\ refused' = refused
    BY <1>3 DEF Land
  <2>2. u \in Utxo /\ u.id = births + 1
    BY <1>1, LedgerHeld DEF Utxo
  <2>3. q \in Seq(Utxo) /\ WalletInv(q, births) /\ Follows(q, births, wallet, births)
    BY LedgerHeld, WithoutFollows
  <2>. HIDE DEF u, q
  <2>4. /\ <<u>> \o q \in Seq(Utxo) /\ WalletInv(<<u>> \o q, births + 1)
        /\ Follows(<<u>> \o q, births + 1, wallet, births)
    BY <2>2, <2>3, LedgerHeld, InFrontFollows
  <2>5. account' \in Account /\ Rewarded(account')
    BY <1>1, <1>3, <2>1, LedgerHeld, AccountAfterFact
  <2>6. births' \in Nat
    BY <2>1, LedgerHeld
  <2>. QED
    BY <1>1, <1>2, <2>1, <2>4, <2>5, <2>6, LedgerHeld, LedgerStepIInv
<1>4. CASE ~ (Verifies(t) /\ Accepts(t.body))
  <2>1. /\ refused' \subseteq Transaction
        /\ births' = births /\ wallet' = wallet /\ account' = account
    BY <1>1, <1>4, LedgerHeld DEF Land
  <2>. QED
    BY <1>1, <1>2, <2>1, LedgerHeld, LedgerStepIInv
<1>. QED
  BY <1>3, <1>4

LEMMA NextSlotIInv == ASSUME IInv, NextSlot PROVE IInv'
<1>1. /\ slot' \in Nat /\ session' = session /\ keyDeposit' = keyDeposit /\ changes' = changes
      /\ births' = births /\ wallet' = wallet /\ account' = account
      /\ mempool' = mempool /\ refused' = refused
  BY LedgerHeld DEF NextSlot
<1>. QED
  BY <1>1, LedgerHeld, LedgerStepIInv

LEMMA ChangeHeld ==
  ASSUME IInv, Change
  PROVE  /\ changes' \in Nat /\ session' = session /\ slot' = slot
         /\ mempool' = mempool /\ refused' = refused
  BY LedgerHeld DEF Change

LEMMA ReceiveIInv == ASSUME IInv, Receive PROVE IInv'
<1>1. PICK c \in Coin, p \in BOOLEAN :
        wallet' = <<[id |-> births + 1, ada |-> c, pure |-> p]>> \o wallet
  BY DEF Receive
<1>. DEFINE u == [id |-> births + 1, ada |-> c, pure |-> p]
<1>2. wallet' = <<u>> \o wallet
  BY <1>1
<1>3. u \in Utxo /\ u.id = births + 1
  BY LedgerHeld, ConstantFacts DEF Utxo
<1>. HIDE DEF u
<1>4. /\ <<u>> \o wallet \in Seq(Utxo) /\ WalletInv(<<u>> \o wallet, births + 1)
      /\ Follows(<<u>> \o wallet, births + 1, wallet, births)
  BY <1>3, LedgerHeld, InFrontFollows
<1>5. /\ births' = births + 1 /\ births' \in Nat /\ account' = account
      /\ keyDeposit' = keyDeposit /\ Change
  BY LedgerHeld DEF Receive
<1>. QED
  BY <1>2, <1>4, <1>5, ChangeHeld, LedgerHeld, LedgerStepIInv

LEMMA SpendIInv == ASSUME IInv, Spend PROVE IInv'
<1>1. PICK k \in DOMAIN wallet : wallet' = Without(wallet, {wallet[k].id})
  BY DEF Spend
<1>2. /\ wallet' \in Seq(Utxo) /\ WalletInv(wallet', births)
      /\ Follows(wallet', births, wallet, births)
  BY <1>1, LedgerHeld, WithoutFollows
<1>3. /\ births' = births /\ account' = account /\ keyDeposit' = keyDeposit /\ Change
  BY DEF Spend
<1>. QED
  BY <1>2, <1>3, ChangeHeld, LedgerHeld, LedgerStepIInv

LEMMA EpochIInv == ASSUME IInv, Epoch PROVE IInv'
<1>1. /\ account \in Account /\ account.rewards \in Nat /\ Reward \in Nat
      /\ keyDeposit \in Nat /\ Deposit \subseteq Nat /\ Rewarded(account)
  BY LedgerHeld, AccountFields, ConstantFacts
<1>2. account' \in Account /\ keyDeposit' \in Nat /\ Rewarded(account')
  <2>1. CASE /\ account.state = "Active"
             /\ account' = [account EXCEPT !.rewards = account.rewards + Reward]
             /\ UNCHANGED keyDeposit
    <3>1. account' \in Account /\ account'.state = "Active"
      BY <1>1, <2>1 DEF Account
    <3>. QED
      BY <1>1, <2>1, <3>1 DEF Rewarded
  <2>2. CASE keyDeposit' \in Deposit \ {keyDeposit} /\ UNCHANGED account
    BY <1>1, <2>2
  <2>3. CASE /\ account.state = "Active"
             /\ account' = [account EXCEPT !.state = "Idle"]
             /\ UNCHANGED keyDeposit
    <3>1. account' \in Account /\ account'.state = "Idle"
      BY <1>1, <2>3 DEF Account
    <3>. QED
      BY <1>1, <2>3, <3>1 DEF Rewarded
  <2>4. CASE /\ account.state = "None"
             /\ account' = [account EXCEPT !.state = "Active", !.deposit = keyDeposit]
             /\ UNCHANGED keyDeposit
    <3>1. account' \in Account /\ account'.state = "Active"
      BY <1>1, <2>4 DEF Account
    <3>. QED
      BY <1>1, <2>4, <3>1 DEF Rewarded
  <2>5. CASE account' = NoAccount /\ UNCHANGED keyDeposit
    BY <1>1, <2>5, NoAccountFact DEF Rewarded, NoAccount
  <2>. QED
    BY <2>1, <2>2, <2>3, <2>4, <2>5 DEF Epoch
<1>3. wallet' = wallet /\ births' = births /\ Change
  BY DEF Epoch
<1>. QED
  BY <1>2, <1>3, ChangeHeld, LedgerHeld, LedgerStepIInv

-----------------------------------------------------------------------------
(* The sessions' steps *)

\* A step of one session, with whatever becomes of the mempool and of what is
\* refused.
LEMMA SessionStepIInv ==
  ASSUME IInv, NEW s \in Session, NEW x \in SessionRec, SessionInv(x, wallet, births),
         session' = [session EXCEPT ![s] = x],
         UNCHANGED <<slot, wallet, account, keyDeposit, births, changes>>,
         mempool' \subseteq Transaction, refused' \subseteq Transaction
  PROVE  IInv'
<1>1. session' \in [Session -> SessionRec]
      /\ \A r \in Session : session'[r] = IF r = s THEN x ELSE session[r]
  BY LedgerHeld DEF TypeOK
<1>2. TypeOK'
  BY <1>1, LedgerHeld DEF TypeOK
<1>3. ASSUME NEW r \in Session PROVE SessionInv(session'[r], wallet, births)
  BY <1>1 DEF IInv
<1>. QED
  BY <1>2, <1>3, LedgerHeld DEF IInv

LEMMA SessionHeld ==
  ASSUME IInv, NEW s \in Session
  PROVE  /\ session \in [Session -> SessionRec]
         /\ session[s] \in SessionRec /\ SessionInv(session[s], wallet, births)
         /\ PagesInv(session[s], wallet, births) /\ BodyInv(session[s], wallet, births)
         /\ FreshInv(session[s]) /\ EstimateInv(session[s]) /\ TxInv(session[s]) /\ Rewarded(session[s].account)
<1>1. session \in [Session -> SessionRec] /\ SessionInv(session[s], wallet, births)
  BY DEF IInv, TypeOK
<1>. QED
  BY <1>1 DEF SessionInv

\* A session that has not built its body.
Building(x) == x.pc \notin {"built", "signed", "error", "sent"}

\* Until then, and when it throws, only what is read and estimated matters.
LEMMA BuildingInv ==
  ASSUME NEW x, NEW y, NEW w, NEW n, SessionInv(x, w, n), Building(x), Building(y), y.tx = x.tx,
         PagesInv(y, w, n), FreshInv(y), EstimateInv(y), Rewarded(y.account)
  PROVE  SessionInv(y, w, n)
  BY DEF SessionInv, BodyInv, TxInv, Building

Needs == SUBSET {"params", "utxos", "block", "account"}

Starts(y, x, i, pc, need, fee) ==
  \/ y = [x EXCEPT !.intent = i, !.pc = pc, !.need = need]
  \/ y = [x EXCEPT !.intent = i, !.pc = pc, !.need = need, !.fee = fee]

LEMMA StartedFields ==
  ASSUME NEW x \in SessionRec, NEW i \in Intent, NEW pc \in {"estimating", "signing"},
         NEW need \in Needs, NEW fee \in Nat,
         NEW y, Starts(y, x, i, pc, need, fee)
  PROVE  /\ y \in SessionRec /\ y.pc = pc
         /\ y.collected = x.collected /\ y.seen = x.seen /\ y.torn = x.torn /\ y.full = x.full
         /\ y.page = x.page /\ y.estimated = x.estimated /\ y.account = x.account /\ y.tx = x.tx
<1>1. CASE y = [x EXCEPT !.intent = i, !.pc = pc, !.need = need]
  BY <1>1 DEF SessionRec, Needs
<1>2. CASE y = [x EXCEPT !.intent = i, !.pc = pc, !.need = need, !.fee = fee]
  BY <1>2 DEF SessionRec, Needs
<1>. QED
  BY <1>1, <1>2 DEF Starts

LEMMA StartedInv ==
  ASSUME NEW x \in SessionRec, NEW w, NEW n, SessionInv(x, w, n), x.pc = "idle",
         NEW i \in Intent, NEW pc \in {"estimating", "signing"},
         NEW need \in Needs, NEW fee \in Nat,
         NEW y, Starts(y, x, i, pc, need, fee)
  PROVE  y \in SessionRec /\ SessionInv(y, w, n)
<1>1. /\ y \in SessionRec /\ y.pc = pc
      /\ y.collected = x.collected /\ y.seen = x.seen /\ y.torn = x.torn /\ y.full = x.full
      /\ y.page = x.page /\ y.estimated = x.estimated /\ y.account = x.account /\ y.tx = x.tx
  BY StartedFields
<1>2. PagesInv(y, w, n)
  BY <1>1 DEF SessionInv, PagesInv, FreshInv
<1>3. FreshInv(y) /\ EstimateInv(y)
  BY <1>1 DEF SessionInv, FreshInv, EstimateInv
<1>4. Building(x) /\ Building(y) /\ Rewarded(y.account)
  BY <1>1 DEF Building, SessionInv
<1>. QED
  BY <1>1, <1>2, <1>3, <1>4, BuildingInv

LEMMA StartIInv == ASSUME IInv, NEW s \in Session, Start(s) PROVE IInv'
<1>. DEFINE x == session[s]
<1>1. EstimateReads \in Needs /\ SigningReads \in Needs
  BY DEF EstimateReads, SigningReads, Needs
<1>2. x.pc = "idle" /\ UNCHANGED ledger
  BY DEF Start
<1>3. x \in SessionRec /\ SessionInv(x, wallet, births) /\ x.fee \in Nat
  BY SessionHeld, HeldFields, LedgerHeld
<1>4. PICK i \in Intent :
        \/ session' = [session EXCEPT ![s] = [x EXCEPT
              !.intent = i, !.pc = "estimating", !.need = EstimateReads]]
        \/ \E fee \in CallerFee :
             session' = [session EXCEPT ![s] = [x EXCEPT
               !.intent = i, !.pc = "signing", !.need = SigningReads, !.fee = fee]]
  BY DEF Start
<1>. HIDE DEF x
<1>5. CASE session' = [session EXCEPT ![s] = [x EXCEPT
             !.intent = i, !.pc = "estimating", !.need = EstimateReads]]
  <2>. DEFINE y == [x EXCEPT !.intent = i, !.pc = "estimating", !.need = EstimateReads]
  <2>1. y \in SessionRec /\ SessionInv(y, wallet, births)
    BY <1>1, <1>2, <1>3, StartedInv DEF Starts
  <2>2. session' = [session EXCEPT ![s] = y]
    BY <1>5
  <2>. HIDE DEF y
  <2>. QED
    BY <1>2, <2>1, <2>2, LedgerHeld, SessionStepIInv DEF ledger
<1>6. ASSUME NEW fee \in CallerFee,
             session' = [session EXCEPT ![s] = [x EXCEPT
               !.intent = i, !.pc = "signing", !.need = SigningReads, !.fee = fee]]
      PROVE  IInv'
  <2>. DEFINE y == [x EXCEPT !.intent = i, !.pc = "signing", !.need = SigningReads, !.fee = fee]
  <2>1. fee \in Nat
    BY ConstantFacts
  <2>2. y \in SessionRec /\ SessionInv(y, wallet, births)
    BY <1>1, <1>2, <1>3, <2>1, StartedInv DEF Starts
  <2>3. session' = [session EXCEPT ![s] = y]
    BY <1>6
  <2>. HIDE DEF y
  <2>. QED
    BY <1>2, <2>2, <2>3, LedgerHeld, SessionStepIInv DEF ledger
<1>. QED
  BY <1>4, <1>5, <1>6

\* A session that reads, throws or has its fee estimated, and what it becomes.
HasRead(y, x, need, k, a) ==
  \/ y = [x EXCEPT !.need = need, !.keyDeposit = k]
  \/ y = [x EXCEPT !.need = need, !.ttl = k]
  \/ y = [x EXCEPT !.need = need, !.account = a]

LEMMA ReadFields ==
  ASSUME NEW x \in SessionRec, NEW need, need \subseteq x.need, NEW k \in Nat, NEW a \in Account,
         NEW y, HasRead(y, x, need, k, a)
  PROVE  /\ y \in SessionRec /\ y.need = need /\ y.pc = x.pc /\ y.fee = x.fee /\ y.estimated = x.estimated
         /\ y.collected = x.collected /\ y.seen = x.seen /\ y.torn = x.torn /\ y.full = x.full
         /\ y.page = x.page /\ y.tx = x.tx /\ y.account \in {x.account, a}
<1>1. x.need \in Needs /\ need \in Needs
  BY DEF SessionRec, Needs
<1>2. CASE y = [x EXCEPT !.need = need, !.keyDeposit = k]
  BY <1>1, <1>2 DEF SessionRec, Needs
<1>3. CASE y = [x EXCEPT !.need = need, !.ttl = k]
  BY <1>1, <1>3 DEF SessionRec, Needs
<1>4. CASE y = [x EXCEPT !.need = need, !.account = a]
  BY <1>1, <1>4 DEF SessionRec, Needs
<1>. QED
  BY <1>2, <1>3, <1>4 DEF HasRead

LEMMA ReadInv ==
  ASSUME NEW x \in SessionRec, NEW w, NEW n, SessionInv(x, w, n), Building(x),
         NEW need, need \subseteq x.need, NEW k \in Nat, NEW a \in Account, Rewarded(a),
         NEW y, HasRead(y, x, need, k, a)
  PROVE  y \in SessionRec /\ SessionInv(y, w, n)
<1>1. /\ y \in SessionRec /\ y.need = need /\ y.pc = x.pc /\ y.fee = x.fee /\ y.estimated = x.estimated
      /\ y.collected = x.collected /\ y.seen = x.seen /\ y.torn = x.torn /\ y.full = x.full
      /\ y.page = x.page /\ y.tx = x.tx /\ y.account \in {x.account, a}
  BY ReadFields
<1>2. PagesInv(y, w, n)
  BY <1>1 DEF SessionInv, PagesInv
<1>3. FreshInv(y) /\ EstimateInv(y)
  BY <1>1 DEF SessionInv, FreshInv, EstimateInv
<1>4. Building(y) /\ Rewarded(y.account)
  BY <1>1 DEF Building, SessionInv
<1>. QED
  BY <1>1, <1>2, <1>3, <1>4, BuildingInv

\* A read of a session that still has it to do.
LEMMA ReadStep ==
  ASSUME IInv, NEW s \in Session, NEW need, need \subseteq session[s].need,
         session[s].need # {}, NEW k \in Nat, NEW a \in Account, Rewarded(a),
         NEW y, HasRead(y, session[s], need, k, a),
         session' = [session EXCEPT ![s] = y], UNCHANGED ledger
  PROVE  IInv'
<1>. DEFINE x == session[s]
<1>1. x \in SessionRec /\ SessionInv(x, wallet, births)
  BY SessionHeld
<1>2. Building(x)
  BY SessionHeld DEF FreshInv, Building
<1>3. need \subseteq x.need /\ HasRead(y, x, need, k, a)
  OBVIOUS
<1>. HIDE DEF x
<1>4. y \in SessionRec /\ SessionInv(y, wallet, births)
  BY <1>1, <1>2, <1>3, ReadInv
<1>. QED
  BY <1>4, LedgerHeld, SessionStepIInv DEF ledger

LEMMA ReadParamsIInv == ASSUME IInv, NEW s \in Session, ReadParams(s) PROVE IInv'
<1>. DEFINE x == session[s]
            y == [x EXCEPT !.need = x.need \ {"params"}, !.keyDeposit = keyDeposit]
<1>1. session' = [session EXCEPT ![s] = y] /\ UNCHANGED ledger /\ x.need # {}
  BY DEF ReadParams, Reads
<1>2. HasRead(y, x, x.need \ {"params"}, keyDeposit, NoAccount)
  BY DEF HasRead
<1>. HIDE DEF y
<1>. QED
  BY <1>1, <1>2, LedgerHeld, NoAccountFact, ReadStep DEF Rewarded, NoAccount

LEMMA ReadBlockIInv == ASSUME IInv, NEW s \in Session, ReadBlock(s) PROVE IInv'
<1>. DEFINE x == session[s]
            y == [x EXCEPT !.need = x.need \ {"block"}, !.ttl = slot + Validity]
<1>1. session' = [session EXCEPT ![s] = y] /\ UNCHANGED ledger /\ x.need # {}
  BY DEF ReadBlock, Reads
<1>2. HasRead(y, x, x.need \ {"block"}, slot + Validity, NoAccount)
  BY DEF HasRead
<1>3. slot + Validity \in Nat
  BY LedgerHeld, ConstantFacts
<1>. HIDE DEF y
<1>. QED
  BY <1>1, <1>2, <1>3, NoAccountFact, ReadStep DEF Rewarded, NoAccount

LEMMA ReadAccountIInv == ASSUME IInv, NEW s \in Session, ReadAccount(s) PROVE IInv'
<1>. DEFINE x == session[s]
            y == [x EXCEPT !.need = x.need \ {"account"}, !.account = account]
<1>1. session' = [session EXCEPT ![s] = y] /\ UNCHANGED ledger /\ x.need # {}
  BY DEF ReadAccount, Reads
<1>2. HasRead(y, x, x.need \ {"account"}, 0, account)
  BY DEF HasRead
<1>. HIDE DEF y
<1>. QED
  BY <1>1, <1>2, LedgerHeld, ReadStep

FirstRead(y, x, need, c, full, w) ==
  y = [x EXCEPT !.need = need, !.collected = c, !.page = 1, !.full = full,
                !.seen = w, !.torn = FALSE]

LEMMA FirstPageFields ==
  ASSUME NEW x \in SessionRec, NEW need \in Needs, NEW c \in Seq(Utxo),
         NEW w \in Seq(Utxo), NEW full \in BOOLEAN, NEW y, FirstRead(y, x, need, c, full, w)
  PROVE  /\ y \in SessionRec /\ y.need = need /\ y.pc = x.pc /\ y.fee = x.fee
         /\ y.estimated = x.estimated /\ y.collected = c /\ y.seen = w /\ ~ y.torn
         /\ y.full = full /\ y.page = 1 /\ y.tx = x.tx /\ y.account = x.account
<1>1. 1 \in 0 .. MaxPages
  BY ConstantFacts
<1>. QED
  BY <1>1 DEF SessionRec, Needs, FirstRead

\* The first page is the start of the wallet.
LEMMA FirstPage ==
  ASSUME wallet \in Seq(Utxo)
  PROVE  /\ Page(1) \in Seq(Utxo) /\ Len(Page(1)) <= Len(wallet)
         /\ \A k \in DOMAIN Page(1) : Page(1)[k] = wallet[k]
<1>1. PageSize \in Nat /\ (1 - 1) * PageSize = 0
  BY ConstantFacts
<1>2. /\ Page(1) \in Seq(Utxo)
      /\ Len(Page(1)) > 0 => (1 - 1) * PageSize + Len(Page(1)) <= Len(wallet)
      /\ \A i \in DOMAIN Page(1) : Page(1)[i] = wallet[(1 - 1) * PageSize + i]
  BY PageFact
<1>3. Len(Page(1)) \in Nat /\ Len(wallet) \in Nat /\ DOMAIN Page(1) \subseteq Nat
  BY <1>2, Positions
<1>. QED
  BY <1>1, <1>2, <1>3

LEMMA SameSelf == ASSUME NEW w, Unique(w) PROVE Same(w, w)
  BY DEF Same, Unique

LEMMA ReadUtxosIInv == ASSUME IInv, NEW s \in Session, ReadUtxos(s) PROVE IInv'
<1>. DEFINE x == session[s]
            c == Page(1)
            full == Len(c) = PageSize
            w == wallet
            need == x.need \ {"utxos"}
            y == [x EXCEPT !.need = need, !.collected = c, !.page = 1,
                           !.full = full, !.seen = w, !.torn = FALSE]
<1>1. session' = [session EXCEPT ![s] = y] /\ UNCHANGED ledger /\ x.need # {}
  BY DEF ReadUtxos, Reads
<1>2. x \in SessionRec /\ SessionInv(x, wallet, births)
  BY SessionHeld
<1>3. Building(x)
  BY <1>1, SessionHeld DEF FreshInv, Building
<1>4. /\ wallet \in Seq(Utxo) /\ Unique(wallet) /\ Born(wallet, births) /\ Same(wallet, wallet)
  BY LedgerHeld, SameSelf DEF WalletInv
<1>. HIDE DEF x
<1>5. c \in Seq(Utxo) /\ Len(c) <= Len(wallet) /\ \A k \in DOMAIN c : c[k] = wallet[k]
  BY <1>4, FirstPage
<1>. HIDE DEF c
<1>6. full \in BOOLEAN /\ (full => Len(c) = 1 * PageSize)
  BY ConstantFacts
<1>. HIDE DEF full
<1>7. FirstRead(y, x, need, c, full, w)
  BY DEF FirstRead
<1>8. need \subseteq x.need /\ need \in Needs
  BY <1>2 DEF SessionRec, Needs
<1>. HIDE DEF need, w, y
<1>9. /\ y \in SessionRec /\ y.need = need /\ y.pc = x.pc /\ y.fee = x.fee
      /\ y.estimated = x.estimated /\ y.collected = c /\ y.seen = w /\ ~ y.torn
      /\ y.full = full /\ y.page = 1 /\ y.tx = x.tx /\ y.account = x.account
  <2>1. x \in SessionRec /\ c \in Seq(Utxo) /\ w \in Seq(Utxo)
        /\ full \in BOOLEAN /\ need \in Needs
    BY <1>2, <1>4, <1>5, <1>6, <1>8 DEF w
  <2>. QED
    BY ONLY <1>7, <2>1, FirstPageFields
<1>10. PagesInv(y, wallet, births)
  BY <1>4, <1>5, <1>6, <1>9 DEF PagesInv, w
<1>11. FreshInv(y) /\ EstimateInv(y) /\ Building(y) /\ Rewarded(y.account)
  BY <1>1, <1>2, <1>3, <1>8, <1>9 DEF SessionInv, FreshInv, EstimateInv, Building
<1>12. SessionInv(y, wallet, births)
  BY <1>2, <1>3, <1>9, <1>10, <1>11, BuildingInv
<1>. QED
  BY <1>1, <1>9, <1>12, LedgerHeld, SessionStepIInv DEF ledger

LEMMA ThrownFields ==
  ASSUME NEW x \in SessionRec,
         NEW y, y = [x EXCEPT !.pc = "threw", !.need = {}, !.collected = <<>>]
  PROVE  /\ y \in SessionRec /\ y.need = {} /\ y.pc = "threw" /\ y.fee = x.fee
         /\ y.estimated = x.estimated /\ y.collected = <<>> /\ y.seen = x.seen
         /\ y.torn = x.torn /\ y.tx = x.tx /\ y.account = x.account
<1>1. <<>> \in Seq(Utxo) /\ {} \in Needs
  BY DEF Needs
<1>. QED
  BY <1>1 DEF SessionRec, Needs

LEMMA ThrowIInv ==
  ASSUME IInv, NEW s \in Session, session[s].pc \in {"estimating", "signing"}, Throw(s),
         UNCHANGED ledger
  PROVE  IInv'
<1>. DEFINE x == session[s]
            y == [x EXCEPT !.pc = "threw", !.need = {}, !.collected = <<>>]
<1>1. session' = [session EXCEPT ![s] = y]
  BY DEF Throw
<1>2. x \in SessionRec /\ SessionInv(x, wallet, births) /\ Building(x) /\ x.seen \in Seq(Utxo)
  BY SessionHeld, HeldFields, LedgerHeld DEF Building
<1>. HIDE DEF x
<1>3. /\ y \in SessionRec /\ y.need = {} /\ y.pc = "threw" /\ y.fee = x.fee
      /\ y.estimated = x.estimated /\ y.collected = <<>> /\ y.seen = x.seen
      /\ y.torn = x.torn /\ y.tx = x.tx /\ y.account = x.account
  BY <1>2, ThrownFields
<1>. HIDE DEF y
<1>4. PagesInv(y, wallet, births)
  <2>1. Len(y.collected) = 0 /\ DOMAIN y.collected = {} /\ Len(x.seen) \in Nat
    BY <1>2, <1>3, Positions
  <2>. QED
    BY <1>2, <1>3, <2>1 DEF SessionInv, PagesInv
<1>5. FreshInv(y) /\ EstimateInv(y) /\ Building(y) /\ Rewarded(y.account)
  BY <1>2, <1>3 DEF SessionInv, FreshInv, EstimateInv, Building
<1>6. SessionInv(y, wallet, births)
  BY <1>2, <1>3, <1>4, <1>5, BuildingInv
<1>. QED
  BY <1>1, <1>3, <1>6, LedgerHeld, SessionStepIInv DEF ledger

NextRead(y, x, c, page, full, torn) ==
  y = [x EXCEPT !.collected = c, !.page = page, !.full = full, !.torn = torn]

LEMMA NextPageFields ==
  ASSUME NEW x \in SessionRec, NEW c \in Seq(Utxo), NEW page \in 0 .. MaxPages,
         NEW full \in BOOLEAN, NEW torn \in BOOLEAN,
         NEW y, NextRead(y, x, c, page, full, torn)
  PROVE  /\ y \in SessionRec /\ y.need = x.need /\ y.pc = x.pc /\ y.fee = x.fee
         /\ y.estimated = x.estimated /\ y.collected = c /\ y.seen = x.seen /\ y.torn = torn
         /\ y.full = full /\ y.page = page /\ y.tx = x.tx /\ y.account = x.account
  BY DEF SessionRec, NextRead

\* A position behind the first l is one of the m that follow.
LEMMA Behind ==
  ASSUME NEW l \in Nat, NEW m \in Nat, NEW k \in 1 .. l + m, k > l
  PROVE  k - l \in 1 .. m /\ l + (k - l) = k /\ ~ (k <= l)
  OBVIOUS

\* A page more of the same wallet, when the pages so far are full, is the same
\* as more of the wallet.
LEMMA PageAppended ==
  ASSUME wallet \in Seq(Utxo), NEW c \in Seq(Utxo), NEW n \in Nat, Len(c) = n * PageSize,
         Len(c) <= Len(wallet), \A k \in DOMAIN c : c[k] = wallet[k]
  PROVE  LET d == c \o Page(n + 1) IN
         /\ Len(d) <= Len(wallet) /\ \A k \in DOMAIN d : d[k] = wallet[k]
         /\ Len(Page(n + 1)) = PageSize => Len(d) = (n + 1) * PageSize
<1>. DEFINE p == Page(n + 1)
            d == c \o p
            size == n * PageSize
<1>1. n + 1 \in Nat \ {0} /\ (n + 1) - 1 = n
  OBVIOUS
<1>2. /\ p \in Seq(Utxo) /\ size \in Nat /\ (n + 1) * PageSize = size + PageSize
      /\ Len(p) > 0 => size + Len(p) <= Len(wallet)
      /\ \A i \in DOMAIN p : p[i] = wallet[size + i]
  BY <1>1, PageFact
<1>. HIDE DEF p, size
<1>3. Len(p) \in Nat /\ Len(c) \in Nat /\ Len(wallet) \in Nat /\ PageSize \in Nat
  BY <1>2, Positions, ConstantFacts
<1>4. /\ DOMAIN p = 1 .. Len(p) /\ DOMAIN c = 1 .. Len(c)
  BY <1>2, Positions
<1>5. /\ d \in Seq(Utxo) /\ Len(d) = Len(c) + Len(p)
      /\ \A i \in 1 .. Len(c) + Len(p) : d[i] = IF i <= Len(c) THEN c[i] ELSE p[i - Len(c)]
  BY <1>2, ConcatProperties
<1>6. DOMAIN d = 1 .. Len(c) + Len(p)
  BY <1>5, Positions
<1>7. Len(c) = size
  BY DEF size
<1>. HIDE DEF d
<1>8. Len(d) <= Len(wallet)
  BY <1>2, <1>3, <1>5, <1>7
<1>9. ASSUME NEW k \in DOMAIN d PROVE d[k] = wallet[k]
  <2>1. CASE k <= Len(c)
    BY <1>3, <1>4, <1>5, <1>6, <2>1
  <2>2. CASE k > Len(c)
    <3>1. k - Len(c) \in DOMAIN p /\ size + (k - Len(c)) = k /\ ~ (k <= Len(c))
      <4>1. k \in 1 .. Len(c) + Len(p)
        BY <1>6
      <4>. QED
        BY <1>3, <1>4, <1>7, <2>2, <4>1, Behind
    <3>2. d[k] = p[k - Len(c)]
      BY <1>5, <1>6, <3>1
    <3>. QED
      BY <1>2, <3>1, <3>2
  <2>. QED
    BY <1>3, <1>6, <2>1, <2>2
<1>10. Len(p) = PageSize => Len(d) = (n + 1) * PageSize
  BY <1>2, <1>3, <1>5, <1>7
<1>. QED
  BY <1>8, <1>9, <1>10 DEF d, p

LEMMA FetchPageIInv == ASSUME IInv, NEW s \in Session, FetchPage(s) PROVE IInv'
<1>. DEFINE x == session[s]
            page == x.page + 1
            p == Page(page)
            c == x.collected \o p
            full == Len(p) = PageSize
            torn == x.torn \/ wallet # x.seen
            y == [x EXCEPT !.collected = c, !.page = page, !.full = full, !.torn = torn]
<1>1. /\ session' = [session EXCEPT ![s] = y] /\ UNCHANGED ledger
      /\ x.pc \in {"estimating", "signing"} /\ x.full /\ x.page < MaxPages
  BY DEF FetchPage, Resolved, MorePages
<1>2. x \in SessionRec /\ SessionInv(x, wallet, births) /\ Building(x)
  BY <1>1, SessionHeld DEF Building
<1>3. /\ x.collected \in Seq(Utxo) /\ x.page \in 0 .. MaxPages /\ x.torn \in BOOLEAN
  BY HeldFields, LedgerHeld
<1>4. wallet \in Seq(Utxo) /\ MaxPages \in Nat
  BY LedgerHeld, ConstantFacts
<1>. HIDE DEF x
<1>5. page \in 0 .. MaxPages /\ page \in Nat \ {0} /\ x.page \in Nat
  BY <1>1, <1>3, <1>4
<1>6. p \in Seq(Utxo)
  BY <1>4, <1>5, PageFact
<1>7. c \in Seq(Utxo)
  BY <1>3, <1>6, ConcatProperties
<1>8. full \in BOOLEAN /\ torn \in BOOLEAN
  BY <1>3
<1>9. PagesInv(x, wallet, births)
  BY <1>2 DEF SessionInv
<1>10. ASSUME ~ torn
       PROVE  /\ wallet = x.seen /\ ~ x.torn
              /\ Len(c) <= Len(wallet) /\ \A k \in DOMAIN c : c[k] = wallet[k]
              /\ full => Len(c) = page * PageSize
  <2>1. wallet = x.seen /\ ~ x.torn
    BY <1>10
  <2>2. /\ Len(x.collected) <= Len(wallet) /\ \A k \in DOMAIN x.collected : x.collected[k] = wallet[k]
        /\ Len(x.collected) = x.page * PageSize
    BY <1>1, <1>9, <2>1 DEF PagesInv
  <2>. QED
    BY <1>3, <1>4, <1>5, <2>1, <2>2, PageAppended
<1>. HIDE DEF page, p, c, full, torn
<1>11. NextRead(y, x, c, page, full, torn)
  BY DEF NextRead
<1>. HIDE DEF y
<1>12. /\ y \in SessionRec /\ y.need = x.need /\ y.pc = x.pc /\ y.fee = x.fee
       /\ y.estimated = x.estimated /\ y.collected = c /\ y.seen = x.seen /\ y.torn = torn
       /\ y.full = full /\ y.page = page /\ y.tx = x.tx /\ y.account = x.account
  BY <1>2, <1>5, <1>7, <1>8, <1>11, NextPageFields
<1>13. PagesInv(y, wallet, births)
  BY <1>9, <1>10, <1>12 DEF PagesInv
<1>14. FreshInv(y) /\ EstimateInv(y) /\ Building(y) /\ Rewarded(y.account)
  BY <1>1, <1>2, <1>12 DEF SessionInv, FreshInv, EstimateInv, Building
<1>15. SessionInv(y, wallet, births)
  BY <1>2, <1>12, <1>13, <1>14, BuildingInv
<1>. QED
  BY <1>1, <1>12, <1>15, LedgerHeld, SessionStepIInv DEF ledger

Quoted(y, x, fee) ==
  y = [x EXCEPT !.fee = fee, !.estimated = TRUE, !.pc = "signing", !.need = SigningReads,
                !.collected = <<>>, !.page = 0, !.full = FALSE, !.account = NoAccount,
                !.keyDeposit = 0, !.seen = <<>>, !.torn = FALSE]

LEMMA QuotedFields ==
  ASSUME NEW x \in SessionRec, NEW fee \in Nat, NEW y, Quoted(y, x, fee)
  PROVE  /\ y \in SessionRec /\ y.pc = "signing" /\ y.fee = fee /\ ~ y.full /\ ~ y.torn
         /\ y.collected = <<>> /\ y.seen = <<>> /\ y.account = NoAccount /\ y.tx = x.tx
<1>. DEFINE empty == <<>>
            none == NoAccount
            need == SigningReads
<1>1. /\ empty \in Seq(Utxo) /\ none \in Account /\ need \in Needs /\ 0 \in 0 .. MaxPages
  BY NoAccountFact, ConstantFacts DEF Needs, SigningReads, EstimateReads
<1>2. y = [x EXCEPT !.fee = fee, !.estimated = TRUE, !.pc = "signing", !.need = need,
                    !.collected = empty, !.page = 0, !.full = FALSE, !.account = none,
                    !.keyDeposit = 0, !.seen = empty, !.torn = FALSE]
  BY DEF Quoted
<1>. HIDE DEF empty, none, need
<1>3. /\ y \in SessionRec /\ y.pc = "signing" /\ y.fee = fee /\ ~ y.full /\ ~ y.torn
      /\ y.collected = empty /\ y.seen = empty /\ y.account = none /\ y.tx = x.tx
  BY <1>1, <1>2 DEF SessionRec, Needs
<1>. QED
  BY <1>3 DEF empty, none

\* The estimate is at least that of a transaction with nothing in it, and its
\* buffer at least the buffer of that.
LEMMA QuoteFact ==
  ASSUME TypeOK, NEW s \in Session
  PROVE  LET fee == Buffered(MinFee(BodyOf(s, MinUtxo))) IN
         fee \in Nat /\ fee >= Smallest + Buffer
<1>. DEFINE b == BodyOf(s, MinUtxo)
            least == MinFee(b)
            low == Smallest
<1>1. b \in Body
  BY BodyOfFact, ConstantFacts
<1>2. IsFiniteSet(b.inputs)
  BY InputsFact DEF BodyOf
<1>. HIDE DEF b
<1>3. /\ least = MinFeeA * BaseSize + MinFeeA * Parts(b) + MinFeeB
      /\ MinFeeA * BaseSize \in Nat /\ MinFeeA * Parts(b) \in Nat /\ least \in Nat /\ MinFeeB \in Nat
  BY <1>1, <1>2, PartsFact, ConstantFacts
<1>4. low = MinFeeA * BaseSize + MinFeeB
  BY DEF Smallest
<1>5. Buffer = (low * 10) \div 100
  BY DEF Buffer, Smallest
<1>. HIDE DEF least, low
<1>6. low \in Nat /\ low <= least
  BY <1>3, <1>4
<1>7. Buffered(least) \in Nat /\ Buffered(least) >= low + (low * 10) \div 100
  BY <1>3, <1>6, BufferedFact
<1>. QED
  BY <1>5, <1>7 DEF low, least, b

LEMMA QuoteIInv == ASSUME IInv, NEW s \in Session, Quote(s) PROVE IInv'
<1>. DEFINE x == session[s]
            fee == Buffered(MinFee(BodyOf(s, MinUtxo)))
            y == [x EXCEPT !.fee = fee, !.estimated = TRUE, !.pc = "signing", !.need = SigningReads,
                           !.collected = <<>>, !.page = 0, !.full = FALSE, !.account = NoAccount,
                           !.keyDeposit = 0, !.seen = <<>>, !.torn = FALSE]
<1>1. session' = [session EXCEPT ![s] = y] /\ UNCHANGED ledger /\ x.pc = "estimating"
  BY DEF Quote
<1>2. x \in SessionRec /\ SessionInv(x, wallet, births) /\ Building(x)
  BY <1>1, SessionHeld DEF Building
<1>3. fee \in Nat /\ fee >= Smallest + Buffer
  BY LedgerHeld, QuoteFact
<1>. HIDE DEF x, fee
<1>4. Quoted(y, x, fee)
  BY DEF Quoted
<1>. HIDE DEF y
<1>5. /\ y \in SessionRec /\ y.pc = "signing" /\ y.fee = fee /\ ~ y.full /\ ~ y.torn
      /\ y.collected = <<>> /\ y.seen = <<>> /\ y.account = NoAccount /\ y.tx = x.tx
  BY <1>2, <1>3, <1>4, QuotedFields
<1>6. PagesInv(y, wallet, births)
  BY <1>5 DEF PagesInv, Unique, Born, Same
<1>7. FreshInv(y) /\ EstimateInv(y) /\ Building(y) /\ Rewarded(y.account)
  BY <1>3, <1>5 DEF FreshInv, EstimateInv, Building, Rewarded, NoAccount
<1>8. SessionInv(y, wallet, births)
  BY <1>2, <1>5, <1>6, <1>7, BuildingInv
<1>. QED
  BY <1>1, <1>5, <1>8, LedgerHeld, SessionStepIInv DEF ledger

LEMMA ReadFailsIInv == ASSUME IInv, NEW s \in Session, ReadFails(s) PROVE IInv'
  BY ThrowIInv DEF ReadFails

LEMMA NotPermittedIInv == ASSUME IInv, NEW s \in Session, NotPermitted(s) PROVE IInv'
  BY ThrowIInv DEF NotPermitted, Resolved

LEMMA NotCoveredIInv == ASSUME IInv, NEW s \in Session, NotCovered(s) PROVE IInv'
  BY ThrowIInv DEF NotCovered, Resolved

\* What is signed or submitted keeps its body.
SignedAs(y, x, pc, t) == y = [x EXCEPT !.pc = pc, !.tx = t]

LEMMA SignedFields ==
  ASSUME NEW x \in SessionRec, NEW t \in Transaction,
         NEW pc \in {"signed", "error", "sent"},
         NEW y, SignedAs(y, x, pc, t)
  PROVE  /\ y \in SessionRec /\ y.pc = pc /\ y.tx = t
         /\ y.intent = x.intent /\ y.need = x.need /\ y.collected = x.collected /\ y.page = x.page
         /\ y.full = x.full /\ y.account = x.account /\ y.keyDeposit = x.keyDeposit
         /\ y.fee = x.fee /\ y.estimated = x.estimated
         /\ y.seen = x.seen /\ y.torn = x.torn /\ y.body = x.body
  BY DEF SessionRec, SignedAs

LEMMA SignedInv ==
  ASSUME NEW x \in SessionRec, NEW w, NEW n, SessionInv(x, w, n),
         x.pc \in {"built", "signed", "error", "sent"},
         NEW t \in Transaction, Verifies(t), t.body = x.body,
         NEW pc \in {"signed", "error", "sent"},
         NEW y, SignedAs(y, x, pc, t)
  PROVE  y \in SessionRec /\ SessionInv(y, w, n)
<1>1. /\ y \in SessionRec /\ y.pc = pc /\ y.tx = t
      /\ y.intent = x.intent /\ y.need = x.need /\ y.collected = x.collected /\ y.page = x.page
      /\ y.full = x.full /\ y.account = x.account /\ y.keyDeposit = x.keyDeposit
      /\ y.fee = x.fee /\ y.estimated = x.estimated
      /\ y.seen = x.seen /\ y.torn = x.torn /\ y.body = x.body
  BY SignedFields
<1>2. PagesInv(y, w, n)
  BY <1>1 DEF SessionInv, PagesInv
<1>3. BodyInv(y, w, n)
  BY <1>1 DEF SessionInv, BodyInv, Settles
<1>4. FreshInv(y) /\ EstimateInv(y) /\ TxInv(y) /\ Rewarded(y.account)
  BY <1>1 DEF SessionInv, FreshInv, EstimateInv, TxInv
<1>. QED
  BY <1>1, <1>2, <1>3, <1>4 DEF SessionInv

LEMMA ReadyIInv ==
  ASSUME IInv, NEW s \in Session, session[s].pc = "built", NEW t \in Transaction,
         Verifies(t), t.body = session[s].body, Ready(s, t), UNCHANGED ledger
  PROVE  IInv'
<1>. DEFINE x == session[s]
            pc == "signed"
            y == [x EXCEPT !.pc = pc, !.tx = t]
<1>1. session' = [session EXCEPT ![s] = y]
  BY DEF Ready
<1>2. x \in SessionRec /\ SessionInv(x, wallet, births)
  BY SessionHeld
<1>3. /\ x.pc \in {"built", "signed", "error", "sent"} /\ t.body = x.body
      /\ pc \in {"signed", "error", "sent"}
  OBVIOUS
<1>. HIDE DEF x, pc
<1>4. SignedAs(y, x, pc, t)
  BY DEF SignedAs
<1>. HIDE DEF y
<1>5. y \in SessionRec /\ SessionInv(y, wallet, births)
  BY <1>2, <1>3, <1>4, SignedInv
<1>. QED
  BY <1>1, <1>5, LedgerHeld, SessionStepIInv DEF ledger

LEMMA SignIInv == ASSUME IInv, NEW s \in Session, Sign(s) PROVE IInv'
<1>. DEFINE t == Signed(session[s].body)
<1>1. session[s].pc = "built" /\ Ready(s, t) /\ UNCHANGED ledger
  BY DEF Sign
<1>2. t \in Transaction
  BY HeldFields, LedgerHeld, SignedFact
<1>3. Verifies(t) /\ t.body = session[s].body
  BY DEF Verifies, Signed
<1>. HIDE DEF t
<1>. QED
  BY <1>1, <1>2, <1>3, ReadyIInv

LEMMA WitnessFact ==
  ASSUME NEW bodies, NEW k \in Key, NEW o, NEW u \in [vkey : Key, by : Key, over : bodies],
         u.vkey = k, u.by = k, u.over = o
  PROVE  u = SignedBy(k, o)
  BY DEF SignedBy

\* What compile lets through is signed as the package's own signature is.
LEMMA CompileIInv == ASSUME IInv, NEW s \in Session, Compile(s) PROVE IInv'
<1>. DEFINE b == session[s].body
<1>1. session[s].pc = "built" /\ UNCHANGED ledger
  BY DEF Compile
<1>2. PICK payment \in [vkey : Key, by : Key, over : Prehashed],
           staking \in [vkey : Key, by : Key, over : Prehashed] :
        /\ Compiles(b, payment, staking)
        /\ Ready(s, [body |-> b, payment |-> payment, staking |-> staking])
  BY DEF Compile
<1>3. b \in Body
  BY HeldFields, LedgerHeld
<1>. HIDE DEF b
<1>4. payment = SignedBy("payment", b) /\ staking = SignedBy("staking", b)
  <2>1. /\ payment.vkey = "payment" /\ payment.by = "payment" /\ payment.over = b
        /\ staking.vkey = "staking" /\ staking.by = "staking" /\ staking.over = b
    BY <1>2 DEF Compiles
  <2>2. "payment" \in Key /\ "staking" \in Key
    BY DEF Key
  <2>. QED
    BY <2>1, <2>2, WitnessFact
<1>5. Ready(s, Signed(b))
  BY <1>2, <1>4 DEF Signed
<1>6. Signed(b) \in Transaction /\ Verifies(Signed(b)) /\ Signed(b).body = b
  BY <1>3, SignedFact DEF Verifies, Signed
<1>. QED
  BY <1>1, <1>5, <1>6, ReadyIInv DEF b

\* What has been signed is submitted, with whatever outcome.
LEMMA SubmittedIInv ==
  ASSUME IInv, NEW s \in Session, session[s].pc \in {"signed", "error"},
         NEW pc \in {"signed", "error", "sent"}, session' = [session EXCEPT ![s].pc = pc],
         UNCHANGED <<slot, wallet, account, keyDeposit, births, changes>>,
         mempool' \subseteq Transaction, refused' \subseteq Transaction
  PROVE  IInv'
<1>. DEFINE x == session[s]
            t == x.tx
            y == [x EXCEPT !.pc = pc, !.tx = t]
            z == [x EXCEPT !.pc = pc]
<1>1. session' = [session EXCEPT ![s] = z]
  OBVIOUS
<1>2. x \in SessionRec /\ SessionInv(x, wallet, births) /\ t \in Transaction
  BY SessionHeld, HeldFields, LedgerHeld
<1>3. x.pc \in {"signed", "error"} /\ x.pc \in {"built", "signed", "error", "sent"}
  OBVIOUS
<1>. HIDE DEF x
<1>4. y = z /\ SignedAs(y, x, pc, t)
  BY <1>2 DEF SessionRec, SignedAs
<1>5. Verifies(t) /\ t.body = x.body
  BY <1>2, <1>3 DEF SessionInv, TxInv
<1>. HIDE DEF t, y, z
<1>6. y \in SessionRec /\ SessionInv(y, wallet, births)
  BY <1>2, <1>3, <1>4, <1>5, SignedInv
<1>. QED
  BY <1>1, <1>4, <1>6, LedgerHeld, SessionStepIInv

\* The inputs selected from pages of one wallet are worth what was selected,
\* and what is still in the wallet of them is what it was then.
LEMMA SelectionBacked ==
  ASSUME IInv, NEW s \in Session, ~ session[s].torn
  PROVE  \E value : /\ Backs(value, Inputs(s), wallet, births)
                    /\ SumFunctionOnSet(value, Inputs(s))
                         = Total(session[s].collected, Selection(s))
<1>. DEFINE x == session[s]
            q == x.collected
            I == Selection(s)
            ids == Inputs(s)
            value == [i \in ids |-> q[CHOOSE k \in I : q[k].id = i].ada]
<1>1. /\ q \in Seq(Utxo) /\ x.seen \in Seq(Utxo) /\ PagesInv(x, wallet, births) /\ ~ x.torn
  BY LedgerHeld, HeldFields, SessionHeld
<1>2. I \subseteq DOMAIN q /\ ids = {q[k].id : k \in I}
  BY LedgerHeld, InputsFact
<1>3. \A k \in I : q[k].pure
  BY <1>1, SelectionFact DEF Selection
<1>. HIDE DEF x, I, ids
<1>4. /\ Unique(x.seen) /\ Born(x.seen, births) /\ Same(x.seen, wallet)
      /\ Len(q) <= Len(x.seen) /\ \A k \in DOMAIN q : q[k] = x.seen[k]
  BY <1>1 DEF PagesInv
<1>5. DOMAIN q \subseteq DOMAIN x.seen
  <2>1. /\ DOMAIN q = 1 .. Len(q) /\ Len(q) \in Nat
        /\ DOMAIN x.seen = 1 .. Len(x.seen) /\ Len(x.seen) \in Nat
    BY <1>1, Positions
  <2>. QED
    BY <1>4, <2>1
<1>. HIDE DEF q
<1>6. \A j, k \in I : q[j].id = q[k].id => j = k
  BY <1>2, <1>4, <1>5 DEF Unique
<1>7. ASSUME NEW j \in I PROVE value[q[j].id] = q[j].ada
  <2>1. q[j].id \in ids
    BY <1>2
  <2>2. (CHOOSE k \in I : q[k].id = q[j].id) = j
    BY <1>6
  <2>. QED
    BY <2>1, <2>2
<1>. HIDE DEF value
<1>8. Total(q, I) = SumFunctionOnSet(value, ids)
  BY <1>1, <1>2, <1>6, <1>7, TotalById
<1>9. Backs(value, ids, wallet, births)
  <2>1. ASSUME NEW i \in ids PROVE i <= births
    <3>1. PICK j \in I : i = q[j].id
      BY <1>2
    <3>. QED
      BY <1>2, <1>4, <1>5, <3>1 DEF Born
  <2>2. ASSUME NEW k \in DOMAIN wallet, wallet[k].id \in ids
        PROVE  wallet[k].ada = value[wallet[k].id] /\ wallet[k].pure
    <3>1. PICK j \in I : wallet[k].id = q[j].id
      BY <1>2, <2>2
    <3>2. j \in DOMAIN q /\ j \in DOMAIN x.seen /\ q[j] = x.seen[j]
      BY <1>2, <1>4, <1>5
    <3>3. wallet[k] = q[j]
      BY <1>4, <3>1, <3>2 DEF Same
    <3>4. wallet[k].ada = q[j].ada /\ wallet[k].pure
      BY <1>3, <3>3
    <3>5. value[wallet[k].id] = q[j].ada
      BY <1>7, <3>1
    <3>. QED
      BY <3>4, <3>5
  <2>. QED
    BY <2>1, <2>2 DEF Backs
<1>. QED
  BY <1>8, <1>9 DEF ids, q, I, x

BuiltAs(y, x, b) == y = [x EXCEPT !.pc = "built", !.body = b, !.collected = <<>>, !.seen = <<>>]

LEMMA BuiltFields ==
  ASSUME NEW x \in SessionRec, NEW b \in Body, NEW y, BuiltAs(y, x, b)
  PROVE  /\ y \in SessionRec /\ y.pc = "built" /\ y.body = b /\ y.tx = x.tx
         /\ y.intent = x.intent /\ y.need = x.need /\ y.collected = <<>> /\ y.seen = <<>>
         /\ y.account = x.account /\ y.keyDeposit = x.keyDeposit
         /\ y.fee = x.fee /\ y.estimated = x.estimated /\ y.torn = x.torn
<1>. DEFINE empty == <<>>
<1>1. empty \in Seq(Utxo)
  OBVIOUS
<1>2. y = [x EXCEPT !.pc = "built", !.body = b, !.collected = empty, !.seen = empty]
  BY DEF BuiltAs
<1>. HIDE DEF empty
<1>3. /\ y \in SessionRec /\ y.pc = "built" /\ y.body = b /\ y.tx = x.tx
      /\ y.intent = x.intent /\ y.need = x.need /\ y.collected = empty /\ y.seen = empty
      /\ y.account = x.account /\ y.keyDeposit = x.keyDeposit
      /\ y.fee = x.fee /\ y.estimated = x.estimated /\ y.torn = x.torn
  BY <1>1, <1>2 DEF SessionRec
<1>. QED
  BY <1>3 DEF empty

LEMMA BuiltInv ==
  ASSUME IInv, NEW s \in Session, session[s].pc = "signing", session[s].need = {},
         Permitted(s), Covered(s), ChangeOf(s) >= MinUtxo,
         NEW y, BuiltAs(y, session[s], BodyOf(s, ChangeOf(s)))
  PROVE  y \in SessionRec /\ SessionInv(y, wallet, births)
<1>. DEFINE x == session[s]
            b == BodyOf(s, ChangeOf(s))
<1>1. x \in SessionRec /\ SessionInv(x, wallet, births)
  BY SessionHeld
<1>2. ChangeOf(s) \in Nat
  BY LedgerHeld, ChangeFact, ConstantFacts
<1>3. b \in Body
  BY <1>2, LedgerHeld, BodyOfFact
<1>4. /\ b.inputs = Inputs(s) /\ b.change = ChangeOf(s) /\ b.fee = x.fee
      /\ b.certs = Certificates(x.intent.type, x.account)
      /\ b.withdrawal = Withdrawal(x.intent, x.account)
  BY DEF BodyOf, Fee
<1>5. IsFiniteSet(Inputs(s)) /\ Inputs(s) # {}
  <2>1. Selection(s) # {}
    BY LedgerHeld, HeldFields, FeeFact, SelectsSome DEF Selection, Covered
  <2>2. /\ IsFiniteSet(Inputs(s))
        /\ Inputs(s) = {session[s].collected[k].id : k \in Selection(s)}
    BY LedgerHeld, InputsFact
  <2>. QED
    BY ONLY <2>1, <2>2
<1>6. x.intent.type = "Undelegate" => Registered(x.account)
  BY DEF Permitted
<1>7. ASSUME NEW value, SumFunctionOnSet(value, Inputs(s)) = Total(x.collected, Selection(s))
      PROVE  SumFunctionOnSet(value, Inputs(s)) + b.withdrawal
                 + (IF x.intent.type = "Undelegate" THEN x.keyDeposit ELSE 0)
               = b.change + Required(x.intent.type, x.fee, x.account, x.keyDeposit)
  <2>1. Owed(s) = Required(x.intent.type, x.fee, x.account, x.keyDeposit) /\ Owed(s) \in Nat
    BY LedgerHeld, FeeFact DEF Owed, Fee
  <2>2. Total(x.collected, Selection(s)) \in Nat
    BY LedgerHeld, HeldFields, InputsFact, TotalFact
  <2>3. b.withdrawal \in Nat /\ x.keyDeposit \in Nat
    BY <1>3, BodyFields, LedgerHeld, HeldFields
  <2>4. ChangeOf(s) = Total(x.collected, Selection(s)) - Owed(s) + b.withdrawal
          + IF x.intent.type = "Undelegate" THEN x.keyDeposit ELSE 0
    BY <1>4 DEF ChangeOf
  <2>. QED
    BY <1>4, <1>7, <2>1, <2>2, <2>3, <2>4
<1>8. ~ x.torn => \E value : /\ Backs(value, Inputs(s), wallet, births)
                             /\ SumFunctionOnSet(value, Inputs(s))
                                  = Total(x.collected, Selection(s))
  BY SelectionBacked
<1>9. /\ x.pc = "signing" /\ x.need = {} /\ b.change >= MinUtxo /\ BuiltAs(y, x, b)
  BY <1>4
<1>. HIDE DEF x, b
<1>10. /\ y \in SessionRec /\ y.pc = "built" /\ y.body = b /\ y.tx = x.tx
       /\ y.intent = x.intent /\ y.need = x.need /\ y.collected = <<>> /\ y.seen = <<>>
       /\ y.account = x.account /\ y.keyDeposit = x.keyDeposit
       /\ y.fee = x.fee /\ y.estimated = x.estimated /\ y.torn = x.torn
  BY <1>1, <1>3, <1>9, BuiltFields
<1>11. PagesInv(y, wallet, births)
  BY <1>10 DEF PagesInv, Unique, Born, Same
<1>12. BodyInv(y, wallet, births)
  <2>1. ASSUME ~ y.torn PROVE \E value : Backs(value, y.body.inputs, wallet, births) /\ Settles(value, y)
    <3>1. PICK value : /\ Backs(value, Inputs(s), wallet, births)
                       /\ SumFunctionOnSet(value, Inputs(s)) = Total(x.collected, Selection(s))
      BY <1>8, <1>10, <2>1
    <3>2. Settles(value, y)
      BY <1>4, <1>7, <1>10, <3>1 DEF Settles
    <3>. QED
      BY <1>4, <1>10, <3>1, <3>2
  <2>. QED
    BY <1>4, <1>5, <1>6, <1>9, <1>10, <2>1 DEF BodyInv
<1>13. FreshInv(y) /\ EstimateInv(y) /\ TxInv(y) /\ Rewarded(y.account)
  BY <1>1, <1>9, <1>10 DEF SessionInv, FreshInv, EstimateInv, TxInv
<1>. QED
  BY <1>10, <1>11, <1>12, <1>13 DEF SessionInv

LEMMA BuildBodyIInv == ASSUME IInv, NEW s \in Session, BuildBody(s) PROVE IInv'
<1>. DEFINE b == BodyOf(s, ChangeOf(s))
            y == [session[s] EXCEPT !.pc = "built", !.body = b, !.collected = <<>>, !.seen = <<>>]
<1>1. /\ session[s].pc = "signing" /\ session[s].need = {} /\ Permitted(s) /\ Covered(s)
      /\ UNCHANGED ledger
  BY DEF BuildBody
<1>2. CASE ChangeOf(s) < MinUtxo
  BY <1>1, <1>2, ThrowIInv DEF BuildBody
<1>3. CASE ~ (ChangeOf(s) < MinUtxo)
  <2>1. ChangeOf(s) >= MinUtxo
    BY <1>3, LedgerHeld, ChangeFact, ConstantFacts
  <2>2. session' = [session EXCEPT ![s] = y]
    BY <1>3 DEF BuildBody
  <2>3. BuiltAs(y, session[s], b)
    BY DEF BuiltAs
  <2>. HIDE DEF y
  <2>4. y \in SessionRec /\ SessionInv(y, wallet, births)
    BY <1>1, <2>1, <2>3, BuiltInv
  <2>. QED
    BY <1>1, <2>2, <2>4, LedgerHeld, SessionStepIInv DEF ledger
<1>. QED
  BY <1>2, <1>3

LEMMA AcceptedIInv == ASSUME IInv, NEW s \in Session, Accepted(s) PROVE IInv'
<1>1. /\ session[s].pc = "signed"
      /\ \E told \in {"sent", "error"} : session' = [session EXCEPT ![s].pc = told]
      /\ UNCHANGED <<slot, wallet, account, keyDeposit, refused, births, changes>>
  BY DEF Accepted
<1>2. session[s].tx \in Transaction
  BY LedgerHeld, HeldFields
<1>3. mempool' \subseteq Transaction /\ refused' \subseteq Transaction
  BY <1>1, <1>2, LedgerHeld DEF Accepted
<1>. QED
  BY <1>1, <1>3, SubmittedIInv

LEMMA NotAcceptedIInv == ASSUME IInv, NEW s \in Session, NotAccepted(s) PROVE IInv'
<1>1. /\ session[s].pc = "signed" /\ session' = [session EXCEPT ![s].pc = "error"]
      /\ UNCHANGED <<slot, wallet, account, keyDeposit, mempool, births, changes>>
  BY DEF NotAccepted
<1>2. session[s].tx \in Transaction
  BY LedgerHeld, HeldFields
<1>3. mempool' \subseteq Transaction /\ refused' \subseteq Transaction
  BY <1>1, <1>2, LedgerHeld DEF NotAccepted
<1>. QED
  BY <1>1, <1>3, SubmittedIInv

LEMMA RebroadcastIInv == ASSUME IInv, NEW s \in Session, Rebroadcast(s) PROVE IInv'
  BY LedgerHeld, SubmittedIInv DEF Rebroadcast, ledger

-----------------------------------------------------------------------------
(* The invariant of the specification *)

LEMMA SessionStepHolds == ASSUME IInv, NEW s \in Session, SessionStep(s) PROVE IInv'
  BY StartIInv, ReadParamsIInv, ReadUtxosIInv, ReadBlockIInv, ReadAccountIInv, ReadFailsIInv,
     NotPermittedIInv, FetchPageIInv, NotCoveredIInv, QuoteIInv, BuildBodyIInv, SignIInv,
     CompileIInv, AcceptedIInv, NotAcceptedIInv, RebroadcastIInv DEF SessionStep

LEMMA StutterIInv == ASSUME IInv, UNCHANGED vars PROVE IInv'
  BY LedgerHeld, LedgerStepIInv DEF vars

LEMMA NextIInv == ASSUME IInv, [Next]_vars PROVE IInv'
  BY LandIInv, NextSlotIInv, ReceiveIInv, SpendIInv, EpochIInv, SessionStepHolds, StutterIInv
     DEF Next, LedgerStep

LEMMA IdleInv == ASSUME NEW w, NEW n PROVE SessionInv(Idle, w, n)
<1>1. PagesInv(Idle, w, n)
  BY DEF Idle, PagesInv, Unique, Born, Same
<1>2. BodyInv(Idle, w, n) /\ FreshInv(Idle) /\ EstimateInv(Idle)
  BY DEF Idle, BodyInv, FreshInv, EstimateInv
<1>3. TxInv(Idle)
  BY DEF Idle, TxInv, Verifies, Signed
<1>4. Rewarded(Idle.account)
  BY DEF Idle, Rewarded, NoAccount
<1>. QED
  BY <1>1, <1>2, <1>3, <1>4 DEF SessionInv

LEMMA InitIInv == ASSUME Init PROVE IInv
<1>1. TypeOK
  <2>1. keyDeposit \in Nat /\ slot \in Nat /\ births \in Nat /\ changes \in Nat
    BY ConstantFacts DEF Init
  <2>2. session \in [Session -> SessionRec]
    BY IdleFact DEF Init
  <2>. QED
    BY <2>1, <2>2 DEF Init, TypeOK
<1>2. WalletInv(wallet, births) /\ Rewarded(account)
  BY DEF Init, WalletInv, Unique, Born, Rewarded, NoAccount
<1>3. ASSUME NEW s \in Session PROVE SessionInv(session[s], wallet, births)
  BY IdleInv DEF Init
<1>. QED
  BY <1>1, <1>2, <1>3 DEF IInv

\* Whatever a wallet's sessions have read, selected and built is in its place.
THEOREM Invariance == Spec => []IInv
  BY InitIInv, NextIInv, PTL DEF Spec

\* Every variable has its type.
THEOREM TypeCorrect == Spec => []TypeOK
<1>1. IInv => TypeOK
  BY DEF IInv
<1>. QED
  BY <1>1, Invariance, PTL

\* What a session in which the fee was estimated has built pays at least its
\* minimum, as long as the buffer pays for what is in it.
LEMMA EstimatePays ==
  ASSUME IInv, NEW s \in Session, session[s].estimated, NEW b \in Body, IsFiniteSet(b.inputs),
         MinFeeA * Parts(b) <= Buffer
  PROVE  session[s].fee >= MinFee(b)
<1>. DEFINE p == MinFeeA * Parts(b)
            base == MinFeeA * BaseSize
<1>1. /\ MinFee(b) = base + p + MinFeeB /\ base \in Nat /\ p \in Nat /\ MinFeeB \in Nat
  BY PartsFact, ConstantFacts
<1>2. session[s].fee >= base + MinFeeB + Buffer
  BY SessionHeld DEF EstimateInv, Smallest
<1>3. session[s].fee \in Nat /\ p <= Buffer
  BY LedgerHeld, HeldFields
<1>4. Buffer \in Nat
  <2>. DEFINE low == base + MinFeeB
  <2>1. low \in Nat /\ Buffer = (low * 10) \div 100
    BY <1>1 DEF Buffer
  <2>. HIDE DEF low
  <2>. QED
    BY <2>1
<1>. HIDE DEF p, base
<1>. QED
  BY <1>1, <1>2, <1>3, <1>4

\* A fee that estimateFee returned pays for the body signed with it.
THEOREM EstimateSufficesHolds == Spec => []EstimateSuffices
<1>1. ASSUME IInv PROVE EstimateSuffices
  <2>. SUFFICES ASSUME NEW s \in Session, session[s].pc = "built", session[s].estimated,
                       MinFeeA * Parts(session[s].body) <= Buffer
                PROVE  session[s].fee >= MinFee(session[s].body)
    BY DEF EstimateSuffices
  <2>1. session[s].body \in Body /\ IsFiniteSet(session[s].body.inputs)
    BY <1>1, LedgerHeld, HeldFields, SessionHeld DEF BodyInv
  <2>. QED
    BY <1>1, <2>1, EstimatePays
<1>. QED
  BY <1>1, Invariance, PTL

-----------------------------------------------------------------------------
(* Why a transaction is refused *)

\* Only what does not verify or is not accepted is refused.
LEMMA NewlyRefused ==
  ASSUME Next, NEW t \in refused', t \notin refused
  PROVE  ~ (Verifies(t) /\ Accepts(t.body))
<1>1. ASSUME NEW u \in mempool, Land(u) PROVE ~ (Verifies(t) /\ Accepts(t.body))
  BY <1>1 DEF Land
<1>2. CASE NextSlot \/ Receive \/ Spend \/ Epoch
  BY <1>2 DEF NextSlot, Receive, Spend, Epoch, Change
<1>3. ASSUME NEW s \in Session, SessionStep(s) PROVE ~ (Verifies(t) /\ Accepts(t.body))
  <2>1. CASE NotAccepted(s)
    BY <2>1 DEF NotAccepted
  <2>2. CASE UNCHANGED ledger
    BY <2>2 DEF ledger
  <2>3. CASE Accepted(s)
    BY <2>3 DEF Accepted
  <2>4. UNCHANGED ledger \/ Accepted(s) \/ NotAccepted(s)
    BY <1>3 DEF SessionStep, Start, ReadParams, ReadUtxos, ReadBlock, ReadAccount, ReadFails,
                NotPermitted, FetchPage, NotCovered, Quote, BuildBody, Sign, Compile, Rebroadcast
  <2>. QED
    BY <2>1, <2>2, <2>3, <2>4
<1>. QED
  BY <1>1, <1>2, <1>3 DEF Next, LedgerStep

\* A body whose inputs are all still in the wallet is worth there what it was
\* worth when it was built.
LEMMA SpentTotal ==
  ASSUME IInv, NEW b, b.inputs \subseteq Ids(wallet), NEW value,
         Backs(value, b.inputs, wallet, births)
  PROVE  /\ Total(wallet, Spent(b)) = SumFunctionOnSet(value, b.inputs)
         /\ \A k \in Spent(b) : wallet[k].pure
<1>. DEFINE I == Spent(b)
<1>1. I \subseteq DOMAIN wallet /\ \A k \in I : wallet[k].id \in b.inputs
  BY DEF Spent
<1>2. b.inputs = {wallet[k].id : k \in I}
  BY DEF Spent, Ids
<1>3. /\ \A j, k \in I : wallet[j].id = wallet[k].id => j = k
      /\ \A k \in I : value[wallet[k].id] = wallet[k].ada /\ wallet[k].pure
  BY <1>1, LedgerHeld DEF WalletInv, Unique, Backs
<1>4. wallet \in Seq(Utxo)
  BY LedgerHeld
<1>. HIDE DEF I
<1>5. Total(wallet, I) = SumFunctionOnSet(value, {wallet[k].id : k \in I})
  BY <1>1, <1>3, <1>4, TotalById
<1>. QED
  BY <1>2, <1>3, <1>5 DEF I

\* A transaction that is not accepted is excused.
LEMMA Excuses ==
  ASSUME IInv, NEW s \in Session, ~ (Verifies(session[s].tx) /\ Accepts(session[s].tx.body))
  PROVE  Excused(s, session[s].tx.body)
<1>. DEFINE x == session[s]
            b == x.tx.body
<1>1. /\ x \in SessionRec /\ BodyInv(x, wallet, births) /\ TxInv(x) /\ Rewarded(x.account)
      /\ x.intent \in Intent /\ x.account \in Account /\ x.keyDeposit \in Nat /\ x.fee \in Nat
      /\ b \in Body /\ slot \in Nat /\ keyDeposit \in Nat /\ account \in Account
  BY SessionHeld, LedgerHeld, HeldFields, TransactionFields
<1>2. CASE b = NoBody
  <2>1. slot >= b.ttl
    BY <1>1, <1>2 DEF NoBody
  <2>. QED
    BY <2>1 DEF Excused
<1>3. ASSUME b # NoBody, ~ Excused(s, b) PROVE FALSE
  <2>1. x.pc \in {"built", "signed", "error", "sent"} /\ b = x.body
    BY <1>1, <1>3 DEF TxInv
  <2>2. /\ IsFiniteSet(b.inputs) /\ b.inputs # {}
        /\ b.fee = x.fee /\ b.change >= MinUtxo
        /\ b.certs = Certificates(x.intent.type, x.account)
        /\ b.withdrawal = Withdrawal(x.intent, x.account)
        /\ x.intent.type = "Undelegate" => Registered(x.account)
        /\ ~ x.torn => \E value : Backs(value, b.inputs, wallet, births) /\ Settles(value, x)
    BY <1>1, <2>1 DEF BodyInv
  <2>3. /\ ~ x.torn /\ b.inputs \subseteq Ids(wallet) /\ ~ (slot >= b.ttl)
        /\ ~ ((~ x.estimated \/ MinFeeA * Parts(b) > Buffer) /\ b.fee < MinFee(b))
        /\ account.state = x.account.state
        /\ Has(b, "StakeDeregistration") \/ b.withdrawal > 0 => account.rewards = x.account.rewards
        /\ Has(b, "StakeRegistration") => account.state # "Idle" /\ keyDeposit = x.keyDeposit
        /\ Has(b, "StakeDeregistration") => account.deposit = x.keyDeposit
    BY <1>3 DEF Excused
  <2>4. /\ b.inputs \subseteq Nat /\ b.change \in Nat /\ b.fee \in Nat /\ b.ttl \in Nat
        /\ b.withdrawal \in Nat /\ x.intent.type \in Type
        /\ account.state \in {"None", "Idle", "Active"}
    BY <1>1, BodyFields, IntentFields, AccountFields
  <2>5. /\ Has(b, "StakeRegistration") <=> Delegates(x.intent.type) /\ ~ Registered(x.account)
        /\ Has(b, "StakeDelegation") <=> Delegates(x.intent.type)
        /\ Has(b, "StakeDeregistration") <=> x.intent.type = "Undelegate"
    BY <2>2, <2>4, CertificatesHave
  <2>6. PICK value : Backs(value, b.inputs, wallet, births) /\ Settles(value, x)
    BY <2>2, <2>3
  <2>7. /\ Total(wallet, Spent(b)) = SumFunctionOnSet(value, b.inputs)
        /\ \A k \in Spent(b) : wallet[k].pure
    BY <2>3, <2>6, SpentTotal
  <2>8. b.fee >= MinFee(b)
    <3>1. MinFee(b) \in Nat /\ MinFeeA * Parts(b) \in Nat
      BY <1>1, <2>2, PartsFact
    <3>2. Buffer \in Nat
      <4>. DEFINE low == MinFeeA * BaseSize + MinFeeB
      <4>1. low \in Nat /\ Buffer = (low * 10) \div 100
        BY ConstantFacts, NatProduct DEF Buffer
      <4>. HIDE DEF low
      <4>. QED
        BY <4>1
    <3>3. CASE x.estimated /\ MinFeeA * Parts(b) <= Buffer
      BY <1>1, <2>2, <3>3, EstimatePays
    <3>4. CASE ~ (x.estimated /\ MinFeeA * Parts(b) <= Buffer)
      BY <2>3, <2>4, <3>1, <3>2, <3>4
    <3>. QED
      BY <3>3, <3>4
  <2>9. Balanced(b)
    <3>. DEFINE spent == Total(wallet, Spent(b))
                refund == IF Has(b, "StakeDeregistration") THEN account.deposit ELSE 0
                paid == IF Has(b, "StakeRegistration") THEN keyDeposit ELSE 0
    <3>1. refund = IF x.intent.type = "Undelegate" THEN x.keyDeposit ELSE 0
      BY <2>3, <2>5
    <3>2. Required(x.intent.type, x.fee, x.account, x.keyDeposit) = b.fee + paid
      BY <2>2, <2>3, <2>5 DEF Required
    <3>3. spent + b.withdrawal + refund = b.change + (b.fee + paid)
      BY <2>1, <2>6, <2>7, <3>1, <3>2 DEF Settles
    <3>4. paid \in Nat /\ b.change + (b.fee + paid) = b.change + b.fee + paid
      BY <1>1, <2>4
    <3>. QED
      BY <3>3, <3>4 DEF Balanced
  <2>10. Has(b, "StakeRegistration") => account.state = "None"
    BY <2>3, <2>4, <2>5 DEF Registered
  <2>11. Has(b, "StakeDelegation") => account.state # "None" \/ Has(b, "StakeRegistration")
    BY <2>3, <2>5 DEF Registered
  <2>12. Has(b, "StakeDeregistration") => account.state # "None" /\ account.rewards = b.withdrawal
    BY <2>2, <2>3, <2>5 DEF Registered, Withdrawal, Delegates
  <2>13. b.withdrawal > 0 => account.state # "None" /\ account.rewards = b.withdrawal
    BY <1>1, <2>2, <2>3 DEF Withdrawal, Rewarded
  <2>14. Accepts(b)
    BY <2>2, <2>3, <2>4, <2>7, <2>8, <2>9, <2>10, <2>11, <2>12, <2>13, <1>1 DEF Accepts
  <2>. QED
    BY <1>1, <2>14 DEF TxInv
<1>. QED
  BY <1>2, <1>3

\* A transaction the package built is refused only if what it read has changed,
\* or its fee was made up or its body has outgrown the buffer.
THEOREM RefusedOnlyIfChangedHolds == Spec => RefusedOnlyIfChanged
<1>1. IInv /\ [Next]_vars
        => [\A s \in Session :
              session[s].tx \in refused' \ refused => Excused(s, session[s].tx.body)]_vars
  <2>1. ASSUME IInv, Next, NEW s \in Session, session[s].tx \in refused' \ refused
        PROVE  Excused(s, session[s].tx.body)
    BY <2>1, NewlyRefused, Excuses
  <2>. QED
    BY <2>1
<1>. QED
  BY <1>1, Invariance, PTL DEF Spec, RefusedOnlyIfChanged

=============================================================================
