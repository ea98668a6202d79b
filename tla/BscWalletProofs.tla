--------------------------- MODULE BscWalletProofs ---------------------------
(***************************************************************************)
(* A BSC wallet's calls and listings, for every number of callers and      *)
(* viewers, every amount, queue and order of rewards: the types, what a    *)
(* call for everything leaves behind, why a transaction may be refused,    *)
(* and that no request is listed twice.                                    *)
(***************************************************************************)
EXTENDS BscWallet, FiniteSetTheorems, TLAPS

\* A contract always has shares that the wallet does not, and BNB for them.
PoolInv == \A v \in Validator : shares[v] < total[v] /\ pooled[v] > 0

ChainInv == TypeOK /\ PoolInv

-----------------------------------------------------------------------------
(* Arithmetic of the share rate *)

\* Integer division rounds down by less than the divisor.
LEMMA Floor ==
  ASSUME NEW a \in Nat, NEW d \in Nat, d > 0
  PROVE  /\ a \div d \in Nat
         /\ (a \div d) * d <= a
         /\ a < (a \div d + 1) * d
<1>. DEFINE q == a \div d
<1>1. q \in Nat /\ d * q <= a /\ a < d * q + d
  OBVIOUS
<1>. HIDE DEF q
<1>2. q * d <= a /\ a < (q + 1) * d
  BY <1>1
<1>. QED
  BY <1>1, <1>2 DEF q

LEMMA ProductInNat == ASSUME NEW a \in Nat, NEW b \in Nat PROVE a * b \in Nat
  OBVIOUS

LEMMA PositiveProduct ==
  ASSUME NEW a \in Nat, NEW b \in Nat, a > 0, b > 0 PROVE a * b > 0
<1>1. (a - 1) * b >= 0
  OBVIOUS
<1>. QED
  BY <1>1

LEMMA Monotone ==
  ASSUME NEW a \in Int, NEW b \in Int, NEW c \in Nat, a <= b PROVE a * c <= b * c
<1>1. (b - a) * c >= 0
  OBVIOUS
<1>. QED
  BY <1>1

LEMMA Cancel ==
  ASSUME NEW a \in Int, NEW b \in Int, NEW c \in Nat, c > 0, a * c <= b * c
  PROVE  a <= b
<1>. SUFFICES ASSUME a >= b + 1 PROVE FALSE
  OBVIOUS
<1>1. (a - b - 1) * c >= 0
  OBVIOUS
<1>. QED
  BY <1>1

\* A lower rate never gives more.
LEMMA LowerRate ==
  ASSUME NEW b \in Nat, NEW t1 \in Nat, NEW p1 \in Nat, NEW t2 \in Nat, NEW p2 \in Nat,
         p1 > 0, p2 > 0, t2 * p1 <= t1 * p2
  PROVE  (b * t2) \div p2 <= (b * t1) \div p1
<1>. DEFINE q1 == (b * t1) \div p1
            q2 == (b * t2) \div p2
<1>1. b * t1 \in Nat /\ b * t2 \in Nat
  BY ProductInNat
<1>2. q1 \in Nat /\ b * t1 < (q1 + 1) * p1
  BY <1>1, Floor
<1>3. q2 \in Nat /\ q2 * p2 <= b * t2
  BY <1>1, Floor
<1>. HIDE DEF q1, q2
<1>4. q2 <= q1
  <2>. SUFFICES ASSUME q2 >= q1 + 1 PROVE FALSE
    BY <1>2, <1>3
  <2>1. (q1 + 1) * p2 <= b * t2
    BY <1>2, <1>3, Monotone
  <2>2. ((q1 + 1) * p2) * p1 <= (b * t2) * p1
    BY <1>2, <2>1, <1>1, Monotone
  <2>3. (b * t2) * p1 = (t2 * p1) * b /\ (b * t1) * p2 = (t1 * p2) * b
    OBVIOUS
  <2>4. (t2 * p1) * b <= (t1 * p2) * b
    BY Monotone
  <2>5. (b * t1 + 1) * p2 <= ((q1 + 1) * p1) * p2
    BY <1>1, <1>2, Monotone
  <2>6. (b * t1 + 1) * p2 = (b * t1) * p2 + p2
    BY <1>1
  <2>7. ((q1 + 1) * p1) * p2 = ((q1 + 1) * p2) * p1
    BY <1>2
  <2>8. /\ (b * t1) * p2 \in Nat /\ (b * t2) * p1 \in Nat
        /\ ((q1 + 1) * p1) * p2 \in Nat
    BY <1>1, <1>2
  <2>. DEFINE x == (b * t1) * p2
              y == (b * t2) * p1
              z == ((q1 + 1) * p1) * p2
  <2>9. x \in Nat /\ y \in Nat /\ z \in Nat /\ z <= y /\ y <= x /\ x + p2 <= z
    BY <2>2, <2>3, <2>4, <2>5, <2>6, <2>7, <2>8
  <2>. HIDE DEF x, y, z
  <2>. QED
    BY <2>9
<1>. QED
  BY <1>4 DEF q1, q2

\* Staking bnb lowers the rate, or keeps it, and leaves it positive.
LEMMA StakeRate ==
  ASSUME NEW b \in Nat, NEW t \in Nat, NEW p \in Nat, p > 0
  PROVE  (t + (b * t) \div p) * p <= t * (p + b)
<1>. DEFINE q == (b * t) \div p
<1>1. b * t \in Nat
  BY ProductInNat
<1>2. q \in Nat /\ q * p <= b * t
  BY <1>1, Floor
<1>. HIDE DEF q
<1>3. (t + q) * p = t * p + q * p /\ t * (p + b) = t * p + b * t
  BY <1>2
<1>. QED
  BY <1>1, <1>2, <1>3 DEF q

\* Taking out n of t shares too, for what is worth no more than they are.
LEMMA OutRate ==
  ASSUME NEW n \in Nat, NEW t \in Nat, NEW p \in Nat, p > 0, n < t
  PROVE  /\ (n * p) \div t \in Nat
         /\ (n * p) \div t < p
         /\ (t - n) * p <= t * (p - (n * p) \div t)
<1>. DEFINE q == (n * p) \div t
<1>1. n * p \in Nat
  BY ProductInNat
<1>2. q \in Nat /\ q * t <= n * p
  BY <1>1, Floor
<1>. HIDE DEF q
<1>3. (t - n) * p = t * p - n * p /\ t * (p - q) = t * p - q * t
  BY <1>2
<1>4. (t - n) * p <= t * (p - q)
  BY <1>1, <1>2, <1>3
<1>5. q < p
  <2>. SUFFICES ASSUME q >= p PROVE FALSE
    BY <1>2
  <2>1. p * t <= q * t
    BY <1>2, Monotone
  <2>2. (t - n) * p > 0
    BY PositiveProduct
  <2>3. p * t = t * p /\ p * t \in Nat /\ q * t \in Nat
    BY <1>2
  <2>. QED
    BY <1>1, <1>2, <1>3, <2>1, <2>2, <2>3
<1>. QED
  BY <1>2, <1>4, <1>5 DEF q

-----------------------------------------------------------------------------
(* Records *)

LEMMA BlankFact ==
  /\ NoCall \in Call
  /\ \A c \in Call, key \in Key : SignedBy(key, c) \in Transaction
  /\ SignedBy("wallet", NoCall) \in Transaction
<1>1. (CHOOSE v \in Validator : TRUE) \in Validator
  BY BscAssumption
<1>2. NoCall \in Call
  BY <1>1 DEF NoCall, Call, Type
<1>3. \A c \in Call, key \in Key : SignedBy(key, c) \in Transaction
  BY DEF SignedBy, Transaction
<1>. QED
  BY <1>2, <1>3 DEF Key

\* A session by its fields.
Session7(pc, i, c, e, b, h, t) ==
  [pc |-> pc, intent |-> i, call |-> c, estimated |-> e, before |-> b, held |-> h, tx |-> t]

Pc == {"idle", "estimating", "simulating", "estimated", "building", "built", "signed",
       "error", "sent", "threw"}
HeldIntent ==
  {i \in [type : Type, at : Validator, to : Validator, amount : Nat, max : BOOLEAN, index : Nat] :
     Meaningful(i)}

LEMMA SessionFields ==
  ASSUME NEW x \in SessionRec
  PROVE  /\ x.pc \in Pc /\ x.intent \in HeldIntent /\ x.call \in Call /\ x.estimated \in BOOLEAN
         /\ x.before \in Held /\ x.held \in Nat /\ x.tx \in Transaction
         /\ x = Session7(x.pc, x.intent, x.call, x.estimated, x.before, x.held, x.tx)
  BY DEF SessionRec, Session7, Pc, HeldIntent

LEMMA SessionOf ==
  ASSUME NEW pc \in Pc, NEW i \in HeldIntent, NEW c \in Call, NEW e \in BOOLEAN, NEW b \in Held,
         NEW h \in Nat, NEW t \in Transaction
  PROVE  Session7(pc, i, c, e, b, h, t) \in SessionRec
  BY DEF SessionRec, Session7, Pc, HeldIntent

\* What the assignments of each step make of it.
Estimating(x, e, v, c, b) == [x EXCEPT !.estimated = e, !.pc = v, !.call = c, !.before = b]
Building(x, c, h, v) == [x EXCEPT !.call = c, !.held = h, !.pc = v]
Signing(x, v, c, t) == [x EXCEPT !.pc = v, !.call = c, !.tx = t]

LEMMA StartUpdate ==
  ASSUME NEW x \in SessionRec, NEW i, NEW v
  PROVE  [x EXCEPT !.intent = i, !.pc = v]
           = Session7(v, i, x.call, x.estimated, x.before, x.held, x.tx)
<1>. DEFINE x1 == [x EXCEPT !.intent = i]
<1>1. x1 = Session7(x.pc, i, x.call, x.estimated, x.before, x.held, x.tx)
  BY SessionFields DEF Session7
<1>. HIDE DEF x1
<1>. DEFINE x2 == [x1 EXCEPT !.pc = v]
<1>2. x2 = Session7(v, i, x.call, x.estimated, x.before, x.held, x.tx)
  BY <1>1, SessionFields DEF Session7
<1>. HIDE DEF x2
<1>. QED
  BY <1>2 DEF x1, x2

\* What the estimate of a call notes first.
Noting(b, k) == [b EXCEPT !.slashes = k]

LEMMA NotingFact ==
  ASSUME NEW b \in Held, NEW k \in Nat
  PROVE  /\ Noting(b, k) \in Held /\ Noting(b, k).slashes = k
         /\ b.shares \in Nat /\ b.queue \in Seq(Request) /\ b.slashes \in Nat
  BY DEF Held, Noting

Converting(x, c, b, v) == [x EXCEPT !.call = c, !.before = b, !.pc = v]

LEMMA ConvertUpdate ==
  ASSUME NEW x \in SessionRec, NEW c, NEW b, NEW v
  PROVE  Converting(x, c, b, v) = Session7(v, x.intent, c, x.estimated, b, x.held, x.tx)
<1>. DEFINE x1 == [x EXCEPT !.call = c]
<1>1. x1 = Session7(x.pc, x.intent, c, x.estimated, x.before, x.held, x.tx)
  BY SessionFields DEF Session7
<1>. HIDE DEF x1
<1>. DEFINE x2 == [x1 EXCEPT !.before = b]
<1>2. x2 = Session7(x.pc, x.intent, c, x.estimated, b, x.held, x.tx)
  BY <1>1, SessionFields DEF Session7
<1>. HIDE DEF x2
<1>. DEFINE x3 == [x2 EXCEPT !.pc = v]
<1>3. x3 = Session7(v, x.intent, c, x.estimated, b, x.held, x.tx)
  BY <1>2, SessionFields DEF Session7
<1>. HIDE DEF x3
<1>. QED
  BY <1>3 DEF Converting, x1, x2, x3

LEMMA CallUpdate ==
  ASSUME NEW x \in SessionRec, NEW c, NEW v
  PROVE  [x EXCEPT !.call = c, !.pc = v]
           = Session7(v, x.intent, c, x.estimated, x.before, x.held, x.tx)
<1>. DEFINE x1 == [x EXCEPT !.call = c]
<1>1. x1 = Session7(x.pc, x.intent, c, x.estimated, x.before, x.held, x.tx)
  BY SessionFields DEF Session7
<1>. HIDE DEF x1
<1>. DEFINE x2 == [x1 EXCEPT !.pc = v]
<1>2. x2 = Session7(v, x.intent, c, x.estimated, x.before, x.held, x.tx)
  BY <1>1, SessionFields DEF Session7
<1>. HIDE DEF x2
<1>. QED
  BY <1>2 DEF x1, x2

LEMMA EstimateUpdate ==
  ASSUME NEW x \in SessionRec, NEW e, NEW v, NEW c, NEW b
  PROVE  Estimating(x, e, v, c, b)
           = Session7(v, x.intent, c, e, b, x.held, x.tx)
<1>. DEFINE x1 == [x EXCEPT !.estimated = e]
<1>1. x1 = Session7(x.pc, x.intent, x.call, e, x.before, x.held, x.tx)
  BY SessionFields DEF Session7
<1>. HIDE DEF x1
<1>. DEFINE x2 == [x1 EXCEPT !.pc = v]
<1>2. x2 = Session7(v, x.intent, x.call, e, x.before, x.held, x.tx)
  BY <1>1, SessionFields DEF Session7
<1>. HIDE DEF x2
<1>. DEFINE x3 == [x2 EXCEPT !.call = c]
<1>3. x3 = Session7(v, x.intent, c, e, x.before, x.held, x.tx)
  BY <1>2, SessionFields DEF Session7
<1>. HIDE DEF x3
<1>. DEFINE x4 == [x3 EXCEPT !.before = b]
<1>4. x4 = Session7(v, x.intent, c, e, b, x.held, x.tx)
  BY <1>3, SessionFields DEF Session7
<1>. HIDE DEF x4
<1>. QED
  BY <1>4 DEF Estimating, x1, x2, x3, x4

LEMMA BuildUpdate ==
  ASSUME NEW x \in SessionRec, NEW c, NEW h, NEW v
  PROVE  Building(x, c, h, v)
           = Session7(v, x.intent, c, x.estimated, x.before, h, x.tx)
<1>. DEFINE x1 == [x EXCEPT !.call = c]
<1>1. x1 = Session7(x.pc, x.intent, c, x.estimated, x.before, x.held, x.tx)
  BY SessionFields DEF Session7
<1>. HIDE DEF x1
<1>. DEFINE x2 == [x1 EXCEPT !.held = h]
<1>2. x2 = Session7(x.pc, x.intent, c, x.estimated, x.before, h, x.tx)
  BY <1>1, SessionFields DEF Session7
<1>. HIDE DEF x2
<1>. DEFINE x3 == [x2 EXCEPT !.pc = v]
<1>3. x3 = Session7(v, x.intent, c, x.estimated, x.before, h, x.tx)
  BY <1>2, SessionFields DEF Session7
<1>. HIDE DEF x3
<1>. QED
  BY <1>3 DEF Building, x1, x2, x3

LEMMA SignUpdate ==
  ASSUME NEW x \in SessionRec, NEW v, NEW c, NEW t
  PROVE  Signing(x, v, c, t)
           = Session7(v, x.intent, c, x.estimated, x.before, x.held, t)
<1>. DEFINE x1 == [x EXCEPT !.pc = v]
<1>1. x1 = Session7(v, x.intent, x.call, x.estimated, x.before, x.held, x.tx)
  BY SessionFields DEF Session7
<1>. HIDE DEF x1
<1>. DEFINE x2 == [x1 EXCEPT !.call = c]
<1>2. x2 = Session7(v, x.intent, c, x.estimated, x.before, x.held, x.tx)
  BY <1>1, SessionFields DEF Session7
<1>. HIDE DEF x2
<1>. DEFINE x3 == [x2 EXCEPT !.tx = t]
<1>3. x3 = Session7(v, x.intent, c, x.estimated, x.before, x.held, t)
  BY <1>2, SessionFields DEF Session7
<1>. HIDE DEF x3
<1>. QED
  BY <1>3 DEF Signing, x1, x2, x3

LEMMA IdleFact == IdleSession \in SessionRec
<1>1. /\ NoIntent \in HeldIntent
      /\ [shares |-> 0, queue |-> <<>>, slashes |-> 0] \in Held
  <2>1. NoCall.at \in Validator /\ NoCall.to = NoCall.at
    BY BlankFact DEF Call, NoCall
  <2>2. <<>> \in Seq(Request)
    OBVIOUS
  <2>. QED
    BY <2>1, <2>2 DEF NoIntent, HeldIntent, Meaningful, Type, Held
<1>2. IdleSession = Session7("idle", NoIntent, NoCall, FALSE,
                             [shares |-> 0, queue |-> <<>>, slashes |-> 0], 0,
                             SignedBy("wallet", NoCall))
  BY DEF IdleSession, Session7
<1>. QED
  BY <1>1, <1>2, BlankFact, SessionOf DEF Pc

-----------------------------------------------------------------------------
(* The chain *)

\* Nothing but a slash raises the rate at which BNB become shares.
RateFalls == \A v \in Validator : total'[v] * pooled[v] <= total[v] * pooled'[v]
RateMoves ==
  \A v \in Validator :
    \/ slashes'[v] > slashes[v]
    \/ slashes'[v] = slashes[v] /\ total'[v] * pooled[v] <= total[v] * pooled'[v]

LEMMA PoolFields ==
  ASSUME ChainInv, NEW v \in Validator
  PROVE  /\ shares[v] \in Nat /\ total[v] \in Nat /\ pooled[v] \in Nat
         /\ shares[v] < total[v] /\ pooled[v] > 0
  BY DEF ChainInv, TypeOK, PoolInv

LEMMA ConversionsInNat ==
  ASSUME ChainInv, NEW v \in Validator, NEW n \in Nat
  PROVE  SharesFor(v, n) \in Nat /\ ValueOf(v, n) \in Nat
<1>1. n * total[v] \in Nat /\ n * pooled[v] \in Nat
  BY PoolFields, ProductInNat
<1>2. total[v] > 0
  BY PoolFields
<1>. QED
  BY <1>1, <1>2, PoolFields, Floor DEF SharesFor, ValueOf

LEMMA RateFallsFact ==
  ASSUME ChainInv, ChainInv', NEW v \in Validator, NEW n \in Nat,
         total'[v] * pooled[v] <= total[v] * pooled'[v]
  PROVE  SharesFor(v, n)' <= SharesFor(v, n)
<1>1. /\ total[v] \in Nat /\ pooled[v] \in Nat /\ pooled[v] > 0
      /\ total'[v] \in Nat /\ pooled'[v] \in Nat /\ pooled'[v] > 0
  BY DEF ChainInv, TypeOK, PoolInv
<1>3. (n * total'[v]) \div pooled'[v] <= (n * total[v]) \div pooled[v]
  BY <1>1, LowerRate
<1>. QED
  BY <1>3 DEF SharesFor

LEMMA OutFact ==
  ASSUME ChainInv, NEW v \in Validator, NEW n \in Nat, n <= shares[v]
  PROVE  LET o == Out(v, n) IN
         /\ o.s = shares[v] - n
         /\ o.s \in Nat /\ o.p \in Nat /\ o.t \in Nat
         /\ o.s < o.t /\ o.p > 0
         /\ o.t * pooled[v] <= total[v] * o.p
<1>1. n < total[v]
  BY PoolFields
<1>2. /\ ValueOf(v, n) \in Nat /\ ValueOf(v, n) < pooled[v]
      /\ (total[v] - n) * pooled[v] <= total[v] * (pooled[v] - ValueOf(v, n))
  BY <1>1, PoolFields, OutRate DEF ValueOf
<1>. QED
  BY <1>1, <1>2, PoolFields DEF Out

LEMMA StakeFact ==
  ASSUME ChainInv, NEW v \in Validator, NEW b \in Nat
  PROVE  LET q == SharesFor(v, b) IN
         /\ q \in Nat
         /\ (total[v] + q) * pooled[v] <= total[v] * (pooled[v] + b)
  BY PoolFields, ConversionsInNat, StakeRate DEF SharesFor

\* What a claim leaves in the queue.
LEMMA RemainingFact ==
  ASSUME NEW q \in Seq(Request), NEW e \in Remaining(Len(q))
  PROVE  LET r == [j \in DOMAIN e |-> q[e[j]]] IN
         /\ r \in Seq(Request)
         /\ Len(r) < Len(q) /\ DOMAIN r = DOMAIN e
         /\ \A j \in DOMAIN r : e[j] \in DOMAIN q /\ r[j] = q[e[j]]
         /\ \A i, j \in DOMAIN r : e[i] = e[j] => i = j
<1>1. PICK m \in 0 .. Len(q) - 1 :
        e \in [1 .. m -> 1 .. Len(q)] /\ \A i, j \in 1 .. m : i < j => e[i] < e[j]
  BY DEF Remaining
<1>. DEFINE r == [j \in DOMAIN e |-> q[e[j]]]
<1>2. DOMAIN e = 1 .. m /\ m \in Nat /\ m < Len(q) /\ DOMAIN q = 1 .. Len(q)
  BY <1>1
<1>3. \A j \in 1 .. m : e[j] \in DOMAIN q /\ q[e[j]] \in Request /\ e[j] \in Int
  BY <1>1, <1>2
<1>4. r \in Seq(Request) /\ Len(r) = m
  BY <1>2, <1>3
<1>5. \A i, j \in 1 .. m : e[i] = e[j] => i = j
  BY <1>1, <1>3
<1>. QED
  BY <1>2, <1>3, <1>4, <1>5

\* What a transaction that the chain executes does to the pools.
PoolsTyped ==
  /\ shares' \in [Validator -> Nat] /\ pooled' \in [Validator -> Nat] /\ total' \in [Validator -> Nat]
  /\ PoolInv' /\ RateFalls

LEMMA PoolsUnchanged ==
  ASSUME ChainInv, UNCHANGED <<shares, pooled, total>> PROVE PoolsTyped
<1>1. RateFalls
  BY PoolFields DEF RateFalls
<1>. QED
  BY <1>1 DEF PoolsTyped, ChainInv, TypeOK, PoolInv

LEMMA DelegatePools ==
  ASSUME ChainInv, NEW v \in Validator, NEW b \in Nat, Stake(v, b, shares, pooled, total)
  PROVE  PoolsTyped
<1>. DEFINE q == SharesFor(v, b)
<1>1. q \in Nat /\ (total[v] + q) * pooled[v] <= total[v] * (pooled[v] + b)
  BY StakeFact
<1>. HIDE DEF q
<1>2. /\ shares' = [shares EXCEPT ![v] = shares[v] + q]
      /\ total' = [total EXCEPT ![v] = total[v] + q]
      /\ pooled' = [pooled EXCEPT ![v] = pooled[v] + b]
  BY DEF Stake, q
<1>3. /\ shares \in [Validator -> Nat] /\ pooled \in [Validator -> Nat] /\ total \in [Validator -> Nat]
  BY DEF ChainInv, TypeOK
<1>4. /\ shares' \in [Validator -> Nat] /\ pooled' \in [Validator -> Nat]
      /\ total' \in [Validator -> Nat]
  BY <1>1, <1>2, <1>3
<1>5. ASSUME NEW w \in Validator
      PROVE  /\ shares'[w] < total'[w] /\ pooled'[w] > 0
             /\ total'[w] * pooled[w] <= total[w] * pooled'[w]
  <2>1. CASE w = v
    BY <1>1, <1>2, <1>3, <2>1, PoolFields
  <2>2. CASE w # v
    <3>1. shares'[w] = shares[w] /\ total'[w] = total[w] /\ pooled'[w] = pooled[w]
      BY <1>2, <1>3, <2>2
    <3>. QED
      BY <3>1, PoolFields
  <2>. QED
    BY <2>1, <2>2
<1>. QED
  BY <1>4, <1>5 DEF PoolsTyped, PoolInv, RateFalls

LEMMA UndelegatePools ==
  ASSUME ChainInv, NEW v \in Validator, NEW n \in Nat, n <= shares[v],
         shares' = [shares EXCEPT ![v] = Out(v, n).s],
         pooled' = [pooled EXCEPT ![v] = Out(v, n).p],
         total' = [total EXCEPT ![v] = Out(v, n).t]
  PROVE  PoolsTyped
<1>. DEFINE o == Out(v, n)
<1>1. /\ o.s \in Nat /\ o.p \in Nat /\ o.t \in Nat /\ o.s < o.t /\ o.p > 0
      /\ o.t * pooled[v] <= total[v] * o.p
  BY OutFact
<1>2. /\ shares' = [shares EXCEPT ![v] = o.s]
      /\ pooled' = [pooled EXCEPT ![v] = o.p]
      /\ total' = [total EXCEPT ![v] = o.t]
  OBVIOUS
<1>. HIDE DEF o
<1>3. /\ shares \in [Validator -> Nat] /\ pooled \in [Validator -> Nat] /\ total \in [Validator -> Nat]
  BY DEF ChainInv, TypeOK
<1>4. /\ shares' \in [Validator -> Nat] /\ pooled' \in [Validator -> Nat]
      /\ total' \in [Validator -> Nat]
  BY <1>1, <1>2, <1>3
<1>5. ASSUME NEW w \in Validator
      PROVE  /\ shares'[w] < total'[w] /\ pooled'[w] > 0
             /\ total'[w] * pooled[w] <= total[w] * pooled'[w]
  <2>1. CASE w = v
    BY <1>1, <1>2, <1>3, <2>1
  <2>2. CASE w # v
    <3>1. shares'[w] = shares[w] /\ total'[w] = total[w] /\ pooled'[w] = pooled[w]
      BY <1>2, <1>3, <2>2
    <3>. QED
      BY <3>1, PoolFields
  <2>. QED
    BY <2>1, <2>2
<1>. QED
  BY <1>4, <1>5 DEF PoolsTyped, PoolInv, RateFalls

LEMMA RedelegatePools ==
  ASSUME ChainInv, NEW v \in Validator, NEW to \in Validator, to # v, NEW n \in Nat, n <= shares[v],
         Stake(to, ValueOf(v, n), [shares EXCEPT ![v] = Out(v, n).s],
               [pooled EXCEPT ![v] = Out(v, n).p], [total EXCEPT ![v] = Out(v, n).t])
  PROVE  PoolsTyped
<1>. DEFINE o == Out(v, n)
            b == ValueOf(v, n)
            q == SharesFor(to, b)
<1>1. /\ o.s \in Nat /\ o.p \in Nat /\ o.t \in Nat /\ o.s < o.t /\ o.p > 0
      /\ o.t * pooled[v] <= total[v] * o.p
  BY OutFact
<1>2. b \in Nat
  BY ConversionsInNat
<1>3. q \in Nat /\ (total[to] + q) * pooled[to] <= total[to] * (pooled[to] + b)
  <2>. HIDE DEF b
  <2>. QED
    BY <1>2, StakeFact
<1>4. /\ shares \in [Validator -> Nat] /\ pooled \in [Validator -> Nat] /\ total \in [Validator -> Nat]
  BY DEF ChainInv, TypeOK
<1>5. /\ shares' = [[shares EXCEPT ![v] = o.s] EXCEPT ![to] = @ + q]
      /\ pooled' = [[pooled EXCEPT ![v] = o.p] EXCEPT ![to] = @ + b]
      /\ total' = [[total EXCEPT ![v] = o.t] EXCEPT ![to] = @ + q]
  BY DEF Stake
<1>. HIDE DEF o, b, q
<1>6. /\ shares' = [w \in Validator |-> IF w = to THEN shares[to] + q ELSE
                                        IF w = v THEN o.s ELSE shares[w]]
      /\ pooled' = [w \in Validator |-> IF w = to THEN pooled[to] + b ELSE
                                        IF w = v THEN o.p ELSE pooled[w]]
      /\ total' = [w \in Validator |-> IF w = to THEN total[to] + q ELSE
                                       IF w = v THEN o.t ELSE total[w]]
  BY <1>4, <1>5
<1>7. /\ shares' \in [Validator -> Nat] /\ pooled' \in [Validator -> Nat]
      /\ total' \in [Validator -> Nat]
  BY <1>1, <1>2, <1>3, <1>4, <1>6
<1>8. ASSUME NEW w \in Validator
      PROVE  /\ shares'[w] < total'[w] /\ pooled'[w] > 0
             /\ total'[w] * pooled[w] <= total[w] * pooled'[w]
  <2>1. CASE w = v
    BY <1>1, <1>6, <2>1
  <2>2. CASE w = to
    <3>1. /\ shares'[w] = shares[to] + q /\ total'[w] = total[to] + q
          /\ pooled'[w] = pooled[to] + b
      BY <1>6, <2>2
    <3>. QED
      BY <1>2, <1>3, <2>2, <3>1, PoolFields
  <2>3. CASE w # v /\ w # to
    <3>1. shares'[w] = shares[w] /\ total'[w] = total[w] /\ pooled'[w] = pooled[w]
      BY <1>6, <2>3
    <3>. QED
      BY <3>1, PoolFields
  <2>. QED
    BY <2>1, <2>2, <2>3
<1>. QED
  BY <1>7, <1>8 DEF PoolsTyped, PoolInv, RateFalls

\* The shares of the wallet at one validator after it redelegated.
LEMMA RedelegatedShares ==
  ASSUME ChainInv, NEW v \in Validator, NEW to \in Validator, to # v, NEW n \in Nat, n <= shares[v],
         NEW p, NEW t, Stake(to, ValueOf(v, n), [shares EXCEPT ![v] = Out(v, n).s], p, t)
  PROVE  shares'[v] = shares[v] - n
<1>1. shares' = [[shares EXCEPT ![v] = Out(v, n).s] EXCEPT ![to] = @ + SharesFor(to, ValueOf(v, n))]
  BY DEF Stake
<1>2. shares'[v] = Out(v, n).s
  BY <1>1 DEF ChainInv, TypeOK
<1>. QED
  BY <1>2 DEF Out

QueueTyped ==
  /\ requests' \in Nat
  /\ queue' \in [Validator -> Seq(Request)]
  /\ \A v \in Validator : Len(queue'[v]) <= MaxUnbond

LEMMA QueueFields ==
  ASSUME ChainInv
  PROVE  /\ requests \in Nat /\ queue \in [Validator -> Seq(Request)]
         /\ \A v \in Validator : Len(queue[v]) \in Nat /\ Len(queue[v]) <= MaxUnbond
  BY DEF ChainInv, TypeOK

LEMMA AppendQueue ==
  ASSUME ChainInv, NEW v \in Validator, Len(queue[v]) < MaxUnbond, requests' = requests + 1,
         queue' = [queue EXCEPT ![v] = Append(@, [id |-> requests + 1, unlocked |-> FALSE])]
  PROVE  QueueTyped
<1>. DEFINE r == [id |-> requests + 1, unlocked |-> FALSE]
            q == Append(queue[v], r)
<1>1. r \in Request
  BY QueueFields DEF Request
<1>. HIDE DEF r
<1>2. q \in Seq(Request) /\ Len(q) = Len(queue[v]) + 1
  BY <1>1, QueueFields
<1>3. queue' = [queue EXCEPT ![v] = q]
  BY DEF r
<1>4. MaxUnbond \in Nat
  BY BscAssumption
<1>. HIDE DEF q
<1>5. Len(q) <= MaxUnbond
  BY <1>2, <1>4, QueueFields
<1>. QED
  BY <1>2, <1>3, <1>5, QueueFields DEF QueueTyped

LEMMA ClaimQueue ==
  ASSUME ChainInv, NEW v \in Validator, requests' = requests, NEW e \in Remaining(Len(queue[v])),
         queue' = [queue EXCEPT ![v] = [j \in DOMAIN e |-> queue[v][e[j]]]]
  PROVE  QueueTyped
<1>. DEFINE q == [j \in DOMAIN e |-> queue[v][e[j]]]
<1>1. q \in Seq(Request) /\ Len(q) < Len(queue[v])
  BY QueueFields, RemainingFact
<1>2. MaxUnbond \in Nat
  BY BscAssumption
<1>. HIDE DEF q
<1>3. Len(q) \in Nat /\ Len(q) <= MaxUnbond
  BY <1>1, <1>2, QueueFields
<1>4. queue' = [queue EXCEPT ![v] = q]
  BY DEF q
<1>. QED
  BY <1>1, <1>3, <1>4, QueueFields DEF QueueTyped

LEMMA CallFields ==
  ASSUME NEW c \in Call
  PROVE  /\ c.type \in Type /\ c.at \in Validator /\ c.to \in Validator /\ c.amount \in Nat
         /\ c.index \in Nat /\ c.nonce \in Nat
  BY DEF Call

LEMMA ExecuteFact ==
  ASSUME ChainInv, NEW c \in Call, Accepts(c), Execute(c)
  PROVE  PoolsTyped /\ QueueTyped
<1>. USE CallFields
<1>1. CASE c.type = "Delegate"
  <2>1. Stake(c.at, c.amount, shares, pooled, total) /\ UNCHANGED <<queue, requests>>
    BY <1>1 DEF Execute
  <2>. QED
    BY <2>1, DelegatePools, QueueFields DEF QueueTyped
<1>2. CASE c.type = "Undelegate"
  <2>1. c.amount <= shares[c.at] /\ Len(queue[c.at]) < MaxUnbond
    BY <1>2 DEF Accepts
  <2>2. /\ shares' = [shares EXCEPT ![c.at] = Out(c.at, c.amount).s]
        /\ pooled' = [pooled EXCEPT ![c.at] = Out(c.at, c.amount).p]
        /\ total' = [total EXCEPT ![c.at] = Out(c.at, c.amount).t]
        /\ requests' = requests + 1
        /\ queue' = [queue EXCEPT ![c.at] = Append(@, [id |-> requests + 1, unlocked |-> FALSE])]
    BY <1>2 DEF Execute
  <2>. QED
    BY <2>1, <2>2, UndelegatePools, AppendQueue
<1>3. CASE c.type = "Redelegate"
  <2>1. c.amount <= shares[c.at] /\ c.to # c.at
    BY <1>3 DEF Accepts
  <2>2. /\ Stake(c.to, ValueOf(c.at, c.amount), [shares EXCEPT ![c.at] = Out(c.at, c.amount).s],
                 [pooled EXCEPT ![c.at] = Out(c.at, c.amount).p],
                 [total EXCEPT ![c.at] = Out(c.at, c.amount).t])
        /\ UNCHANGED <<queue, requests>>
    BY <1>3 DEF Execute
  <2>. QED
    BY <2>1, <2>2, RedelegatePools, QueueFields DEF QueueTyped
<1>4. CASE c.type = "ClaimDelegate"
  <2>1. PICK e \in Remaining(Len(queue[c.at])) :
          queue' = [queue EXCEPT ![c.at] = [j \in DOMAIN e |-> queue[c.at][e[j]]]]
    BY <1>4 DEF Execute
  <2>2. UNCHANGED <<shares, pooled, total, requests>>
    BY <1>4 DEF Execute
  <2>. QED
    BY <2>1, <2>2, ClaimQueue, PoolsUnchanged
<1>. QED
  BY <1>1, <1>2, <1>3, <1>4 DEF Type

-----------------------------------------------------------------------------
(* What a session holds is backed by what it has read                      *)

Blank == SignedBy("wallet", NoCall)
Matches(c, i) == c.type = i.type /\ c.at = i.at /\ c.to = i.to /\ c.index = i.index
Takes(i) == i.type \in {"Undelegate", "Redelegate"}

\* What an intent converts to at today's rate.
Today(i) == SharesFor(i.at, i.amount)

\* The call that is being simulated took a rate no lower than today's, m,
\* unless there has been a slash since: there have been k.
Simulating(x, m, k) ==
  x.pc = "simulating" =>
    /\ Matches(x.call, x.intent)
    /\ Takes(x.intent) /\ ~ x.intent.max /\ x.before.slashes = k => m <= x.call.amount

\* A call that has passed the simulation would pass it again over the same
\* position and queue, without a slash.
Passed(x, m, k) ==
  x.estimated =>
    /\ x.intent.type = "Undelegate" => Len(x.before.queue) < MaxUnbond
    /\ x.intent.type = "Redelegate" => x.intent.to # x.intent.at
    /\ x.intent.type = "ClaimDelegate" =>
         /\ x.intent.index + 1 \in DOMAIN x.before.queue
         /\ x.before.queue[x.intent.index + 1].unlocked
    /\ Takes(x.intent) /\ ~ x.intent.max /\ x.before.slashes = k => m <= x.before.shares

\* c takes all that was held, or no more than the estimate saw.
Built(x, c, k) ==
  /\ Matches(c, x.intent)
  /\ Takes(x.intent) =>
       IF x.intent.max THEN c.amount = x.held
       ELSE x.estimated /\ x.before.slashes = k => c.amount <= x.before.shares

Unbuilt == {"idle", "estimating", "simulating", "estimated", "building"}

Sound(x, m, k) ==
  /\ Simulating(x, m, k) /\ Passed(x, m, k)
  /\ x.before.slashes <= k /\ (x.pc = "idle" => x.before.slashes = 0)
  /\ x.pc \in {"idle", "estimating", "simulating"} => ~ x.estimated
  /\ x.pc \in Unbuilt \cup {"built"} => x.tx = Blank
  /\ x.pc = "built" => Built(x, x.call, k)
  /\ Verifies(x.tx)
  /\ x.tx = Blank \/ Built(x, x.tx.call, k)

SoundInv ==
  \A s \in Session :
    Sound(session[s], Today(session[s].intent), slashes[session[s].intent.at])

\* A step of session s that leaves it backed.
Advances(s) ==
  \E x \in SessionRec :
    Sound(x, Today(x.intent), slashes[x.intent.at]) /\ session' = [session EXCEPT ![s] = x]

\* A lower rate backs what a higher one did, and a slash takes all back.
LEMMA SoundLater ==
  ASSUME NEW x \in SessionRec, NEW m \in Nat, NEW n \in Nat, NEW k \in Nat, NEW l \in Nat,
         l > k \/ (l = k /\ n <= m), Sound(x, m, k)
  PROVE  Sound(x, n, l)
<1>1. x.call.amount \in Nat /\ x.before.shares \in Nat /\ x.before.slashes \in Nat
  BY SessionFields, CallFields DEF Held
<1>2. x.before.slashes <= k
  BY DEF Sound
<1>3. CASE l = k /\ n <= m
  <2>1. Simulating(x, n, l) /\ Passed(x, n, l)
    BY <1>1, <1>3 DEF Sound, Simulating, Passed
  <2>. QED
    BY <1>3, <2>1 DEF Sound
<1>4. CASE l > k
  <2>1. x.before.slashes # l /\ x.before.slashes <= l
    BY <1>1, <1>2, <1>4
  <2>2. Simulating(x, n, l) /\ Passed(x, n, l)
    BY <2>1 DEF Sound, Simulating, Passed
  <2>3. \A c : Built(x, c, k) => Built(x, c, l)
    BY <2>1 DEF Built
  <2>. QED
    BY <2>1, <2>2, <2>3 DEF Sound
<1>. QED
  BY <1>3, <1>4

LEMMA BlankVerifies == Verifies(Blank)
  BY DEF Blank, Verifies, SignedBy

LEMMA IdleSound == \A m : Sound(IdleSession, m, 0)
  BY BlankVerifies DEF Sound, Simulating, Passed, IdleSession, Blank

LEMMA SlashesInNat ==
  ASSUME ChainInv, NEW i \in HeldIntent PROVE slashes[i.at] \in Nat
  BY DEF HeldIntent, ChainInv, TypeOK

LEMMA TodayInNat ==
  ASSUME ChainInv, NEW i \in HeldIntent PROVE Today(i) \in Nat
<1>1. i.at \in Validator /\ i.amount \in Nat
  BY DEF HeldIntent
<1>. QED
  BY <1>1, ConversionsInNat DEF Today

\* The call an intent becomes.
LEMMA CallForFact ==
  ASSUME ChainInv, NEW i \in HeldIntent, NEW n \in Nat
  PROVE  /\ CallFor(i, n) \in Call
         /\ Matches(CallFor(i, n), i)
         /\ CallFor(i, n).nonce = n
         /\ Takes(i) => CallFor(i, n).amount = IF i.max THEN shares[i.at] ELSE Today(i)
<1>1. /\ i.type \in Type /\ i.at \in Validator /\ i.to \in Validator /\ i.amount \in Nat
      /\ i.index \in Nat
  BY DEF HeldIntent
<1>2. shares[i.at] \in Nat /\ Today(i) \in Nat
  BY <1>1, PoolFields, TodayInNat
<1>3. BnbToShares(i) = IF i.max THEN shares[i.at] ELSE Today(i)
  BY DEF BnbToShares, Today
<1>4. BnbToShares(i) \in Nat
  BY <1>2, <1>3
<1>. DEFINE a == CASE i.type = "Delegate" -> i.amount
                   [] i.type \in {"Undelegate", "Redelegate"} -> BnbToShares(i)
                   [] i.type = "ClaimDelegate" -> 0
<1>5. a \in Nat /\ (Takes(i) => a = BnbToShares(i))
  BY <1>1, <1>4 DEF Type, Takes
<1>6. CallFor(i, n) = [type |-> i.type, at |-> i.at, to |-> i.to, index |-> i.index,
                       nonce |-> n, amount |-> a]
  BY DEF CallFor
<1>. HIDE DEF a
<1>. QED
  BY <1>1, <1>3, <1>5, <1>6 DEF Call, Matches

\* A session by its fields, with what is known of it.
LEMMA HeldSession ==
  ASSUME ChainInv, SoundInv, NEW s \in Session
  PROVE  /\ session[s] \in SessionRec
         /\ Sound(session[s], Today(session[s].intent), slashes[session[s].intent.at])
         /\ Today(session[s].intent) \in Nat
         /\ slashes[session[s].intent.at] \in Nat
<1>1. session[s] \in SessionRec
  BY DEF ChainInv, TypeOK
<1>. QED
  BY <1>1, SessionFields, TodayInNat, SlashesInNat DEF SoundInv

LEMMA PcAdvances ==
  ASSUME ChainInv, SoundInv, NEW s \in Session,
         NEW pc \in {"signed", "error", "sent", "threw"},
         session' = [session EXCEPT ![s].pc = pc]
  PROVE  Advances(s)
<1>. DEFINE y == session[s]
            x == Session7(pc, y.intent, y.call, y.estimated, y.before, y.held, y.tx)
<1>1. y \in SessionRec /\ Sound(y, Today(y.intent), slashes[y.intent.at])
  BY HeldSession
<1>2. session' = [session EXCEPT ![s] = [y EXCEPT !.pc = pc]]
  OBVIOUS
<1>. HIDE DEF y
<1>3. [y EXCEPT !.pc = pc] = x
  BY <1>1, SessionFields DEF Session7
<1>4. x \in SessionRec
  BY <1>1, SessionFields, SessionOf DEF Pc
<1>5. Sound(x, Today(x.intent), slashes[x.intent.at])
  BY <1>1 DEF Sound, Simulating, Passed, Built, Session7, Unbuilt
<1>. QED
  BY <1>2, <1>3, <1>4, <1>5 DEF Advances, y

LEMMA StartAdvances ==
  ASSUME ChainInv, SoundInv, NEW s \in Session, Start(s) PROVE Advances(s)
<1>. DEFINE y == session[s]
<1>1. PICK i \in {j \in Intent : Meaningful(j)}, pc \in {"estimating", "estimated"} :
        session' = [session EXCEPT ![s].intent = i, ![s].pc = pc]
  BY DEF Start
<1>2. y \in SessionRec /\ Sound(y, Today(y.intent), slashes[y.intent.at]) /\ y.pc = "idle"
  BY HeldSession DEF Start
<1>3. session' = [session EXCEPT ![s] = [y EXCEPT !.intent = i, !.pc = pc]]
  BY <1>1
<1>. HIDE DEF y
<1>. DEFINE x == Session7(pc, i, y.call, y.estimated, y.before, y.held, y.tx)
<1>4. i \in HeldIntent
  <2>1. /\ i.type \in Type /\ i.at \in Validator /\ i.to \in Validator /\ i.amount \in Amount \cup {0}
        /\ i.max \in BOOLEAN /\ i.index \in 0 .. MaxUnbond /\ Meaningful(i)
        /\ i = [type |-> i.type, at |-> i.at, to |-> i.to, amount |-> i.amount, max |-> i.max,
                index |-> i.index]
    BY DEF Intent
  <2>2. i.amount \in Nat /\ i.index \in Nat
    BY <2>1, BscAssumption
  <2>. QED
    BY <2>1, <2>2 DEF HeldIntent
<1>5. [y EXCEPT !.intent = i, !.pc = pc] = x
  BY <1>2, StartUpdate
<1>6. x \in SessionRec
  BY <1>2, <1>4, SessionFields, SessionOf DEF Pc
<1>7. ~ y.estimated /\ y.tx = Blank /\ y.before.slashes = 0
  BY <1>2 DEF Sound, Unbuilt
<1>8. Sound(x, Today(x.intent), slashes[x.intent.at])
  BY <1>4, <1>7, SlashesInNat, BlankVerifies DEF Sound, Simulating, Passed, Session7
<1>. QED
  BY <1>3, <1>5, <1>6, <1>8 DEF Advances, y

LEMMA EstimateCallAdvances ==
  ASSUME ChainInv, SoundInv, NEW s \in Session, EstimateCall(s) PROVE Advances(s)
<1>. DEFINE y == session[s]
            c == CallFor(y.intent, 0)
            k == slashes[y.intent.at]
            b == Noting(y.before, k)
<1>1. y \in SessionRec /\ Sound(y, Today(y.intent), k) /\ y.pc = "estimating" /\ k \in Nat
  BY HeldSession DEF EstimateCall
<1>2. CASE BelowMinimum(y.intent)
  <2>1. session' = [session EXCEPT ![s].pc = "threw"]
    BY <1>2 DEF EstimateCall, Throw
  <2>. QED
    BY <2>1, PcAdvances
<1>3. CASE ~ BelowMinimum(y.intent)
  <2>1. session' = [session EXCEPT ![s] = Converting(y, c, b, "simulating")]
    <3>1. session \in [Session -> SessionRec]
      BY DEF ChainInv, TypeOK
    <3>. DEFINE s1 == [session EXCEPT ![s].call = c]
    <3>2. /\ s1[s] = [y EXCEPT !.call = c] /\ s1[s].before = y.before
          /\ session' = [s1 EXCEPT ![s].before.slashes = k, ![s].pc = "simulating"]
      BY <1>1, <1>3, <3>1, SessionFields DEF EstimateCall, Session7
    <3>3. s1 = [session EXCEPT ![s] = [y EXCEPT !.call = c]]
      OBVIOUS
    <3>. HIDE DEF s1
    <3>. DEFINE s2 == [s1 EXCEPT ![s].before.slashes = k]
    <3>4. s2 = [session EXCEPT ![s] = [[y EXCEPT !.call = c] EXCEPT !.before = b]]
      <4>. DEFINE y1 == [y EXCEPT !.call = c]
      <4>1. s1[s] = y1 /\ y1.before = y.before /\ s1 = [session EXCEPT ![s] = y1]
        BY <3>2, <3>3
      <4>. HIDE DEF y1
      <4>2. s2 = [s1 EXCEPT ![s] = [y1 EXCEPT !.before = b]]
        BY <4>1 DEF Noting
      <4>. QED
        BY <3>1, <4>1, <4>2 DEF y1
    <3>5. session' = [s2 EXCEPT ![s].pc = "simulating"]
      BY <3>2
    <3>. HIDE DEF s2
    <3>. QED
      BY <3>1, <3>4, <3>5 DEF Converting
  <2>2. /\ c \in Call /\ Matches(c, y.intent)
        /\ Takes(y.intent) =>
             c.amount = IF y.intent.max THEN shares[y.intent.at] ELSE Today(y.intent)
    BY <1>1, SessionFields, CallForFact
  <2>3. Today(y.intent) \in Nat
    BY HeldSession
  <2>4. b \in Held /\ b.slashes = k
    BY <1>1, SessionFields, NotingFact
  <2>. HIDE DEF y, c, b
  <2>. DEFINE x == Session7("simulating", y.intent, c, y.estimated, b, y.held, y.tx)
  <2>5. Converting(y, c, b, "simulating") = x
    BY <1>1, ConvertUpdate
  <2>6. x \in SessionRec
    BY <1>1, <2>2, <2>4, SessionFields, SessionOf DEF Pc
  <2>7. ~ y.estimated /\ y.tx = Blank
    BY <1>1 DEF Sound, Unbuilt
  <2>8. Simulating(x, Today(x.intent), slashes[x.intent.at])
    BY <2>2, <2>3 DEF Simulating, Session7
  <2>9. Sound(x, Today(x.intent), slashes[x.intent.at])
    BY <1>1, <2>4, <2>7, <2>8, BlankVerifies DEF Sound, Passed, Session7
  <2>. QED
    BY <2>1, <2>5, <2>6, <2>9 DEF Advances, y
<1>. QED
  BY <1>2, <1>3

LEMMA ReadNonceAdvances ==
  ASSUME ChainInv, SoundInv, NEW s \in Session, ReadNonce(s) PROVE Advances(s)
<1>. DEFINE y == session[s]
            c == [y.call EXCEPT !.nonce = nonce]
<1>1. y \in SessionRec /\ Sound(y, Today(y.intent), slashes[y.intent.at]) /\ y.pc = "estimated"
  BY HeldSession DEF ReadNonce
<1>2. session' = [session EXCEPT ![s] = [y EXCEPT !.call = c, !.pc = "building"]]
  BY DEF ReadNonce
<1>3. c \in Call
  <2>1. nonce \in Nat
    BY DEF ChainInv, TypeOK
  <2>2. y.call \in Call
    BY <1>1, SessionFields
  <2>. HIDE DEF y
  <2>. QED
    BY <2>1, <2>2 DEF Call
<1>. HIDE DEF y, c
<1>. DEFINE x == Session7("building", y.intent, c, y.estimated, y.before, y.held, y.tx)
<1>5. [y EXCEPT !.call = c, !.pc = "building"] = x
  BY <1>1, CallUpdate
<1>6. x \in SessionRec
  BY <1>1, <1>3, SessionFields, SessionOf DEF Pc
<1>7. y.tx = Blank
  BY <1>1 DEF Sound, Unbuilt
<1>9. Sound(x, Today(x.intent), slashes[x.intent.at])
  BY <1>1, <1>7, BlankVerifies DEF Sound, Simulating, Passed, Session7
<1>. QED
  BY <1>2, <1>5, <1>6, <1>9 DEF Advances, y

LEMMA BuildCallAdvances ==
  ASSUME ChainInv, SoundInv, NEW s \in Session, BuildCall(s) PROVE Advances(s)
<1>. DEFINE y == session[s]
            c == CallFor(y.intent, y.call.nonce)
            h == shares[y.intent.at]
            k == slashes[y.intent.at]
<1>1. y \in SessionRec /\ Sound(y, Today(y.intent), k) /\ y.pc = "building"
  BY HeldSession DEF BuildCall
<1>2. CASE BelowMinimum(y.intent)
  <2>1. session' = [session EXCEPT ![s].pc = "threw"]
    BY <1>2 DEF BuildCall, Throw
  <2>. QED
    BY <2>1, PcAdvances
<1>3. CASE ~ BelowMinimum(y.intent)
  <2>1. session' = [session EXCEPT ![s] = Building(y, c, h, "built")]
    BY <1>3 DEF BuildCall, Building
  <2>2. y.intent \in HeldIntent /\ y.call.nonce \in Nat
    BY <1>1, SessionFields, CallFields
  <2>3. /\ c \in Call /\ Matches(c, y.intent)
        /\ Takes(y.intent) => c.amount = IF y.intent.max THEN h ELSE Today(y.intent)
    BY <2>2, CallForFact
  <2>4. h \in Nat
    BY <2>2, PoolFields DEF HeldIntent
  <2>. HIDE DEF y, c, h
  <2>. DEFINE x == Session7("built", y.intent, c, y.estimated, y.before, h, y.tx)
  <2>5. Building(y, c, h, "built") = x
    BY <1>1, BuildUpdate
  <2>6. x \in SessionRec
    BY <1>1, <2>3, <2>4, SessionFields, SessionOf DEF Pc
  <2>7. y.tx = Blank /\ Passed(y, Today(y.intent), k) /\ y.before.slashes <= k
    BY <1>1 DEF Sound, Unbuilt
  <2>8. Built(x, c, k)
    BY <2>3, <2>7 DEF Built, Passed, Session7
  <2>9. Sound(x, Today(x.intent), slashes[x.intent.at])
    BY <2>7, <2>8, BlankVerifies DEF Sound, Simulating, Passed, Session7
  <2>. QED
    BY <2>1, <2>5, <2>6, <2>9 DEF Advances, y
<1>. QED
  BY <1>2, <1>3

LEMMA EstimateGasAdvances ==
  ASSUME ChainInv, SoundInv, NEW s \in Session, EstimateGas(s) PROVE Advances(s)
<1>. DEFINE y == session[s]
            c == y.call
            k == slashes[y.intent.at]
            b == [shares |-> shares[c.at], queue |-> queue[c.at], slashes |-> y.before.slashes]
<1>1. y \in SessionRec /\ Sound(y, Today(y.intent), slashes[y.intent.at]) /\ y.pc = "simulating"
  BY HeldSession DEF EstimateGas
<1>2. CASE ~ Accepts(c)
  <2>1. session' = [session EXCEPT ![s].pc = "threw"]
    BY <1>2 DEF EstimateGas, Throw
  <2>. QED
    BY <2>1, PcAdvances
<1>3. CASE Accepts(c)
  <2>1. session' = [session EXCEPT ![s] = Estimating(y, TRUE, "estimated", NoCall, b)]
    BY <1>3 DEF EstimateGas, Estimating
  <2>2. c \in Call /\ Matches(c, y.intent)
    BY <1>1, SessionFields DEF Sound, Simulating
  <2>3. Takes(y.intent) /\ ~ y.intent.max /\ b.slashes = k => Today(y.intent) <= c.amount
    BY <1>1 DEF Sound, Simulating
  <2>4. b \in Held /\ b.slashes <= k
    BY <1>1, <2>2, SessionFields, NotingFact, CallFields, PoolFields, QueueFields DEF Held, Sound
  <2>5. Today(y.intent) \in Nat
    BY HeldSession
  <2>6. /\ y.intent.type = "Undelegate" => Len(b.queue) < MaxUnbond
        /\ y.intent.type = "Redelegate" => y.intent.to # y.intent.at
        /\ y.intent.type = "ClaimDelegate" =>
             /\ y.intent.index + 1 \in DOMAIN b.queue
             /\ b.queue[y.intent.index + 1].unlocked
    BY <1>3, <2>2 DEF Accepts, Matches, Unlocked
  <2>7. Takes(y.intent) => c.amount <= b.shares
    BY <1>3, <2>2 DEF Accepts, Matches, Takes
  <2>8. Takes(y.intent) /\ ~ y.intent.max /\ b.slashes = k => Today(y.intent) <= b.shares
    BY <2>2, <2>3, <2>4, <2>5, <2>7, CallFields DEF Held
  <2>9. ~ y.estimated /\ y.tx = Blank
    BY <1>1 DEF Sound, Unbuilt
  <2>. HIDE DEF y, b
  <2>. DEFINE x == Session7("estimated", y.intent, NoCall, TRUE, b, y.held, y.tx)
  <2>10. Estimating(y, TRUE, "estimated", NoCall, b) = x
    BY <1>1, EstimateUpdate
  <2>11. x \in SessionRec
    BY <1>1, <2>4, BlankFact, SessionFields, SessionOf DEF Pc
  <2>12. Passed(x, Today(x.intent), slashes[x.intent.at])
    BY <2>6, <2>8 DEF Passed, Session7
  <2>13. Sound(x, Today(x.intent), slashes[x.intent.at])
    BY <2>4, <2>9, <2>12, BlankVerifies DEF Sound, Simulating, Session7
  <2>. QED
    BY <2>1, <2>10, <2>11, <2>13 DEF Advances, y
<1>. QED
  BY <1>2, <1>3

\* A transaction over the call that was built, under a signature that verifies.
LEMMA SignedAdvances ==
  ASSUME ChainInv, SoundInv, NEW s \in Session, session[s].pc = "built",
         NEW t \in Transaction, t.call = session[s].call, Verifies(t), Signed(s, t)
  PROVE  Advances(s)
<1>. DEFINE y == session[s]
<1>1. y \in SessionRec /\ Sound(y, Today(y.intent), slashes[y.intent.at]) /\ y.pc = "built"
  BY HeldSession
<1>2. session' = [session EXCEPT ![s] = Signing(y, "signed", NoCall, t)]
  BY DEF Signed, Signing
<1>3. t.call = y.call
  OBVIOUS
<1>. HIDE DEF y
<1>. DEFINE x == Session7("signed", y.intent, NoCall, y.estimated, y.before, y.held, t)
<1>4. Signing(y, "signed", NoCall, t) = x
  BY <1>1, SignUpdate
<1>5. x \in SessionRec
  BY <1>1, BlankFact, SessionFields, SessionOf DEF Pc
<1>6. /\ Passed(y, Today(y.intent), slashes[y.intent.at])
      /\ y.before.slashes <= slashes[y.intent.at]
      /\ Built(y, t.call, slashes[y.intent.at])
  BY <1>1, <1>3 DEF Sound
<1>7. /\ Passed(x, Today(x.intent), slashes[x.intent.at])
      /\ x.before.slashes <= slashes[x.intent.at]
      /\ Built(x, t.call, slashes[x.intent.at])
  BY <1>6 DEF Passed, Built, Session7
<1>8. Sound(x, Today(x.intent), slashes[x.intent.at])
  BY <1>7 DEF Sound, Simulating, Session7, Unbuilt
<1>. QED
  BY <1>2, <1>4, <1>5, <1>8 DEF Advances, y

LEMMA SignAdvances ==
  ASSUME ChainInv, SoundInv, NEW s \in Session, Sign(s) \/ Compile(s) PROVE Advances(s)
<1>1. session[s] \in SessionRec /\ session[s].call \in Call /\ session[s].pc = "built"
  BY HeldSession, SessionFields DEF Sign, Compile
<1>2. CASE Sign(s)
  <2>3. PICK key \in Key : Signed(s, SignedBy(key, session[s].call))
    BY <1>2 DEF Sign
  <2>. DEFINE t == SignedBy(key, session[s].call)
  <2>1. t \in Transaction /\ t.call = session[s].call /\ Verifies(t)
    BY <1>1, BlankFact DEF SignedBy, Verifies
  <2>2. Signed(s, t)
    BY <2>3
  <2>. HIDE DEF t
  <2>. QED
    BY <1>1, <2>1, <2>2, SignedAdvances
<1>3. CASE Compile(s)
  <2>1. PICK sig \in [key : Key, over : Prehashed] :
          Compiles(session[s].call, sig) /\ Signed(s, [call |-> session[s].call, sig |-> sig])
    BY <1>3 DEF Compile
  <2>. DEFINE t == [call |-> session[s].call, sig |-> sig]
  <2>2. sig = [key |-> "wallet", over |-> session[s].call]
    BY <2>1 DEF Compiles
  <2>3. t \in Transaction /\ t.call = session[s].call /\ Verifies(t)
    BY <1>1, <2>2 DEF Transaction, Verifies, Key
  <2>4. Signed(s, t)
    BY <2>1
  <2>. HIDE DEF t
  <2>. QED
    BY <1>1, <2>3, <2>4, SignedAdvances
<1>. QED
  BY <1>2, <1>3

LEMMA SessionAdvances ==
  ASSUME ChainInv, SoundInv, NEW s \in Session, SessionStep(s) PROVE Advances(s)
<1>1. CASE ReadFails(s) \/ Accepted(s) \/ NotAccepted(s) \/ Rebroadcast(s)
  BY <1>1, PcAdvances DEF ReadFails, Throw, Accepted, NotAccepted, Rebroadcast
<1>2. CASE Start(s)
  BY <1>2, StartAdvances
<1>3. CASE EstimateCall(s)
  BY <1>3, EstimateCallAdvances
<1>4. CASE EstimateGas(s)
  BY <1>4, EstimateGasAdvances
<1>5. CASE ReadNonce(s)
  BY <1>5, ReadNonceAdvances
<1>6. CASE BuildCall(s)
  BY <1>6, BuildCallAdvances
<1>7. CASE Sign(s) \/ Compile(s)
  BY <1>7, SignAdvances
<1>. QED
  BY <1>1, <1>2, <1>3, <1>4, <1>5, <1>6, <1>7 DEF SessionStep

-----------------------------------------------------------------------------
(* Every request keeps a number of its own *)

\* f tells where each request was before the step.
Kept(f) ==
  \A v \in Validator : \A j \in DOMAIN queue'[v] :
    /\ f[v][j] \in DOMAIN queue[v] /\ queue'[v][j].id = queue[v][f[v][j]].id
    /\ \A k \in DOMAIN queue'[v] : f[v][j] = f[v][k] => j = k

\* A queue that only loses requests keeps them distinct.
LEMMA KeptNumbers ==
  ASSUME Numbered, requests' = requests, NEW f, Kept(f)
  PROVE  Numbered'
<1>1. ASSUME NEW v \in Validator, NEW j \in DOMAIN queue'[v]
      PROVE  queue'[v][j].id \in 1 .. requests'
  BY <1>1 DEF Numbered, Kept
<1>2. ASSUME NEW v \in Validator, NEW j \in DOMAIN queue'[v],
             NEW w \in Validator, NEW k \in DOMAIN queue'[w], queue'[v][j].id = queue'[w][k].id
      PROVE  v = w /\ j = k
  <2>1. v = w /\ f[v][j] = f[w][k]
    BY <1>2 DEF Numbered, Kept
  <2>. QED
    BY <2>1 DEF Kept
<1>. QED
  BY <1>1, <1>2 DEF Numbered

LEMMA UnlockedNumbers ==
  ASSUME ChainInv, Numbered, NEW v \in Validator, Unlock(v)
  PROVE  QueueTyped /\ Numbered'
<1>1. PICK k \in DOMAIN queue[v] : queue' = [queue EXCEPT ![v][k].unlocked = TRUE]
  BY DEF Unlock
<1>. DEFINE r == [queue[v][k] EXCEPT !.unlocked = TRUE]
            q == [queue[v] EXCEPT ![k] = r]
<1>2. queue[v] \in Seq(Request) /\ queue[v][k] \in Request
  BY QueueFields
<1>3. r \in Request /\ r.id = queue[v][k].id
  BY <1>2 DEF Request
<1>4. queue' = [queue EXCEPT ![v] = q] /\ UNCHANGED requests
  BY <1>1 DEF Unlock
<1>. HIDE DEF r
<1>5. /\ q \in Seq(Request) /\ Len(q) = Len(queue[v]) /\ DOMAIN q = DOMAIN queue[v]
      /\ \A j \in DOMAIN q : q[j].id = queue[v][j].id
  BY <1>2, <1>3
<1>. HIDE DEF q
<1>6. QueueTyped
  BY <1>4, <1>5, QueueFields DEF QueueTyped
<1>. DEFINE f == [w \in Validator |-> [j \in DOMAIN queue[w] |-> j]]
<1>7. \A w \in Validator : /\ DOMAIN queue'[w] = DOMAIN queue[w]
                           /\ \A j \in DOMAIN queue[w] : queue'[w][j].id = queue[w][j].id
  BY <1>4, <1>5, QueueFields
<1>8. \A w \in Validator : \A j \in DOMAIN queue[w] : f[w][j] = j
  OBVIOUS
<1>. HIDE DEF f
<1>9. Kept(f)
  BY <1>7, <1>8 DEF Kept
<1>10. Numbered'
  BY <1>4, <1>9, KeptNumbers
<1>. QED
  BY <1>6, <1>10

LEMMA ClaimNumbers ==
  ASSUME ChainInv, Numbered, requests' = requests, NEW v \in Validator,
         NEW e \in Remaining(Len(queue[v])),
         queue' = [queue EXCEPT ![v] = [j \in DOMAIN e |-> queue[v][e[j]]]]
  PROVE  Numbered'
<1>. DEFINE q == [j \in DOMAIN e |-> queue[v][e[j]]]
            f == [w \in Validator |-> IF w = v THEN e ELSE [j \in DOMAIN queue[w] |-> j]]
<1>1. /\ DOMAIN q = DOMAIN e
      /\ \A j \in DOMAIN q : e[j] \in DOMAIN queue[v] /\ q[j] = queue[v][e[j]]
      /\ \A i, j \in DOMAIN q : e[i] = e[j] => i = j
  BY QueueFields, RemainingFact
<1>2. queue' = [queue EXCEPT ![v] = q]
  OBVIOUS
<1>. HIDE DEF q
<1>3. /\ queue'[v] = q /\ f[v] = e
      /\ \A w \in Validator : w # v =>
           queue'[w] = queue[w] /\ \A j \in DOMAIN queue[w] : f[w][j] = j
  BY <1>2, QueueFields
<1>. HIDE DEF f
<1>4. \A w \in Validator : \A j \in DOMAIN queue'[w] :
        f[w][j] \in DOMAIN queue[w] /\ queue'[w][j].id = queue[w][f[w][j]].id
  BY <1>1, <1>3
<1>5. \A w \in Validator : \A j, k \in DOMAIN queue'[w] : f[w][j] = f[w][k] => j = k
  BY <1>1, <1>3
<1>6. Kept(f)
  BY <1>4, <1>5 DEF Kept
<1>. QED
  BY <1>6, KeptNumbers

LEMMA AppendNumbers ==
  ASSUME ChainInv, Numbered, NEW v \in Validator, requests' = requests + 1,
         queue' = [queue EXCEPT ![v] = Append(@, [id |-> requests + 1, unlocked |-> FALSE])]
  PROVE  Numbered'
<1>. DEFINE r == [id |-> requests + 1, unlocked |-> FALSE]
            q == Append(queue[v], r)
            new(w, j) == w = v /\ j = Len(queue[v]) + 1
<1>1. r.id = requests + 1 /\ queue' = [queue EXCEPT ![v] = q]
  OBVIOUS
<1>. HIDE DEF r
<1>2. /\ DOMAIN q = 1 .. Len(queue[v]) + 1 /\ q[Len(queue[v]) + 1] = r
      /\ \A j \in 1 .. Len(queue[v]) : q[j] = queue[v][j]
  BY QueueFields
<1>. HIDE DEF q
<1>3. /\ queue'[v] = q
      /\ \A w \in Validator : w # v => queue'[w] = queue[w]
      /\ \A w \in Validator : Len(queue[w]) \in Nat /\ DOMAIN queue[w] = 1 .. Len(queue[w])
  BY <1>1, QueueFields
<1>4. ASSUME NEW w \in Validator, NEW j \in DOMAIN queue'[w]
      PROVE  \/ new(w, j) /\ queue'[w][j].id = requests + 1
             \/ j \in DOMAIN queue[w] /\ queue'[w][j] = queue[w][j]
  BY <1>1, <1>2, <1>3, <1>4
<1>5. \A w \in Validator : \A j \in DOMAIN queue[w] : queue[w][j].id \in 1 .. requests
  BY DEF Numbered
<1>6. requests \in Nat
  BY QueueFields
<1>7. ASSUME NEW w \in Validator, NEW j \in DOMAIN queue'[w]
      PROVE  queue'[w][j].id \in 1 .. requests'
  BY <1>4, <1>5, <1>6, <1>7
<1>8. ASSUME NEW w \in Validator, NEW j \in DOMAIN queue'[w],
             NEW x \in Validator, NEW k \in DOMAIN queue'[x], queue'[w][j].id = queue'[x][k].id
      PROVE  w = x /\ j = k
  <2>1. CASE j \in DOMAIN queue[w] /\ queue'[w][j] = queue[w][j]
    <3>1. queue[w][j].id \in 1 .. requests
      BY <1>5, <2>1
    <3>2. k \in DOMAIN queue[x] /\ queue'[x][k] = queue[x][k]
      BY <1>4, <1>6, <1>8, <2>1, <3>1
    <3>. QED
      BY <1>8, <2>1, <3>2 DEF Numbered
  <2>2. CASE new(w, j) /\ queue'[w][j].id = requests + 1
    <3>1. ~ (k \in DOMAIN queue[x] /\ queue'[x][k] = queue[x][k])
      BY <1>5, <1>6, <1>8, <2>2
    <3>2. new(x, k)
      BY <1>4, <3>1
    <3>. QED
      BY <2>2, <3>2
  <2>. QED
    BY <1>4, <2>1, <2>2
<1>. QED
  BY <1>7, <1>8 DEF Numbered

LEMMA ExecuteNumbers ==
  ASSUME ChainInv, Numbered, NEW c \in Call, Execute(c)
  PROVE  Numbered'
<1>1. CASE c.type \in {"Delegate", "Redelegate"}
  BY <1>1 DEF Execute, Numbered
<1>2. CASE c.type = "Undelegate"
  <2>1. /\ requests' = requests + 1
        /\ queue' = [queue EXCEPT ![c.at] = Append(@, [id |-> requests + 1, unlocked |-> FALSE])]
    BY <1>2 DEF Execute
  <2>. QED
    BY <2>1, CallFields, AppendNumbers
<1>3. CASE c.type = "ClaimDelegate"
  <2>1. PICK e \in Remaining(Len(queue[c.at])) :
          queue' = [queue EXCEPT ![c.at] = [j \in DOMAIN e |-> queue[c.at][e[j]]]]
    BY <1>3 DEF Execute
  <2>2. UNCHANGED requests
    BY <1>3 DEF Execute
  <2>. QED
    BY <2>1, <2>2, CallFields, ClaimNumbers
<1>. QED
  BY <1>1, <1>2, <1>3, CallFields DEF Type

-----------------------------------------------------------------------------
(* What a viewer has listed and still wants                                *)

\* What is still wanted is not yet listed; once there is something of both, a
\* whole batch is listed already, so all that one batch may hold is of one block.
Read(x) ==
  /\ x.want \subseteq Validator \X (1 .. MaxUnbond)
  /\ IsFiniteSet(x.listed)
  /\ x.pc \in {"idle", "counting"} => x.want = {} /\ x.listed = {}
  /\ \A a \in x.listed : <<a.at, a.index + 1>> \notin x.want
  /\ x.want # {} /\ x.listed # {} => Cardinality(x.listed) >= BatchSize
  /\ Cardinality(x.listed) <= BatchSize => \A a, b \in x.listed : a.id = b.id => a = b

ReadInv == \A w \in Viewer : Read(viewer[w])

Viewer5(pc, p, a, n, l) == [pc |-> pc, pooledRead |-> p, active |-> a, want |-> n, listed |-> l]

VPc == {"idle", "counting", "reading", "answered", "threw"}

LEMMA ViewerFields ==
  ASSUME NEW x \in ViewerRec
  PROVE  /\ x.pc \in VPc /\ x.pooledRead \in BOOLEAN /\ x.active \subseteq Validator
         /\ x.want \subseteq Validator \X Nat /\ x.listed \subseteq Listed
         /\ x = Viewer5(x.pc, x.pooledRead, x.active, x.want, x.listed)
  BY DEF ViewerRec, Viewer5, VPc

LEMMA ViewerOf ==
  ASSUME NEW pc \in VPc, NEW p \in BOOLEAN, NEW a, a \subseteq Validator,
         NEW n, n \subseteq Validator \X Nat, NEW l, l \subseteq Listed
  PROVE  Viewer5(pc, p, a, n, l) \in ViewerRec
  BY DEF ViewerRec, Viewer5, VPc

LEMMA StopUpdate ==
  ASSUME NEW x \in ViewerRec, NEW v, NEW n
  PROVE  [x EXCEPT !.pc = v, !.want = n] = Viewer5(v, x.pooledRead, x.active, n, x.listed)
<1>. DEFINE x1 == [x EXCEPT !.pc = v]
<1>1. x1 = Viewer5(v, x.pooledRead, x.active, x.want, x.listed)
  BY ViewerFields DEF Viewer5
<1>. HIDE DEF x1
<1>2. [x1 EXCEPT !.want = n] = Viewer5(v, x.pooledRead, x.active, n, x.listed)
  BY <1>1 DEF Viewer5
<1>. QED
  BY <1>2 DEF x1

LEMMA ListUpdate ==
  ASSUME NEW x \in ViewerRec, NEW n, NEW l
  PROVE  [x EXCEPT !.want = n, !.listed = l] = Viewer5(x.pc, x.pooledRead, x.active, n, l)
<1>. DEFINE x1 == [x EXCEPT !.want = n]
<1>1. x1 = Viewer5(x.pc, x.pooledRead, x.active, n, x.listed)
  BY ViewerFields DEF Viewer5
<1>. HIDE DEF x1
<1>2. [x1 EXCEPT !.listed = l] = Viewer5(x.pc, x.pooledRead, x.active, n, l)
  BY <1>1 DEF Viewer5
<1>. QED
  BY <1>2 DEF x1

LEMMA PooledUpdate ==
  ASSUME NEW x \in ViewerRec, NEW p, NEW a
  PROVE  [x EXCEPT !.pooledRead = p, !.active = a] = Viewer5(x.pc, p, a, x.want, x.listed)
<1>. DEFINE x1 == [x EXCEPT !.pooledRead = p]
<1>1. x1 = Viewer5(x.pc, p, x.active, x.want, x.listed)
  BY ViewerFields DEF Viewer5
<1>. HIDE DEF x1
<1>2. [x1 EXCEPT !.active = a] = Viewer5(x.pc, p, a, x.want, x.listed)
  BY <1>1 DEF Viewer5
<1>. QED
  BY <1>2 DEF x1

\* A step of viewer w that leaves it so.
Reads(w) == \E x \in ViewerRec : Read(x) /\ viewer' = [viewer EXCEPT ![w] = x]

LEMMA HeldViewer ==
  ASSUME ChainInv, ReadInv, NEW w \in Viewer PROVE viewer[w] \in ViewerRec /\ Read(viewer[w])
  BY DEF ChainInv, TypeOK, ReadInv

\* What is listed of request r[2] of validator r[1].
Row(r) == [at |-> r[1], index |-> IndexOf(r[2]), id |-> queue[r[1]][r[2]].id,
           claimable |-> queue[r[1]][r[2]].unlocked]

LEMMA RowFact ==
  ASSUME ChainInv, Numbered, NEW b, b \subseteq Validator \X (1 .. MaxUnbond), IsFiniteSet(b),
         \A r \in b : ~ (r[2] > Len(queue[r[1]]))
  PROVE  LET new == {Row(r) : r \in b} IN
         /\ new \subseteq Listed
         /\ IsFiniteSet(new) /\ Cardinality(new) = Cardinality(b)
         /\ \A a \in new : <<a.at, a.index + 1>> \in b
         /\ \A x, y \in new : x.id = y.id => x = y
<1>. DEFINE new == {Row(r) : r \in b}
<1>1. ASSUME NEW r \in b
      PROVE  /\ r[1] \in Validator /\ r[2] \in Nat /\ r[2] \in DOMAIN queue[r[1]]
             /\ r[2] - 1 \in Nat /\ r = <<r[1], r[2]>>
             /\ queue[r[1]][r[2]] \in Request
  <2>1. r[1] \in Validator /\ r[2] \in 1 .. MaxUnbond /\ r = <<r[1], r[2]>>
    OBVIOUS
  <2>2. queue[r[1]] \in Seq(Request) /\ r[2] <= Len(queue[r[1]])
    BY <2>1, QueueFields, BscAssumption
  <2>. QED
    BY <2>1, <2>2, BscAssumption
<1>2. ASSUME NEW r \in b
      PROVE  /\ Row(r) \in Listed /\ <<Row(r).at, Row(r).index + 1>> = r
             /\ Row(r).id = queue[r[1]][r[2]].id
  BY <1>1 DEF Row, Listed, Request, IndexOf
<1>3. \A q, r \in b : Row(q).id = Row(r).id => q = r
  <2>. SUFFICES ASSUME NEW q \in b, NEW r \in b, Row(q).id = Row(r).id PROVE q = r
    OBVIOUS
  <2>1. queue[q[1]][q[2]].id = queue[r[1]][r[2]].id
    BY <1>2
  <2>2. q[1] = r[1] /\ q[2] = r[2]
    <3>1. PICK v, u, j, k : v = q[1] /\ u = r[1] /\ j = q[2] /\ k = r[2]
      OBVIOUS
    <3>2. /\ q[1] \in Validator /\ q[2] \in DOMAIN queue[q[1]]
          /\ r[1] \in Validator /\ r[2] \in DOMAIN queue[r[1]]
      BY <1>1
    <3>3. /\ v \in Validator /\ j \in DOMAIN queue[v] /\ u \in Validator /\ k \in DOMAIN queue[u]
          /\ queue[v][j].id = queue[u][k].id
      BY <2>1, <3>1, <3>2
    <3>4. v = u /\ j = k
      BY <3>3 DEF Numbered
    <3>. QED
      BY <3>1, <3>4
  <2>. QED
    BY <1>1, <2>2
<1>. DEFINE f == [r \in b |-> Row(r)]
<1>4. f \in Bijection(b, new)
  <2>1. f \in [b -> new] /\ \A t \in new : \E r \in b : f[r] = t
    OBVIOUS
  <2>2. \A q, r \in b : f[q] = f[r] => q = r
    BY <1>3
  <2>. QED
    BY <2>1, <2>2 DEF Bijection, Injection, Surjection, IsInjective
<1>5. IsFiniteSet(new) /\ Cardinality(new) = Cardinality(b)
  <2>. HIDE DEF f, new
  <2>1. ExistsBijection(b, new)
    BY <1>4 DEF ExistsBijection
  <2>. QED
    BY <2>1, FS_Bijection
<1>. HIDE DEF f
<1>. QED
  BY <1>2, <1>3, <1>5

LEMMA RequestsRead ==
  ASSUME ChainInv, Numbered, ReadInv, NEW w \in Viewer, ReadRequests(w)
  PROVE  Reads(w)
<1>. DEFINE y == viewer[w]
<1>1. y \in ViewerRec /\ Read(y) /\ y.pc = "reading"
  BY HeldViewer DEF ReadRequests
<1>2. PICK b \in Batches(y.want) :
       IF \E r \in b : r[2] > Len(queue[r[1]])
       THEN viewer' = [viewer EXCEPT ![w].pc = "threw", ![w].want = {}]
       ELSE viewer' = [viewer EXCEPT ![w].want = @ \ b,
                                     ![w].listed = @ \cup {Row(r) : r \in b}]
  BY DEF ReadRequests, Row
<1>3. CASE \E r \in b : r[2] > Len(queue[r[1]])
  <2>. DEFINE x == Viewer5("threw", y.pooledRead, y.active, {}, y.listed)
  <2>1. viewer' = [viewer EXCEPT ![w] = [y EXCEPT !.pc = "threw", !.want = {}]]
    BY <1>2, <1>3
  <2>. HIDE DEF y
  <2>2. [y EXCEPT !.pc = "threw", !.want = {}] = x
    BY <1>1, StopUpdate
  <2>3. x \in ViewerRec
    BY <1>1, ViewerFields, ViewerOf DEF VPc
  <2>4. Read(x)
    BY <1>1 DEF Read, Viewer5
  <2>. QED
    BY <2>1, <2>2, <2>3, <2>4 DEF Reads, y
<1>4. CASE ~ \E r \in b : r[2] > Len(queue[r[1]])
  <2>. DEFINE new == {Row(r) : r \in b}
              x == Viewer5(y.pc, y.pooledRead, y.active, y.want \ b, y.listed \cup new)
  <2>1. viewer' = [viewer EXCEPT ![w] = [y EXCEPT !.want = y.want \ b, !.listed = y.listed \cup new]]
    BY <1>2, <1>4
  <2>. HIDE DEF y
  <2>2. /\ y.want \subseteq Validator \X (1 .. MaxUnbond)
        /\ IsFiniteSet(y.want)
    <3>1. y.want \subseteq Validator \X (1 .. MaxUnbond)
      BY <1>1 DEF Read
    <3>2. IsFiniteSet(Validator \X (1 .. MaxUnbond))
      <4>1. MaxUnbond \in Int /\ IsFiniteSet(Validator)
        BY BscAssumption
      <4>2. IsFiniteSet(1 .. MaxUnbond)
        BY <4>1, FS_Interval
      <4>. QED
        BY <4>1, <4>2, FS_Product
    <3>. QED
      BY <3>1, <3>2, FS_Subset
  <2>3. /\ b \subseteq y.want /\ b # {}
        /\ b = y.want \/ Cardinality(b) = BatchSize
    BY FS_EmptySet, BscAssumption DEF Batches
  <2>4. IsFiniteSet(b) /\ b \subseteq Validator \X (1 .. MaxUnbond)
    BY <2>2, <2>3, FS_Subset
  <2>5. /\ new \subseteq Listed
        /\ IsFiniteSet(new) /\ Cardinality(new) = Cardinality(b)
        /\ \A a \in new : <<a.at, a.index + 1>> \in b
        /\ \A a, c \in new : a.id = c.id => a = c
    BY <1>4, <2>4, RowFact
  <2>6. [y EXCEPT !.want = y.want \ b, !.listed = y.listed \cup new] = x
    <3>. HIDE DEF new
    <3>. QED
      BY <1>1, ListUpdate
  <2>. HIDE DEF new
  <2>7. x \in ViewerRec
    <3>1. y.want \ b \subseteq Validator \X Nat /\ y.listed \cup new \subseteq Listed
      BY <1>1, <2>5, ViewerFields
    <3>. QED
      BY <1>1, <3>1, ViewerFields, ViewerOf
  <2>8. /\ IsFiniteSet(y.listed)
        /\ \A a \in y.listed : <<a.at, a.index + 1>> \notin y.want
        /\ y.want # {} /\ y.listed # {} => Cardinality(y.listed) >= BatchSize
    BY <1>1 DEF Read
  <2>9. /\ IsFiniteSet(y.listed \cup new)
        /\ Cardinality(y.listed \cup new) = Cardinality(y.listed) + Cardinality(new)
    <3>1. y.listed \cap new = {}
      BY <2>3, <2>5, <2>8
    <3>2. Cardinality(y.listed) \in Nat /\ Cardinality(new) \in Nat
      BY <2>5, <2>8, FS_CardinalityType
    <3>3. /\ IsFiniteSet(y.listed \cup new)
          /\ Cardinality(y.listed \cup new)
               = Cardinality(y.listed) + Cardinality(new) - Cardinality(y.listed \cap new)
      BY <2>5, <2>8, FS_Union
    <3>4. Cardinality({}) = 0
      BY FS_EmptySet
    <3>5. Cardinality(y.listed \cap new) = 0
      BY <3>1, <3>4
    <3>. QED
      BY <3>2, <3>3, <3>5
  <2>10. Cardinality(b) \in Nat /\ Cardinality(b) > 0 /\ BatchSize \in Nat
    BY <2>3, <2>4, FS_CardinalityType, FS_EmptySet, BscAssumption
  <2>11. ASSUME y.want \ b # {} PROVE Cardinality(y.listed \cup new) >= BatchSize
    <3>1. Cardinality(new) = BatchSize
      BY <2>3, <2>5, <2>11
    <3>2. Cardinality(y.listed) \in Nat
      BY <2>8, FS_CardinalityType
    <3>. QED
      BY <2>9, <2>10, <3>1, <3>2
  <2>12. ASSUME Cardinality(y.listed \cup new) <= BatchSize
         PROVE  \A a, c \in y.listed \cup new : a.id = c.id => a = c
    <3>1. CASE y.listed = {}
      BY <2>5, <3>1
    <3>2. CASE y.listed # {}
      <4>1. Cardinality(y.listed) >= BatchSize /\ Cardinality(y.listed) \in Nat
        BY <2>3, <2>8, <3>2, FS_CardinalityType
      <4>. QED
        BY <2>5, <2>9, <2>10, <2>12, <4>1
    <3>. QED
      BY <3>1, <3>2
  <2>13. \A a \in y.listed \cup new : <<a.at, a.index + 1>> \notin y.want \ b
    BY <2>5, <2>8
  <2>14. y.want \ b \subseteq Validator \X (1 .. MaxUnbond)
    BY <2>2
  <2>15. Read(x)
    BY <1>1, <2>9, <2>11, <2>12, <2>13, <2>14 DEF Read, Viewer5
  <2>. QED
    BY <2>1, <2>6, <2>7, <2>15 DEF Reads, y, new
<1>. QED
  BY <1>3, <1>4

LEMMA ViewerReads ==
  ASSUME ChainInv, Numbered, ReadInv, NEW w \in Viewer, ViewerStep(w)
  PROVE  Reads(w)
<1>. DEFINE y == viewer[w]
<1>1. y \in ViewerRec /\ Read(y)
  BY HeldViewer
<1>2. ASSUME NEW pc \in VPc, pc \in {"idle", "counting"} => y.pc = "idle",
             viewer' = [viewer EXCEPT ![w].pc = pc]
      PROVE  Reads(w)
  <2>. DEFINE x == Viewer5(pc, y.pooledRead, y.active, y.want, y.listed)
  <2>1. viewer' = [viewer EXCEPT ![w] = [y EXCEPT !.pc = pc]]
    BY <1>2
  <2>. HIDE DEF y
  <2>2. [y EXCEPT !.pc = pc] = x
    BY <1>1, ViewerFields DEF Viewer5
  <2>3. x \in ViewerRec
    BY <1>1, ViewerFields, ViewerOf
  <2>4. Read(x)
    BY <1>1, <1>2 DEF Read, Viewer5
  <2>. QED
    BY <2>1, <2>2, <2>3, <2>4 DEF Reads
<1>3. CASE View(w)
  BY <1>2, <1>3 DEF View, VPc
<1>4. CASE Answer(w)
  BY <1>2, <1>4 DEF Answer, VPc
<1>5. CASE ReadPooled(w)
  <2>1. PICK a \in SUBSET Validator :
          viewer' = [viewer EXCEPT ![w].pooledRead = TRUE,
                                   ![w].active = {v \in a : ValueOf(v, shares[v]) > 0}]
    BY <1>5 DEF ReadPooled
  <2>. DEFINE d == {v \in a : ValueOf(v, shares[v]) > 0}
              x == Viewer5(y.pc, TRUE, d, y.want, y.listed)
  <2>2. d \subseteq Validator
    OBVIOUS
  <2>3. viewer' = [viewer EXCEPT ![w] = [y EXCEPT !.pooledRead = TRUE, !.active = d]]
    BY <2>1
  <2>. HIDE DEF y, d
  <2>4. [y EXCEPT !.pooledRead = TRUE, !.active = d] = x
    BY <1>1, PooledUpdate
  <2>5. x \in ViewerRec
    BY <1>1, <2>2, ViewerFields, ViewerOf
  <2>6. Read(x)
    BY <1>1 DEF Read, Viewer5
  <2>. QED
    BY <2>3, <2>4, <2>5, <2>6 DEF Reads, y
<1>6. CASE Count(w)
  <2>1. PICK a \in SUBSET Validator :
          viewer' = [viewer EXCEPT
            ![w].pc = "reading",
            ![w].want = {r \in a \X (1 .. MaxUnbond) : r[2] <= Clamped(Len(queue[r[1]]))}]
    BY <1>6 DEF Count
  <2>. DEFINE n == {r \in a \X (1 .. MaxUnbond) : r[2] <= Clamped(Len(queue[r[1]]))}
              x == Viewer5("reading", y.pooledRead, y.active, n, y.listed)
  <2>2. n \subseteq Validator \X (1 .. MaxUnbond)
    OBVIOUS
  <2>3. n \subseteq Validator \X Nat
    BY BscAssumption
  <2>4. viewer' = [viewer EXCEPT ![w] = [y EXCEPT !.pc = "reading", !.want = n]]
    BY <2>1
  <2>5. y.pc = "counting"
    BY <1>6 DEF Count
  <2>. HIDE DEF y, n
  <2>6. [y EXCEPT !.pc = "reading", !.want = n] = x
    BY <1>1, StopUpdate
  <2>7. x \in ViewerRec
    BY <1>1, <2>3, ViewerFields, ViewerOf DEF VPc
  <2>8. Read(x)
    BY <1>1, <2>2, <2>5 DEF Read, Viewer5
  <2>. QED
    BY <2>4, <2>6, <2>7, <2>8 DEF Reads, y
<1>7. CASE ViewFails(w)
  <2>. DEFINE x == Viewer5("threw", y.pooledRead, y.active, {}, y.listed)
  <2>1. viewer' = [viewer EXCEPT ![w] = [y EXCEPT !.pc = "threw", !.want = {}]]
    BY <1>7 DEF ViewFails
  <2>. HIDE DEF y
  <2>2. [y EXCEPT !.pc = "threw", !.want = {}] = x
    BY <1>1, StopUpdate
  <2>3. x \in ViewerRec
    BY <1>1, ViewerFields, ViewerOf DEF VPc
  <2>4. Read(x)
    BY <1>1 DEF Read, Viewer5
  <2>. QED
    BY <2>1, <2>2, <2>3, <2>4 DEF Reads, y
<1>. QED
  BY <1>3, <1>4, <1>5, <1>6, <1>7, RequestsRead DEF ViewerStep

-----------------------------------------------------------------------------
(* The invariant *)

Inv == ChainInv /\ SoundInv /\ Numbered /\ ReadInv

ChainTyped ==
  /\ {nonce, requests, rewards} \subseteq Nat
  /\ {shares, pooled, total, slashes} \subseteq [Validator -> Nat]
  /\ jailed \subseteq Validator
  /\ queue \in [Validator -> Seq(Request)]
  /\ \A v \in Validator : Len(queue[v]) <= MaxUnbond
  /\ mempool \subseteq Transaction /\ refused \subseteq Transaction

LEMMA TypeParts ==
  TypeOK <=> ChainTyped /\ session \in [Session -> SessionRec] /\ viewer \in [Viewer -> ViewerRec]
  BY DEF TypeOK, ChainTyped

LEMMA RateFallsOnly ==
  ASSUME ChainInv, RateFalls, slashes' = slashes PROVE RateMoves
  BY DEF RateFalls, RateMoves

LEMMA LandChain ==
  ASSUME Inv, NEW t \in mempool, Land(t)
  PROVE  ChainTyped' /\ PoolInv' /\ RateMoves /\ Numbered'
<1>1. t \in Transaction /\ t.call \in Call /\ slashes' = slashes
  BY DEF Inv, ChainInv, TypeOK, Transaction, Land, events
<1>2. CASE Accepts(t.call)
  <2>1. Execute(t.call) /\ refused' = refused
    BY <1>2 DEF Land
  <2>2. PoolsTyped /\ QueueTyped /\ Numbered'
    BY <1>1, <1>2, <2>1, ExecuteFact, ExecuteNumbers DEF Inv
  <2>3. /\ nonce' \in Nat /\ rewards' \in Nat /\ slashes' \in [Validator -> Nat]
        /\ jailed' \subseteq Validator
        /\ mempool' \subseteq Transaction /\ refused' \subseteq Transaction
    BY <2>1 DEF Inv, ChainInv, TypeOK, Land, events
  <2>4. ChainTyped'
    BY <2>2, <2>3 DEF ChainTyped, PoolsTyped, QueueTyped
  <2>. QED
    BY <1>1, <2>2, <2>4, RateFallsOnly DEF PoolsTyped, Inv
<1>3. CASE ~ Accepts(t.call)
  <2>1. /\ UNCHANGED <<shares, pooled, total, queue, requests>>
        /\ refused' = refused \cup {t}
    BY <1>3 DEF Land, pools
  <2>2. PoolsTyped
    BY <2>1, PoolsUnchanged DEF Inv
  <2>3. Numbered'
    BY <2>1 DEF Inv, Numbered
  <2>. QED
    BY <1>1, <2>1, <2>2, <2>3, RateFallsOnly
    DEF Inv, ChainInv, TypeOK, ChainTyped, PoolsTyped, Land, events
<1>. QED
  BY <1>2, <1>3

LEMMA RewardChain ==
  ASSUME Inv, NEW v \in Validator, RewardPaid(v)
  PROVE  ChainTyped' /\ PoolInv' /\ RateMoves /\ Numbered'
<1>1. pooled' = [pooled EXCEPT ![v] = pooled[v] + 1] /\ UNCHANGED <<shares, total, queue, requests>>
  BY DEF RewardPaid
<1>2. ASSUME NEW w \in Validator
      PROVE  /\ pooled'[w] \in Nat /\ pooled'[w] > 0
             /\ total'[w] * pooled[w] <= total[w] * pooled'[w]
  <2>1. /\ total[w] \in Nat /\ pooled[w] \in Nat /\ pooled[w] > 0
        /\ total'[w] = total[w]
    BY <1>1, PoolFields DEF Inv
  <2>2. pooled'[w] \in {pooled[w], pooled[w] + 1}
    BY <1>1, <2>1 DEF Inv, ChainInv, TypeOK
  <2>3. total[w] * (pooled[w] + 1) = total[w] * pooled[w] + total[w] /\ total[w] * pooled[w] \in Nat
    BY <2>1
  <2>. QED
    BY <2>1, <2>2, <2>3
<1>3. PoolInv' /\ RateMoves
  <2>1. RateFalls /\ slashes' = slashes
    BY <1>2 DEF RateFalls, RewardPaid
  <2>. QED
    BY <1>1, <1>2, <2>1, RateFallsOnly DEF Inv, ChainInv, PoolInv
<1>4. pooled' \in [Validator -> Nat]
  BY <1>1, <1>2 DEF Inv, ChainInv, TypeOK
<1>5. ChainTyped'
  BY <1>1, <1>4 DEF Inv, ChainInv, TypeOK, ChainTyped, RewardPaid
<1>. QED
  BY <1>1, <1>3, <1>5 DEF Inv, Numbered

LEMMA SlashChain ==
  ASSUME Inv, NEW v \in Validator, Slash(v)
  PROVE  ChainTyped' /\ PoolInv' /\ RateMoves /\ Numbered'
<1>1. PICK n \in Penalty : n < pooled[v] /\ pooled' = [pooled EXCEPT ![v] = @ - n]
  BY DEF Slash
<1>2. /\ UNCHANGED <<nonce, shares, total, queue, requests, mempool, refused, rewards>>
      /\ slashes' = [slashes EXCEPT ![v] = @ + 1] /\ jailed' = jailed \cup {v}
  BY DEF Slash
<1>3. n \in Nat /\ pooled \in [Validator -> Nat] /\ slashes \in [Validator -> Nat]
  BY BscAssumption DEF Inv, ChainInv, TypeOK
<1>4. ASSUME NEW w \in Validator
      PROVE  /\ pooled'[w] \in Nat /\ pooled'[w] > 0 /\ slashes'[w] \in Nat
             /\ \/ slashes'[w] > slashes[w]
                \/ slashes'[w] = slashes[w] /\ total'[w] * pooled[w] <= total[w] * pooled'[w]
  <2>1. CASE w = v
    BY <1>1, <1>2, <1>3, <2>1
  <2>2. CASE w # v
    <3>1. /\ pooled'[w] = pooled[w] /\ slashes'[w] = slashes[w] /\ total'[w] = total[w]
          /\ total[w] * pooled[w] \in Nat /\ slashes[w] \in Nat
      BY <1>1, <1>2, <1>3, <2>2, PoolFields, ProductInNat DEF Inv
    <3>. QED
      BY <3>1, PoolFields DEF Inv
  <2>. QED
    BY <2>1, <2>2
<1>5. PoolInv' /\ RateMoves
  BY <1>2, <1>4 DEF Inv, ChainInv, PoolInv, RateMoves
<1>6. pooled' \in [Validator -> Nat] /\ slashes' \in [Validator -> Nat]
  BY <1>1, <1>2, <1>3, <1>4
<1>7. ChainTyped'
  BY <1>2, <1>6 DEF Inv, ChainInv, TypeOK, ChainTyped
<1>. QED
  BY <1>2, <1>5, <1>7 DEF Inv, Numbered

\* What leaves the contracts alone.
LEMMA QuietChain ==
  ASSUME Inv, UNCHANGED <<nonce, pools, rewards, slashes>>,
         jailed' \subseteq Validator, mempool' \subseteq mempool, refused' = refused
  PROVE  ChainTyped' /\ PoolInv' /\ RateMoves /\ Numbered'
<1>1. PoolsTyped
  BY PoolsUnchanged DEF Inv, pools
<1>2. RateMoves /\ PoolInv'
  BY <1>1, RateFallsOnly DEF PoolsTyped, Inv
<1>3. ChainTyped'
  BY DEF Inv, ChainInv, TypeOK, ChainTyped, pools
<1>. QED
  BY <1>2, <1>3 DEF Inv, Numbered, pools

LEMMA ChainStepChain ==
  ASSUME Inv, ChainStep
  PROVE  ChainTyped' /\ PoolInv' /\ RateMoves /\ Numbered' /\ UNCHANGED <<session, viewer>>
<1>1. ASSUME NEW t \in mempool, Land(t)
      PROVE  ChainTyped' /\ PoolInv' /\ RateMoves /\ Numbered' /\ UNCHANGED <<session, viewer>>
  BY <1>1, LandChain DEF Land
<1>2. ASSUME NEW t \in mempool, Expired(t)
      PROVE  ChainTyped' /\ PoolInv' /\ RateMoves /\ Numbered' /\ UNCHANGED <<session, viewer>>
  <2>1. /\ UNCHANGED <<nonce, pools, refused, rewards, slashes, jailed, session, viewer>>
        /\ mempool' = mempool \ {t}
    BY <1>2 DEF Expired, events
  <2>2. jailed' \subseteq Validator
    BY <2>1 DEF Inv, ChainInv, TypeOK
  <2>. QED
    BY <2>1, <2>2, QuietChain
<1>3. ASSUME NEW v \in Validator, RewardPaid(v)
      PROVE  ChainTyped' /\ PoolInv' /\ RateMoves /\ Numbered' /\ UNCHANGED <<session, viewer>>
  BY <1>3, RewardChain DEF RewardPaid
<1>4. ASSUME NEW v \in Validator, Slash(v)
      PROVE  ChainTyped' /\ PoolInv' /\ RateMoves /\ Numbered' /\ UNCHANGED <<session, viewer>>
  BY <1>4, SlashChain DEF Slash
<1>5. ASSUME NEW v \in Validator, Unjail(v)
      PROVE  ChainTyped' /\ PoolInv' /\ RateMoves /\ Numbered' /\ UNCHANGED <<session, viewer>>
  <2>1. /\ UNCHANGED <<nonce, pools, mempool, refused, rewards, slashes, session, viewer>>
        /\ jailed' \subseteq Validator
    BY <1>5 DEF Unjail, Inv, ChainInv, TypeOK
  <2>. QED
    BY <2>1, QuietChain
<1>6. ASSUME NEW v \in Validator, Unlock(v)
      PROVE  ChainTyped' /\ PoolInv' /\ RateMoves /\ Numbered' /\ UNCHANGED <<session, viewer>>
  <2>1. UNCHANGED <<nonce, shares, pooled, total, requests, mempool, refused, rewards, slashes,
                    jailed, session, viewer>>
    BY <1>6 DEF Unlock, events
  <2>2. QueueTyped /\ Numbered'
    BY <1>6, UnlockedNumbers DEF Inv
  <2>3. PoolsTyped /\ RateMoves
    BY <2>1, PoolsUnchanged, RateFallsOnly DEF Inv, PoolsTyped
  <2>4. ChainTyped'
    BY <2>1, <2>2 DEF Inv, ChainInv, TypeOK, ChainTyped, QueueTyped
  <2>. QED
    BY <2>1, <2>2, <2>3, <2>4 DEF PoolsTyped
<1>. QED
  BY <1>1, <1>2, <1>3, <1>4, <1>5, <1>6 DEF ChainStep

\* A session changes no contract, and hands over nothing but a transaction.
LEMMA SessionStepChain ==
  ASSUME Inv, NEW s \in Session, SessionStep(s)
  PROVE  /\ UNCHANGED <<nonce, pools, events, viewer>>
         /\ mempool' \subseteq mempool \cup {session[s].tx}
         /\ mempool \subseteq mempool'
         /\ refused' \subseteq refused \cup {session[s].tx}
<1>1. CASE Accepted(s) \/ NotAccepted(s)
  BY <1>1 DEF Accepted, NotAccepted
<1>2. CASE \/ Start(s) \/ EstimateCall(s) \/ EstimateGas(s) \/ ReadNonce(s) \/ BuildCall(s)
           \/ ReadFails(s) \/ Sign(s) \/ Compile(s) \/ Rebroadcast(s)
  <2>1. UNCHANGED <<chain, viewer>>
    BY <1>2 DEF Start, EstimateCall, EstimateGas, ReadNonce, BuildCall, ReadFails, Sign, Compile,
                Rebroadcast
  <2>. QED
    BY <2>1 DEF chain
<1>. QED
  BY <1>1, <1>2 DEF SessionStep

LEMMA Initially == Init => Inv
<1>. SUFFICES ASSUME Init PROVE Inv
  OBVIOUS
<1>1. ChainTyped
  BY BscAssumption DEF Init, ChainTyped
<1>2. session \in [Session -> SessionRec] /\ viewer \in [Viewer -> ViewerRec]
  BY IdleFact DEF Init, IdleViewer, ViewerRec
<1>3. PoolInv
  <2>. SUFFICES ASSUME NEW v \in Validator PROVE shares[v] < total[v] /\ pooled[v] > 0
    BY DEF PoolInv
  <2>. QED
    BY DEF Init
<1>4. SoundInv
  <2>1. ASSUME NEW s \in Session
        PROVE  session[s] = IdleSession /\ slashes[session[s].intent.at] = 0
    <3>1. session[s] = IdleSession
      BY DEF Init
    <3>2. session[s].intent.at \in Validator
      BY <3>1, IdleFact, SessionFields DEF HeldIntent
    <3>. QED
      BY <3>1, <3>2 DEF Init
  <2>. QED
    BY <2>1, IdleSound DEF SoundInv
<1>5. ReadInv
  BY FS_EmptySet DEF Init, ReadInv, Read, IdleViewer
<1>6. Numbered
  BY DEF Init
<1>. QED
  BY <1>1, <1>2, <1>3, <1>4, <1>5, <1>6, TypeParts DEF Inv, ChainInv

LEMMA ChainInvariance ==
  ASSUME Inv, ChainStep PROVE Inv'
<1>1. ChainTyped' /\ PoolInv' /\ RateMoves /\ Numbered' /\ UNCHANGED <<session, viewer>>
  BY ChainStepChain
<1>2. ChainInv'
  BY <1>1, TypeParts DEF Inv, ChainInv, TypeOK, ChainTyped
<1>3. SoundInv'
  <2>. DEFINE rate(i) == (i.amount * total'[i.at]) \div pooled'[i.at]
  <2>. SUFFICES ASSUME NEW s \in Session 
                      PROVE  Sound(session'[s], rate(session'[s].intent), slashes'[session'[s].intent.at])
    BY DEF SoundInv, Today, SharesFor
  <2>1. PICK y : y = session[s]
    OBVIOUS
  <2>2. y \in SessionRec /\ Sound(y, Today(y.intent), slashes[y.intent.at]) /\ Today(y.intent) \in Nat
    BY <2>1, HeldSession DEF Inv
  <2>3. y.intent.at \in Validator /\ y.intent.amount \in Nat
    BY <2>2, SessionFields DEF HeldIntent
  <2>. DEFINE v == y.intent.at
              n == y.intent.amount
              later == rate(y.intent)
  <2>4. \/ slashes'[v] > slashes[v]
        \/ slashes'[v] = slashes[v] /\ later <= Today(y.intent)
    <3>1. CASE slashes'[v] > slashes[v]
      BY <3>1
    <3>2. CASE slashes'[v] = slashes[v] /\ total'[v] * pooled[v] <= total[v] * pooled'[v]
      BY <1>2, <2>3, <3>2, RateFallsFact DEF Inv, SharesFor, Today
    <3>. QED
      BY <1>1, <2>3, <3>1, <3>2 DEF RateMoves
  <2>7. slashes[v] \in Nat /\ slashes'[v] \in Nat
    BY <1>2, <2>3 DEF Inv, ChainInv, TypeOK
  <2>5. later \in Nat
    <3>1. total'[v] \in Nat /\ pooled'[v] \in Nat /\ pooled'[v] > 0
      BY <1>2, <2>3 DEF ChainInv, TypeOK, PoolInv
    <3>. QED
      BY <2>3, <3>1, ProductInNat, Floor
  <2>. HIDE DEF rate
  <2>6. Sound(y, later, slashes'[v])
    BY <2>2, <2>4, <2>5, <2>7, SoundLater
  <2>. QED
    BY <1>1, <2>1, <2>6
<1>4. ReadInv'
  BY <1>1 DEF Inv, ReadInv
<1>. QED
  BY <1>1, <1>2, <1>3, <1>4 DEF Inv

LEMMA SessionInvariance ==
  ASSUME Inv, NEW s \in Session, SessionStep(s) PROVE Inv'
<1>1. /\ UNCHANGED <<nonce, shares, pooled, total, queue, requests, rewards, slashes, jailed, viewer>>
      /\ mempool' \subseteq mempool \cup {session[s].tx}
      /\ refused' \subseteq refused \cup {session[s].tx}
  BY SessionStepChain DEF pools, events
<1>2. PICK x \in SessionRec :
        Sound(x, Today(x.intent), slashes[x.intent.at]) /\ session' = [session EXCEPT ![s] = x]
  BY SessionAdvances DEF Inv, Advances
<1>3. session[s].tx \in Transaction
  BY HeldSession, SessionFields DEF Inv
<1>4. session \in [Session -> SessionRec]
  BY DEF Inv, ChainInv, TypeOK
<1>5. session' \in [Session -> SessionRec]
  BY <1>2, <1>4
<1>6. ChainTyped'
  <2>1. mempool' \subseteq Transaction /\ refused' \subseteq Transaction
    BY <1>1, <1>3 DEF Inv, ChainInv, TypeOK
  <2>. QED
    BY <1>1, <2>1 DEF Inv, ChainInv, TypeOK, ChainTyped
<1>7. ChainInv'
  BY <1>1, <1>5, <1>6 DEF Inv, ChainInv, TypeOK, ChainTyped, PoolInv
<1>8. SoundInv'
  <2>1. ASSUME NEW r \in Session
        PROVE  Sound(session'[r], Today(session'[r].intent), slashes[session'[r].intent.at])
    <3>1. CASE r = s
      BY <1>2, <1>4, <3>1
    <3>2. CASE r # s
      BY <1>2, <1>4, <3>2 DEF Inv, SoundInv
    <3>. QED
      BY <3>1, <3>2
  <2>. QED
    BY <1>1, <2>1 DEF SoundInv, Today, SharesFor
<1>9. Numbered' /\ ReadInv'
  BY <1>1 DEF Inv, Numbered, ReadInv
<1>. QED
  BY <1>7, <1>8, <1>9 DEF Inv

LEMMA ViewerInvariance ==
  ASSUME Inv, NEW w \in Viewer, ViewerStep(w) PROVE Inv'
<1>1. UNCHANGED <<chain, session>>
  BY DEF ViewerStep, View, ReadPooled, Count, ReadRequests, Answer, ViewFails
<1>2. PICK x \in ViewerRec : Read(x) /\ viewer' = [viewer EXCEPT ![w] = x]
  BY ViewerReads DEF Inv, Reads
<1>3. viewer \in [Viewer -> ViewerRec]
  BY DEF Inv, ChainInv, TypeOK
<1>4. viewer' \in [Viewer -> ViewerRec]
  BY <1>2, <1>3
<1>5. ReadInv'
  BY <1>2, <1>3 DEF Inv, ReadInv
<1>6. ChainInv'
  BY <1>1, <1>4 DEF Inv, ChainInv, TypeOK, PoolInv, chain, pools, events
<1>7. SoundInv'
  BY <1>1 DEF Inv, SoundInv, Today, SharesFor, chain, pools, events
<1>8. Numbered'
  BY <1>1 DEF Inv, Numbered, chain, pools
<1>. QED
  BY <1>5, <1>6, <1>7, <1>8 DEF Inv

LEMMA Invariance == Inv /\ [Next]_vars => Inv'
<1>. SUFFICES ASSUME Inv, [Next]_vars PROVE Inv'
  OBVIOUS
<1>1. CASE UNCHANGED vars
  BY <1>1 DEF Inv, ChainInv, TypeOK, PoolInv, SoundInv, Today, SharesFor, Numbered, ReadInv, vars,
              chain, pools, events
<1>. QED
  BY <1>1, ChainInvariance, SessionInvariance, ViewerInvariance DEF Next

\* No call holds more than what the chain has shown it, unless a slash came in
\* between; every request keeps its number, and what a viewer has listed is of
\* one block or fills a multicall.
THEOREM Always == Spec => []Inv
  BY Initially, Invariance, PTL DEF Spec

\* Every variable keeps its type, whatever the chain, the callers and the
\* viewers do: sign-service.ts, fee-service.ts, nonce-service.ts, and
\* staking-service.ts.
THEOREM TypeCorrect == Spec => []TypeOK
<1>1. Inv => TypeOK
  BY DEF Inv, ChainInv
<1>. QED
  BY <1>1, Always, PTL

\* No request is listed twice as long as one multicall holds them all
\* (staking-service.ts:299, index.ts:47).
THEOREM NoRequestTwiceHolds == Spec => []NoRequestTwice
<1>1. Inv => NoRequestTwice
  BY DEF Inv, ReadInv, Read, NoRequestTwice
<1>. QED
  BY <1>1, Always, PTL

\* What a session's transaction was built from: either it is blank, and then
\* nothing refuses it but its nonce, or it does what the intent says.
LEMMA SignedFact ==
  ASSUME Inv, NEW s \in Session
  PROVE  /\ session[s].tx \in Transaction /\ session[s].tx.call \in Call
         /\ Verifies(session[s].tx)
         /\ \/ session[s].tx = Blank
            \/ Built(session[s], session[s].tx.call, slashes[session[s].intent.at])
  BY HeldSession, SessionFields DEF Inv, Sound, Transaction

\* An Undelegate or Redelegate of everything that lands leaves no share behind,
\* at any rate and after any rewards (sign-service.ts:64).
THEOREM MaxLeavesNothingHolds == Spec => MaxLeavesNothing
<1>1. ASSUME Inv, Next, NEW s \in Session,
             session[s].intent.max, session[s].tx.call.type = session[s].intent.type,
             session[s].tx \in mempool \ mempool', nonce' > nonce, session[s].tx \notin refused',
             shares[session[s].intent.at] = session[s].held
      PROVE  shares'[session[s].intent.at] = 0
  <2>. DEFINE i == session[s].intent
              t == session[s].tx
              c == t.call
  <2>1. i \in HeldIntent /\ t \in Transaction /\ c \in Call
    BY <1>1, SignedFact, HeldSession, SessionFields DEF Inv
  <2>2. i.type \in {"Undelegate", "Redelegate"}
    BY <1>1, <2>1 DEF HeldIntent, Meaningful, Type
  <2>3. c.at = i.at /\ c.amount = shares[c.at]
    <3>1. t # Blank
      BY <1>1, <2>2 DEF Blank, SignedBy, NoCall
    <3>2. Built(session[s], c, slashes[i.at])
      BY <1>1, <3>1, SignedFact
    <3>. QED
      BY <1>1, <2>2, <3>2 DEF Built, Matches, Takes
  <2>4. Land(t)
    <3>1. ~ \E r \in Session : SessionStep(r)
      BY <1>1, SessionStepChain
    <3>2. ~ \E w \in Viewer : ViewerStep(w)
      BY <1>1 DEF ViewerStep, View, ReadPooled, Count, ReadRequests, Answer, ViewFails, chain
    <3>3. PICK u \in mempool : Land(u) \/ Expired(u)
      BY <1>1, <3>1, <3>2 DEF Next, ChainStep, RewardPaid, Slash, Unjail, Unlock
    <3>4. mempool' = mempool \ {u}
      BY <3>3 DEF Land, Expired
    <3>5. u = t
      BY <1>1, <3>4
    <3>6. nonce \in Nat
      BY <1>1 DEF Inv, ChainInv, TypeOK
    <3>. QED
      BY <1>1, <3>3, <3>5, <3>6 DEF Expired
  <2>5. Accepts(c) /\ Execute(c)
    BY <1>1, <2>4 DEF Land
  <2>6. c.at \in Validator /\ c.to \in Validator /\ c.amount \in Nat /\ c.type = i.type
        /\ shares[c.at] \in Nat
    BY <1>1, <2>1, CallFields, PoolFields DEF Inv
  <2>. HIDE DEF i, c
  <2>7. CASE c.type = "Undelegate"
    <3>1. shares' = [shares EXCEPT ![c.at] = Out(c.at, c.amount).s]
      BY <2>5, <2>7 DEF Execute
    <3>2. shares'[c.at] = shares[c.at] - c.amount
      BY <1>1, <2>6, <3>1 DEF Inv, ChainInv, TypeOK, Out
    <3>. QED
      BY <2>3, <2>6, <3>2 DEF i
  <2>8. CASE c.type = "Redelegate"
    <3>1. /\ Stake(c.to, ValueOf(c.at, c.amount), [shares EXCEPT ![c.at] = Out(c.at, c.amount).s],
                   [pooled EXCEPT ![c.at] = Out(c.at, c.amount).p],
                   [total EXCEPT ![c.at] = Out(c.at, c.amount).t])
          /\ c.amount <= shares[c.at] /\ c.to # c.at
      BY <2>5, <2>8 DEF Execute, Accepts
    <3>2. shares'[c.at] = shares[c.at] - c.amount
      BY <1>1, <2>6, <3>1, RedelegatedShares DEF Inv
    <3>. QED
      BY <2>3, <2>6, <3>2 DEF i
  <2>. QED
    BY <2>2, <2>6, <2>7, <2>8
<1>2. Inv /\ [Next]_vars =>
        [\A s \in Session :
           LET i == session[s].intent
               t == session[s].tx IN
           /\ i.max /\ t.call.type = i.type
           /\ t \in mempool \ mempool' /\ nonce' > nonce /\ t \notin refused'
           /\ shares[i.at] = session[s].held
           => shares'[i.at] = 0]_vars
  BY <1>1
<1>. QED
  BY <1>2, Always, PTL DEF Spec, MaxLeavesNothing

\* A transaction whose fee was estimated is refused or reverts only if it was
\* signed with another key, if its nonce was taken, if its validator's position
\* or requests have changed, if the validator it delegates to is in jail, or if
\* what it takes out is no share or was converted after a slash
\* (sign-service.ts:50, fee-service.ts:72).
THEOREM RefusedOnlyIfChangedHolds == Spec => RefusedOnlyIfChanged
<1>1. ASSUME Inv, Next, NEW s \in Session,
             session[s].tx \in refused' \ refused, session[s].estimated
      PROVE  LET t == session[s].tx
                 c == t.call
                 before == session[s].before IN
             \/ ~OfWallet(t)
             \/ NonceTaken(t)
             \/ shares[c.at] # before.shares \/ shares[c.at] # session[s].held
             \/ queue[c.at] # before.queue
             \/ c.type \in {"Delegate", "Redelegate"} /\ c.to \in jailed
             \/ c.type \in {"Undelegate", "Redelegate"} /\ c.amount = 0
             \/ /\ c.type \in {"Undelegate", "Redelegate"} /\ ~session[s].intent.max
                /\ slashes[c.at] # before.slashes
  <2>. DEFINE x == session[s]
              t == x.tx
              c == t.call
              k == slashes[x.intent.at]
  <2>1. /\ x \in SessionRec /\ c \in Call /\ Verifies(t) /\ Passed(x, Today(x.intent), k)
        /\ t = Blank \/ Built(x, c, k)
    BY <1>1, HeldSession, SignedFact DEF Inv, Sound
  <2>2. ~ OfWallet(t) \/ NonceTaken(t) \/ ~ Accepts(c)
    <3>1. ASSUME NEW r \in Session, SessionStep(r) PROVE ~ OfWallet(t) \/ NonceTaken(t)
      <4>1. t = session[r].tx
        BY <1>1, <3>1, SessionStepChain
      <4>2. refused' # refused /\ ~ (refused' \subseteq refused)
        BY <1>1
      <4>3. NotAccepted(r)
        BY <3>1, <4>2 DEF SessionStep, Start, EstimateCall, EstimateGas, ReadNonce, BuildCall,
                          ReadFails, Sign, Compile, Accepted, Rebroadcast, chain
      <4>4. ~ Verifies(t) \/ ~ OfWallet(t) \/ NonceTaken(t)
        BY <4>1, <4>2, <4>3 DEF NotAccepted
      <4>. QED
        BY <2>1, <4>4
    <3>2. ASSUME NEW u \in mempool, Land(u) PROVE ~ Accepts(c)
      BY <1>1, <3>2 DEF Land
    <3>3. ASSUME NEW u \in mempool, Expired(u) PROVE FALSE
      BY <1>1, <3>3 DEF Expired
    <3>4. ASSUME NEW w \in Viewer, ViewerStep(w) PROVE FALSE
      BY <1>1, <3>4 DEF ViewerStep, View, ReadPooled, Count, ReadRequests, Answer, ViewFails, chain
    <3>5. ASSUME NEW v \in Validator, RewardPaid(v) \/ Slash(v) \/ Unjail(v) \/ Unlock(v)
          PROVE  FALSE
      BY <1>1, <3>5 DEF RewardPaid, Slash, Unjail, Unlock
    <3>. QED
      BY <1>1, <3>1, <3>2, <3>3, <3>4, <3>5 DEF Next, ChainStep
  <2>3. ASSUME ~ Accepts(c), shares[c.at] = x.before.shares, shares[c.at] = x.held,
               queue[c.at] = x.before.queue,
               ~ (c.type \in {"Delegate", "Redelegate"} /\ c.to \in jailed),
               ~ (/\ c.type \in {"Undelegate", "Redelegate"} /\ ~x.intent.max
                  /\ slashes[c.at] # x.before.slashes)
        PROVE  c.type \in {"Undelegate", "Redelegate"} /\ c.amount = 0
    <3>1. c.type # "Delegate"
      BY <2>3 DEF Accepts
    <3>2. t # Blank
      BY <3>1 DEF Blank, SignedBy, NoCall
    <3>3. /\ c.type = x.intent.type /\ c.at = x.intent.at /\ c.to = x.intent.to
          /\ c.index = x.intent.index
          /\ Takes(x.intent) =>
               IF x.intent.max THEN c.amount = x.held
               ELSE x.before.slashes = k => c.amount <= x.before.shares
      BY <1>1, <2>1, <3>2 DEF Built, Matches
    <3>4. c.type \in Type /\ c.amount \in Nat /\ x.held \in Nat
      BY <2>1, CallFields, SessionFields
    <3>5. Takes(x.intent) => c.amount <= shares[c.at]
      <4>1. Takes(x.intent) /\ ~ x.intent.max => x.before.slashes = k
        BY <2>3, <3>3 DEF Takes
      <4>. QED
        BY <2>3, <3>3, <3>4, <4>1
    <3>6. /\ x.intent.type = "Undelegate" => Len(x.before.queue) < MaxUnbond
          /\ x.intent.type = "Redelegate" => x.intent.to # x.intent.at
          /\ x.intent.type = "ClaimDelegate" =>
               /\ x.intent.index + 1 \in DOMAIN x.before.queue
               /\ x.before.queue[x.intent.index + 1].unlocked
      BY <1>1, <2>1 DEF Passed
    <3>. HIDE DEF x, c
    <3>7. CASE c.type = "Undelegate"
      BY <2>3, <3>3, <3>4, <3>5, <3>6, <3>7 DEF Accepts, Takes
    <3>8. CASE c.type = "Redelegate"
      BY <2>3, <3>3, <3>4, <3>5, <3>6, <3>8 DEF Accepts, Takes
    <3>9. CASE c.type = "ClaimDelegate"
      BY <2>3, <3>3, <3>6, <3>9 DEF Accepts, Unlocked
    <3>. QED
      BY <3>1, <3>4, <3>7, <3>8, <3>9 DEF Type
  <2>. QED
    BY <2>2, <2>3
<1>2. Inv /\ [Next]_vars =>
        [\A s \in Session :
           LET t == session[s].tx
               c == t.call
               before == session[s].before IN
           t \in refused' \ refused /\ session[s].estimated =>
             \/ ~OfWallet(t)
             \/ NonceTaken(t)
             \/ shares[c.at] # before.shares \/ shares[c.at] # session[s].held
             \/ queue[c.at] # before.queue
             \/ c.type \in {"Delegate", "Redelegate"} /\ c.to \in jailed
             \/ c.type \in {"Undelegate", "Redelegate"} /\ c.amount = 0
             \/ /\ c.type \in {"Undelegate", "Redelegate"} /\ ~session[s].intent.max
                /\ slashes[c.at] # before.slashes]_vars
  BY <1>1
<1>. QED
  BY <1>2, Always, PTL DEF Spec, RefusedOnlyIfChanged
=============================================================================
