----------------------------- MODULE SumTheorems -----------------------------
(***************************************************************************)
(* What the sum of a function over a finite set is, whatever the order in  *)
(* which its terms are added.                                              *)
(***************************************************************************)
EXTENDS Integers, FiniteSets, Functions, FiniteSetTheorems, TLAPS

\* Among sets of subsets of a finite set there is a smallest.
LEMMA SmallestSet ==
  ASSUME NEW S, IsFiniteSet(S), NEW T, T \subseteq SUBSET S, T # {}
  PROVE  \E s \in T : \A t \in T : t \subseteq s => t = s
<1>. DEFINE C == {n \in Nat : \E t \in T : Cardinality(t) = n}
<1>1. \A t \in T : IsFiniteSet(t) /\ Cardinality(t) \in Nat
  BY FS_Subset, FS_CardinalityType
<1>2. C # {} /\ C \subseteq Nat
  BY <1>1
<1>3. PICK n \in C : \A m \in C : ~ (<<m, n>> \in OpToRel(<, Nat))
  <2>1. IsWellFoundedOn(OpToRel(<, Nat), Nat)
    BY NatLessThanWellFounded
  <2>. HIDE DEF C
  <2>. QED
    BY <1>2, <2>1, WFMin
<1>4. PICK s \in T : Cardinality(s) = n
  BY <1>3
<1>5. ASSUME NEW t \in T, t \subseteq s PROVE t = s
  <2>1. Cardinality(t) \in C /\ Cardinality(t) <= Cardinality(s) /\ Cardinality(s) \in Nat
    BY <1>1, <1>5, FS_Subset
  <2>2. ~ (Cardinality(t) < Cardinality(s))
    BY <1>1, <1>3, <1>4, <2>1 DEF OpToRel
  <2>3. Cardinality(t) = Cardinality(s)
    BY <1>1, <2>1, <2>2
  <2>. QED
    BY <1>1, <1>5, <2>3, FS_Subset
<1>. QED
  BY <1>5

-----------------------------------------------------------------------------
(* The recursion behind the sum *)

Chosen(s) == CHOOSE x \in s : TRUE
SumStep(g, f, s) == IF s = {} THEN 0 ELSE f[Chosen(s)] + g[s \ {Chosen(s)}]
IsSum(g, f, S) == g = [s \in SUBSET S |-> SumStep(g, f, s)]

LEMMA ChosenIn == ASSUME NEW s, s # {} PROVE Chosen(s) \in s
  BY DEF Chosen

LEMMA SumDef ==
  ASSUME NEW f, NEW S
  PROVE  SumFunctionOnSet(f, S) = (CHOOSE g : IsSum(g, f, S))[S]
  BY DEF SumFunctionOnSet, FoldFunctionOnSet, MapThenFoldSet, IsSum, SumStep, Chosen

LEMMA IsSumAt ==
  ASSUME NEW f, NEW S, NEW g, IsSum(g, f, S), NEW t, t \subseteq S
  PROVE  /\ t = {} => g[t] = 0
         /\ t # {} => g[t] = f[Chosen(t)] + g[t \ {Chosen(t)}]
  BY DEF IsSum, SumStep

LEMMA IsSumEmpty ==
  ASSUME NEW f, NEW S, NEW g, IsSum(g, f, S)
  PROVE  g[{}] = 0
<1>1. {} \subseteq S
  OBVIOUS
<1>. QED
  BY <1>1 DEF IsSum, SumStep

\* Any two agree on what both are defined for.
LEMMA SumsAgree ==
  ASSUME NEW f, NEW S, NEW U, IsFiniteSet(S), NEW g, NEW h, IsSum(g, f, S), IsSum(h, f, U),
         NEW t, t \subseteq S, t \subseteq U
  PROVE  g[t] = h[t]
<1>. DEFINE T == {s \in SUBSET S : s \subseteq U /\ g[s] # h[s]}
<1>. SUFFICES ASSUME T # {} PROVE FALSE
  OBVIOUS
<1>1. PICK s \in T : \A r \in T : r \subseteq s => r = s
  <2>1. T \subseteq SUBSET S
    OBVIOUS
  <2>. HIDE DEF T
  <2>. QED
    BY <2>1, SmallestSet
<1>2. s \subseteq S /\ s \subseteq U /\ g[s] # h[s]
  OBVIOUS
<1>3. s # {}
  BY <1>2, IsSumEmpty
<1>. DEFINE r == s \ {Chosen(s)}
<1>4. r \subseteq s /\ r # s
  BY <1>3, ChosenIn
<1>5. g[r] = h[r]
  BY <1>1, <1>2, <1>4
<1>6. g[s] = f[Chosen(s)] + g[r] /\ h[s] = f[Chosen(s)] + h[r]
  BY <1>2, <1>3, IsSumAt
<1>. QED
  BY <1>2, <1>5, <1>6

LEMMA SumExists ==
  ASSUME NEW f, NEW S, IsFiniteSet(S)
  PROVE  \E g : IsSum(g, f, S)
<1>. DEFINE T == {s \in SUBSET S : ~ \E g : IsSum(g, f, s)}
<1>. SUFFICES ASSUME T # {} PROVE FALSE
  OBVIOUS
<1>1. PICK s \in T : \A r \in T : r \subseteq s => r = s
  <2>1. T \subseteq SUBSET S
    OBVIOUS
  <2>. HIDE DEF T
  <2>. QED
    BY <2>1, SmallestSet
<1>. DEFINE H(t) == CHOOSE g : IsSum(g, f, t)
            V(t) == IF t = {} THEN 0 ELSE f[Chosen(t)] + H(t \ {Chosen(t)})[t \ {Chosen(t)}]
            h == [t \in SUBSET s |-> V(t)]
<1>2. ASSUME NEW t, t \subseteq s, t # s PROVE IsSum(H(t), f, t)
  <2>1. \E g : IsSum(g, f, t)
    BY <1>1, <1>2
  <2>. QED
    BY <2>1
<1>. HIDE DEF H
<1>3. ASSUME NEW u, u \subseteq s, u # s PROVE H(u)[u] = V(u)
  <2>1. IsFiniteSet(u) /\ IsSum(H(u), f, u)
    BY <1>2, <1>3, FS_Subset
  <2>2. CASE u = {}
    BY <2>1, <2>2, IsSumAt
  <2>3. CASE u # {}
    <3>. DEFINE r == u \ {Chosen(u)}
    <3>1. r \subseteq u /\ r # s /\ r \subseteq s /\ r \subseteq r
      BY <1>3, <2>3, ChosenIn
    <3>2. IsSum(H(r), f, r)
      BY <1>2, <3>1
    <3>3. H(u)[r] = H(r)[r]
      BY <2>1, <3>1, <3>2, SumsAgree
    <3>4. H(u)[u] = f[Chosen(u)] + H(u)[r]
      BY <2>1, <2>3, IsSumAt
    <3>. QED
      BY <2>3, <3>3, <3>4
  <2>. QED
    BY <2>2, <2>3
<1>4. ASSUME NEW t \in SUBSET s PROVE V(t) = SumStep(h, f, t)
  <2>1. CASE t = {}
    BY <2>1 DEF SumStep
  <2>2. CASE t # {}
    <3>. DEFINE r == t \ {Chosen(t)}
    <3>1. r \subseteq s /\ r # s
      BY <2>2, ChosenIn
    <3>2. h[r] = H(r)[r]
      BY <1>3, <3>1
    <3>. QED
      BY <2>2, <3>2 DEF SumStep
  <2>. QED
    BY <2>1, <2>2
<1>5. IsSum(h, f, s)
  <2>. HIDE DEF V
  <2>1. h = [t \in SUBSET s |-> SumStep(h, f, t)]
    BY <1>4
  <2>. HIDE DEF h
  <2>. QED
    BY <2>1 DEF IsSum
<1>. QED
  BY <1>5

-----------------------------------------------------------------------------
(* The sum *)

LEMMA SumRecursion ==
  ASSUME NEW f, NEW S, IsFiniteSet(S)
  PROVE  /\ SumFunctionOnSet(f, {}) = 0
         /\ S # {} => SumFunctionOnSet(f, S)
                        = f[Chosen(S)] + SumFunctionOnSet(f, S \ {Chosen(S)})
<1>. DEFINE G(t) == CHOOSE g : IsSum(g, f, t)
<1>1. ASSUME NEW t, IsFiniteSet(t) PROVE IsSum(G(t), f, t)
  BY <1>1, SumExists
<1>. HIDE DEF G
<1>2. \A t : SumFunctionOnSet(f, t) = G(t)[t]
  BY SumDef DEF G
<1>3. SumFunctionOnSet(f, {}) = 0
  <2>1. IsSum(G({}), f, {})
    BY <1>1, FS_EmptySet
  <2>. QED
    BY <1>2, <2>1, IsSumEmpty
<1>4. ASSUME S # {}
      PROVE  SumFunctionOnSet(f, S) = f[Chosen(S)] + SumFunctionOnSet(f, S \ {Chosen(S)})
  <2>. DEFINE r == S \ {Chosen(S)}
  <2>1. IsFiniteSet(r) /\ r \subseteq S /\ r \subseteq r
    BY FS_Subset
  <2>2. IsSum(G(S), f, S) /\ IsSum(G(r), f, r)
    BY <1>1, <2>1
  <2>. HIDE DEF r
  <2>3. G(S)[r] = G(r)[r]
    BY <2>1, <2>2, SumsAgree
  <2>4. G(S)[S] = f[Chosen(S)] + G(S)[r]
    BY <1>4, <2>2, IsSumAt DEF r
  <2>. QED
    BY <1>2, <2>3, <2>4 DEF r
<1>. QED
  BY <1>3, <1>4

\* The sum of natural numbers is one.
LEMMA SumInNat ==
  ASSUME NEW S, IsFiniteSet(S), NEW f, \A x \in S : f[x] \in Nat
  PROVE  SumFunctionOnSet(f, S) \in Nat
<1>. DEFINE T == {s \in SUBSET S : SumFunctionOnSet(f, s) \notin Nat}
<1>. SUFFICES ASSUME T # {} PROVE FALSE
  OBVIOUS
<1>1. PICK s \in T : \A r \in T : r \subseteq s => r = s
  <2>1. T \subseteq SUBSET S
    OBVIOUS
  <2>. HIDE DEF T
  <2>. QED
    BY <2>1, SmallestSet
<1>2. IsFiniteSet(s)
  BY FS_Subset
<1>3. s # {}
  <2>1. SumFunctionOnSet(f, {}) = 0
    BY SumRecursion
  <2>. QED
    BY <2>1
<1>. DEFINE c == Chosen(s)
            r == s \ {c}
<1>4. c \in s
  BY <1>3, ChosenIn
<1>5. SumFunctionOnSet(f, r) \in Nat
  BY <1>1, <1>4
<1>6. SumFunctionOnSet(f, s) = f[c] + SumFunctionOnSet(f, r)
  BY <1>2, <1>3, SumRecursion
<1>. QED
  BY <1>4, <1>5, <1>6

\* Any term may be added last.
LEMMA SumTerm ==
  ASSUME NEW S, IsFiniteSet(S), NEW f, \A x \in S : f[x] \in Nat, NEW x \in S
  PROVE  SumFunctionOnSet(f, S) = f[x] + SumFunctionOnSet(f, S \ {x})
<1>. DEFINE T == {s \in SUBSET S : \E y \in s :
                    SumFunctionOnSet(f, s) # f[y] + SumFunctionOnSet(f, s \ {y})}
<1>. SUFFICES ASSUME T # {} PROVE FALSE
  OBVIOUS
<1>1. PICK s \in T : \A r \in T : r \subseteq s => r = s
  <2>1. T \subseteq SUBSET S
    OBVIOUS
  <2>. HIDE DEF T
  <2>. QED
    BY <2>1, SmallestSet
<1>2. PICK y \in s : SumFunctionOnSet(f, s) # f[y] + SumFunctionOnSet(f, s \ {y})
  OBVIOUS
<1>. DEFINE c == Chosen(s)
            u == s \ {c}
            v == s \ {y}
            w == (s \ {c}) \ {y}
<1>3. c \in s /\ s # {}
  BY <1>2, ChosenIn
<1>4. IsFiniteSet(s) /\ IsFiniteSet(u) /\ IsFiniteSet(v) /\ IsFiniteSet(w)
  BY FS_Subset
<1>5. SumFunctionOnSet(f, s) = f[c] + SumFunctionOnSet(f, u)
  BY <1>3, <1>4, SumRecursion
<1>6. y # c
  BY <1>2, <1>5
<1>7. ASSUME NEW r, r \subseteq s, r # s, NEW z \in r
      PROVE  SumFunctionOnSet(f, r) = f[z] + SumFunctionOnSet(f, r \ {z})
  BY <1>1, <1>7
<1>8. SumFunctionOnSet(f, u) = f[y] + SumFunctionOnSet(f, w)
  BY <1>2, <1>3, <1>6, <1>7
<1>9. SumFunctionOnSet(f, v) = f[c] + SumFunctionOnSet(f, w)
  <2>1. v \subseteq s /\ v # s /\ c \in v
    BY <1>2, <1>3, <1>6
  <2>2. v \ {c} = w
    OBVIOUS
  <2>. HIDE DEF c, v, w
  <2>3. SumFunctionOnSet(f, v) = f[c] + SumFunctionOnSet(f, v \ {c})
    BY <1>7, <2>1
  <2>. QED
    BY <2>2, <2>3
<1>10. f[c] \in Nat /\ f[y] \in Nat /\ SumFunctionOnSet(f, w) \in Nat
  <2>1. \A z \in w : f[z] \in Nat
    OBVIOUS
  <2>. QED
    BY <1>3, <1>4, <2>1, SumInNat
<1>11. SumFunctionOnSet(f, s) # f[y] + SumFunctionOnSet(f, v)
  BY <1>2
<1>. HIDE DEF c, u, v, w
<1>. QED
  BY <1>5, <1>8, <1>9, <1>10, <1>11

\* The same terms under other names have the same sum.
LEMMA SumRenamed ==
  ASSUME NEW S, IsFiniteSet(S), NEW f, \A x \in S : f[x] \in Nat,
         NEW g, NEW h, \A x, y \in S : h[x] = h[y] => x = y, \A x \in S : g[h[x]] = f[x]
  PROVE  SumFunctionOnSet(g, {h[x] : x \in S}) = SumFunctionOnSet(f, S)
<1>. DEFINE img(s) == {h[x] : x \in s}
            T == {s \in SUBSET S : SumFunctionOnSet(g, img(s)) # SumFunctionOnSet(f, s)}
<1>. SUFFICES ASSUME T # {} PROVE FALSE
  OBVIOUS
<1>1. PICK s \in T : \A r \in T : r \subseteq s => r = s
  <2>1. T \subseteq SUBSET S
    OBVIOUS
  <2>. HIDE DEF T
  <2>. QED
    BY <2>1, SmallestSet
<1>2. s \subseteq S /\ SumFunctionOnSet(g, img(s)) # SumFunctionOnSet(f, s)
  OBVIOUS
<1>3. IsFiniteSet(s) /\ IsFiniteSet(img(s))
  <2>1. IsFiniteSet(s)
    BY FS_Subset
  <2>. DEFINE k == [x \in s |-> h[x]]
  <2>2. k \in Surjection(s, img(s))
    BY DEF Surjection
  <2>. HIDE DEF k
  <2>. QED
    BY <2>1, <2>2, FS_Surjection
<1>4. s # {}
  <2>. SUFFICES ASSUME s = {} PROVE FALSE
    OBVIOUS
  <2>1. img(s) = {}
    OBVIOUS
  <2>. QED
    BY <1>2, <2>1, SumRecursion, FS_EmptySet
<1>5. PICK c : c \in s
  BY <1>4
<1>. DEFINE r == s \ {c}
<1>6. img(r) = img(s) \ {h[c]} /\ h[c] \in img(s)
  BY <1>2, <1>5
<1>7. SumFunctionOnSet(g, img(r)) = SumFunctionOnSet(f, r)
  BY <1>1, <1>2, <1>5
<1>8. SumFunctionOnSet(f, s) = f[c] + SumFunctionOnSet(f, r)
  BY <1>2, <1>3, <1>5, SumTerm
<1>9. \A z \in img(s) : g[z] \in Nat
  BY <1>2
<1>10. SumFunctionOnSet(g, img(s)) = g[h[c]] + SumFunctionOnSet(g, img(s) \ {h[c]})
  <2>. HIDE DEF img
  <2>. QED
    BY <1>3, <1>6, <1>9, SumTerm
<1>11. g[h[c]] = f[c]
  BY <1>2, <1>5
<1>. QED
  BY <1>2, <1>6, <1>7, <1>8, <1>10, <1>11

\* Terms that are zero may be left out.
LEMMA SumSelected ==
  ASSUME NEW S, IsFiniteSet(S), NEW g, \A x \in S : g[x] \in Nat,
         NEW U, U \subseteq S, NEW f, \A x \in U : f[x] = g[x], \A x \in S \ U : g[x] = 0
  PROVE  SumFunctionOnSet(f, U) = SumFunctionOnSet(g, S)
<1>. DEFINE T == {s \in SUBSET S : SumFunctionOnSet(f, s \cap U) # SumFunctionOnSet(g, s)}
<1>. SUFFICES ASSUME T # {} PROVE FALSE
  <2>1. S \in SUBSET S /\ S \cap U = U
    OBVIOUS
  <2>. QED
    BY <2>1
<1>1. PICK s \in T : \A r \in T : r \subseteq s => r = s
  <2>1. T \subseteq SUBSET S
    OBVIOUS
  <2>. HIDE DEF T
  <2>. QED
    BY <2>1, SmallestSet
<1>2. s \subseteq S /\ SumFunctionOnSet(f, s \cap U) # SumFunctionOnSet(g, s)
  OBVIOUS
<1>3. IsFiniteSet(s) /\ IsFiniteSet(s \cap U)
  BY FS_Subset
<1>4. s # {}
  <2>1. SumFunctionOnSet(f, {}) = 0 /\ SumFunctionOnSet(g, {}) = 0 /\ {} \cap U = {}
    BY SumRecursion, FS_EmptySet
  <2>. QED
    BY <1>2, <2>1
<1>. DEFINE c == Chosen(s)
            r == s \ {c}
<1>5. c \in s
  BY <1>4, ChosenIn
<1>6. SumFunctionOnSet(f, r \cap U) = SumFunctionOnSet(g, r)
  BY <1>1, <1>5
<1>7. SumFunctionOnSet(g, s) = g[c] + SumFunctionOnSet(g, r)
  BY <1>3, <1>4, SumRecursion
<1>8. SumFunctionOnSet(g, r) \in Nat
  <2>1. IsFiniteSet(r) /\ \A x \in r : g[x] \in Nat
    BY <1>2, <1>3, FS_Subset
  <2>. HIDE DEF r
  <2>. QED
    BY <2>1, SumInNat
<1>. HIDE DEF c
<1>9. CASE c \in U
  <2>1. \A x \in s \cap U : f[x] \in Nat
    BY <1>2
  <2>2. c \in s \cap U /\ (s \cap U) \ {c} = r \cap U /\ f[c] = g[c]
    BY <1>5, <1>9
  <2>3. SumFunctionOnSet(f, s \cap U) = f[c] + SumFunctionOnSet(f, (s \cap U) \ {c})
    BY <1>3, <2>1, <2>2, SumTerm
  <2>. QED
    BY <1>2, <1>6, <1>7, <2>2, <2>3
<1>10. CASE c \notin U
  <2>1. s \cap U = r \cap U /\ g[c] = 0
    BY <1>2, <1>5, <1>10
  <2>. DEFINE total == SumFunctionOnSet(g, r)
  <2>2. total \in Nat /\ SumFunctionOnSet(g, s) = 0 + total
    BY <1>7, <1>8, <2>1
  <2>3. SumFunctionOnSet(f, s \cap U) = total
    BY <1>6, <2>1
  <2>. HIDE DEF total
  <2>. QED
    BY <1>2, <2>2, <2>3
<1>. QED
  BY <1>9, <1>10
=============================================================================
