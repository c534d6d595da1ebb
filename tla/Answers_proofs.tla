--------------------------- MODULE Answers_proofs ---------------------------
(***************************************************************************)
(* Proofs about Alerts and AuditSignals: two answers that tell of the same *)
(* thing agree, whatever alerts and audit events there are.                *)
(***************************************************************************)
EXTENDS Alerts, AuditSignals, FiniteSetTheorems, SequenceTheorems, WellFoundedInduction, TLAPS
-----------------------------------------------------------------------------
(* Sums *)

\* Induction on finite sets, for a set of sets.
LEMMA FiniteSetsReached ==
  ASSUME NEW D, IsFiniteSet(D), NEW R, {} \in R,
         \A S \in SUBSET D, x \in D : S \in R /\ x \notin S => S \cup {x} \in R
  PROVE  D \in R
<1> DEFINE Left == {n \in Nat : \E S \in SUBSET D : S \in R /\ Cardinality(D \ S) = n}
<1>1. D \ {} = D /\ Cardinality(D) \in Nat
  BY FS_CardinalityType
<1>2. Left \subseteq Nat /\ Left # {}
  BY <1>1
<1>3. PICK n \in Left : \A m \in Left : <<m, n>> \notin OpToRel(<, Nat)
  BY <1>2, NatLessThanWellFounded, WFMin
<1>4. PICK S \in SUBSET D : S \in R /\ Cardinality(D \ S) = n
  OBVIOUS
<1>5. CASE S = D
  BY <1>4, <1>5
<1>6. ASSUME NEW x \in D \ S PROVE FALSE
  <2>1. IsFiniteSet(D \ S) /\ D \ (S \cup {x}) = (D \ S) \ {x}
    BY FS_Difference
  <2>2. PICK E : E = D \ S
    OBVIOUS
  <2>3. /\ Cardinality(E) = n /\ x \in E /\ IsFiniteSet(E \ {x})
        /\ Cardinality(E \ {x}) = Cardinality(E) - 1 /\ Cardinality(E \ {x}) \in Nat
    <3>1. IsFiniteSet(E) /\ x \in E
      BY <1>6, <2>1, <2>2
    <3>2. /\ IsFiniteSet(E \ {x})
          /\ Cardinality(E \ {x}) = IF x \in E THEN Cardinality(E) - 1 ELSE Cardinality(E)
      BY <3>1, FS_RemoveElement
    <3> QED BY <1>4, <2>2, <3>1, <3>2, FS_CardinalityType
  <2>4. S \cup {x} \in SUBSET D /\ S \cup {x} \in R
    BY <1>4, <1>6
  <2>5. n - 1 \in Left /\ n - 1 < n
    <3>1. Cardinality(D \ (S \cup {x})) = n - 1 /\ n - 1 \in Nat
      BY <2>1, <2>2, <2>3
    <3>2. PICK U \in SUBSET D : U = S \cup {x}
      BY <2>4
    <3>3. U \in R /\ Cardinality(D \ U) = n - 1
      BY <2>4, <3>1, <3>2
    <3>4. \E V \in SUBSET D : V \in R /\ Cardinality(D \ V) = n - 1
      BY <3>3
    <3>5. n \in Nat
      OBVIOUS
    <3>6. n - 1 < n
      BY <3>5
    <3>7. PICK m : m = n - 1
      OBVIOUS
    <3> QED BY <3>1, <3>4, <3>6, <3>7
  <2> QED BY <1>3, <2>5 DEF OpToRel
<1> QED BY <1>5, <1>6

\* A sum of natural numbers, as a set that has as many elements.
Pairs(f, S) == {p \in S \X (Nat \ {0}) : p[2] <= f[p[1]]}

LEMMA PairsGrow ==
  ASSUME NEW f, NEW S, NEW x, x \notin S, f[x] \in Nat, IsFiniteSet(Pairs(f, S))
  PROVE  /\ IsFiniteSet(Pairs(f, S \cup {x}))
         /\ Cardinality(Pairs(f, S \cup {x})) = Cardinality(Pairs(f, S)) + f[x]
<1> DEFINE new == {p \in {x} \X (Nat \ {0}) : p[2] <= f[x]}
           map == [n \in 1..f[x] |-> <<x, n>>]
<1>1. /\ Pairs(f, S \cup {x}) = Pairs(f, S) \cup new
      /\ Pairs(f, S) \cap new = {}
  BY DEF Pairs
<1>2. map \in Bijection(1..f[x], new)
  <2>1. map \in [1..f[x] -> new] /\ \A m, n \in 1..f[x] : map[m] = map[n] => m = n
    OBVIOUS
  <2>2. ASSUME NEW p \in new PROVE \E n \in 1..f[x] : map[n] = p
    <3>1. p = <<x, p[2]>> /\ p[2] \in 1..f[x]
      OBVIOUS
    <3> QED BY <3>1
  <2> QED BY <2>1, <2>2 DEF Bijection, Surjection, Injection, IsInjective
<1>3. IsFiniteSet(1..f[x]) /\ Cardinality(1..f[x]) = f[x]
  BY FS_Interval
<1>4. IsFiniteSet(new) /\ Cardinality(new) = f[x]
  <2>1. ExistsBijection(1..f[x], new)
    BY <1>2 DEF ExistsBijection
  <2> HIDE DEF new
  <2> QED BY <1>3, <2>1, FS_Bijection
<1> HIDE DEF new
<1>5. Cardinality(Pairs(f, S) \cap new) = 0
  BY <1>1, FS_EmptySet
<1>6. Cardinality(Pairs(f, S)) \in Nat
  BY FS_CardinalityType
<1>7. PICK old : old = Pairs(f, S)
  OBVIOUS
<1>8. /\ IsFiniteSet(old \cup new)
      /\ Cardinality(old \cup new) = Cardinality(old) + Cardinality(new)
                                       - Cardinality(old \cap new)
  BY <1>4, <1>7, FS_Union
<1>9. PICK both : both = Pairs(f, S \cup {x})
  OBVIOUS
<1>10. both = old \cup new /\ Cardinality(old \cap new) = 0 /\ Cardinality(old) \in Nat
  BY <1>1, <1>5, <1>6, <1>7, <1>9
<1>11. IsFiniteSet(both) /\ Cardinality(both) = Cardinality(old) + f[x]
  BY <1>4, <1>8, <1>10
<1> QED BY <1>7, <1>9, <1>11

LEMMA PairsAreFinite ==
  ASSUME NEW f, IsFiniteSet(DOMAIN f), \A x \in DOMAIN f : f[x] \in Nat
  PROVE  IsFiniteSet(Pairs(f, DOMAIN f))
<1> DEFINE R == {S \in SUBSET DOMAIN f : IsFiniteSet(Pairs(f, S))}
<1>1. {} \in R
  <2>1. Pairs(f, {}) = {}
    BY DEF Pairs
  <2> QED BY <2>1, FS_EmptySet
<1>2. ASSUME NEW S \in SUBSET DOMAIN f, NEW x \in DOMAIN f, S \in R, x \notin S
      PROVE  S \cup {x} \in R
  BY <1>2, PairsGrow
<1> HIDE DEF R
<1>3. DOMAIN f \in R
  BY <1>1, <1>2, FiniteSetsReached
<1> QED BY <1>3 DEF R

\* The sum of the community modules counts them.
LEMMA TotalCounts ==
  ASSUME NEW f, IsFiniteSet(DOMAIN f), \A x \in DOMAIN f : f[x] \in Nat
  PROVE  Total(f) = Cardinality(Pairs(f, DOMAIN f))
<1> DEFINE Any(S) == CHOOSE x \in S : TRUE
           Sums(g) == g = [S \in SUBSET DOMAIN f |->
                             IF S = {} THEN 0 ELSE f[Any(S)] + g[S \ {Any(S)}]]
           sum == CHOOSE g : Sums(g)
           count == [S \in SUBSET DOMAIN f |-> Cardinality(Pairs(f, S))]
<1>1. Total(f) = sum[DOMAIN f]
  BY DEF Total, MapThenSumSet, MapThenFoldSet
<1>2. ASSUME NEW S \in SUBSET DOMAIN f
      PROVE  IsFiniteSet(Pairs(f, S)) /\ IsFiniteSet(S)
  <2>1. Pairs(f, S) \subseteq Pairs(f, DOMAIN f)
    BY DEF Pairs
  <2> QED BY <2>1, PairsAreFinite, FS_Subset
<1>3. ASSUME NEW S \in SUBSET DOMAIN f, S # {}
      PROVE  /\ Any(S) \in S
             /\ count[S] = f[Any(S)] + count[S \ {Any(S)}]
  <2>1. Any(S) \in S
    BY <1>3
  <2>2. PICK x \in S : x = Any(S)
    BY <2>1
  <2>3. S = (S \ {x}) \cup {x} /\ IsFiniteSet(Pairs(f, S \ {x})) /\ f[x] \in Nat
    BY <1>2
  <2>4. Cardinality(Pairs(f, S)) = Cardinality(Pairs(f, S \ {x})) + f[x]
    BY <2>3, PairsGrow
  <2>5. Cardinality(Pairs(f, S \ {x})) \in Nat
    BY <2>3, FS_CardinalityType
  <2> HIDE DEF Any
  <2> QED BY <2>2, <2>3, <2>4, <2>5
<1>4. count[{}] = 0
  <2>1. Pairs(f, {}) = {}
    BY DEF Pairs
  <2> QED BY <2>1, FS_EmptySet
<1> HIDE DEF Any
<1>5. Sums(count)
  BY <1>3, <1>4
<1>6. Sums(sum)
  BY <1>5
<1> HIDE DEF count, sum
<1> DEFINE Wrong == {S \in SUBSET DOMAIN f : sum[S] # count[S]}
<1>7. ASSUME Wrong # {} PROVE FALSE
  <2>1. Wrong \subseteq FiniteSubsetsOf(DOMAIN f)
    BY <1>2 DEF FiniteSubsetsOf
  <2>2. PICK S \in Wrong : \A T \in Wrong : <<T, S>> \notin StrictSubsetOrdering(DOMAIN f)
    BY <1>7, <2>1, FS_StrictSubsetOrderingWellFounded, WFMin
  <2>3. \A T \in SUBSET S : T # S => T \notin Wrong
    BY <2>2 DEF StrictSubsetOrdering
  <2>4. S # {}
    BY <1>4, <1>6
  <2>5. Any(S) \in S /\ count[S] = f[Any(S)] + count[S \ {Any(S)}]
    BY <1>3, <2>4
  <2>6. sum[S] = f[Any(S)] + sum[S \ {Any(S)}]
    BY <1>6, <2>4
  <2>7. S \ {Any(S)} \in SUBSET S /\ S \ {Any(S)} # S
    BY <2>5
  <2>8. sum[S \ {Any(S)}] = count[S \ {Any(S)}]
    BY <2>3, <2>7
  <2> QED BY <2>5, <2>6, <2>8
<1>8. sum[DOMAIN f] = count[DOMAIN f]
  BY <1>7
<1> QED BY <1>1, <1>8 DEF count

\* Elements counted by a key of theirs are counted once each.
LEMMA CountedByKey ==
  ASSUME NEW S, IsFiniteSet(S), NEW K, IsFiniteSet(K), NEW key, \A a \in S : key[a] \in K,
         NEW f, DOMAIN f = K, \A k \in K : f[k] = Cardinality({a \in S : key[a] = k})
  PROVE  Total(f) = Cardinality(S)
<1> DEFINE Part(k) == {a \in S : key[a] = k}
           Below(L) == {a \in S : key[a] \in L}
           R == {L \in SUBSET K : /\ IsFiniteSet(Pairs(f, L))
                                  /\ Cardinality(Pairs(f, L)) = Cardinality(Below(L))}
<1>1. ASSUME NEW T \in SUBSET S PROVE IsFiniteSet(T) /\ Cardinality(T) \in Nat
  BY FS_Subset, FS_CardinalityType
<1>2. \A k \in K : f[k] \in Nat /\ f[k] = Cardinality(Part(k))
  BY <1>1
<1>3. {} \in R
  <2>1. Pairs(f, {}) = {} /\ Below({}) = {}
    BY DEF Pairs
  <2> QED BY <2>1, FS_EmptySet
<1>4. ASSUME NEW L \in SUBSET K, NEW k \in K, L \in R, k \notin L
      PROVE  L \cup {k} \in R
  <2>1. PICK below, part : below = Below(L) /\ part = Part(k)
    OBVIOUS
  <2>2. Below(L \cup {k}) = below \cup part /\ below \cap part = {}
    BY <1>4, <2>1
  <2>3. below \in SUBSET S /\ part \in SUBSET S
    BY <2>1
  <2>4. /\ IsFiniteSet(below) /\ IsFiniteSet(part)
        /\ Cardinality(below) \in Nat /\ Cardinality(part) \in Nat
    BY <1>1, <2>3
  <2>5. Cardinality(below \cup part)
          = Cardinality(below) + Cardinality(part) - Cardinality(below \cap part)
    BY <2>4, FS_Union
  <2>6. Cardinality(below \cap part) = 0
    BY <2>2, FS_EmptySet
  <2>7. /\ IsFiniteSet(Pairs(f, L \cup {k}))
        /\ Cardinality(Pairs(f, L \cup {k})) = Cardinality(Pairs(f, L)) + f[k]
    <3>1. k \notin L /\ f[k] \in Nat /\ IsFiniteSet(Pairs(f, L))
      BY <1>2, <1>4
    <3> HIDE DEF Below, Part
    <3> QED BY <3>1, PairsGrow
  <2>8. Cardinality(Below(L \cup {k})) = Cardinality(below) + Cardinality(part)
    <3>1. PICK both : both = Below(L \cup {k})
      OBVIOUS
    <3>2. both = below \cup part
      BY <2>2, <3>1
    <3>3. Cardinality(both) = Cardinality(below) + Cardinality(part)
      BY <2>4, <2>5, <2>6, <3>2
    <3> QED BY <3>1, <3>3
  <2>9. Cardinality(Pairs(f, L)) = Cardinality(below) /\ f[k] = Cardinality(part)
    BY <1>2, <1>4, <2>1
  <2>10. Cardinality(Pairs(f, L \cup {k})) = Cardinality(Below(L \cup {k}))
    BY <2>4, <2>7, <2>8, <2>9
  <2> QED BY <2>7, <2>10
<1> HIDE DEF R
<1>5. K \in R
  BY <1>3, <1>4, FiniteSetsReached
<1>6. Cardinality(Pairs(f, K)) = Cardinality(Below(K)) /\ Below(K) = S
  BY <1>5 DEF R
<1> QED BY <1>2, <1>6, TotalCounts

\* So are the weights of elements.
LEMMA SummedByKey ==
  ASSUME NEW S, IsFiniteSet(S), NEW K, IsFiniteSet(K), NEW key, \A a \in S : key[a] \in K,
         NEW w, \A a \in S : w[a] \in Nat,
         NEW f, DOMAIN f = K,
         \A k \in K : f[k] = Total([a \in {b \in S : key[b] = k} |-> w[a]])
  PROVE  Total(f) = Total([a \in S |-> w[a]])
<1> DEFINE Weight(T) == [a \in T |-> w[a]]
           pairs == Pairs(w, S)
           of == [p \in pairs |-> key[p[1]]]
           Part(k) == {b \in S : key[b] = k}
<1>1. ASSUME NEW T \in SUBSET S
      PROVE  /\ Total(Weight(T)) = Cardinality(Pairs(w, T))
             /\ IsFiniteSet(Pairs(w, T))
  <2>1. DOMAIN Weight(T) = T /\ IsFiniteSet(T) /\ \A a \in T : Weight(T)[a] \in Nat
    BY FS_Subset
  <2>2. Pairs(Weight(T), T) = Pairs(w, T)
    BY DEF Pairs
  <2>3. PICK g : g = Weight(T)
    OBVIOUS
  <2>4. Total(g) = Cardinality(Pairs(g, T)) /\ IsFiniteSet(Pairs(g, T))
    BY <2>1, <2>3, TotalCounts, PairsAreFinite
  <2> QED BY <2>2, <2>3, <2>4
<1>2. ASSUME NEW k \in K
      PROVE  f[k] = Cardinality({p \in pairs : of[p] = k})
  <2>1. Pairs(w, Part(k)) = {p \in pairs : of[p] = k}
    BY DEF Pairs
  <2>2. f[k] = Total(Weight(Part(k))) /\ Part(k) \in SUBSET S
    OBVIOUS
  <2> QED BY <1>1, <2>1, <2>2
<1>3. \A p \in pairs : of[p] \in K
  BY DEF Pairs
<1>4. S \in SUBSET S
  OBVIOUS
<1>5. IsFiniteSet(pairs) /\ Total(Weight(S)) = Cardinality(pairs)
  BY <1>1, <1>4
<1>6. PICK P, at : P = pairs /\ at = of
  OBVIOUS
<1>7. /\ IsFiniteSet(P) /\ \A p \in P : at[p] \in K
      /\ \A k \in K : f[k] = Cardinality({p \in P : at[p] = k})
  BY <1>2, <1>3, <1>5, <1>6
<1> HIDE DEF of, pairs
<1>8. Total(f) = Cardinality(P)
  BY <1>7, CountedByKey
<1> QED BY <1>5, <1>6, <1>8

\* A sum that is one more for each element of W.
LEMMA TotalAndOnes ==
  ASSUME NEW K, IsFiniteSet(K), NEW W \in SUBSET K, NEW f, NEW g, DOMAIN f = K, DOMAIN g = K,
         \A k \in K : g[k] \in Nat /\ f[k] = g[k] + IF k \in W THEN 1 ELSE 0
  PROVE  Total(f) = Total(g) + Cardinality(W)
<1> DEFINE R == {L \in SUBSET K :
                   /\ IsFiniteSet(Pairs(f, L)) /\ IsFiniteSet(Pairs(g, L))
                   /\ Cardinality(Pairs(f, L)) = Cardinality(Pairs(g, L)) + Cardinality(W \cap L)}
<1>1. {} \in R
  <2>1. Pairs(f, {}) = {} /\ Pairs(g, {}) = {} /\ W \cap {} = {}
    BY DEF Pairs
  <2>2. Cardinality({}) = 0 /\ IsFiniteSet({})
    BY FS_EmptySet
  <2>3. {} \in SUBSET K /\ 0 = 0 + 0
    OBVIOUS
  <2>4. Cardinality(Pairs(f, {})) = Cardinality(Pairs(g, {})) + Cardinality(W \cap {})
    BY <2>1, <2>2, <2>3
  <2> QED BY <2>1, <2>2, <2>3, <2>4
<1>2. ASSUME NEW L \in SUBSET K, NEW k \in K, L \in R, k \notin L
      PROVE  L \cup {k} \in R
  <2>1. f[k] \in Nat /\ g[k] \in Nat
    OBVIOUS
  <2>2. /\ IsFiniteSet(Pairs(f, L \cup {k})) /\ IsFiniteSet(Pairs(g, L \cup {k}))
        /\ Cardinality(Pairs(f, L \cup {k})) = Cardinality(Pairs(f, L)) + f[k]
        /\ Cardinality(Pairs(g, L \cup {k})) = Cardinality(Pairs(g, L)) + g[k]
    BY <1>2, <2>1, PairsGrow
  <2>3. PICK V : V = W \cap L
    OBVIOUS
  <2>4. IsFiniteSet(V) /\ Cardinality(V) \in Nat
    BY <2>3, FS_Subset, FS_CardinalityType
  <2>5. W \cap (L \cup {k}) = IF k \in W THEN V \cup {k} ELSE V
    BY <2>3
  <2>6. Cardinality(V \cup {k}) = Cardinality(V) + 1
    BY <1>2, <2>3, <2>4, FS_AddElement
  <2>7. Cardinality(W \cap (L \cup {k})) = Cardinality(V) + IF k \in W THEN 1 ELSE 0
    BY <2>4, <2>5, <2>6
  <2>8. Cardinality(Pairs(f, L)) \in Nat /\ Cardinality(Pairs(g, L)) \in Nat
    BY <1>2, FS_CardinalityType
  <2>9. Cardinality(Pairs(f, L)) = Cardinality(Pairs(g, L)) + Cardinality(V)
    BY <1>2, <2>3
  <2>10. Cardinality(Pairs(f, L \cup {k}))
           = Cardinality(Pairs(g, L \cup {k})) + Cardinality(W \cap (L \cup {k}))
    BY <2>1, <2>2, <2>4, <2>7, <2>8, <2>9
  <2> QED BY <2>2, <2>10
<1> HIDE DEF R
<1>3. K \in R
  BY <1>1, <1>2, FiniteSetsReached
<1>4. \A k \in K : f[k] \in Nat
  OBVIOUS
<1>5. W \cap K = W
  OBVIOUS
<1> QED BY <1>3, <1>4, <1>5, TotalCounts DEF R

\* A sum of percentages.
LEMMA TotalAtMost ==
  ASSUME NEW K, IsFiniteSet(K), NEW f, DOMAIN f = K, \A k \in K : f[k] \in 0..100
  PROVE  Total(f) \in 0..100 * Cardinality(K)
<1> DEFINE R == {L \in SUBSET K :
                   /\ IsFiniteSet(Pairs(f, L))
                   /\ Cardinality(Pairs(f, L)) <= 100 * Cardinality(L)}
<1>1. {} \in R
  <2>1. Pairs(f, {}) = {}
    BY DEF Pairs
  <2>2. Cardinality({}) = 0 /\ IsFiniteSet({})
    BY FS_EmptySet
  <2> QED BY <2>1, <2>2
<1>2. ASSUME NEW L \in SUBSET K, NEW k \in K, L \in R, k \notin L
      PROVE  L \cup {k} \in R
  <2>1. f[k] \in 0..100 /\ f[k] \in Nat
    OBVIOUS
  <2>2. /\ IsFiniteSet(Pairs(f, L \cup {k}))
        /\ Cardinality(Pairs(f, L \cup {k})) = Cardinality(Pairs(f, L)) + f[k]
    BY <1>2, <2>1, PairsGrow
  <2>3. IsFiniteSet(L) /\ Cardinality(L) \in Nat /\ Cardinality(L \cup {k}) = Cardinality(L) + 1
    BY <1>2, FS_Subset, FS_CardinalityType, FS_AddElement
  <2>4. Cardinality(Pairs(f, L)) \in Nat /\ Cardinality(Pairs(f, L)) <= 100 * Cardinality(L)
    BY <1>2, FS_CardinalityType
  <2>5. Cardinality(Pairs(f, L \cup {k})) <= 100 * Cardinality(L \cup {k})
    BY <2>1, <2>2, <2>3, <2>4
  <2> QED BY <2>2, <2>5
<1> HIDE DEF R
<1>3. K \in R
  BY <1>1, <1>2, FiniteSetsReached
<1>4. Total(f) = Cardinality(Pairs(f, K)) /\ IsFiniteSet(Pairs(f, K))
  BY TotalCounts, PairsAreFinite
<1> QED BY <1>3, <1>4, FS_CardinalityType DEF R
-----------------------------------------------------------------------------
(* Division, greatest and least elements, halves *)

LEMMA Quotients ==
  ASSUME NEW n \in Nat, NEW m \in Nat \ {0}
  PROVE  n \div m \in Nat /\ m * (n \div m) <= n /\ n < m * (n \div m) + m
<1>1. n \div m \in Nat
  BY SMT
<1>2. n = m * (n \div m) + (n % m) /\ (n % m) \in 0..m-1
  BY SMT
<1> QED BY SMT, <1>1, <1>2

LEMMA QuotientAtMost ==
  ASSUME NEW n \in Nat, NEW m \in Nat \ {0}, NEW k \in Nat, n <= m * k
  PROVE  n \div m \in 0..k
<1>1. PICK q \in Nat : q = n \div m /\ m * q <= n
  BY Quotients
<1>2. ASSUME q >= k + 1 PROVE FALSE
  <2>1. PICK e \in Nat : q = k + 1 + e
    BY <1>2
  <2>2. m * q = m * k + m + m * e /\ m * e >= 0
    BY <2>1
  <2> QED BY <1>1, <2>2
<1> QED BY <1>1, <1>2

LEMMA GreatestExists ==
  ASSUME NEW S \in SUBSET Int, NEW x \in S, NEW n \in Int, \A y \in S : y <= n
  PROVE  Max(S) \in S /\ \A y \in S : Max(S) >= y
<1> DEFINE Below == {n - y : y \in S}
<1>1. Below \subseteq Nat /\ Below # {}
  OBVIOUS
<1>2. PICK b \in Below : \A c \in Below : <<c, b>> \notin OpToRel(<, Nat)
  BY <1>1, NatLessThanWellFounded, WFMin
<1>3. PICK y \in S : b = n - y
  OBVIOUS
<1>4. \A z \in S : y >= z
  <2>1. TAKE z \in S
  <2>2. PICK c : c = n - z
    OBVIOUS
  <2>3. c \in Below /\ b \in Nat /\ c \in Nat
    BY <1>1, <2>2
  <2>4. ~ (c < b)
    BY <1>2, <2>3 DEF OpToRel
  <2> QED BY <1>3, <2>2, <2>3, <2>4
<1> QED BY <1>4 DEF Max

LEMMA OfTwo ==
  ASSUME NEW x \in Int, NEW y \in Int
  PROVE  /\ Max({x, y}) \in {x, y} /\ Max({x, y}) >= x /\ Max({x, y}) >= y
         /\ Min({x, y}) \in {x, y} /\ Min({x, y}) <= x /\ Min({x, y}) <= y
<1> DEFINE S == {x, y}
<1>1. \E z \in S : \A w \in S : z >= w
  <2>1. CASE x >= y
    BY <2>1
  <2>2. CASE y >= x
    BY <2>2
  <2> QED BY <2>1, <2>2
<1>2. \E z \in S : \A w \in S : z <= w
  <2>1. CASE x <= y
    BY <2>1
  <2>2. CASE y <= x
    BY <2>2
  <2> QED BY <2>1, <2>2
<1>3. x \in S /\ y \in S
  OBVIOUS
<1> HIDE DEF S
<1>4. Max(S) \in S /\ \A w \in S : Max(S) >= w
  BY <1>1 DEF Max
<1>5. Min(S) \in S /\ \A w \in S : Min(S) <= w
  BY <1>2 DEF Min
<1> QED BY <1>3, <1>4, <1>5 DEF S

\* min(100, max(0, ...)) is a score.
LEMMA Clamped == ASSUME NEW x \in Int PROVE Clamp(x) \in 0..100
<1>1. PICK y : y = Max({0, x})
  OBVIOUS
<1>2. y \in Int /\ y >= 0
  BY <1>1, OfTwo
<1>3. PICK z : z = Min({100, y})
  OBVIOUS
<1>4. z \in {100, y} /\ z <= 100
  BY <1>2, <1>3, OfTwo
<1>5. Clamp(x) = z
  BY <1>1, <1>3 DEF Clamp
<1> QED BY <1>2, <1>4, <1>5

LEMMA Halves ==
  ASSUME NEW S, IsFiniteSet(S), NEW A, NEW B, A \cup B = S, A \cap B = {}
  PROVE  /\ Cardinality(A) \in Nat /\ Cardinality(B) \in Nat
         /\ Cardinality(S) = Cardinality(A) + Cardinality(B)
<1>1. IsFiniteSet(A) /\ IsFiniteSet(B)
  BY FS_Subset
<1>2. Cardinality(A) \in Nat /\ Cardinality(B) \in Nat
  BY <1>1, FS_CardinalityType
<1>3. Cardinality(A \cup B) = Cardinality(A) + Cardinality(B) - Cardinality(A \cap B)
  BY <1>1, FS_Union
<1>4. PICK both : both = A \cap B
  OBVIOUS
<1>5. Cardinality(both) = 0
  BY <1>4, FS_EmptySet
<1> QED BY <1>2, <1>3, <1>4, <1>5

LEMMA FourAreFinite ==
  ASSUME NEW a, NEW b, NEW c, NEW d PROVE IsFiniteSet({a, b, c, d})
<1>1. IsFiniteSet({} \cup {a})
  BY FS_EmptySet, FS_AddElement
<1>2. IsFiniteSet({a} \cup {b})
  BY <1>1, FS_AddElement
<1>3. IsFiniteSet({a, b} \cup {c})
  BY <1>2, FS_AddElement
<1>4. IsFiniteSet({a, b, c} \cup {d})
  BY <1>3, FS_AddElement
<1> QED BY <1>4

LEMMA Fewer ==
  ASSUME NEW S, IsFiniteSet(S), NEW T \in SUBSET S
  PROVE  IsFiniteSet(T) /\ Cardinality(T) \in Nat /\ Cardinality(T) <= Cardinality(S)
BY FS_Subset, FS_CardinalityType
-----------------------------------------------------------------------------
(* Alerts *)

States == {"none", "open", "resolved", "fixed", "auto_dismissed", "dismissed"}
AlertRows == [state : States, created : Int, closed : Int]

\* AlertsTypeOK with the shape of a row.
AlertsInv ==
  /\ today \in 0..LastDay
  /\ raised \in [AlertIds -> AlertRows]
  /\ AlertsTypeOK

\* A row that is written with a state, a day of creation and one of closing.
LEMMA AlertWritten ==
  ASSUME AlertsInv, NEW a \in AlertIds, NEW s \in States, NEW c \in -1..today, NEW d \in -1..today,
         raised' = [raised EXCEPT ![a] = AlertRow(s, c, d)],
         today' = today, d # NoDay => s \in Endings[ToolOf[a]] /\ d >= c
  PROVE  AlertsInv'
<1> DEFINE row == AlertRow(s, c, d)
<1>1. /\ row \in AlertRows /\ row.state = s /\ row.created = c /\ row.closed = d
      /\ today \in Nat
  BY DEF AlertRows, AlertsInv, AlertRow
<1> HIDE DEF row
<1>2. raised' \in [AlertIds -> AlertRows] /\ raised'[a] = row
  BY <1>1 DEF AlertsInv, row
<1>3. ASSUME NEW b \in AlertIds, b # a PROVE raised'[b] = raised[b]
  BY <1>3 DEF AlertsInv
<1> QED BY <1>1, <1>2, <1>3 DEF AlertsInv, AlertsTypeOK, AlertRows

LEMMA AlertStepKeeps == ASSUME AlertsInv, [NextAlerts]_alertVars PROVE AlertsInv'
<1>1. ASSUME NEW a \in AlertIds, AlertAppears(a) \/ AlertEnds(a) \/ AlertReopens(a)
      PROVE AlertsInv'
  <2>1. /\ raised[a].created \in -1..today /\ today \in -1..today /\ NoDay \in -1..today
        /\ Endings[ToolOf[a]] \subseteq States /\ "open" \in States /\ today' = today
    BY <1>1, AlertsAssumption
    DEF AlertsInv, AlertsTypeOK, Endings, States, NoDay, AlertAppears, AlertEnds, AlertReopens
  <2>2. CASE AlertAppears(a)
    BY <2>1, <2>2, AlertWritten DEF AlertAppears
  <2>3. CASE AlertEnds(a)
    <3>1. PICK s \in Endings[ToolOf[a]] :
            raised' = [raised EXCEPT ![a] =
                         AlertRow(s, raised[a].created, ClosedDay(ToolOf[a], s))]
      BY <2>3 DEF AlertEnds
    <3>2. ClosedDay(ToolOf[a], s) \in {NoDay, today} /\ today >= raised[a].created
      BY <2>1 DEF ClosedDay
    <3> QED BY <2>1, <3>1, <3>2, AlertWritten
  <2>4. CASE AlertReopens(a)
    BY <2>1, <2>4, AlertWritten DEF AlertReopens
  <2> QED BY <1>1, <2>2, <2>3, <2>4
<1>2. ASSUME NEW r \in Audited, FeatureEvent(r, "code_scanning") PROVE AlertsInv'
  BY <1>2 DEF FeatureEvent, AlertsInv, AlertsTypeOK
<1>3. CASE DayPasses
  BY <1>3, AlertsAssumption DEF DayPasses, AlertsInv, AlertsTypeOK
<1>4. CASE UNCHANGED alertVars
  BY <1>4 DEF alertVars, AlertsInv, AlertsTypeOK
<1> QED BY <1>1, <1>2, <1>3, <1>4 DEF NextAlerts

LEMMA AlertsStart == InitAlerts => AlertsInv
BY AlertsAssumption DEF InitAlerts, AlertsInv, AlertsTypeOK, NotRaised, AlertRow, NoDay,
  States, AlertRows

\* The day and the rows of the three alert tables keep their types: an alert that has a
\* day of closing is closed, and was created no later (_upsert_*_alerts).
THEOREM AlertsTyping == SpecAlerts => []AlertsTypeOK
<1>1. InitAlerts => AlertsInv
  BY AlertsStart
<1>2. AlertsInv => AlertsTypeOK
  BY DEF AlertsInv
<1> QED BY <1>1, <1>2, AlertStepKeeps, PTL DEF SpecAlerts
-----------------------------------------------------------------------------
(* The figures of health_signal_service.py *)

LEMMA AlertsAreFinite ==
  ASSUME NEW S \in SUBSET AlertIds PROVE IsFiniteSet(S) /\ Cardinality(S) \in Nat
BY AlertsAssumption, FS_Subset, FS_CardinalityType

LEMMA ReposAreFinite == IsFiniteSet(Repos) /\ IsFiniteSet(SeenRepos)
<1>1. PICK g : g = [a \in AlertIds |-> RepoOf[a]]
  OBVIOUS
<1>2. g \in Surjection(AlertIds, Repos)
  BY <1>1 DEF Repos, Surjection
<1>3. IsFiniteSet(Repos)
  BY <1>2, AlertsAssumption, FS_Surjection
<1> QED BY <1>3, FS_Subset DEF SeenRepos

LEMMA AlertDays ==
  ASSUME AlertsInv, NEW a \in AlertIds
  PROVE  /\ today \in Nat /\ raised[a].created \in Int /\ raised[a].closed \in Int
         /\ Age(a) \in Nat /\ Age(a) = today - raised[a].created
         /\ ToolOf[a] \in Tools /\ SeverityOf[a] \in Severities /\ RepoOf[a] \in Repos
         /\ raised[a].closed # NoDay => raised[a].closed - raised[a].created \in Nat
BY AlertsAssumption DEF AlertsInv, AlertsTypeOK, Age, Tools, Severities, Repos

\* A small set of names.
LEMMA NamesAreFinite ==
  /\ IsFiniteSet(Tools) /\ IsFiniteSet(Severities)
  /\ IsFiniteSet(CoveredFeatures) /\ Cardinality(CoveredFeatures) = 5
<1>1. ASSUME NEW S, IsFiniteSet(S), NEW x
      PROVE  /\ IsFiniteSet(S \cup {x})
             /\ x \notin S => Cardinality(S \cup {x}) = Cardinality(S) + 1
  BY <1>1, FS_AddElement
<1> DEFINE A == {} \cup {"ghas"}
           B == A \cup {"code_scanning"}
           C == B \cup {"secret_scanning"}
           D == C \cup {"dependabot"}
           E == D \cup {"push_protection"}
<1>2. IsFiniteSet({}) /\ Cardinality({}) = 0
  BY FS_EmptySet
<1>3. /\ "code_scanning" \notin A /\ "secret_scanning" \notin B /\ "dependabot" \notin C
      /\ "push_protection" \notin D /\ E = CoveredFeatures
  BY DEF CoveredFeatures
<1>4. IsFiniteSet(A) /\ Cardinality(A) = 1
  BY <1>1, <1>2
<1> HIDE DEF A
<1>5. IsFiniteSet(B) /\ Cardinality(B) = 2
  BY <1>1, <1>3, <1>4
<1> HIDE DEF B
<1>6. IsFiniteSet(C) /\ Cardinality(C) = 3
  BY <1>1, <1>3, <1>5
<1> HIDE DEF C
<1>7. IsFiniteSet(D) /\ Cardinality(D) = 4
  BY <1>1, <1>3, <1>6
<1> HIDE DEF D
<1>8. IsFiniteSet(E) /\ Cardinality(E) = 5
  BY <1>1, <1>3, <1>7
<1>9. Tools \in SUBSET CoveredFeatures
  BY DEF Tools, CoveredFeatures
<1>10. IsFiniteSet(Severities)
  <2>1. Severities = ((({} \cup {"critical"}) \cup {"high"}) \cup {"medium"}) \cup {"low"}
    BY DEF Severities
  <2>2. IsFiniteSet(({} \cup {"critical"}) \cup {"high"})
    BY <1>1, <1>2
  <2> QED BY <1>1, <2>1, <2>2
<1> HIDE DEF E
<1> QED BY <1>3, <1>8, <1>9, <1>10, FS_Subset

\* Every open alert is in one bucket of get_alert_aging.
LEMMA BucketsHoldAll ==
  ASSUME AlertsInv PROVE Total([b \in DOMAIN AgeBuckets |-> AgeBuckets[b].total]) = CurrentOpen
<1> DEFINE Labels == {"<7d", "7-30d", "30-90d", ">90d"}
<1>1. PICK open : open = OpenAlerts(Tools)
  OBVIOUS
<1>2. PICK key : key = [a \in open |-> Bucket(a)]
  OBVIOUS
<1>3. PICK f : f = [b \in DOMAIN AgeBuckets |-> AgeBuckets[b].total]
  OBVIOUS
<1>4. IsFiniteSet(open)
  BY <1>1, AlertsAreFinite DEF OpenAlerts, Raised
<1>5. \A a \in open : key[a] \in Labels
  BY <1>2 DEF Bucket
<1>6. DOMAIN f = Labels
  BY <1>3 DEF AgeBuckets
<1>7. \A b \in Labels : f[b] = Cardinality({a \in open : key[a] = b})
  <2>1. TAKE b \in Labels
  <2>2. {a \in open : key[a] = b} = {a \in OpenAlerts(Tools) : Bucket(a) = b}
    BY <1>1, <1>2
  <2>3. f[b] = Cardinality({a \in OpenAlerts(Tools) : Bucket(a) = b})
    BY <1>3, <1>6 DEF AgeBuckets, Count
  <2> QED BY <2>2, <2>3
<1>8. IsFiniteSet(Labels)
  BY FourAreFinite
<1> HIDE DEF Labels
<1>9. Total(f) = Cardinality(open)
  BY <1>4, <1>5, <1>6, <1>7, <1>8, CountedByKey
<1> QED BY <1>1, <1>3, <1>9 DEF CurrentOpen, Count

\* Every open alert is of one tool.
LEMMA ToolsHoldAll ==
  ASSUME AlertsInv PROVE CurrentOpen = Total([t \in Tools |-> SummaryOf(t).open])
<1>1. PICK open : open = OpenAlerts(Tools)
  OBVIOUS
<1>2. PICK f : f = [t \in Tools |-> SummaryOf(t).open]
  OBVIOUS
<1>3. IsFiniteSet(open) /\ \A a \in open : ToolOf[a] \in Tools
  BY <1>1, AlertsAreFinite DEF OpenAlerts, Raised
<1>4. \A t \in Tools : f[t] = Cardinality({a \in open : ToolOf[a] = t})
  <2>1. TAKE t \in Tools
  <2>2. {a \in open : ToolOf[a] = t} = OpenAlerts({t})
    BY <1>1 DEF OpenAlerts, Raised
  <2> QED BY <1>2, <2>2 DEF SummaryOf, Count
<1>5. DOMAIN f = Tools
  BY <1>2
<1>6. Total(f) = Cardinality(open)
  BY <1>3, <1>4, <1>5, NamesAreFinite, CountedByKey
<1> QED BY <1>1, <1>2, <1>6 DEF CurrentOpen, Count

\* Every open alert of Dependabot is in one range of get_vulnerability_aging.
LEMMA RangesHoldAll ==
  ASSUME AlertsInv
  PROVE  /\ Total(VulnerabilityAging.range) = SummaryOf("dependabot").open
         /\ VulnerabilityAging.open_gt_30d + VulnerabilityAging.range["age_0_30d"]
              = VulnerabilityAging.total_open
         /\ VulnerabilityAging.critical_aging_gt_90d
              = SummaryOf("dependabot").critical_aging_gt_90d
<1> DEFINE Ranges == {"age_0_30d", "age_30_60d", "age_60_90d", "age_gt_90d"}
<1>1. PICK open : open = OpenAlerts({"dependabot"})
  OBVIOUS
<1>2. PICK key : key = [a \in open |-> AgeRange(a)]
  OBVIOUS
<1>3. PICK f : f = VulnerabilityAging.range
  OBVIOUS
<1>4. IsFiniteSet(open) /\ open \in SUBSET AlertIds
  BY <1>1, AlertsAreFinite DEF OpenAlerts, Raised
<1>5. /\ \A a \in open : key[a] \in Ranges
      /\ \A a \in open : key[a] = "age_0_30d" <=> ~ (Age(a) > Month)
  <2>1. ASSUME NEW a \in open
        PROVE  key[a] \in Ranges /\ (key[a] = "age_0_30d" <=> ~ (Age(a) > Month))
    <3>1. PICK n \in Nat : n = Age(a)
      BY <1>4, AlertDays
    <3>2. AgeRange(a) \in Ranges /\ (AgeRange(a) = "age_0_30d" <=> ~ (n > Month))
      BY <3>1, DaysInOrder DEF AgeRange
    <3> QED BY <1>2, <3>1, <3>2
  <2> QED BY <2>1
<1>6. f = [b \in Ranges |-> Count({a \in open : AgeRange(a) = b})]
  BY <1>1, <1>3 DEF VulnerabilityAging
<1>7. DOMAIN f = Ranges /\ \A b \in Ranges : f[b] = Cardinality({a \in open : key[a] = b})
  <2>1. ASSUME NEW b \in Ranges
        PROVE  {a \in open : key[a] = b} = {a \in open : AgeRange(a) = b}
    BY <1>2
  <2> QED BY <1>6, <2>1 DEF Count
<1>8. IsFiniteSet(Ranges)
  BY FourAreFinite
<1>9. Cardinality(open) = Cardinality({a \in open : Age(a) > Month}) + f["age_0_30d"]
  <2>1. PICK A, B : A = {a \in open : Age(a) > Month} /\ B = {a \in open : key[a] = "age_0_30d"}
    OBVIOUS
  <2>2. A \cup B = open /\ A \cap B = {}
    BY <1>5, <2>1
  <2>3. Cardinality(open) = Cardinality(A) + Cardinality(B)
    BY <1>4, <2>2, Halves
  <2>4. f["age_0_30d"] = Cardinality(B)
    BY <1>7, <2>1
  <2> QED BY <2>1, <2>3, <2>4
<1> HIDE DEF Ranges
<1>10. Total(f) = Cardinality(open)
  BY <1>4, <1>5, <1>7, <1>8, CountedByKey
<1>11. PICK A : A = {a \in open : Age(a) > Month}
  OBVIOUS
<1>12. /\ VulnerabilityAging.open_gt_30d = Cardinality(A)
       /\ VulnerabilityAging.total_open = Cardinality(open)
       /\ SummaryOf("dependabot").open = Cardinality(open)
       /\ VulnerabilityAging.critical_aging_gt_90d
            = SummaryOf("dependabot").critical_aging_gt_90d
  BY <1>1, <1>11 DEF VulnerabilityAging, SummaryOf, Count
<1> QED BY <1>3, <1>9, <1>10, <1>11, <1>12
\* Every open alert of code scanning is of one repository, and the figures of secret
\* scanning are taken twice.
LEMMA ReposHoldAll ==
  ASSUME AlertsInv
  PROVE  /\ Total([r \in Repos |-> CodeHealth(r).open_count]) = SummaryOf("code_scanning").open
         /\ SecretHealth.unresolved_total = SummaryOf("secret_scanning").open
<1>1. PICK open : open = OpenAlerts({"code_scanning"})
  OBVIOUS
<1>2. PICK f : f = [r \in Repos |-> CodeHealth(r).open_count]
  OBVIOUS
<1>3. IsFiniteSet(open) /\ \A a \in open : RepoOf[a] \in Repos
  BY <1>1, AlertsAreFinite DEF OpenAlerts, Raised, Repos
<1>4. \A r \in Repos : f[r] = Cardinality({a \in open : RepoOf[a] = r})
  <2>1. TAKE r \in Repos
  <2>2. {a \in open : RepoOf[a] = r}
          = {a \in {b \in Raised({"code_scanning"}) : RepoOf[b] = r} : raised[a].state = "open"}
    BY <1>1 DEF OpenAlerts
  <2> QED BY <1>2, <2>2 DEF CodeHealth, Count
<1>5. DOMAIN f = Repos /\ IsFiniteSet(Repos)
  BY <1>2, ReposAreFinite
<1>6. Total(f) = Cardinality(open)
  BY <1>3, <1>4, <1>5, CountedByKey
<1>7. SummaryOf("code_scanning").open = Cardinality(open)
  BY <1>1 DEF SummaryOf, Count
<1>8. SecretHealth.unresolved_total = SummaryOf("secret_scanning").open
  BY DEF SecretHealth, SummaryOf
<1> QED BY <1>2, <1>6, <1>7, <1>8

\* The thirty days of the trend hold the alerts that are younger than thirty days.
LEMMA TrendHoldsYoung ==
  ASSUME AlertsInv, NEW t \in Tools
  PROVE  Total(Trend30(t)) = Count({a \in Raised({t}) : Age(a) < Month})
<1> DEFINE first == today - (Month - 1)
<1>1. PICK young : young = {a \in Raised({t}) : Age(a) < Month}
  OBVIOUS
<1>2. PICK key : key = [a \in young |-> raised[a].created]
  OBVIOUS
<1>3. PICK f : f = Trend30(t)
  OBVIOUS
<1>4. today \in Int /\ Month \in Nat \ {0} /\ first \in Int
  BY DaysInOrder, AlertsAssumption DEF AlertsInv
<1>5. IsFiniteSet(young) /\ young \in SUBSET AlertIds /\ IsFiniteSet(first..today)
  BY <1>1, <1>4, AlertsAreFinite, FS_Interval DEF Raised
<1>6. ASSUME NEW a \in AlertIds
      PROVE  Age(a) < Month <=> raised[a].created \in first..today
  <2>1. /\ raised[a].created \in Int /\ Age(a) = today - raised[a].created
        /\ raised[a].created <= today
    BY AlertDays
  <2> QED BY <1>4, <2>1
<1>7. \A a \in young : key[a] \in first..today
  BY <1>1, <1>2, <1>5, <1>6
<1>8. \A day \in first..today : f[day] = Cardinality({a \in young : key[a] = day})
  <2>1. TAKE day \in first..today
  <2>2. {a \in young : key[a] = day} = {a \in Raised({t}) : raised[a].created = day}
    BY <1>1, <1>2, <1>6 DEF Raised
  <2>3. f[day] = CreatedOn(t, day)
    BY <1>3 DEF Trend30
  <2> QED BY <2>2, <2>3 DEF CreatedOn, Count
<1>9. DOMAIN f = first..today
  BY <1>3 DEF Trend30
<1> HIDE DEF first
<1>10. PICK days : days = first..today
  OBVIOUS
<1>11. Total(f) = Cardinality(young)
  <2>1. /\ IsFiniteSet(days) /\ DOMAIN f = days /\ \A a \in young : key[a] \in days
        /\ \A d \in days : f[d] = Cardinality({a \in young : key[a] = d})
    BY <1>5, <1>7, <1>8, <1>9, <1>10
  <2> QED BY <1>5, <2>1, CountedByKey
<1> QED BY <1>1, <1>3, <1>11 DEF Count
-----------------------------------------------------------------------------
(* Remediation *)

\* The alerts that were closed within thirty days.
LEMMA ClosedAlerts ==
  ASSUME AlertsInv, NEW S, S = CurrentlyClosed(Tools)
  PROVE  /\ S \in SUBSET AlertIds /\ IsFiniteSet(S)
         /\ \A a \in S : /\ ToolOf[a] \in Tools /\ raised[a].closed # NoDay
                         /\ raised[a].closed \in today - Month..today
                         /\ raised[a].closed - raised[a].created \in Nat
         /\ \A T \in SUBSET Tools : CurrentlyClosed(T) = {a \in S : ToolOf[a] \in T}
<1>1. today \in Nat /\ Month \in Nat
  BY DaysInOrder, AlertsAssumption DEF AlertsInv
<1>2. ASSUME NEW T \in SUBSET Tools, NEW a \in CurrentlyClosed(T)
      PROVE  /\ a \in AlertIds /\ ToolOf[a] \in T
             /\ raised[a].closed # NoDay /\ raised[a].closed >= today - Month
  <2>1. PICK t \in T : a \in ClosedSince(t, today - Month)
    BY DEF CurrentlyClosed
  <2> QED BY <2>1 DEF ClosedSince, ClosedFor, Raised
<1>3. S \in SUBSET AlertIds /\ IsFiniteSet(S)
  BY <1>2, AlertsAreFinite
<1>4. ASSUME NEW a \in S
      PROVE  /\ ToolOf[a] \in Tools /\ raised[a].closed # NoDay
             /\ raised[a].closed \in today - Month..today
             /\ raised[a].closed - raised[a].created \in Nat
  <2>1. /\ a \in AlertIds /\ ToolOf[a] \in Tools
        /\ raised[a].closed # NoDay /\ raised[a].closed >= today - Month
    BY <1>2
  <2>2. raised[a].closed \in -1..today
    BY <2>1 DEF AlertsInv, AlertsTypeOK
  <2> QED BY <1>1, <2>1, <2>2, AlertDays
<1>5. ASSUME NEW T \in SUBSET Tools PROVE CurrentlyClosed(T) = {a \in S : ToolOf[a] \in T}
  <2>1. ASSUME NEW a \in S, ToolOf[a] \in T PROVE a \in CurrentlyClosed(T)
    <3>1. PICK t \in Tools : a \in ClosedSince(t, today - Month)
      BY DEF CurrentlyClosed
    <3>2. ToolOf[a] = t
      BY <3>1 DEF ClosedSince, ClosedFor, Raised
    <3> QED BY <2>1, <3>1, <3>2 DEF CurrentlyClosed
  <2>2. ASSUME NEW a \in CurrentlyClosed(T) PROVE a \in S /\ ToolOf[a] \in T
    <3>1. PICK t \in T : a \in ClosedSince(t, today - Month)
      BY DEF CurrentlyClosed
    <3>2. t \in Tools
      OBVIOUS
    <3> QED BY <1>2, <3>1, <3>2 DEF CurrentlyClosed
  <2> QED BY <2>1, <2>2
<1> QED BY <1>3, <1>4, <1>5

\* The mean time of all is made of those by tool.
LEMMA DaysByTool ==
  ASSUME AlertsInv PROVE Total([t \in Tools |-> MttrByTool(t).days]) = CurrentMttr.days
<1>1. PICK S : S = CurrentlyClosed(Tools)
  OBVIOUS
<1>2. PICK w : w = [a \in S |-> raised[a].closed - raised[a].created]
  OBVIOUS
<1>3. PICK f : f = [t \in Tools |-> MttrByTool(t).days]
  OBVIOUS
<1>4. /\ IsFiniteSet(S) /\ \A a \in S : ToolOf[a] \in Tools /\ w[a] \in Nat
      /\ \A T \in SUBSET Tools : CurrentlyClosed(T) = {a \in S : ToolOf[a] \in T}
  BY <1>1, <1>2, ClosedAlerts
<1>5. ASSUME NEW R \in SUBSET S
      PROVE  [a \in R |-> w[a]] = [a \in R |-> raised[a].closed - raised[a].created]
  BY <1>2
<1>6. ASSUME NEW t \in Tools
      PROVE  f[t] = Total([a \in {b \in S : ToolOf[b] = t} |-> w[a]])
  <2>1. PICK R : R = {b \in S : ToolOf[b] = t}
    OBVIOUS
  <2>2. CurrentlyClosed({t}) = R
    BY <1>4, <2>1
  <2>3. f[t] = Remediation(R).days
    BY <1>3, <2>2 DEF MttrByTool
  <2>4. R \in SUBSET S
    BY <2>1
  <2>5. f[t] = Total([a \in R |-> raised[a].closed - raised[a].created])
    BY <2>3 DEF Remediation
  <2> QED BY <1>5, <2>1, <2>4, <2>5
<1>7. CurrentMttr.days = Total([a \in S |-> w[a]])
  <2>1. CurrentMttr.days = Total([a \in S |-> raised[a].closed - raised[a].created])
    BY <1>1 DEF CurrentMttr, Remediation
  <2> QED BY <1>5, <2>1
<1>8. DOMAIN f = Tools
  BY <1>3
<1>9. Total(f) = Total([a \in S |-> w[a]])
  BY <1>4, <1>6, <1>8, NamesAreFinite, SummedByKey
<1> QED BY <1>3, <1>7, <1>9

\* So are the alerts it is taken over by severity, but for the secrets, which have none.
LEMMA ClosedBySeverity ==
  ASSUME AlertsInv
  PROVE  Total([s \in Severities |-> MttrBySeverity(s).n]) + MttrByTool("secret_scanning").n
           = CurrentMttr.n
<1>1. PICK S : S = CurrentlyClosed(Tools)
  OBVIOUS
<1>2. PICK f : f = [s \in Severities |-> MttrBySeverity(s).n]
  OBVIOUS
<1>3. PICK A, B : /\ A = CurrentlyClosed({"code_scanning", "dependabot"})
                  /\ B = CurrentlyClosed({"secret_scanning"})
  OBVIOUS
<1>4. /\ IsFiniteSet(S) /\ S \in SUBSET AlertIds /\ \A a \in S : ToolOf[a] \in Tools
      /\ A = {a \in S : ToolOf[a] \in {"code_scanning", "dependabot"}}
      /\ B = {a \in S : ToolOf[a] \in {"secret_scanning"}}
  <2>1. /\ {"code_scanning", "dependabot"} \in SUBSET Tools
        /\ {"secret_scanning"} \in SUBSET Tools
    BY DEF Tools
  <2> QED BY <1>1, <1>3, <2>1, ClosedAlerts
<1>5. A \cup B = S /\ A \cap B = {} /\ A \in SUBSET S
  BY <1>4 DEF Tools
<1>6. Cardinality(S) = Cardinality(A) + Cardinality(B)
  <2>1. IsFiniteSet(S)
    BY <1>4
  <2> QED BY <1>5, <2>1, Halves
<1>7. PICK key : key = [a \in A |-> Severity(a)]
  OBVIOUS
<1>8. \A a \in A : key[a] \in Severities
  <2>1. TAKE a \in A
  <2>2. a \in AlertIds /\ ToolOf[a] # "secret_scanning" /\ SeverityOf[a] \in Severities
    BY <1>4, AlertDays
  <2> QED BY <1>7, <2>2 DEF Severity
<1>9. ASSUME NEW s \in Severities PROVE f[s] = Cardinality({a \in A : key[a] = s})
  <2>1. {a \in A : key[a] = s} = {a \in A : Severity(a) = s}
    BY <1>7
  <2>2. f[s] = Cardinality({a \in A : Severity(a) = s})
    BY <1>2, <1>3 DEF MttrBySeverity, Remediation, Of, Count
  <2> QED BY <2>1, <2>2
<1>10. DOMAIN f = Severities /\ IsFiniteSet(A)
  BY <1>2, <1>4, <1>5, FS_Subset
<1>11. Total(f) = Cardinality(A)
  BY <1>8, <1>9, <1>10, NamesAreFinite, CountedByKey
<1>12. MttrByTool("secret_scanning").n = Cardinality(B) /\ CurrentMttr.n = Cardinality(S)
  BY <1>1, <1>3 DEF MttrByTool, CurrentMttr, Remediation, Count
<1> QED BY <1>2, <1>6, <1>11, <1>12

\* And by day, with the day before the first of the series.
LEMMA ClosedByDay ==
  ASSUME AlertsInv
  PROVE  Total([d \in DOMAIN MttrSeries |-> MttrSeries[d].n]) + MttrOn(today - Month).n
           = CurrentMttr.n
<1>1. PICK S : S = CurrentlyClosed(Tools)
  OBVIOUS
<1>2. PICK days : days = today - (Month - 1)..today
  OBVIOUS
<1>3. PICK f : f = [d \in DOMAIN MttrSeries |-> MttrSeries[d].n]
  OBVIOUS
<1>4. PICK A, B : /\ A = {a \in S : raised[a].closed \in days}
                  /\ B = {a \in S : raised[a].closed = today - Month}
  OBVIOUS
<1>5. today \in Nat /\ Month \in Nat \ {0}
  BY DaysInOrder, AlertsAssumption DEF AlertsInv
<1>6. /\ IsFiniteSet(S) /\ S \in SUBSET AlertIds
      /\ \A a \in S : raised[a].closed \in today - Month..today
  BY <1>1, ClosedAlerts
<1>7. A \cup B = S /\ A \cap B = {} /\ A \in SUBSET S
  <2>1. ASSUME NEW a \in S PROVE a \in A <=> a \notin B
    BY <1>2, <1>4, <1>5, <1>6
  <2> QED BY <1>4, <2>1
<1>8. Cardinality(S) = Cardinality(A) + Cardinality(B)
  BY <1>6, <1>7, Halves
<1>9. PICK key : key = [a \in A |-> raised[a].closed]
  OBVIOUS
<1>10. \A a \in A : key[a] \in days
  BY <1>4, <1>9
<1>11. DOMAIN f = days
  BY <1>2, <1>3 DEF MttrSeries
<1>12. ASSUME NEW d \in days PROVE f[d] = Cardinality({a \in A : key[a] = d})
  <2>1. {a \in A : key[a] = d} = {a \in S : raised[a].closed = d}
    BY <1>4, <1>9
  <2>2. f[d] = MttrOn(d).n
    BY <1>2, <1>3 DEF MttrSeries
  <2>3. f[d] = Cardinality({a \in S : raised[a].closed = d})
    BY <1>1, <2>2 DEF MttrOn, Remediation, Count
  <2> QED BY <2>1, <2>3
<1>13. IsFiniteSet(days) /\ IsFiniteSet(A)
  <2>1. PICK n \in Int : n = today - (Month - 1)
    BY <1>5
  <2>2. today \in Int /\ days = n..today
    BY <1>2, <1>5, <2>1
  <2>3. IsFiniteSet(days)
    BY <2>2, FS_Interval
  <2> QED BY <1>6, <1>7, <2>3, FS_Subset
<1>14. Total(f) = Cardinality(A)
  BY <1>10, <1>11, <1>12, <1>13, CountedByKey
<1>15. MttrOn(today - Month).n = Cardinality(B) /\ CurrentMttr.n = Cardinality(S)
  BY <1>1, <1>4 DEF MttrOn, CurrentMttr, Remediation, Count
<1> QED BY <1>3, <1>8, <1>14, <1>15
-----------------------------------------------------------------------------
(* The forecast, the list of the oldest, the score *)

LEMMA TotalIsNat ==
  ASSUME NEW f, IsFiniteSet(DOMAIN f), \A x \in DOMAIN f : f[x] \in Nat PROVE Total(f) \in Nat
BY TotalCounts, PairsAreFinite, FS_CardinalityType

LEMMA MeansAreTaken ==
  ASSUME AlertsInv, NEW S \in SUBSET AlertIds, \A a \in S : raised[a].closed # NoDay,
         NEW m, m = Remediation(S)
  PROVE  m.days \in Nat /\ m.n \in Nat /\ MttrHours(m) \in Nat
<1>1. PICK w : w = [a \in S |-> raised[a].closed - raised[a].created]
  OBVIOUS
<1>2. IsFiniteSet(DOMAIN w) /\ \A a \in DOMAIN w : w[a] \in Nat
  BY <1>1, AlertDays, AlertsAreFinite
<1>3. m.days = Total(w) /\ m.n = Cardinality(S)
  BY <1>1 DEF Remediation, Count
<1>4. m.days \in Nat /\ m.n \in Nat
  BY <1>2, <1>3, TotalIsNat, AlertsAreFinite
<1>5. PICK d \in Nat, n \in Nat : d = m.days /\ n = m.n
  BY <1>4
<1>6. n # 0 => (24 * d) \div n \in Nat
  BY Quotients
<1> QED BY <1>4, <1>5, <1>6 DEF MttrHours

\* The forecast is no more than what is open.
LEMMA ForecastFalls ==
  ASSUME AlertsInv PROVE ClosedLast30 = CurrentMttr.n /\ ProjectedOpen(4) <= CurrentOpen
<1>1. ClosedLast30 = CurrentMttr.n
  BY DEF ClosedLast30, CurrentMttr, CurrentlyClosed, Remediation
<1>2. PICK open \in Nat : open = CurrentOpen
  BY AlertsAreFinite DEF CurrentOpen, OpenAlerts, Raised, Count
<1>3. PICK S : S = CurrentlyClosed(Tools)
  OBVIOUS
<1>4. S \in SUBSET AlertIds
  BY <1>3, ClosedAlerts
<1>5. PICK n \in Nat : n = ClosedLast30
  BY <1>3, <1>4, AlertsAreFinite DEF ClosedLast30, CurrentlyClosed, Count
<1>6. Week \in Nat /\ Month \in Nat \ {0}
  BY DaysInOrder
<1>7. n * Week * 4 \in Nat
  BY <1>6
<1>8. PICK q \in Nat : q = (n * Week * 4) \div Month
  BY <1>6, <1>7, Quotients
<1>9. PICK zero \in Int, x \in Int : zero = 0 /\ x = open - q
  OBVIOUS
<1>10. ProjectedOpen(4) = Max({zero, x})
  BY <1>2, <1>5, <1>8, <1>9 DEF ProjectedOpen
<1>11. Max({zero, x}) \in {zero, x}
  BY OfTwo
<1> QED BY <1>1, <1>2, <1>9, <1>10, <1>11

\* A critical alert that is counted as old is listed, unless more than ten are old.
LEMMA OldAreListed ==
  ASSUME AlertsInv, Count({a \in Severe : Age(a) > Quarter}) <= 10,
         NEW a \in Of(OpenAlerts(Tools), "critical"), Age(a) > Quarter
  PROVE  a \in OldestCritical
<1>1. a \in Severe /\ a \in AlertIds
  BY DEF Severe, Of, OpenAlerts, Raised
<1>2. PICK old : old = {b \in Severe : Age(b) > Quarter}
  OBVIOUS
<1>3. PICK older : older = {b \in Severe : Age(b) > Age(a)}
  OBVIOUS
<1>4. Severe \subseteq AlertIds /\ Quarter \in Nat
  BY DaysInOrder DEF Severe, OpenAlerts, Raised
<1>5. older \cup {a} \subseteq old /\ a \notin older
  <2>1. ASSUME NEW b \in older PROVE b \in old
    BY <1>1, <1>2, <1>3, <1>4, AlertDays
  <2>2. a \in old
    BY <1>1, <1>2
  <2>3. ~ (Age(a) > Age(a))
    BY <1>1, AlertDays
  <2> QED BY <1>3, <2>1, <2>2, <2>3
<1>6. IsFiniteSet(old) /\ IsFiniteSet(older) /\ Cardinality(older) \in Nat
  BY <1>2, <1>3, <1>4, AlertsAreFinite
<1>7. Cardinality(older \cup {a}) = Cardinality(older) + 1
  BY <1>5, <1>6, FS_AddElement
<1>8. PICK more : more = older \cup {a}
  OBVIOUS
<1>9. Cardinality(more) <= Cardinality(old) /\ Cardinality(old) \in Nat
  BY <1>5, <1>6, <1>8, Fewer
<1>10. Cardinality(old) <= 10
  BY <1>2 DEF Count
<1>11. Cardinality(older) < 10
  BY <1>6, <1>7, <1>8, <1>9, <1>10
<1> QED BY <1>1, <1>3, <1>11 DEF OldestCritical, Count

\* A share in percent.
LEMMA Shares ==
  ASSUME NEW n \in Nat, NEW m \in Nat
  PROVE  Percent(n, m) \in Nat /\ (n <= m => Percent(n, m) \in 0..100)
<1>1. CASE m = 0
  BY <1>1 DEF Percent
<1>2. CASE m # 0
  <2>1. 100 * n \in Nat /\ m \in Nat \ {0}
    BY <1>2
  <2>2. (100 * n) \div m \in Nat
    BY <2>1, Quotients
  <2>3. ASSUME n <= m PROVE (100 * n) \div m \in 0..100
    <3>1. 100 * n <= m * 100
      BY <2>3
    <3> QED BY <2>1, <3>1, QuotientAtMost
  <2> QED BY <1>2, <2>2, <2>3 DEF Percent
<1> QED BY <1>1, <1>2

\* Without a silent repository, what covers a repository makes it a seen one.
LEMMA CoveredAreSeen ==
  ASSUME AllSeen, NEW f \in CoveredFeatures
  PROVE  /\ CoveredRepos(f) \subseteq SeenRepos
         /\ CoveredRepos(f) = SeenRepos \ {r \in DOMAIN Uncovered : f \in Uncovered[r]}
<1>1. ReposWithAlerts(f) \subseteq SeenRepos
  <2>1. CASE f \in Tools
    BY <2>1 DEF AllSeen
  <2>2. CASE f \notin Tools
    <3>1. {f} \cap Tools = {}
      BY <2>2
    <3> QED BY <3>1 DEF ReposWithAlerts, Raised
  <2> QED BY <2>1, <2>2
<1>2. CoveredRepos(f) \subseteq SeenRepos
  BY <1>1 DEF CoveredRepos, SeenRepos
<1>3. ASSUME NEW r \in SeenRepos
      PROVE  r \notin CoveredRepos(f) <=> r \in DOMAIN Uncovered /\ f \in Uncovered[r]
  BY DEF Uncovered
<1> QED BY <1>2, <1>3

LEMMA ScoreOnScale == ASSUME AlertsInv, AllSeen PROVE SecurityScore \in 0..100
<1>1. PICK seen \in Nat : seen = Count(SeenRepos)
  BY ReposAreFinite, FS_CardinalityType DEF Count
<1>2. CoverageScore \in 0..100
  <2>1. PICK p : p = [f \in CoveredFeatures |-> CoveragePct(f)]
    OBVIOUS
  <2>2. ASSUME NEW f \in CoveredFeatures PROVE p[f] \in 0..100
    <3>1. PICK covered, all : covered = CoveredRepos(f) /\ all = SeenRepos
      OBVIOUS
    <3>2. covered \in SUBSET all /\ IsFiniteSet(all)
      BY <3>1, CoveredAreSeen, ReposAreFinite
    <3>3. PICK n \in Nat : n = Cardinality(covered) /\ n <= seen
      BY <1>1, <3>1, <3>2, Fewer DEF Count
    <3>4. p[f] = Percent(n, seen)
      BY <1>1, <2>1, <3>1, <3>3 DEF CoveragePct, Count
    <3> QED BY <3>3, <3>4, Shares
  <2>3. PICK n : n = Total(p)
    OBVIOUS
  <2>4. n \in 0..500
    <3>1. DOMAIN p = CoveredFeatures
      BY <2>1
    <3>2. PICK k : k = Cardinality(CoveredFeatures)
      OBVIOUS
    <3>3. n \in 0..100 * k /\ k = 5
      BY <2>2, <2>3, <3>1, <3>2, NamesAreFinite, TotalAtMost
    <3> QED BY <3>3
  <2>5. n \div 5 \in 0..100
    BY <2>4, QuotientAtMost
  <2> QED BY <2>1, <2>3, <2>5, NamesAreFinite DEF CoverageScore, Count
<1>3. PICK now \in Nat, before \in Nat : now = MttrHours(CurrentMttr) /\ before = MttrHours(PreviousMttr)
  <2>1. ASSUME NEW day, NEW T \in SUBSET Tools, NEW a \in UNION {ClosedSince(t, day) : t \in T}
        PROVE  a \in AlertIds /\ raised[a].closed # NoDay
    BY DEF ClosedSince, ClosedFor, Raised
  <2>2. PICK S, R : /\ S = CurrentlyClosed(Tools)
                    /\ R = UNION {ClosedSince(t, today - 2 * Month) : t \in Tools}
    OBVIOUS
  <2>3. /\ S \in SUBSET AlertIds /\ \A a \in S : raised[a].closed # NoDay
        /\ R \in SUBSET AlertIds /\ \A a \in R : raised[a].closed # NoDay
    BY <2>1, <2>2 DEF CurrentlyClosed
  <2>4. CurrentMttr = Remediation(S) /\ PreviousMttr = Remediation(R \ S)
    BY <2>2 DEF CurrentMttr, PreviousMttr
  <2>5. MttrHours(CurrentMttr) \in Nat
    BY <2>3, <2>4, MeansAreTaken
  <2>6. PICK Q : Q = R \ S
    OBVIOUS
  <2>7. Q \in SUBSET AlertIds /\ \A a \in Q : raised[a].closed # NoDay
    BY <2>3, <2>6
  <2>8. MttrHours(PreviousMttr) \in Nat
    BY <2>4, <2>6, <2>7, MeansAreTaken
  <2> QED BY <2>5, <2>8
<1>4. MttrScore \in 0..100
  <2>1. 100 - (now - 72) \div 2 \in Int
    OBVIOUS
  <2> QED BY <1>3, <2>1, Clamped DEF MttrScore
<1>5. PICK open \in Nat : open = CurrentOpen
  BY AlertsAreFinite DEF CurrentOpen, OpenAlerts, Raised, Count
<1>6. VolumeScore \in 0..100
  <2>1. CASE SeenRepos = {}
    BY <2>1 DEF VolumeScore
  <2>2. CASE SeenRepos # {} /\ seen # 0
    <3>1. (200 * open) \div seen \in Nat
      BY <2>2, Quotients
    <3>2. PICK q \in Nat : q = (200 * open) \div seen
      BY <3>1
    <3>3. Clamp(100 - q) \in 0..100
      BY Clamped
    <3> QED BY <1>1, <1>5, <2>2, <3>2, <3>3 DEF VolumeScore
  <2>3. CASE SeenRepos # {} /\ seen = 0
    BY <1>1, <2>3, ReposAreFinite, FS_EmptySet DEF Count
  <2> QED BY <2>1, <2>2, <2>3
<1>7. AgingScore \in 0..100
  <2>1. PICK old \in Nat : old = OldAlerts
    <3>1. PICK A, B : /\ A = {a \in OpenAlerts(Tools) : Bucket(a) = "30-90d"}
                      /\ B = {a \in OpenAlerts(Tools) : Bucket(a) = ">90d"}
      OBVIOUS
    <3>2. Cardinality(A) \in Nat /\ Cardinality(B) \in Nat
      BY <3>1, AlertsAreFinite DEF OpenAlerts, Raised
    <3>3. OldAlerts = Cardinality(A) + Cardinality(B)
      BY <3>1 DEF OldAlerts, AgeBuckets, Count
    <3> QED BY <3>2, <3>3
  <2>2. PICK p \in Nat : p = Percent(old, open)
    BY Shares
  <2>3. 100 - (3 * p) \div 2 \in Int
    OBVIOUS
  <2> QED BY <1>5, <2>1, <2>2, <2>3, Clamped DEF AgingScore
<1>8. TrendScore \in 0..100
  <2>1. PICK d \in Int : d = TrendPct
    <3>1. before > 0 => (100 * (now - before)) \div before \in Int
      OBVIOUS
    <3> QED BY <1>3, <3>1 DEF TrendPct
  <2>2. PICK u \in Int, v \in Int, w \in Int : u = -50 /\ v = -d /\ w = 50
    OBVIOUS
  <2>3. PICK y \in Int : y = Max({u, v})
    <3>1. Max({u, v}) \in {u, v}
      BY OfTwo
    <3> QED BY <3>1
  <2>4. PICK z \in Int : z = Min({w, y})
    <3>1. Min({w, y}) \in {w, y}
      BY OfTwo
    <3> QED BY <3>1
  <2>5. TrendScore = Clamp(50 + z)
    BY <2>1, <2>2, <2>3, <2>4 DEF TrendScore
  <2> QED BY <2>5, Clamped
<1>9. PICK a, b, c, d, e : /\ a = CoverageScore /\ b = MttrScore /\ c = VolumeScore
                           /\ d = AgingScore /\ e = TrendScore
  OBVIOUS
<1>10. PICK n : n = 30 * a + 25 * b + 20 * c + 15 * d + 10 * e
  OBVIOUS
<1>11. n \in Nat /\ n <= 100 * 100
  BY <1>2, <1>4, <1>6, <1>7, <1>8, <1>9, <1>10
<1>12. n \div 100 \in 0..100
  BY <1>11, QuotientAtMost
<1> QED BY <1>9, <1>10, <1>12 DEF SecurityScore

LEMMA FiguresFollow == AlertsInv => FiguresAgree
<1> SUFFICES ASSUME AlertsInv PROVE FiguresAgree
  OBVIOUS
<1>1. \A t \in Tools : Total(Trend30(t)) = Count({a \in Raised({t}) : Age(a) < Month})
  BY TrendHoldsYoung
<1>2. Count({a \in Severe : Age(a) > Quarter}) <= 10 =>
        {a \in Of(OpenAlerts(Tools), "critical") : Age(a) > Quarter} \subseteq OldestCritical
  BY OldAreListed
<1>3. AllSeen => /\ SecurityScore \in 0..100
                 /\ \A f \in CoveredFeatures :
                      CoveredRepos(f) = SeenRepos \ {r \in DOMAIN Uncovered : f \in Uncovered[r]}
  BY ScoreOnScale, CoveredAreSeen
<1> QED
  BY <1>1, <1>2, <1>3, BucketsHoldAll, ToolsHoldAll, RangesHoldAll, ReposHoldAll, DaysByTool,
     ClosedBySeverity, ClosedByDay, ForecastFalls DEF FiguresAgree

\* Whatever alerts there are, the figures that health_signal_service.py derives from them
\* agree: what get_alert_aging, get_vulnerability_aging, get_unified_security_summary and
\* the *_health queries count of the same alerts is the same, get_mttr_trends divides the
\* alerts it takes the mean of without loss, and get_security_score stays within 0 and 100
\* when no repository is silent.
THEOREM FiguresAlwaysAgree == SpecAlerts => []FiguresAgree
<1>1. InitAlerts => AlertsInv
  BY AlertsStart
<1> QED BY <1>1, AlertStepKeeps, FiguresFollow, PTL DEF SpecAlerts
-----------------------------------------------------------------------------
(* AuditSignals *)

SignalsInv == stored \in Seq([kind : UNION Kinds, at : 0..LastTick]) /\ SignalsTypeOK

LEMMA SignalStepKeeps == ASSUME SignalsInv, [NextSignals]_signalVars PROVE SignalsInv'
<1> USE SignalsAssumption DEF SignalsInv, SignalsTypeOK
<1>1. ASSUME NEW k \in UNION Kinds, RowArrives(k) PROVE SignalsInv'
  <2> DEFINE x == [kind |-> k, at |-> tick]
             n == Len(stored)
  <2>1. x \in [kind : UNION Kinds, at : 0..LastTick] /\ x.at = tick /\ n \in Nat
    OBVIOUS
  <2>2. /\ stored' = Append(stored, x) /\ n < MaxRows /\ tick' = tick
        /\ stored' \in Seq([kind : UNION Kinds, at : 0..LastTick])
    BY <1>1, <2>1, AppendProperties DEF RowArrives
  <2>3. /\ Len(stored') = n + 1 /\ DOMAIN stored' = 1..n+1 /\ DOMAIN stored = 1..n
        /\ stored'[n + 1] = x /\ \A i \in 1..n : stored'[i] = stored[i]
    BY <2>1, <2>2, AppendProperties
  <2> HIDE DEF x
  <2>4. \A i \in DOMAIN stored' : stored'[i].at \in 0..tick
    BY <2>1, <2>3
  <2>5. ASSUME NEW i \in DOMAIN stored', NEW j \in DOMAIN stored', i < j
        PROVE  stored'[i].at <= stored'[j].at
    <3>1. i \in 1..n /\ j \in 1..n+1
      BY <2>1, <2>3, <2>5
    <3>2. CASE j = n + 1
      BY <2>1, <2>3, <3>1, <3>2
    <3>3. CASE j \in 1..n
      BY <2>3, <2>5, <3>1, <3>3
    <3> QED BY <2>1, <3>1, <3>2, <3>3
  <2> QED BY <2>1, <2>2, <2>3, <2>4, <2>5
<1>2. CASE TickPasses
  <2>1. stored' = stored /\ tick' = tick + 1 /\ tick < LastTick
    BY <1>2 DEF TickPasses
  <2> QED BY <2>1
<1>3. CASE UNCHANGED signalVars
  BY <1>3 DEF signalVars
<1> QED BY <1>1, <1>2, <1>3 DEF NextSignals

LEMMA SignalsStart == InitSignals => SignalsInv
BY SignalsAssumption DEF InitSignals, SignalsInv, SignalsTypeOK

\* The clock and the rows read by health_signal_service.py keep their types: what is
\* stored is in order of time, and not of the future.
THEOREM SignalsTyping == SpecSignals => []SignalsTypeOK
<1>1. InitSignals => SignalsInv
  BY SignalsStart
<1>2. SignalsInv => SignalsTypeOK
  BY DEF SignalsInv
<1> QED BY <1>1, <1>2, SignalStepKeeps, PTL DEF SpecSignals
-----------------------------------------------------------------------------
(* The answers of health_signal_service.py *)

LEMMA RowsAreFinite ==
  ASSUME SignalsInv, NEW S \in SUBSET DOMAIN stored
  PROVE  IsFiniteSet(S) /\ Cardinality(S) \in Nat /\ S \in SUBSET Nat
<1>1. PICK n \in Nat : DOMAIN stored = 1..n
  BY DEF SignalsInv
<1>2. IsFiniteSet(1..n)
  BY FS_Interval
<1> QED BY <1>1, <1>2, Fewer

LEMMA RowsAge ==
  ASSUME SignalsInv, NEW i \in DOMAIN stored
  PROVE  /\ tick \in Nat /\ tick <= LastTick /\ stored[i].at \in 0..tick
         /\ Aged(i) \in 0..tick /\ Aged(i) = tick - stored[i].at
BY SignalsAssumption DEF SignalsInv, SignalsTypeOK, Aged

LEMMA EventsAreRows ==
  /\ Events \in SUBSET DOMAIN stored
  /\ \A S, w : Within(S, w) \subseteq S
  /\ \A S : HasRepo(S) \subseteq S /\ HasActor(S) \subseteq S
  /\ \A actions : On(actions) \subseteq Events
  /\ \A S, o : OfOrg(S, o) \subseteq S
  /\ \A table : Rows(table) \in SUBSET DOMAIN stored
  /\ \A i \in Events : Org(i) \in Scope
BY DEF Events, Within, HasRepo, HasActor, On, OfOrg, Rows

\* What rows are about: finitely many repositories and actors.
LEMMA NamedAreFinite ==
  ASSUME SignalsInv, NEW S \in SUBSET DOMAIN stored
  PROVE  /\ IsFiniteSet(ReposOf(S)) /\ IsFiniteSet(ActorsOf(S))
         /\ IsFiniteSet({Workflow(i) : i \in S}) /\ IsFiniteSet({Actor(i) : i \in S})
         /\ IsFiniteSet({<<Actor(i), stored[i].at>> : i \in S})
<1>1. ASSUME NEW R \in SUBSET S, NEW g, NEW T, T = {g[i] : i \in R}, DOMAIN g = R
      PROVE  IsFiniteSet(T)
  <2>1. IsFiniteSet(R)
    BY RowsAreFinite
  <2>2. PICK h : h = [i \in R |-> g[i]]
    OBVIOUS
  <2>3. h \in Surjection(R, T)
    BY <1>1, <2>2 DEF Surjection
  <2> QED BY <2>1, <2>3, FS_Surjection
<1>2. PICK g : g = [i \in HasRepo(S) |-> Repo(i)]
  OBVIOUS
<1>3. IsFiniteSet(ReposOf(S))
  <2>1. ReposOf(S) = {g[i] : i \in HasRepo(S)}
    BY <1>2 DEF ReposOf
  <2>2. PICK R : R = HasRepo(S)
    OBVIOUS
  <2>3. R \in SUBSET S /\ DOMAIN g = R
    BY <1>2, <2>2 DEF HasRepo
  <2> QED BY <1>1, <2>1, <2>2, <2>3
<1>4. PICK h : h = [i \in HasActor(S) |-> Actor(i)]
  OBVIOUS
<1>5. IsFiniteSet(ActorsOf(S))
  <2>1. ActorsOf(S) = {h[i] : i \in HasActor(S)}
    BY <1>4 DEF ActorsOf
  <2>2. PICK R : R = HasActor(S)
    OBVIOUS
  <2>3. R \in SUBSET S /\ DOMAIN h = R
    BY <1>4, <2>2 DEF HasActor
  <2> QED BY <1>1, <2>1, <2>2, <2>3
<1>6. PICK k : k = [i \in S |-> Workflow(i)]
  OBVIOUS
<1>7. IsFiniteSet({Workflow(i) : i \in S})
  <2>1. {Workflow(i) : i \in S} = {k[i] : i \in S}
    BY <1>6
  <2> QED BY <1>1, <1>6, <2>1
<1>8. PICK l : l = [i \in S |-> Actor(i)]
  OBVIOUS
<1>9. IsFiniteSet({Actor(i) : i \in S})
  <2>1. {Actor(i) : i \in S} = {l[i] : i \in S}
    BY <1>8
  <2> QED BY <1>1, <1>8, <2>1
<1>10. PICK m : m = [i \in S |-> <<Actor(i), stored[i].at>>]
  OBVIOUS
<1>11. IsFiniteSet({<<Actor(i), stored[i].at>> : i \in S})
  <2>1. {<<Actor(i), stored[i].at>> : i \in S} = {m[i] : i \in S}
    BY <1>10
  <2> QED BY <1>1, <1>10, <2>1
<1> QED BY <1>3, <1>5, <1>7, <1>9, <1>11

\* Idle since the last of some rows.
LEMMA IdleSince ==
  ASSUME SignalsInv, NEW S \in SUBSET DOMAIN stored, S # {}
  PROVE  /\ IdleFor(S) \in 0..LastTick /\ IdleFor(S) \in Nat
         /\ \A i \in S : IdleFor(S) <= Aged(i)
         /\ \E i \in S : IdleFor(S) = Aged(i)
<1>1. PICK T : T = {stored[i].at : i \in S}
  OBVIOUS
<1>2. tick \in Nat /\ tick <= LastTick /\ \A i \in S : stored[i].at \in 0..tick
  BY RowsAge
<1>3. T \in SUBSET Int /\ T # {} /\ \A y \in T : y <= tick
  BY <1>1, <1>2
<1>4. PICK x \in T : TRUE
  BY <1>3
<1>5. Max(T) \in T /\ \A y \in T : Max(T) >= y
  <2>1. PICK n \in Int : n = tick
    BY <1>2
  <2>2. \A y \in T : y <= n
    BY <1>3, <2>1
  <2>3. T \in SUBSET Int
    BY <1>3
  <2> QED BY <1>4, <2>2, <2>3, GreatestExists
<1>6. PICK i \in S : Max(T) = stored[i].at
  BY <1>1, <1>5
<1>7. IdleFor(S) = tick - stored[i].at
  BY <1>1, <1>6 DEF IdleFor
<1>8. \A j \in S : stored[j].at <= stored[i].at
  BY <1>1, <1>5, <1>6
<1> QED BY <1>2, <1>7, <1>8, RowsAge, SignalsAssumption

\* The action of the last of some rows is an action of theirs.
LEMMA LastIsOne ==
  ASSUME SignalsInv, NEW S \in SUBSET DOMAIN stored
  PROVE  IF S = {} THEN LastAction(S) = "none"
         ELSE \E i \in S : LastAction(S) = Action(i)
<1>1. CASE S = {}
  BY <1>1 DEF LastAction
<1>2. CASE S # {}
  <2>1. PICK n \in Nat : DOMAIN stored = 1..n
    BY DEF SignalsInv
  <2>2. PICK x \in S : TRUE
    BY <1>2
  <2>3. S \in SUBSET Int /\ \A y \in S : y <= n
    BY <2>1
  <2>4. Max(S) \in S
    BY <2>2, <2>3, GreatestExists
  <2> QED BY <1>2, <2>4 DEF LastAction
<1> QED BY <1>1, <1>2

LEMMA SumIsTotal == \A f : SumOver(f) = Total(f)
BY DEF SumOver, Total
-----------------------------------------------------------------------------
(* Repositories and actors by their last event *)

LEMMA SeenAreIdle ==
  ASSUME SignalsInv
  PROVE  /\ IsFiniteSet(SeenRepositories) /\ IsFiniteSet(SeenActors)
         /\ \A r \in SeenRepositories : RepoIdle(r) \in 0..LastTick
         /\ \A a \in SeenActors : ActorIdle(a) \in 0..LastTick
<1>1. Within(Events, D730) \in SUBSET DOMAIN stored /\ Within(Events, D365) \in SUBSET DOMAIN stored
  BY EventsAreRows
<1>2. IsFiniteSet(SeenRepositories) /\ IsFiniteSet(SeenActors)
  BY <1>1, NamedAreFinite DEF SeenRepositories, SeenActors
<1>3. ASSUME NEW r \in SeenRepositories PROVE RepoIdle(r) \in 0..LastTick
  <2>1. PICK S : S = {i \in Events : Repo(i) = r}
    OBVIOUS
  <2>2. S # {} /\ S \in SUBSET DOMAIN stored
    BY <2>1, EventsAreRows DEF SeenRepositories, ReposOf, HasRepo, Within
  <2> QED BY <2>1, <2>2, IdleSince DEF RepoIdle
<1>4. ASSUME NEW a \in SeenActors PROVE ActorIdle(a) \in 0..LastTick
  <2>1. PICK S : S = {i \in Within(Events, D365) : Actor(i) = a}
    OBVIOUS
  <2>2. S # {} /\ S \in SUBSET DOMAIN stored
    BY <2>1, <1>1 DEF SeenActors, ActorsOf, HasActor
  <2> QED BY <2>1, <2>2, IdleSince DEF ActorIdle
<1> QED BY <1>2, <1>3, <1>4

LEMMA IdleRepositoriesAgree ==
  ASSUME SignalsInv
  PROVE  /\ N(IdleRepositories(D180..LastTick)) + N(IdleRepositories(D90..D180 - 1))
              = HealthSummary.stale_repos
         /\ IdleRepositories(D180..LastTick) = Maintenance.stale
<1>1. D90 \in Nat /\ D180 \in Nat /\ D90 < D180 /\ LastTick \in Nat
  BY WindowsInOrder, SignalsAssumption
<1>2. PICK S, A, B : /\ S = StaleRepositories(D90)
                     /\ A = IdleRepositories(D180..LastTick)
                     /\ B = IdleRepositories(D90..D180 - 1)
  OBVIOUS
<1>3. ASSUME NEW r \in SeenRepositories
      PROVE  /\ RepoIdle(r) >= D90 <=> (RepoIdle(r) \in D180..LastTick
                                          \/ RepoIdle(r) \in D90..D180 - 1)
             /\ ~ (RepoIdle(r) \in D180..LastTick /\ RepoIdle(r) \in D90..D180 - 1)
             /\ RepoIdle(r) >= D180 <=> RepoIdle(r) \in D180..LastTick
  <2>1. PICK d \in 0..LastTick : d = RepoIdle(r)
    BY SeenAreIdle
  <2> QED BY <1>1, <2>1
<1>4. A \cup B = S /\ A \cap B = {} /\ A = StaleRepositories(D180)
  BY <1>2, <1>3 DEF StaleRepositories, IdleRepositories
<1>5. IsFiniteSet(S)
  BY <1>2, SeenAreIdle, FS_Subset DEF StaleRepositories
<1>6. Cardinality(S) = Cardinality(A) + Cardinality(B)
  BY <1>4, <1>5, Halves
<1> QED BY <1>2, <1>4, <1>6 DEF HealthSummary, Maintenance, N

LEMMA IdleActorsAgree ==
  ASSUME SignalsInv
  PROVE  {a \in IdleActors(D90..LastTick) : ActorIdle(a) # D90} = DOMAIN DormantUsers(D90)
<1>1. D90 \in Nat /\ D365 \in Nat /\ D90 <= D365 /\ LastTick \in Nat
  BY WindowsInOrder, SignalsAssumption
<1>2. DOMAIN DormantUsers(D90) = SeenActors \ ActorsOf(Within(Events, D90))
  BY DEF DormantUsers, GhostMembers
<1>3. ASSUME NEW a \in SeenActors
      PROVE  ActorIdle(a) \in D90..LastTick /\ ActorIdle(a) # D90
               <=> a \notin ActorsOf(Within(Events, D90))
  <2>1. PICK S : S = {i \in Within(Events, D365) : Actor(i) = a}
    OBVIOUS
  <2>2. S # {} /\ S \in SUBSET DOMAIN stored /\ a # ""
    BY <2>1, EventsAreRows DEF SeenActors, ActorsOf, HasActor
  <2>3. PICK d \in 0..LastTick : d = ActorIdle(a)
    BY SeenAreIdle
  <2>4. (\A i \in S : d <= Aged(i)) /\ (\E i \in S : d = Aged(i))
    BY <2>1, <2>2, <2>3, IdleSince DEF ActorIdle
  <2>5. ASSUME NEW i \in S PROVE Aged(i) \in Nat
    <3>1. i \in DOMAIN stored
      BY <2>2
    <3>2. Aged(i) \in 0..tick /\ tick \in Nat
      BY <3>1, RowsAge
    <3> QED BY <3>2
  <2>6. ASSUME d > D90, a \in ActorsOf(Within(Events, D90)) PROVE FALSE
    <3>1. PICK i \in Within(Events, D90) : Actor(i) = a
      BY <2>6 DEF ActorsOf, HasActor
    <3>2. i \in Events /\ Aged(i) <= D90 /\ Aged(i) \in Nat
      BY <3>1, EventsAreRows, RowsAge DEF Within
    <3>3. i \in S
      BY <1>1, <2>1, <3>1, <3>2 DEF Within
    <3> QED BY <1>1, <2>4, <2>6, <3>2, <3>3
  <2>7. ASSUME d <= D90 PROVE a \in ActorsOf(Within(Events, D90))
    <3>1. PICK i \in S : d = Aged(i)
      BY <2>4
    <3>2. i \in Within(Events, D90) /\ Actor(i) = a
      BY <2>1, <2>7, <3>1 DEF Within
    <3> QED BY <2>2, <3>2 DEF ActorsOf, HasActor
  <2> QED BY <1>1, <2>3, <2>6, <2>7
<1> QED BY <1>2, <1>3 DEF IdleActors
-----------------------------------------------------------------------------
(* Settings *)

LEMMA SettingsAreFinite == IsFiniteSet(Settings)
<1>1. IsFiniteSet({"sso", "two_fa", "streaming", "ip_allowlist"} \cup {"branch_protection"})
  BY FourAreFinite, FS_AddElement
<1>2. Settings = {"sso", "two_fa", "streaming", "ip_allowlist"} \cup {"branch_protection"}
  BY DEF Settings
<1> QED BY <1>1, <1>2

LEMMA SsoIsASetting == \A o : "sso" \in SettingsOn(o) <=> Sso(o) = "org.enable_saml"
<1> TAKE o
<1>1. HasSetting(o)["sso"] = (Sso(o) = "org.enable_saml")
  BY DEF HasSetting
<1> QED BY <1>1 DEF SettingsOn, Settings

\* The settings the score misses are those that platform security recommends.
LEMMA MissingAgree ==
  ASSUME SignalsInv
  PROVE  N(WithoutSso) + SumOver([o \in Scope |-> N(Missing(o))])
           = LET platform == PlatformSecurity IN
             SumOver([o \in Scope |-> N(platform[o].recommendations)])
<1>1. PICK f, g : /\ f = [o \in Scope |-> N(PlatformSecurity[o].recommendations)]
                  /\ g = [o \in Scope |-> N(Missing(o))]
  OBVIOUS
<1>2. PICK W : W = WithoutSso
  OBVIOUS
<1>3. ASSUME NEW o \in Scope
      PROVE  g[o] \in Nat /\ f[o] = g[o] + IF o \in W THEN 1 ELSE 0
  <2>1. PICK A, B : A = Settings \ SettingsOn(o) /\ B = Missing(o)
    OBVIOUS
  <2>2. f[o] = Cardinality(A) /\ g[o] = Cardinality(B)
    BY <1>1, <2>1 DEF PlatformSecurity, N
  <2>3. IsFiniteSet(B) /\ Cardinality(B) \in Nat
    BY <2>1, SettingsAreFinite, Fewer DEF Missing
  <2>4. o \in W <=> "sso" \notin SettingsOn(o)
    BY <1>2, SsoIsASetting DEF WithoutSso, HasSetting
  <2>5. CASE o \in W
    <3>1. A = B \cup {"sso"} /\ "sso" \notin B
      BY <2>1, <2>4, <2>5 DEF Missing, Settings
    <3>2. Cardinality(A) = Cardinality(B) + 1
      BY <2>3, <3>1, FS_AddElement
    <3> QED BY <2>2, <2>3, <2>5, <3>2
  <2>6. CASE o \notin W
    <3>1. A = B
      BY <2>1, <2>4, <2>6 DEF Missing
    <3> QED BY <2>2, <2>3, <2>6, <3>1
  <2> QED BY <2>5, <2>6
<1>4. W \in SUBSET Scope /\ DOMAIN f = Scope /\ DOMAIN g = Scope
  BY <1>1, <1>2 DEF WithoutSso
<1>5. Total(f) = Total(g) + Cardinality(W)
  BY <1>3, <1>4, SignalsAssumption, TotalAndOnes
<1>6. Total(g) \in Nat
  BY <1>3, <1>4, SignalsAssumption, TotalIsNat
<1>7. Cardinality(W) \in Nat
  BY <1>4, SignalsAssumption, Fewer
<1> QED BY <1>1, <1>2, <1>5, <1>6, <1>7, SumIsTotal DEF N
-----------------------------------------------------------------------------
(* The score *)

LEMMA CountsAreNumbers ==
  ASSUME SignalsInv
  PROVE  CriticalCount \in Nat /\ HighCount \in Nat /\ MediumCount \in Nat /\ LowCount \in Nat
<1>1. ASSUME NEW S, IsFiniteSet(S) PROVE N(S) \in Nat
  BY <1>1, FS_CardinalityType DEF N
<1>2. ASSUME NEW days PROVE N(IdleRepositories(days)) \in Nat /\ N(IdleActors(days)) \in Nat
  <2>1. IsFiniteSet(IdleRepositories(days)) /\ IsFiniteSet(IdleActors(days))
    BY SeenAreIdle, FS_Subset DEF IdleRepositories, IdleActors
  <2> QED BY <1>1, <2>1
<1>3. ASSUME NEW S \in SUBSET DOMAIN stored PROVE N(S) \in Nat
  BY RowsAreFinite DEF N
<1>4. CriticalCount \in Nat
  <2>1. N(WithoutSso) \in Nat
    BY SignalsAssumption, Fewer DEF WithoutSso, N
  <2>2. PICK S : S = HasActor(Within(On({"rate_limit.exceeded"}), H24))
    OBVIOUS
  <2>3. S \in SUBSET DOMAIN stored
    BY <2>2, EventsAreRows
  <2>4. RateLimited = {<<Actor(i), stored[i].at>> : i \in S}
    BY <2>2 DEF RateLimited
  <2>5. N(RateLimited) \in Nat
    BY <1>1, <2>3, <2>4, NamedAreFinite
  <2> QED BY <2>1, <2>5 DEF CriticalCount
<1>5. HighCount \in Nat
  <2>1. BypassEvents \in SUBSET DOMAIN stored
    BY EventsAreRows DEF BypassEvents
  <2>2. N(ActorsOf(BypassEvents)) \in Nat
    BY <1>1, <2>1, NamedAreFinite
  <2>3. {i \in On(NewToken) : NeverExpires(i)} \in SUBSET DOMAIN stored
    BY EventsAreRows
  <2>4. N({i \in On(NewToken) : NeverExpires(i)}) \in Nat
    BY <1>3, <2>3
  <2> QED BY <1>2, <2>2, <2>4 DEF HighCount
<1>6. MediumCount \in Nat
  <2>1. PICK g : g = [o \in Scope |-> N(Missing(o))]
    OBVIOUS
  <2>2. ASSUME NEW o \in Scope PROVE g[o] \in Nat
    <3>1. IsFiniteSet(Missing(o))
      BY SettingsAreFinite, FS_Subset DEF Missing
    <3> QED BY <1>1, <2>1, <3>1
  <2>3. Total(g) \in Nat
    BY <2>1, <2>2, SignalsAssumption, TotalIsNat
  <2> QED BY <1>2, <2>1, <2>3, SumIsTotal DEF MediumCount
<1>7. LowCount \in Nat
  <2>1. StaleOpenings \in SUBSET DOMAIN stored /\ ForksWithoutPush \in SUBSET DOMAIN stored
    BY EventsAreRows DEF StaleOpenings, NeverClosed, Openings, ForksWithoutPush, Forks
  <2>2. PICK S : S = HasRepo(Within(Events, D180))
    OBVIOUS
  <2>3. S \in SUBSET DOMAIN stored
    BY <2>2, EventsAreRows
  <2>4. ArchiveCandidates \subseteq ReposOf(S)
    BY <2>2 DEF ArchiveCandidates
  <2>5. IsFiniteSet(ArchiveCandidates)
    BY <2>3, <2>4, NamedAreFinite, FS_Subset
  <2> QED BY <1>1, <1>3, <2>1, <2>5 DEF LowCount
<1> QED BY <1>4, <1>5, <1>6, <1>7

\* The best grade leaves room for one critical signal, or for two of high severity.
LEMMA BestGrade == ASSUME SignalsInv, Grade = "A" PROVE CriticalCount <= 1 /\ HighCount <= 2
<1>1. PICK c \in Nat, h \in Nat, m \in Nat, l \in Nat :
        c = CriticalCount /\ h = HighCount /\ m = MediumCount /\ l = LowCount
  BY CountsAreNumbers
<1>2. PICK all \in Int, zero \in Int, x \in Int :
        all = 100 /\ zero = 0 /\ x = 100 - 10 * c - 5 * h - 2 * m - l
  OBVIOUS
<1>3. PICK y \in Int : y = Min({all, x}) /\ y <= x
  <2>1. Min({all, x}) \in {all, x} /\ Min({all, x}) <= x
    BY OfTwo
  <2> QED BY <2>1
<1>4. PICK z \in Int : z = Max({zero, y}) /\ z \in {zero, y}
  <2>1. Max({zero, y}) \in {zero, y}
    BY OfTwo
  <2> QED BY <2>1
<1>5. HealthScore = z
  BY <1>1, <1>2, <1>3, <1>4 DEF HealthScore
<1>6. z >= 90
  BY <1>5 DEF Grade
<1>7. x >= 90
  BY <1>2, <1>3, <1>4, <1>6
<1> QED BY <1>1, <1>2, <1>7

LEMMA ScoreFollows == ASSUME SignalsInv PROVE ScoreAgrees
<1>1. DOMAIN BypassOffenders = ActorsOf(BypassEvents) \ Bots
  BY DEF BypassOffenders
<1>2. AbandonedForks \subseteq ForksWithoutPush
  BY DEF AbandonedForks, ForksWithoutPush
<1>3. StalePrs(D30) \subseteq StaleOpenings
  <2>1. ASSUME NEW i \in StalePrs(D30) PROVE i \in NeverClosed /\ Aged(i) >= D30
    <3>1. i \in NeverClosed /\ Aged(i) > D30 /\ i \in DOMAIN stored
      BY EventsAreRows DEF StalePrs, NeverClosed, Openings
    <3>2. Aged(i) \in 0..tick /\ tick \in Nat /\ D30 \in Nat
      BY <3>1, RowsAge, WindowsInOrder
    <3> QED BY <3>1, <3>2
  <2> QED BY <2>1 DEF StaleOpenings
<1>4. HealthSummary.pat_no_expiry <= N({i \in On(NewToken) : NeverExpires(i)})
  <2>1. PICK A, B : /\ A = {i \in NewTokens : NeverExpires(i)}
                    /\ B = {i \in On(NewToken) : NeverExpires(i)}
    OBVIOUS
  <2>2. A \in SUBSET B /\ B \in SUBSET DOMAIN stored
    BY <2>1, EventsAreRows DEF NewTokens
  <2>3. Cardinality(A) <= Cardinality(B)
    BY <2>2, RowsAreFinite, Fewer
  <2> QED BY <2>1, <2>3 DEF HealthSummary, PatCounts, N
<1>5. Grade = "A" => CriticalCount <= 1 /\ HighCount <= 2
  BY BestGrade
<1> QED BY <1>1, <1>2, <1>3, <1>4, <1>5, IdleRepositoriesAgree, IdleActorsAgree, MissingAgree
    DEF ScoreAgrees
-----------------------------------------------------------------------------
(* The lists *)

LEMMA TokensAgree ==
  ASSUME SignalsInv
  PROVE  /\ HealthSummary.pat_no_expiry = PatCounts.no_expiry
         /\ N({i \in ListedTokens : TokenSignal(i) = "expired"}) = PatCounts.expired
         /\ N({i \in ListedTokens : TokenSignal(i) \in {"stale_90d", "no_expiry"}})
              <= PatCounts.no_expiry
<1>1. HealthSummary.pat_no_expiry = PatCounts.no_expiry
  BY DEF HealthSummary
<1>2. ASSUME NEW i \in NewTokens
      PROVE  /\ TokenSignal(i) = "expired" <=> Expired(i)
             /\ TokenSignal(i) \in {"stale_90d", "no_expiry"} => NeverExpires(i)
  <2>1. i \in DOMAIN stored
    BY EventsAreRows DEF NewTokens
  <2>2. PICK n \in Nat : n = Aged(i)
    BY <2>1, RowsAge
  <2>3. D90 \in Nat
    BY WindowsInOrder
  <2> QED BY <2>2, <2>3 DEF TokenSignal
<1>3. N({i \in ListedTokens : TokenSignal(i) = "expired"}) = PatCounts.expired
  <2>1. {i \in ListedTokens : TokenSignal(i) = "expired"} = {i \in NewTokens : Expired(i)}
    BY <1>2 DEF ListedTokens
  <2> QED BY <2>1 DEF PatCounts
<1>4. N({i \in ListedTokens : TokenSignal(i) \in {"stale_90d", "no_expiry"}})
        <= PatCounts.no_expiry
  <2>1. PICK A, B : /\ A = {i \in ListedTokens : TokenSignal(i) \in {"stale_90d", "no_expiry"}}
                    /\ B = {i \in NewTokens : NeverExpires(i)}
    OBVIOUS
  <2>2. A \in SUBSET B
    BY <1>2, <2>1 DEF ListedTokens
  <2>3. B \in SUBSET DOMAIN stored
    BY <2>1, EventsAreRows DEF NewTokens
  <2>4. Cardinality(A) <= Cardinality(B)
    BY <2>2, <2>3, RowsAreFinite, Fewer
  <2> QED BY <2>1, <2>4 DEF PatCounts, N
<1> QED BY <1>1, <1>3, <1>4

LEMMA CollaboratorsAgree ==
  ASSUME SignalsInv
  PROVE  /\ CollaboratorSummary.total_active = N(ExternalCollaborators)
         /\ CollaboratorSummary.dormant # 0 =>
              CollaboratorSummary.dormant = N(DormantCollaborators)
<1>1. CASE Joined # {}
  <2>1. N({}) = 0
    BY FS_EmptySet DEF N
  <2>2. CollaboratorSummary.dormant = N(DormantRows)
    BY <1>1 DEF CollaboratorSummary
  <2>3. CollaboratorSummary.dormant # 0 => DormantRows # {}
    BY <2>1, <2>2
  <2> QED BY <1>1, <2>2, <2>3 DEF CollaboratorSummary, ExternalCollaborators, DormantCollaborators
<1>2. CASE Joined = {}
  BY <1>2 DEF CollaboratorSummary, ExternalCollaborators
<1> QED BY <1>1, <1>2

LEMMA SsoAgrees ==
  ASSUME SignalsInv, NEW o \in Scope
  PROVE  SsoHealth[o] = "enabled" <=> "sso" \in PlatformSecurity[o].on
<1>1. PICK S : S = OfOrg(On({"org.enable_saml", "org.disable_saml"}), o)
  OBVIOUS
<1>2. S \in SUBSET DOMAIN stored
  BY <1>1, EventsAreRows
<1>3. \A i \in S : Action(i) \in {"org.enable_saml", "org.disable_saml"}
  BY <1>1 DEF OfOrg, On
<1>4. Sso(o) = LastAction(S)
  BY <1>1 DEF Sso, LastOn
<1>5. Sso(o) \in {"none", "org.enable_saml", "org.disable_saml"}
  BY <1>2, <1>3, <1>4, LastIsOne
<1>6. SsoHealth[o] = "enabled" <=> Sso(o) = "org.enable_saml"
  BY <1>5 DEF SsoHealth
<1>7. PlatformSecurity[o].on = SettingsOn(o)
  BY DEF PlatformSecurity
<1> QED BY <1>6, <1>7, SsoIsASetting

LEMMA BypassesAgree ==
  ASSUME SignalsInv, WafPushProtection.status = "pass", NEW a \in DOMAIN BypassOffenders
  PROVE  BypassOffenders[a].push = 0
<1>1. PICK S : S = Within(On({"secret_scanning.push_protection.bypass"}), D90)
  OBVIOUS
<1>2. S \in SUBSET DOMAIN stored
  BY <1>1, EventsAreRows
<1>3. IsFiniteSet(S) /\ Cardinality(S) \in Nat
  BY <1>2, RowsAreFinite
<1>4. ~ (Cardinality(S) > 0)
  BY <1>1 DEF WafPushProtection, Recent, N, Tally, Finding
<1>5. S = {}
  BY <1>3, <1>4, FS_EmptySet
<1>6. PICK P : P = {i \in {j \in BypassEvents : Actor(j) = a} :
                      Action(i) = "secret_scanning.push_protection.bypass"}
  OBVIOUS
<1>7. P \subseteq S
  BY <1>1, <1>6 DEF BypassEvents, HasActor, Within, On
<1>8. Cardinality(P) = 0
  BY <1>5, <1>7, FS_EmptySet
<1> QED BY <1>6, <1>8 DEF BypassOffenders, Offender, N

LEMMA FailuresHaveCause ==
  ASSUME SignalsInv, WafBranchProtection.status = "fail"
  PROVE  Within(On({"protected_branch.destroy", "protected_branch.policy_override"}), D90) # {}
<1>1. PICK S, T :
        /\ S = Within(On({"protected_branch.destroy", "protected_branch.policy_override"}), D90)
        /\ T = Within(On({"protected_branch.create"}), D90)
  OBVIOUS
<1>2. Cardinality(S) > Cardinality(T)
  BY <1>1 DEF WafBranchProtection, Recent, N, Tally, Finding
<1>3. T \in SUBSET DOMAIN stored
  BY <1>1, EventsAreRows
<1>4. Cardinality(T) \in Nat
  BY <1>3, RowsAreFinite
<1>5. Cardinality(S) # 0
  BY <1>2, <1>4
<1> QED BY <1>1, <1>5, FS_EmptySet

LEMMA WebhooksAgree ==
  ASSUME SignalsInv
  PROVE  SumOver([o \in Scope |-> WebhookActivity(o)["hook.create"]]) <= WafWebhooks.count
<1>1. PICK S, C, D : /\ S = Within(On({"hook.create"}), D30)
                     /\ C = Within(On({"hook.create"}), D90)
                     /\ D = Within(On({"hook.destroy"}), D90)
  OBVIOUS
<1>2. S \in SUBSET C /\ C \in SUBSET DOMAIN stored /\ D \in SUBSET DOMAIN stored
  <2>1. C \in SUBSET DOMAIN stored /\ D \in SUBSET DOMAIN stored /\ S \subseteq DOMAIN stored
    BY <1>1, EventsAreRows
  <2>2. ASSUME NEW i \in S PROVE i \in C
    <3>1. Aged(i) \in 0..tick /\ tick \in Nat
      BY <2>1, RowsAge
    <3>2. D30 \in Nat /\ D90 \in Nat /\ D30 <= D90
      BY WindowsInOrder
    <3> QED BY <1>1, <3>1, <3>2 DEF Within
  <2> QED BY <2>1, <2>2
<1>3. /\ IsFiniteSet(S) /\ Cardinality(S) \in Nat /\ Cardinality(S) <= Cardinality(C)
      /\ Cardinality(C) \in Nat /\ Cardinality(D) \in Nat
  BY <1>2, RowsAreFinite, Fewer
<1>4. PICK f, key : /\ f = [o \in Scope |-> WebhookActivity(o)["hook.create"]]
                    /\ key = [i \in S |-> Org(i)]
  OBVIOUS
<1>5. \A i \in S : key[i] \in Scope
  BY <1>1, <1>4, EventsAreRows
<1>6. ASSUME NEW o \in Scope PROVE f[o] = Cardinality({i \in S : key[i] = o})
  <2>1. {i \in S : key[i] = o} = Within(OfOrg(On({"hook.create"}), o), D30)
    BY <1>1, <1>4 DEF Within, OfOrg
  <2>2. f[o] = Cardinality(Within(OfOrg(On({"hook.create"}), o), D30))
    BY <1>4 DEF WebhookActivity, Counted, N
  <2> QED BY <2>1, <2>2
<1>7. DOMAIN f = Scope
  BY <1>4
<1>8. Total(f) = Cardinality(S)
  BY <1>3, <1>5, <1>6, <1>7, SignalsAssumption, CountedByKey
<1>9. WafWebhooks.count = Cardinality(D) + Cardinality(C)
  BY <1>1 DEF WafWebhooks, Recent, Tally, Finding, N
<1>10. Total(f) <= WafWebhooks.count
  BY <1>3, <1>8, <1>9
<1> QED BY <1>4, <1>10, SumIsTotal

LEMMA FailedRunsAgree ==
  ASSUME SignalsInv
  PROVE  LET health == WorkflowHealth IN SumOver([w \in DOMAIN health |-> health[w].failures])
           <= N({i \in Runs : Failed(i)})
<1>1. PICK K : K = DOMAIN WorkflowHealth
  OBVIOUS
<1>2. PICK f : f = [w \in K |-> WorkflowHealth[w].failures]
  OBVIOUS
<1>3. PICK F, S, key : /\ F = {i \in Runs : Failed(i)}
                       /\ S = {i \in F : Workflow(i) \in K}
                       /\ key = [i \in S |-> Workflow(i)]
  OBVIOUS
<1>4. Runs \in SUBSET DOMAIN stored
  BY EventsAreRows DEF Runs
<1>5. K \subseteq {Workflow(i) : i \in Runs}
  BY <1>1 DEF WorkflowHealth
<1>6. IsFiniteSet(K)
  BY <1>4, <1>5, NamedAreFinite, FS_Subset
<1>7. F \in SUBSET DOMAIN stored /\ S \in SUBSET F
  BY <1>3, <1>4
<1>8. IsFiniteSet(F) /\ IsFiniteSet(S) /\ Cardinality(S) <= Cardinality(F)
  BY <1>7, RowsAreFinite, Fewer
<1>9. \A i \in S : key[i] \in K
  BY <1>3
<1>10. ASSUME NEW w \in K PROVE f[w] = Cardinality({i \in S : key[i] = w})
  <2>1. {i \in S : key[i] = w} = {i \in {j \in Runs : Workflow(j) = w} : Failed(i)}
    BY <1>3
  <2>2. f[w] = Cardinality({i \in {j \in Runs : Workflow(j) = w} : Failed(i)})
    BY <1>1, <1>2 DEF WorkflowHealth, N
  <2> QED BY <2>1, <2>2
<1>11. DOMAIN f = K
  BY <1>2
<1>12. Total(f) = Cardinality(S)
  BY <1>6, <1>8, <1>9, <1>10, <1>11, CountedByKey
<1> QED BY <1>1, <1>2, <1>3, <1>8, <1>12, SumIsTotal DEF N

\* More than three times the average takes four actors.
LEMMA ClonesTakeFour == ASSUME SignalsInv, WafClones.status = "warning" PROVE WafClones.count > 3
<1>1. PICK S : S = Within(On({"git.clone"}), D30)
  OBVIOUS
<1>2. S \in SUBSET DOMAIN stored
  BY <1>1, EventsAreRows
<1>3. DOMAIN Cloners = {Actor(i) : i \in S}
  BY <1>1 DEF Cloners
<1>4. PICK c \in Nat, t \in Nat : c = Cardinality(DOMAIN Cloners) /\ t = Cardinality(S)
  <2>1. IsFiniteSet(DOMAIN Cloners)
    BY <1>2, <1>3, NamedAreFinite
  <2> QED BY <1>2, <2>1, RowsAreFinite, FS_CardinalityType
<1>5. PICK a \in DOMAIN Cloners : Cloners[a] * c > 3 * t
  BY <1>1, <1>4 DEF WafClones, Tally, Finding, N
<1>6. PICK n \in Nat : n = Cloners[a] /\ n <= t
  <2>1. PICK A : A = {i \in S : Actor(i) = a}
    OBVIOUS
  <2>2. A \in SUBSET S
    BY <2>1
  <2>3. Cardinality(A) \in Nat /\ Cardinality(A) <= Cardinality(S)
    BY <1>2, <2>2, RowsAreFinite, Fewer
  <2>4. Cloners[a] = Cardinality(A)
    BY <1>1, <1>5, <2>1 DEF Cloners, N
  <2> QED BY <1>4, <2>3, <2>4
<1>7. ASSUME c <= 3 PROVE FALSE
  <2>1. c \in {0, 1, 2, 3}
    BY <1>7
  <2>2. n * c <= 3 * n
    BY <2>1
  <2> QED BY <1>5, <1>6, <2>2
<1>8. WafClones.count = c
  BY <1>4 DEF WafClones, Tally, Finding, N
<1> QED BY <1>7, <1>8

LEMMA CoverageAgrees ==
  ASSUME SignalsInv, NEW o
  PROVE  SecurityCoverage(o).secret_scanning <= SecurityCoverage(o).total
<1>1. PICK S : S = OfOrg(FeatureEvents, o)
  OBVIOUS
<1>2. S \in SUBSET DOMAIN stored
  BY <1>1, EventsAreRows DEF FeatureEvents
<1>3. PICK R, C : /\ R = ReposOf(S)
                  /\ C = {r \in R : FeatureState(r, "secret_scanning") = "enabled"}
  OBVIOUS
<1>4. Cardinality(C) <= Cardinality(R)
  BY <1>2, <1>3, NamedAreFinite, Fewer
<1> QED BY <1>1, <1>3, <1>4 DEF SecurityCoverage, N

LEMMA ListsFollow == ASSUME SignalsInv PROVE ListsAgree
<1>1. PatSummary = PatCounts =>
        /\ HealthSummary.pat_no_expiry = PatSummary.no_expiry
        /\ N({i \in ListedTokens : TokenSignal(i) = "expired"}) = PatSummary.expired
        /\ N({i \in ListedTokens : TokenSignal(i) \in {"stale_90d", "no_expiry"}})
             <= PatSummary.no_expiry
  BY TokensAgree
<1>2. \A o \in Scope : SsoHealth[o] = "enabled" <=> "sso" \in PlatformSecurity[o].on
  BY SsoAgrees
<1>3. WafPushProtection.status = "pass" =>
        \A a \in DOMAIN BypassOffenders : BypassOffenders[a].push = 0
  BY BypassesAgree
<1>4. WafClones.status = "warning" => WafClones.count > 3
  BY ClonesTakeFour
<1>5. \A o \in Scope : SecurityCoverage(o).secret_scanning <= SecurityCoverage(o).total
  BY CoverageAgrees
<1>6. WafBranchProtection.status = "fail" =>
        Within(On({"protected_branch.destroy", "protected_branch.policy_override"}), D90) # {}
  BY FailuresHaveCause
<1> QED BY <1>1, <1>2, <1>3, <1>4, <1>5, <1>6, CollaboratorsAgree, WebhooksAgree,
       FailedRunsAgree DEF ListsAgree

\* Whatever rows have been stored, health_signal_service.py tells the same of a thing in
\* two places: get_health_score counts what the lists of stale repositories, dormant
\* actors, missing settings, forks and tokens hold, and the summaries, the findings of
\* get_waf_findings and the lists that read the same table agree.
THEOREM SignalsAlwaysAgree == SpecSignals => []SignalsAgree
<1>1. InitSignals => SignalsInv
  BY SignalsStart
<1>2. SignalsInv => SignalsAgree
  BY ScoreFollows, ListsFollow DEF SignalsAgree
<1> QED BY <1>1, <1>2, SignalStepKeeps, PTL DEF SpecSignals
=============================================================================
