------------------------------ MODULE Sums_proofs ------------------------------
(***************************************************************************)
(* What a total is, for a finite number of integers in any order: the       *)
(* community module computes it by choosing one element after the other.    *)
(* And what a power of two is.                                              *)
(***************************************************************************)
EXTENDS Sums, Integers, FiniteSetTheorems, WellFoundedInduction, TLAPS

(* A set of naturals that is not empty has a least element. *)
LEMMA LeastNatural ==
  ASSUME NEW S, S \subseteq Nat, S # {}
  PROVE  \E m \in S : \A n \in S : m <= n
<1> DEFINE R == {ss \in Nat \X Nat : ss[1] < ss[2]}
<1>1. IsWellFoundedOn(R, Nat)
  BY NatLessThanWellFounded DEF OpToRel
<1>2. \E m \in S : \A n \in S : ~(<<n, m>> \in R)
  <2> HIDE DEF R
  <2> QED BY <1>1, WFMin
<1>3. PICK m \in S : \A n \in S : ~(<<n, m>> \in R)
  BY <1>2
<1>4. ASSUME NEW n \in S PROVE m <= n
  <2>1. ~(n < m)
    BY <1>3
  <2> QED BY <2>1
<1> QED BY <1>4

(* The element the sum of s takes first, and what the sums of all subsets of S are. *)
First(s) == CHOOSE x \in s : TRUE
SumsOf(h, f, S) ==
  h = [s \in SUBSET S |-> IF s = {} THEN 0 ELSE f[First(s)] + h[s \ {First(s)}]]

LEMMA FirstIsOne ==
  ASSUME NEW s, s # {}
  PROVE  First(s) \in s
BY DEF First

LEMMA TotalIsChosen ==
  ASSUME NEW f
  PROVE  Total(f) = (CHOOSE h : SumsOf(h, f, DOMAIN f))[DOMAIN f]
BY DEF Total, MapThenSumSet, MapThenFoldSet, SumsOf, First

(* The equation a step of the sum has. *)
SumAt(h, f, s) == h[s] = IF s = {} THEN 0 ELSE f[First(s)] + h[s \ {First(s)}]

(* The sums of the subsets of a finite set exist: those of n + 1 elements are  *)
(* defined from those of n.                                                  *)
LEMMA SumsExist ==
  ASSUME NEW f, NEW S, IsFiniteSet(S)
  PROVE  \E h : SumsOf(h, f, S)
<1> DEFINE UpTo(n) == \E h : \A s \in SUBSET S : Cardinality(s) <= n => SumAt(h, f, s)
           Bad == {n \in Nat : ~UpTo(n)}
<1>1. \A s \in SUBSET S : IsFiniteSet(s) /\ Cardinality(s) \in Nat
  BY FS_Subset, FS_CardinalityType
<1>2. UpTo(0)
  <2>1. \A s \in SUBSET S : Cardinality(s) <= 0 => s = {}
    BY <1>1, FS_EmptySet
  <2>2. \A s \in SUBSET S : Cardinality(s) <= 0 => SumAt([t \in SUBSET S |-> 0], f, s)
    BY <2>1 DEF SumAt
  <2> QED BY <2>2
<1>3. ASSUME NEW n \in Nat, n > 0, UpTo(n - 1) PROVE UpTo(n)
  <2>1. PICK h : \A s \in SUBSET S : Cardinality(s) <= n - 1 => SumAt(h, f, s)
    BY <1>3
  <2> DEFINE k == [s \in SUBSET S |->
                     IF Cardinality(s) <= n - 1 THEN h[s] ELSE f[First(s)] + h[s \ {First(s)}]]
  <2>2. ASSUME NEW s \in SUBSET S, Cardinality(s) <= n PROVE SumAt(k, f, s)
    <3>1. CASE s = {}
      <4>1. Cardinality(s) = 0 /\ n - 1 >= 0
        BY <1>3, <3>1, FS_EmptySet
      <4>2. Cardinality(s) <= n - 1
        BY <4>1
      <4>3. SumAt(h, f, s) /\ k[s] = h[s]
        BY <4>2, <2>1
      <4> QED BY <3>1, <4>3 DEF SumAt
    <3>2. CASE s # {}
      <4> DEFINE r == s \ {First(s)}
      <4>1. First(s) \in s /\ r \in SUBSET S
        BY <3>2, FirstIsOne
      <4>2. Cardinality(r) <= n - 1
        BY <1>1, <2>2, <4>1, FS_RemoveElement
      <4>3. k[r] = h[r]
        BY <4>1, <4>2
      <4>4. k[s] = f[First(s)] + h[r]
        <5>1. CASE Cardinality(s) <= n - 1
          <6>1. SumAt(h, f, s) /\ k[s] = h[s]
            BY <5>1, <2>1
          <6> QED BY <6>1, <3>2 DEF SumAt
        <5> QED BY <5>1
      <4> HIDE DEF k
      <4> QED BY <3>2, <4>3, <4>4 DEF SumAt
    <3> QED BY <3>1, <3>2
  <2> HIDE DEF k
  <2> QED BY <2>2
<1>4. Bad = {}
  <2> SUFFICES ASSUME Bad # {} PROVE FALSE
    OBVIOUS
  <2>1. PICK m \in Bad : \A n \in Bad : m <= n
    <3> HIDE DEF UpTo
    <3>1. Bad \subseteq Nat
      OBVIOUS
    <3> HIDE DEF Bad
    <3> QED BY <3>1, LeastNatural
  <2> HIDE DEF UpTo
  <2>2. m \in Nat /\ ~UpTo(m) /\ m # 0
    BY <2>1, <1>2
  <2>3. m - 1 \in Nat /\ m > 0
    BY <2>2
  <2>4. UpTo(m - 1)
    BY <2>1, <2>3
  <2> QED BY <1>3, <2>2, <2>3, <2>4
<1>5. UpTo(Cardinality(S))
  <2> HIDE DEF UpTo
  <2>1. Cardinality(S) \in Nat
    BY FS_CardinalityType
  <2> QED BY <1>4, <2>1
<1>6. PICK h : \A s \in SUBSET S : Cardinality(s) <= Cardinality(S) => SumAt(h, f, s)
  BY <1>5
<1>7. \A s \in SUBSET S : SumAt(h, f, s)
  BY <1>6, FS_Subset
<1> DEFINE g == [s \in SUBSET S |-> h[s]]
<1>8. ASSUME NEW s \in SUBSET S
      PROVE  g[s] = IF s = {} THEN 0 ELSE f[First(s)] + g[s \ {First(s)}]
  BY <1>7 DEF SumAt
<1>9. SumsOf(g, f, S)
  <2> HIDE DEF g
  <2>1. g = [s \in SUBSET S |-> g[s]]
    BY DEF g
  <2>2. [s \in SUBSET S |-> g[s]]
        = [s \in SUBSET S |-> IF s = {} THEN 0 ELSE f[First(s)] + g[s \ {First(s)}]]
    BY <1>8
  <2> QED BY <2>1, <2>2 DEF SumsOf
<1> QED BY <1>9

(* The sums are numbers of the kind that is added up. *)
LEMMA SumsAreNumbers ==
  ASSUME NEW f, NEW S, IsFiniteSet(S), NEW R, 0 \in R, \A a, b \in R : a + b \in R,
         \A x \in S : f[x] \in R, NEW h, SumsOf(h, f, S)
  PROVE  \A s \in SUBSET S : h[s] \in R
<1> DEFINE Bad == {Cardinality(s) : s \in {t \in SUBSET S : h[t] \notin R}}
<1>1. \A s \in SUBSET S : IsFiniteSet(s) /\ Cardinality(s) \in Nat
  BY FS_Subset, FS_CardinalityType
<1>2. Bad \subseteq Nat
  BY <1>1
<1>3. SUFFICES ASSUME Bad # {} PROVE FALSE
  OBVIOUS
<1>4. PICK m \in Bad : \A n \in Bad : m <= n
  <2> HIDE DEF Bad
  <2> QED BY <1>2, <1>3, LeastNatural
<1>5. PICK s \in SUBSET S : h[s] \notin R /\ m = Cardinality(s)
  BY <1>4
<1>6. SumAt(h, f, s)
  BY DEF SumsOf, SumAt
<1>7. s # {} /\ First(s) \in s
  BY <1>5, <1>6, FirstIsOne DEF SumAt
<1>8. h[s \ {First(s)}] \notin R /\ s \ {First(s)} \in SUBSET S
  BY <1>5, <1>6, <1>7 DEF SumAt
<1>9. Cardinality(s \ {First(s)}) \in Bad
  BY <1>8
<1>10. Cardinality(s \ {First(s)}) = Cardinality(s) - 1
  <2>1. IsFiniteSet(s)
    BY <1>1
  <2> QED BY <2>1, <1>7, FS_RemoveElement
<1>11. m <= m - 1 /\ m \in Nat
  <2> HIDE DEF Bad
  <2> QED BY <1>1, <1>4, <1>5, <1>9, <1>10
<1> QED BY <1>11

(* Two families of sums agree on the sets on which the functions do. *)
LEMMA SumsAgree ==
  ASSUME NEW f, NEW S, IsFiniteSet(S), NEW h, SumsOf(h, f, S),
         NEW g, NEW T, NEW k, SumsOf(k, g, T), S \subseteq T, \A x \in S : f[x] = g[x]
  PROVE  \A s \in SUBSET S : h[s] = k[s]
<1> DEFINE Bad == {Cardinality(s) : s \in {t \in SUBSET S : h[t] # k[t]}}
<1>1. \A s \in SUBSET S : IsFiniteSet(s) /\ Cardinality(s) \in Nat
  BY FS_Subset, FS_CardinalityType
<1>2. Bad \subseteq Nat
  BY <1>1
<1>3. SUFFICES ASSUME Bad # {} PROVE FALSE
  OBVIOUS
<1>4. PICK m \in Bad : \A n \in Bad : m <= n
  <2> HIDE DEF Bad
  <2> QED BY <1>2, <1>3, LeastNatural
<1>5. PICK s \in SUBSET S : h[s] # k[s] /\ m = Cardinality(s)
  BY <1>4
<1>6. SumAt(h, f, s) /\ SumAt(k, g, s)
  BY DEF SumsOf, SumAt
<1>7. s # {} /\ First(s) \in s
  BY <1>5, <1>6, FirstIsOne DEF SumAt
<1>8. h[s \ {First(s)}] # k[s \ {First(s)}] /\ s \ {First(s)} \in SUBSET S
  BY <1>5, <1>6, <1>7 DEF SumAt
<1>9. Cardinality(s \ {First(s)}) \in Bad
  BY <1>8
<1>10. Cardinality(s \ {First(s)}) = Cardinality(s) - 1
  <2>1. IsFiniteSet(s)
    BY <1>1
  <2> QED BY <2>1, <1>7, FS_RemoveElement
<1>11. m <= m - 1 /\ m \in Nat
  <2> HIDE DEF Bad
  <2> QED BY <1>1, <1>4, <1>5, <1>9, <1>10
<1> QED BY <1>11

(* Any element may be taken first. *)
LEMMA AnyFirst ==
  ASSUME NEW f, NEW S, IsFiniteSet(S), \A x \in S : f[x] \in Int, NEW h, SumsOf(h, f, S)
  PROVE  \A s \in SUBSET S : \A x \in s : h[s] = f[x] + h[s \ {x}]
<1> DEFINE Wrong(s) == \E x \in s : h[s] # f[x] + h[s \ {x}]
           Bad == {Cardinality(s) : s \in {t \in SUBSET S : Wrong(t)}}
<1>1. \A s \in SUBSET S : IsFiniteSet(s) /\ Cardinality(s) \in Nat /\ h[s] \in Int
  <2>1. 0 \in Int /\ \A a, b \in Int : a + b \in Int
    OBVIOUS
  <2>2. \A s \in SUBSET S : h[s] \in Int
    BY <2>1, SumsAreNumbers
  <2> QED BY <2>2, FS_Subset, FS_CardinalityType
<1>2. Bad \subseteq Nat
  BY <1>1
<1>3. SUFFICES ASSUME Bad # {} PROVE FALSE
  OBVIOUS
<1>4. PICK m \in Bad : \A n \in Bad : m <= n
  <2> HIDE DEF Bad
  <2> QED BY <1>2, <1>3, LeastNatural
<1>5. PICK s \in SUBSET S : Wrong(s) /\ m = Cardinality(s)
  BY <1>4
<1>6. PICK x \in s : h[s] # f[x] + h[s \ {x}]
  BY <1>5
<1> DEFINE p == First(s)
           r == s \ {p}
           t == s \ {x}
<1>7. p \in s /\ h[s] = f[p] + h[r]
  BY <1>6, FirstIsOne DEF SumsOf
<1>8. p # x
  BY <1>6, <1>7
<1>9. ASSUME NEW u \in SUBSET S, NEW y \in u, Cardinality(u) = m - 1
      PROVE  h[u] = f[y] + h[u \ {y}]
  <2>1. Cardinality(u) \notin Bad
    <3>1. m \in Nat
      BY <1>2, <1>4
    <3> HIDE DEF Bad
    <3> QED BY <1>4, <1>9, <3>1
  <2>2. ~Wrong(u)
    BY <2>1
  <2> QED BY <2>2
<1>10. Cardinality(r) = m - 1 /\ Cardinality(t) = m - 1 /\ r \in SUBSET S /\ t \in SUBSET S
       /\ x \in r /\ p \in t
  BY <1>1, <1>5, <1>7, <1>8, FS_RemoveElement
<1> DEFINE both == r \ {x}
<1>11. h[r] = f[x] + h[both] /\ h[t] = f[p] + h[both]
  <2>1. both = t \ {p}
    OBVIOUS
  <2> HIDE DEF r, t, p, Bad, Wrong
  <2>2. h[r] = f[x] + h[r \ {x}]
    BY <1>9, <1>10
  <2>3. h[t] = f[p] + h[t \ {p}]
    BY <1>9, <1>10
  <2> QED BY <2>1, <2>2, <2>3
<1>12. f[x] \in Int /\ f[p] \in Int /\ h[both] \in Int
  BY <1>1, <1>7
<1> HIDE DEF both, r, p, Bad, Wrong
<1>13. h[s] = f[x] + h[t]
  BY <1>7, <1>11, <1>12
<1> QED BY <1>6, <1>13

-----------------------------------------------------------------------------
(* The sums whose last is the total. *)
LEMMA TotalIsSum ==
  ASSUME NEW f, IsFiniteSet(DOMAIN f)
  PROVE  \E h : SumsOf(h, f, DOMAIN f) /\ Total(f) = h[DOMAIN f]
<1>1. \E h : SumsOf(h, f, DOMAIN f)
  BY SumsExist
<1> DEFINE k == CHOOSE h : SumsOf(h, f, DOMAIN f)
<1>2. SumsOf(k, f, DOMAIN f)
  BY <1>1
<1>3. Total(f) = k[DOMAIN f]
  BY TotalIsChosen
<1> HIDE DEF k
<1> QED BY <1>2, <1>3

(* The total of nothing. *)
LEMMA TotalOfNothing ==
  ASSUME NEW f, DOMAIN f = {}
  PROVE  Total(f) = 0
<1>1. IsFiniteSet(DOMAIN f)
  BY FS_EmptySet
<1>2. PICK h : SumsOf(h, f, DOMAIN f) /\ Total(f) = h[DOMAIN f]
  BY <1>1, TotalIsSum
<1> QED BY <1>2 DEF SumsOf

(* The total of integers is one. *)
LEMMA TotalType ==
  ASSUME NEW f, IsFiniteSet(DOMAIN f), \A x \in DOMAIN f : f[x] \in Int
  PROVE  Total(f) \in Int
<1>1. PICK h : SumsOf(h, f, DOMAIN f) /\ Total(f) = h[DOMAIN f]
  BY TotalIsSum
<1> QED BY <1>1, SumsAreNumbers

(* Nothing but zeros. *)
LEMMA TotalOfZeros ==
  ASSUME NEW f, IsFiniteSet(DOMAIN f), \A x \in DOMAIN f : f[x] = 0
  PROVE  Total(f) = 0
<1>1. PICK h : SumsOf(h, f, DOMAIN f) /\ Total(f) = h[DOMAIN f]
  BY TotalIsSum
<1>2. \A s \in SUBSET DOMAIN f : h[s] \in {0}
  <2>1. 0 \in {0} /\ (\A a, b \in {0} : a + b \in {0}) /\ \A x \in DOMAIN f : f[x] \in {0}
    OBVIOUS
  <2> QED BY <1>1, <2>1, SumsAreNumbers
<1> QED BY <1>1, <1>2

(* The total of naturals is one. *)
LEMMA TotalIsNatural ==
  ASSUME NEW f, IsFiniteSet(DOMAIN f), \A x \in DOMAIN f : f[x] \in Nat
  PROVE  Total(f) \in Nat
<1>1. PICK h : SumsOf(h, f, DOMAIN f) /\ Total(f) = h[DOMAIN f]
  BY TotalIsSum
<1>2. 0 \in Nat /\ \A a, b \in Nat : a + b \in Nat
  OBVIOUS
<1>3. \A s \in SUBSET DOMAIN f : h[s] \in Nat
  BY <1>1, <1>2, SumsAreNumbers
<1> QED BY <1>1, <1>3

(* One number more adds to the total. *)
LEMMA TotalWithOneMore ==
  ASSUME NEW f, NEW g, NEW x, IsFiniteSet(DOMAIN f), \A y \in DOMAIN f : f[y] \in Int,
         x \notin DOMAIN f, DOMAIN g = DOMAIN f \cup {x}, g[x] \in Int,
         \A y \in DOMAIN f : g[y] = f[y]
  PROVE  Total(g) = Total(f) + g[x]
<1>1. IsFiniteSet(DOMAIN g)
  BY FS_AddElement
<1>2. PICK h : SumsOf(h, f, DOMAIN f) /\ Total(f) = h[DOMAIN f]
  BY TotalIsSum
<1>3. PICK k : SumsOf(k, g, DOMAIN g) /\ Total(g) = k[DOMAIN g]
  BY <1>1, TotalIsSum
<1>4. k[DOMAIN g] = g[x] + k[DOMAIN g \ {x}]
  <2>1. \A y \in DOMAIN g : g[y] \in Int
    OBVIOUS
  <2> QED BY <1>1, <1>3, <2>1, AnyFirst
<1>5. DOMAIN g \ {x} = DOMAIN f
  OBVIOUS
<1>6. h[DOMAIN f] = k[DOMAIN f]
  BY <1>2, <1>3, SumsAgree
<1>7. Total(f) \in Int
  BY TotalType
<1> QED BY <1>2, <1>3, <1>4, <1>5, <1>6, <1>7

(* One number that changes changes the total by as much. *)
LEMMA TotalWithOneChanged ==
  ASSUME NEW f, NEW g, NEW x \in DOMAIN f, IsFiniteSet(DOMAIN f), \A y \in DOMAIN f : f[y] \in Int,
         DOMAIN g = DOMAIN f, g[x] \in Int, \A y \in DOMAIN f \ {x} : g[y] = f[y]
  PROVE  Total(g) = Total(f) - f[x] + g[x]
<1> DEFINE r == [y \in DOMAIN f \ {x} |-> f[y]]
<1>1. IsFiniteSet(DOMAIN r) /\ DOMAIN r = DOMAIN f \ {x} /\ \A y \in DOMAIN r : r[y] = f[y]
  BY FS_RemoveElement
<1> HIDE DEF r
<1>2. Total(f) = Total(r) + f[x]
  BY <1>1, TotalWithOneMore
<1>3. Total(g) = Total(r) + g[x]
  BY <1>1, TotalWithOneMore
<1>4. Total(r) \in Int
  BY <1>1, TotalType
<1> QED BY <1>2, <1>3, <1>4

-----------------------------------------------------------------------------
(* A power of two counts the sets of so many elements, which is all that the   *)
(* library knows of it; what doubling it gives follows by counting them.     *)
LEMMA PowerIsPowerSet ==
  ASSUME NEW n \in Nat
  PROVE  2 ^ n = Cardinality(SUBSET (1 .. n)) /\ IsFiniteSet(SUBSET (1 .. n))
<1>1. IsFiniteSet(1 .. n) /\ Cardinality(1 .. n) = n
  BY FS_Interval
<1>2. IsFiniteSet(SUBSET (1 .. n)) /\ Cardinality(SUBSET (1 .. n)) = 2 ^ Cardinality(1 .. n)
  BY <1>1, FS_SUBSET
<1> QED BY <1>1, <1>2, Zenon

LEMMA PowerOfZero == 2 ^ 0 = 1
<1>1. Cardinality(SUBSET (1 .. 0)) = 1
  <2>1. SUBSET (1 .. 0) = {{}}
    OBVIOUS
  <2> QED BY <2>1, FS_Singleton
<1>2. 2 ^ 0 = Cardinality(SUBSET (1 .. 0))
  BY PowerIsPowerSet
<1> QED BY <1>1, <1>2, Zenon

LEMMA PowerDoubles ==
  ASSUME NEW n \in Nat
  PROVE  2 ^ n \in Nat /\ 2 ^ n > 0 /\ 2 ^ (n + 1) = 2 * 2 ^ n
<1> DEFINE A == SUBSET (1 .. n)
           B == {a \cup {n + 1} : a \in A}
           f == [a \in A |-> a \cup {n + 1}]
<1>1. IsFiniteSet(A) /\ Cardinality(A) \in Nat
  BY PowerIsPowerSet, FS_CardinalityType
<1>2. f \in Bijection(A, B)
  <2>1. f \in Surjection(A, B)
    BY DEF Surjection
  <2>2. ASSUME NEW a \in A, NEW b \in A, f[a] = f[b] PROVE a = b
    <3>1. n + 1 \notin a /\ n + 1 \notin b
      OBVIOUS
    <3> QED BY <2>2, <3>1
  <2>3. f \in [A -> B]
    OBVIOUS
  <2>4. f \in Injection(A, B)
    <3> HIDE DEF A, B, f
    <3> QED BY <2>2, <2>3 DEF Injection, IsInjective
  <2> HIDE DEF A, B, f
  <2> QED BY <2>1, <2>4 DEF Bijection
<1>3. IsFiniteSet(B) /\ Cardinality(B) = Cardinality(A)
  <2> HIDE DEF A, B, f
  <2> QED BY <1>1, <1>2, FS_Bijection DEF ExistsBijection
<1>4. A \cap B = {}
  OBVIOUS
<1>5. SUBSET (1 .. n + 1) = A \cup B
  <2>1. ASSUME NEW s \in SUBSET (1 .. n + 1) PROVE s \in A \cup B
    <3>1. CASE n + 1 \in s
      <4>1. s \ {n + 1} \in A
        OBVIOUS
      <4>2. s = (s \ {n + 1}) \cup {n + 1}
        BY <3>1
      <4> QED BY <4>1, <4>2
    <3>2. CASE n + 1 \notin s
      BY <3>2
    <3> QED BY <3>1, <3>2
  <2>2. ASSUME NEW s \in A \cup B PROVE s \in SUBSET (1 .. n + 1)
    <3>1. PICK a \in A : s = a \/ s = a \cup {n + 1}
      OBVIOUS
    <3>2. n + 1 \in 1 .. n + 1 /\ \A i \in 1 .. n : i \in 1 .. n + 1
      OBVIOUS
    <3> QED BY <3>1, <3>2
  <2> QED BY <2>1, <2>2
<1>6. Cardinality(SUBSET (1 .. n + 1)) = 2 * Cardinality(A)
  <2> HIDE DEF A, B
  <2>1. Cardinality(A \cup B) = Cardinality(A) + Cardinality(B) - Cardinality({})
    BY <1>1, <1>3, <1>4, FS_Union
  <2>2. Cardinality({}) = 0
    BY FS_EmptySet
  <2>3. PICK c \in Nat : c = Cardinality(A)
    BY <1>1
  <2>4. Cardinality(A \cup B) = 2 * c
    BY <1>3, <2>1, <2>2, <2>3
  <2> QED BY <1>5, <2>3, <2>4
<1>7. 2 ^ n = Cardinality(A) /\ 2 ^ (n + 1) = Cardinality(SUBSET (1 .. n + 1))
  BY PowerIsPowerSet
<1>8. Cardinality(A) > 0
  <2>1. {} \in A
    OBVIOUS
  <2> HIDE DEF A
  <2> QED BY <1>1, <2>1, FS_EmptySet
<1> HIDE DEF A
<1>9. PICK c \in Nat : c = Cardinality(A)
  BY <1>1
<1> QED BY <1>6, <1>7, <1>8, <1>9
===============================================================================
