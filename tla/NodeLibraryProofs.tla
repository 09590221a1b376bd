-------------------------- MODULE NodeLibraryProofs --------------------------
(***************************************************************************)
(* Proofs about NodeLibrary, for any wiring, any workflows and any number  *)
(* of parents.                                                             *)
(***************************************************************************)
EXTENDS NodeLibrary, FiniteSetTheorems, TLAPS

(* Sorting *)

\* A finite set of keyed elements can be put in order: the place of an element
\* is the number of elements that do not come after it.
LEMMA SortedExists ==
  ASSUME NEW S, IsFiniteSet(S), NEW key \in [S -> Int]
  PROVE  \E q \in Bijection(1..Cardinality(S), S) :
           \A i, j \in 1..Cardinality(S) : i < j => key[q[i]] <= key[q[j]]
  <1>1. PICK N \in Nat : N = Cardinality(S)
    BY FS_CardinalityType
  <1> DEFINE I == 1..N
  <1>2. PICK e : e \in Bijection(I, S)
    BY <1>1, FS_CardinalityType DEF ExistsBijection
  <1>3. /\ e \in [I -> S]
        /\ \A i, j \in I : e[i] = e[j] => i = j
        /\ \A x \in S : \E i \in I : e[i] = x
    BY <1>2 DEF Bijection, Injection, Surjection, IsInjective
  <1> DEFINE k == [i \in I |-> key[e[i]]]
             Before(i) == {j \in I : k[j] < k[i] \/ (k[j] = k[i] /\ j <= i)}
             rank == [i \in I |-> Cardinality(Before(i))]
  <1>4. k \in [I -> Int]
    BY <1>3
  <1>5. IsFiniteSet(I) /\ Cardinality(I) = N
    <2>1. 1 \in Int /\ N \in Int
      OBVIOUS
    <2>2. IsFiniteSet(I) /\ Cardinality(I) = IF 1 > N THEN 0 ELSE N - 1 + 1
      BY <2>1, FS_Interval, Zenon
    <2> QED  BY <2>2
  <1> HIDE DEF k
  <1>6. \A i \in I : Before(i) \in SUBSET I /\ i \in Before(i)
    BY <1>4
  <1>7. \A i \in I : IsFiniteSet(Before(i)) /\ Cardinality(Before(i)) \in I
    <2> SUFFICES ASSUME NEW i \in I
                 PROVE  IsFiniteSet(Before(i)) /\ Cardinality(Before(i)) \in I
      OBVIOUS
    <2>1. PICK B : B = Before(i)
      OBVIOUS
    <2>2. B \in SUBSET I /\ B # {}
      BY <1>6, <2>1
    <2> HIDE DEF Before, I
    <2>3. IsFiniteSet(B) /\ Cardinality(B) <= N
      BY <1>5, <2>2, FS_Subset
    <2>4. Cardinality(B) \in Nat /\ Cardinality(B) # 0
      BY <2>2, <2>3, FS_CardinalityType, FS_EmptySet
    <2>5. Cardinality(B) \in 1..N
      BY <2>3, <2>4
    <2> QED  BY <2>1, <2>3, <2>5 DEF I
  <1>8. \A i, j \in I : i # j /\ i \in Before(j) => rank[i] < rank[j]
    <2> SUFFICES ASSUME NEW i \in I, NEW j \in I, i # j, i \in Before(j)
                 PROVE  rank[i] < rank[j]
      OBVIOUS
    <2>1. Before(i) \in SUBSET Before(j)
      BY <1>4
    <2>2. j \in Before(j) /\ j \notin Before(i)
      BY <1>4
    <2>3. PICK A : A = Before(i)
      OBVIOUS
    <2>4. PICK B : B = Before(j)
      OBVIOUS
    <2>5. rank[i] = Cardinality(A) /\ rank[j] = Cardinality(B)
      BY <2>3, <2>4
    <2>6. /\ IsFiniteSet(B) /\ A \in SUBSET B /\ A # B
          /\ Cardinality(A) \in I /\ Cardinality(B) \in I
      BY <1>7, <2>1, <2>2, <2>3, <2>4
    <2> HIDE DEF Before, rank
    <2>7. Cardinality(A) <= Cardinality(B) /\ Cardinality(A) # Cardinality(B)
      BY <2>6, FS_Subset
    <2> QED  BY <2>5, <2>6, <2>7
  <1>9. \A i, j \in I : i # j => i \in Before(j) \/ j \in Before(i)
    BY <1>4
  <1>10. rank \in [I -> I]
    BY <1>7
  <1>11. \A i, j \in I : rank[i] = rank[j] => i = j
    <2> SUFFICES ASSUME NEW i \in I, NEW j \in I, i # j PROVE rank[i] # rank[j]
      OBVIOUS
    <2> HIDE DEF rank, Before
    <2>1. rank[i] \in Int /\ rank[j] \in Int
      BY <1>10
    <2>2. rank[i] < rank[j] \/ rank[j] < rank[i]
      BY <1>8, <1>9
    <2> QED  BY <2>1, <2>2
  <1>12. \A i, j \in I : i \in Before(j) => k[i] <= k[j]
    BY <1>4
  <1>13. \A m \in I : \E i \in I : rank[i] = m
    <2> HIDE DEF rank, I
    <2>1. rank \in Injection(I, I)
      BY <1>10, <1>11 DEF Injection, IsInjective
    <2>2. rank \in Surjection(I, I)
      BY <1>5, <2>1, FS_Injection
    <2> QED  BY <2>2 DEF Surjection
  <1> DEFINE place == [m \in I |-> CHOOSE i \in I : rank[i] = m]
             q == [m \in I |-> e[place[m]]]
  <1> HIDE DEF rank, Before
  <1>14. /\ place \in [I -> I]
         /\ \A m \in I : rank[place[m]] = m
    BY <1>13
  <1>15. \A i \in I : place[rank[i]] = i
    BY <1>10, <1>11, <1>14
  <1> HIDE DEF place
  <1>16. /\ q \in [I -> S]
         /\ \A m \in I : q[m] = e[place[m]]
    BY <1>3, <1>14
  <1> HIDE DEF q
  <1>17. \A a, b \in I : q[a] = q[b] => a = b
    <2> SUFFICES ASSUME NEW a \in I, NEW b \in I, q[a] = q[b] PROVE a = b
      OBVIOUS
    <2>1. place[a] \in I /\ place[b] \in I /\ e[place[a]] = e[place[b]]
      BY <1>14, <1>16
    <2>2. place[a] = place[b]
      BY <1>3, <2>1
    <2> QED  BY <1>14, <2>2
  <1>18. \A x \in S : \E m \in I : q[m] = x
    <2> SUFFICES ASSUME NEW x \in S PROVE \E m \in I : q[m] = x
      OBVIOUS
    <2>1. PICK i \in I : e[i] = x
      BY <1>3
    <2>2. rank[i] \in I /\ q[rank[i]] = x
      BY <1>10, <1>15, <1>16, <2>1
    <2> QED  BY <2>2
  <1>19. \A a, b \in I : a < b => key[q[a]] <= key[q[b]]
    <2> SUFFICES ASSUME NEW a \in I, NEW b \in I, a < b PROVE key[q[a]] <= key[q[b]]
      OBVIOUS
    <2>1. /\ place[a] \in I /\ place[b] \in I
          /\ rank[place[a]] = a /\ rank[place[b]] = b
      BY <1>14
    <2>2. place[a] # place[b]
      BY <2>1
    <2>3. place[a] \in Before(place[b])
      BY <1>8, <1>9, <2>1, <2>2
    <2>4. k[place[a]] <= k[place[b]]
      BY <1>12, <2>1, <2>3
    <2> QED  BY <1>16, <2>1, <2>4 DEF k
  <1>20. q \in Bijection(I, S)
    BY <1>16, <1>17, <1>18 DEF Bijection, Injection, Surjection, IsInjective
  <1> QED  BY <1>1, <1>19, <1>20

\* What sort_by and the BTreeMap of parents rely on
LEMMA SortedByOrders ==
  ASSUME NEW S, IsFiniteSet(S), NEW key \in [S -> Int]
  PROVE  /\ SortedBy(key) \in Bijection(1..Cardinality(S), S)
         /\ \A i, j \in 1..Cardinality(S) :
              i < j => key[SortedBy(key)[i]] <= key[SortedBy(key)[j]]
  <1>1. DOMAIN key = S
    OBVIOUS
  <1> QED  BY <1>1, SortedExists, Zenon DEF SortedBy
-----------------------------------------------------------------------------
(* Counting *)

\* The elements of a set counted in the places of an enumeration
LEMMA CountThrough ==
  ASSUME NEW n \in Nat, NEW P, NEW b \in Bijection(1..n, P), NEW A \in SUBSET P
  PROVE  Cardinality(A) = Cardinality({i \in 1..n : b[i] \in A})
  <1> DEFINE J == {i \in 1..n : b[i] \in A}
             g == [i \in J |-> b[i]]
  <1>1. g \in Bijection(J, A)
    BY DEF Bijection, Injection, Surjection, IsInjective
  <1>2. IsFiniteSet(1..n)
    BY FS_Interval
  <1>3. IsFiniteSet(J)
    BY <1>2, FS_Subset
  <1> HIDE DEF J, g
  <1>4. Cardinality(A) = Cardinality(J)
    BY <1>1, <1>3, FS_Bijection DEF ExistsBijection
  <1> QED  BY <1>4 DEF J

\* An enumerated set is finite and has as many elements as places
LEMMA CountAll ==
  ASSUME NEW n \in Nat, NEW P, NEW b \in Bijection(1..n, P)
  PROVE  IsFiniteSet(P) /\ Cardinality(P) = n
  <1>1. ExistsBijection(1..n, P)
    BY DEF ExistsBijection
  <1>2. Cardinality(P) = n
    BY <1>1, FS_CountingElements
  <1>3. IsFiniteSet(P)
    BY <1>1, FS_NatBijection
  <1> QED  BY <1>2, <1>3

LEMMA IntervalSize ==
  ASSUME NEW a \in Int, NEW b \in Int, a <= b + 1
  PROVE  IsFiniteSet(a..b) /\ Cardinality(a..b) = b - a + 1
  <1>1. IsFiniteSet(a..b) /\ Cardinality(a..b) = IF a > b THEN 0 ELSE b - a + 1
    BY FS_Interval, Zenon
  <1> QED  BY <1>1

\* Sizes of sets between intervals
LEMMA AtMostInterval ==
  ASSUME NEW a \in Int, NEW b \in Int, a <= b + 1, NEW J \in SUBSET (a..b)
  PROVE  Cardinality(J) \in Nat /\ Cardinality(J) <= b - a + 1
  <1>1. IsFiniteSet(a..b) /\ Cardinality(a..b) = b - a + 1
    BY IntervalSize
  <1>2. IsFiniteSet(J) /\ Cardinality(J) <= Cardinality(a..b)
    BY <1>1, FS_Subset
  <1> QED  BY <1>1, <1>2, FS_CardinalityType

LEMMA AtLeastInterval ==
  ASSUME NEW a \in Int, NEW b \in Int, a <= b + 1, NEW J, IsFiniteSet(J), a..b \in SUBSET J
  PROVE  Cardinality(J) \in Nat /\ Cardinality(J) >= b - a + 1
  <1>1. IsFiniteSet(a..b) /\ Cardinality(a..b) = b - a + 1
    BY IntervalSize
  <1>2. Cardinality(a..b) <= Cardinality(J)
    BY FS_Subset
  <1>3. Cardinality(J) \in Nat
    BY FS_CardinalityType
  <1> QED  BY <1>1, <1>2, <1>3
-----------------------------------------------------------------------------
(* The middle of a sorted sequence *)

\* t lists the numbers of f in ascending order
Lists(t, f, n) ==
  /\ t \in [1..n -> Int]
  /\ f \in [DOMAIN f -> Int]
  /\ \A i, j \in 1..n : i < j => t[i] <= t[j]
  /\ \E b \in Bijection(1..n, DOMAIN f) : \A i \in 1..n : t[i] = f[b[i]]

\* Where the numbers of a function (or sequence) are below or above x
Below(f, x) == {p \in DOMAIN f : f[p] < x}
Above(f, x) == {p \in DOMAIN f : f[p] > x}

\* How many numbers are below or above x can be counted in the sorted sequence
LEMMA ListedCounts ==
  ASSUME NEW n \in Nat, NEW t, NEW f, Lists(t, f, n), NEW x \in Int
  PROVE  /\ Cardinality(Below(f, x)) = Cardinality(Below(t, x))
         /\ Cardinality(Above(f, x)) = Cardinality(Above(t, x))
         /\ Cardinality(DOMAIN f) = n
  <1> DEFINE P == DOMAIN f
  <1>1. PICK b \in Bijection(1..n, P) : \A i \in 1..n : t[i] = f[b[i]]
    BY DEF Lists
  <1>2. DOMAIN t = 1..n /\ \A i \in 1..n : b[i] \in P
    BY DEF Bijection, Injection, Lists
  <1>3. ASSUME NEW A \in SUBSET P, NEW J, J = {i \in 1..n : b[i] \in A}
        PROVE  Cardinality(A) = Cardinality(J)
    BY <1>3, CountThrough
  <1>4. Below(f, x) \in SUBSET P /\ Below(t, x) = {i \in 1..n : b[i] \in Below(f, x)}
    BY <1>1, <1>2 DEF Below
  <1>5. Above(f, x) \in SUBSET P /\ Above(t, x) = {i \in 1..n : b[i] \in Above(f, x)}
    BY <1>1, <1>2 DEF Above
  <1>6. Cardinality(Below(f, x)) = Cardinality(Below(t, x))
    BY <1>3, <1>4
  <1>7. Cardinality(Above(f, x)) = Cardinality(Above(t, x))
    BY <1>3, <1>5
  <1> QED  BY <1>6, <1>7, CountAll

\* The sizes of the parts of a sorted sequence below and above x
LEMMA SortedCounts ==
  ASSUME NEW n \in Nat, NEW t \in [1..n -> Int],
         \A i, j \in 1..n : i < j => t[i] <= t[j],
         NEW x \in Int, NEW m \in 1..n
  PROVE  /\ Cardinality(Below(t, x)) \in Nat /\ Cardinality(Above(t, x)) \in Nat
         /\ t[m] < x => Cardinality(Below(t, x)) >= m
         /\ t[m] >= x => Cardinality(Below(t, x)) <= m - 1
         /\ t[m] > x => Cardinality(Above(t, x)) >= n - m + 1
         /\ t[m] <= x => Cardinality(Above(t, x)) <= n - m
  <1> DEFINE B == {i \in 1..n : t[i] < x}
             A == {i \in 1..n : t[i] > x}
  <1>0. Below(t, x) = B /\ Above(t, x) = A
    BY DEF Below, Above
  <1>1. IsFiniteSet(1..n)
    BY FS_Interval
  <1>2. IsFiniteSet(A) /\ IsFiniteSet(B)
    BY <1>1, FS_Subset
  <1>3. Cardinality(A) \in Nat /\ Cardinality(B) \in Nat
    BY <1>2, FS_CardinalityType
  <1>4. t[m] < x => Cardinality(B) >= m
    <2>1. SUFFICES ASSUME t[m] < x PROVE Cardinality(B) >= m
      OBVIOUS
    <2>2. 1..m \in SUBSET B
      BY <2>1
    <2> HIDE DEF B
    <2>3. 1 \in Int /\ m \in Int /\ 1 <= m + 1
      OBVIOUS
    <2>4. Cardinality(B) >= m - 1 + 1
      BY <1>2, <2>2, <2>3, AtLeastInterval, Zenon
    <2> QED  BY <1>3, <2>4
  <1>5. t[m] >= x => Cardinality(B) <= m - 1
    <2>1. SUFFICES ASSUME t[m] >= x PROVE Cardinality(B) <= m - 1
      OBVIOUS
    <2>2. B \in SUBSET (1..(m - 1))
      BY <2>1
    <2> HIDE DEF B
    <2>3. 1 \in Int /\ m - 1 \in Int /\ 1 <= (m - 1) + 1
      OBVIOUS
    <2>4. Cardinality(B) <= (m - 1) - 1 + 1
      BY <2>2, <2>3, AtMostInterval, Zenon
    <2> QED  BY <1>3, <2>4
  <1>6. t[m] > x => Cardinality(A) >= n - m + 1
    <2>1. SUFFICES ASSUME t[m] > x PROVE Cardinality(A) >= n - m + 1
      OBVIOUS
    <2>2. m..n \in SUBSET A
      BY <2>1
    <2> HIDE DEF A
    <2> QED  BY <1>2, <2>2, AtLeastInterval
  <1>7. t[m] <= x => Cardinality(A) <= n - m
    <2>1. SUFFICES ASSUME t[m] <= x PROVE Cardinality(A) <= n - m
      OBVIOUS
    <2>2. A \in SUBSET ((m + 1)..n)
      BY <2>1
    <2> HIDE DEF A
    <2>3. m + 1 \in Int /\ n \in Int /\ m + 1 <= n + 1
      OBVIOUS
    <2>4. Cardinality(A) <= n - (m + 1) + 1
      BY <2>2, <2>3, AtMostInterval, Zenon
    <2> QED  BY <1>3, <2>4
  <1> HIDE DEF A, B
  <1> QED  BY <1>0, <1>3, <1>4, <1>5, <1>6, <1>7

\* The values that split the numbers in halves are those between the two
\* middle ones
LEMMA SplitsBetweenMiddles ==
  ASSUME NEW n \in Nat, n > 0, NEW t, NEW f, Lists(t, f, n), NEW x \in Int,
         NEW lo \in 1..n, NEW hi \in 1..n, lo = (n + 1) \div 2, hi = n \div 2 + 1
  PROVE  Splits(f, x) <=> t[lo] <= x /\ x <= t[hi]
  <1>1. PICK below : below = Cardinality(Below(t, x))
    OBVIOUS
  <1>2. PICK above : above = Cardinality(Above(t, x))
    OBVIOUS
  <1>3. Splits(f, x) <=> 2 * below <= n /\ 2 * above <= n
    <2>1. Splits(f, x) <=> /\ 2 * Cardinality(Below(f, x)) <= Cardinality(DOMAIN f)
                           /\ 2 * Cardinality(Above(f, x)) <= Cardinality(DOMAIN f)
      BY DEF Splits, Below, Above
    <2> QED  BY <1>1, <1>2, <2>1, ListedCounts
  <1>4. t \in [1..n -> Int] /\ \A i, j \in 1..n : i < j => t[i] <= t[j]
    BY DEF Lists
  <1>5. /\ below \in Nat /\ above \in Nat
        /\ t[hi] < x => below >= hi
        /\ t[hi] >= x => below <= hi - 1
    BY <1>1, <1>2, <1>4, SortedCounts
  <1>6. /\ t[lo] > x => above >= n - lo + 1
        /\ t[lo] <= x => above <= n - lo
    BY <1>1, <1>2, <1>4, SortedCounts
  <1>7. t[lo] \in Int /\ t[hi] \in Int
    BY <1>4
  <1> QED  BY <1>3, <1>5, <1>6, <1>7

\* Least and greatest elements are what Min and Max return
LEMMA MinMaxOf ==
  ASSUME NEW S \in SUBSET Int, NEW a \in S, NEW b \in S, \A x \in S : a <= x /\ x <= b
  PROVE  Min(S) = a /\ Max(S) = b
  <1>1. Min(S) \in S /\ \A y \in S : Min(S) <= y
    BY DEF Min
  <1>2. Max(S) \in S /\ \A y \in S : Max(S) >= y
    BY DEF Max
  <1>3. Min(S) = a
    <2>1. Min(S) \in Int /\ a \in Int /\ Min(S) <= a /\ a <= Min(S)
      BY <1>1
    <2> QED  BY <2>1
  <1>4. Max(S) = b
    <2>1. Max(S) \in Int /\ b \in Int /\ Max(S) >= b /\ Max(S) <= b
      BY <1>2
    <2> QED  BY <2>1
  <1> QED  BY <1>3, <1>4

\* Middle of a sorted sequence is the midpoint of all values that split it
LEMMA MiddleIsMidpoint ==
  ASSUME NEW n \in Nat, n > 0, NEW t, NEW f, Lists(t, f, n)
  PROVE  LET values == {f[p] : p \in DOMAIN f}
             split == {x \in Min(values)..Max(values) : Splits(f, x)}
         IN  Middle(t) = (Min(split) + Max(split)) \div 2
  <1> DEFINE values == {f[p] : p \in DOMAIN f}
             split == {x \in Min(values)..Max(values) : Splits(f, x)}
  <1>1. /\ t \in [1..n -> Int] /\ f \in [DOMAIN f -> Int]
        /\ \A i, j \in 1..n : i < j => t[i] <= t[j]
    BY DEF Lists
  <1>2. PICK b \in Bijection(1..n, DOMAIN f) : \A i \in 1..n : t[i] = f[b[i]]
    BY DEF Lists
  <1>3. values = {t[i] : i \in 1..n}
    <2>1. \A i \in 1..n : b[i] \in DOMAIN f
      BY DEF Bijection, Injection
    <2>2. \A p \in DOMAIN f : \E i \in 1..n : b[i] = p
      BY DEF Bijection, Surjection
    <2> QED  BY <1>2, <2>1, <2>2
  <1>4. Min(values) = t[1] /\ Max(values) = t[n]
    <2>1. 1 \in 1..n /\ n \in 1..n
      OBVIOUS
    <2>2. values \in SUBSET Int
      BY <1>1, <1>3
    <2>3. t[1] \in values /\ t[n] \in values
      BY <1>3, <2>1
    <2>4. \A i \in 1..n : t[1] <= t[i] /\ t[i] <= t[n]
      BY <1>1, <2>1
    <2>5. \A x \in values : t[1] <= x /\ x <= t[n]
      BY <1>3, <2>4
    <2> HIDE DEF values
    <2> QED  BY <2>2, <2>3, <2>5, MinMaxOf
  <1>5. PICK lo \in 1..n : lo = (n + 1) \div 2
    OBVIOUS
  <1>6. PICK hi \in 1..n : hi = n \div 2 + 1
    OBVIOUS
  <1>7. lo <= hi
    BY <1>5, <1>6
  <1>8. 1 \in 1..n /\ n \in 1..n
    OBVIOUS
  <1>9. /\ t[1] \in Int /\ t[n] \in Int /\ t[lo] \in Int /\ t[hi] \in Int
        /\ t[1] <= t[lo] /\ t[lo] <= t[hi] /\ t[hi] <= t[n]
    BY <1>1, <1>7, <1>8
  <1>10. \A x \in Int : Splits(f, x) <=> t[lo] <= x /\ x <= t[hi]
    BY <1>5, <1>6, SplitsBetweenMiddles
  <1>11. split = {x \in t[1]..t[n] : Splits(f, x)}
    BY <1>4
  <1>12. split = t[lo]..t[hi]
    BY <1>9, <1>10, <1>11
  <1>13. Min(split) = t[lo] /\ Max(split) = t[hi]
    <2>1. PICK S : S = t[lo]..t[hi]
      OBVIOUS
    <2>2. S \in SUBSET Int /\ t[lo] \in S /\ t[hi] \in S /\ \A x \in S : t[lo] <= x /\ x <= t[hi]
      BY <1>9, <2>1
    <2>3. Min(S) = t[lo] /\ Max(S) = t[hi]
      BY <2>2, MinMaxOf
    <2> QED  BY <1>12, <2>1, <2>3
  <1>14. Middle(t) = (t[lo] + t[hi]) \div 2
    <2>1. Len(t) = n
      BY <1>1
    <2>2. CASE n % 2 = 1
      <3>1. lo = n \div 2 + 1 /\ hi = lo
        BY <1>5, <1>6, <2>2
      <3>2. Middle(t) = t[lo]
        BY <2>1, <2>2, <3>1 DEF Middle
      <3> QED  BY <1>9, <3>1, <3>2
    <2>3. CASE n % 2 # 1
      <3>1. lo = n \div 2
        BY <1>5, <2>3
      <3> QED  BY <1>6, <2>1, <2>3, <3>1 DEF Middle
    <2> QED  BY <2>2, <2>3
  <1> QED  BY <1>13, <1>14

\* With an odd number of numbers the middle one exceeds x exactly when more than
\* half of them do
LEMMA MiddleIsMajority ==
  ASSUME NEW n \in Nat, n % 2 = 1, NEW t, NEW f, Lists(t, f, n), NEW x \in Int
  PROVE  /\ Middle(t) \in Int
         /\ Middle(t) > x <=> 2 * Cardinality(Above(f, x)) > n
  <1>1. t \in [1..n -> Int] /\ \A i, j \in 1..n : i < j => t[i] <= t[j]
    BY DEF Lists
  <1>2. PICK mid \in 1..n : mid = n \div 2 + 1
    OBVIOUS
  <1>3. Middle(t) = t[mid]
    <2>1. Len(t) = n
      BY <1>1
    <2> QED  BY <1>2, <2>1 DEF Middle
  <1>4. PICK above : above = Cardinality(Above(t, x))
    OBVIOUS
  <1>5. Cardinality(Above(f, x)) = above
    BY <1>4, ListedCounts
  <1>6. /\ above \in Nat
        /\ t[mid] > x => above >= n - mid + 1
        /\ t[mid] <= x => above <= n - mid
    BY <1>1, <1>4, SortedCounts
  <1>7. t[mid] \in Int
    BY <1>1
  <1>8. t[mid] > x <=> 2 * above > n
    BY <1>2, <1>6, <1>7
  <1> QED  BY <1>3, <1>5, <1>7, <1>8
-----------------------------------------------------------------------------
(* What median makes of its parents *)

\* The numbers of the parents, by parent
Numbers(parents) ==
  [p \in {q \in DOMAIN parents : Numeric(parents[q]) # {}} |-> NumberOf(parents[p])]

\* Sorting a sequence that enumerates f yields the numbers of f in order
LEMMA AscendingLists ==
  ASSUME NEW n \in Nat, NEW P, NEW f \in [P -> Int], NEW ids \in Bijection(1..n, P),
         NEW s, s = [i \in 1..n |-> f[ids[i]]]
  PROVE  Lists(Ascending(s), f, n)
  <1>1. ids \in [1..n -> P] /\ (\A i, j \in 1..n : ids[i] = ids[j] => i = j)
        /\ (\A p \in P : \E i \in 1..n : ids[i] = p)
    BY DEF Bijection, Injection, Surjection, IsInjective
  <1>2. s \in [1..n -> Int]
    BY <1>1
  <1>3. IsFiniteSet(1..n) /\ Cardinality(1..n) = n
    <2>1. 1 \in Int /\ n \in Int /\ 1 <= n + 1
      OBVIOUS
    <2>2. IsFiniteSet(1..n) /\ Cardinality(1..n) = n - 1 + 1
      BY <2>1, IntervalSize, Zenon
    <2> QED  BY <2>2
  <1>4. PICK q : q = SortedBy(s)
    OBVIOUS
  <1>5. /\ q \in Bijection(1..n, 1..n)
        /\ \A i, j \in 1..n : i < j => s[q[i]] <= s[q[j]]
    <2>1. /\ SortedBy(s) \in Bijection(1..Cardinality(1..n), 1..n)
          /\ \A i, j \in 1..Cardinality(1..n) :
               i < j => s[SortedBy(s)[i]] <= s[SortedBy(s)[j]]
      BY <1>2, <1>3, SortedByOrders, Zenon
    <2> QED  BY <1>3, <1>4, <2>1, Zenon
  <1>6. q \in [1..n -> 1..n] /\ (\A i, j \in 1..n : q[i] = q[j] => i = j)
        /\ (\A m \in 1..n : \E i \in 1..n : q[i] = m)
    BY <1>5 DEF Bijection, Injection, Surjection, IsInjective
  <1>7. Ascending(s) = [i \in 1..n |-> s[q[i]]]
    BY <1>2, <1>4 DEF Ascending
  <1> DEFINE b == [i \in 1..n |-> ids[q[i]]]
  <1>8. b \in Bijection(1..n, P)
    <2>1. b \in [1..n -> P]
      BY <1>1, <1>6
    <2>2. \A i, j \in 1..n : b[i] = b[j] => i = j
      BY <1>1, <1>6
    <2>3. \A p \in P : \E i \in 1..n : b[i] = p
      <3> SUFFICES ASSUME NEW p \in P PROVE \E i \in 1..n : b[i] = p
        OBVIOUS
      <3>1. PICK m \in 1..n : ids[m] = p
        BY <1>1
      <3>2. PICK i \in 1..n : q[i] = m
        BY <1>6
      <3> QED  BY <3>1, <3>2
    <2> QED  BY <2>1, <2>2, <2>3 DEF Bijection, Injection, Surjection, IsInjective
  <1>9. \A i \in 1..n : Ascending(s)[i] = f[b[i]]
    BY <1>6, <1>7
  <1>10. Ascending(s) \in [1..n -> Int]
    <2>1. \A i \in 1..n : s[q[i]] \in Int
      BY <1>2, <1>6
    <2> QED  BY <1>7, <2>1
  <1>11. \A i, j \in 1..n : i < j => Ascending(s)[i] <= Ascending(s)[j]
    BY <1>5, <1>7
  <1> HIDE DEF b
  <1>12. DOMAIN f = P
    OBVIOUS
  <1> QED  BY <1>8, <1>9, <1>10, <1>11, <1>12 DEF Lists

\* Nums has one number for each numeric parent, and sorting it lists them
LEMMA NumsSorted ==
  ASSUME NEW parents, IsFiniteSet(DOMAIN parents), DOMAIN parents \subseteq Int,
         \A p \in DOMAIN parents : Numeric(parents[p]) \subseteq Int
  PROVE  LET f == Numbers(parents)
             n == Cardinality(DOMAIN f)
         IN  /\ n \in Nat
             /\ Nums(parents) = << >> <=> n = 0
             /\ Lists(Ascending(Nums(parents)), f, n)
  <1>1. PICK P : P = {q \in DOMAIN parents : Numeric(parents[q]) # {}}
    OBVIOUS
  <1>2. IsFiniteSet(P) /\ P \in SUBSET Int
    BY <1>1, FS_Subset
  <1>3. PICK n \in Nat : n = Cardinality(P)
    BY <1>2, FS_CardinalityType
  <1>4. PICK f : f = Numbers(parents)
    OBVIOUS
  <1>5. f = [p \in P |-> NumberOf(parents[p])] /\ DOMAIN f = P
    BY <1>1, <1>4 DEF Numbers
  <1>6. f \in [P -> Int]
    <2>1. \A p \in P : NumberOf(parents[p]) \in Int
      BY <1>1 DEF NumberOf
    <2> QED  BY <1>5, <2>1
  <1>7. PICK key : key = [p \in P |-> p]
    OBVIOUS
  <1>8. key \in [P -> Int]
    BY <1>2, <1>7
  <1>9. PICK ids : ids = SortedBy(key)
    OBVIOUS
  <1>10. ids \in Bijection(1..n, P)
    BY <1>2, <1>3, <1>8, <1>9, SortedByOrders
  <1>11. DOMAIN ids = 1..n /\ \A i \in 1..n : ids[i] \in P
    BY <1>10 DEF Bijection, Injection
  <1>12. Nums(parents) = [i \in DOMAIN ids |-> NumberOf(parents[ids[i]])]
    BY <1>1, <1>7, <1>9 DEF Nums
  <1>13. Nums(parents) = [i \in 1..n |-> f[ids[i]]]
    BY <1>5, <1>11, <1>12
  <1>14. Lists(Ascending(Nums(parents)), f, n)
    BY <1>6, <1>10, <1>13, AscendingLists
  <1>15. Nums(parents) = << >> <=> n = 0
    <2>1. DOMAIN Nums(parents) = 1..n
      BY <1>13
    <2>2. n = 0 => Nums(parents) = << >>
      BY <1>13
    <2>3. n # 0 => 1 \in DOMAIN Nums(parents)
      BY <2>1
    <2> QED  BY <2>2, <2>3
  <1> QED  BY <1>3, <1>4, <1>5, <1>14, <1>15

\* The middle of a list of integers is an integer
LEMMA MiddleType ==
  ASSUME NEW n \in Nat, n > 0, NEW t, NEW f, Lists(t, f, n)
  PROVE  Middle(t) \in Int
  <1>1. t \in [1..n -> Int]
    BY DEF Lists
  <1>2. Len(t) = n
    BY <1>1
  <1>3. CASE n % 2 = 1
    <2>1. n \div 2 + 1 \in 1..n
      BY <1>3
    <2> QED  BY <1>1, <1>2, <1>3, <2>1 DEF Middle
  <1>4. CASE n % 2 # 1
    <2>1. n \div 2 \in 1..n /\ n \div 2 + 1 \in 1..n
      BY <1>4
    <2>2. t[n \div 2] \in Int /\ t[n \div 2 + 1] \in Int
      BY <1>1, <2>1
    <2>3. Middle(t) = (t[n \div 2] + t[n \div 2 + 1]) \div 2
      BY <1>2, <1>4 DEF Middle
    <2> QED  BY <2>2, <2>3
  <1> QED  BY <1>3, <1>4

\* A finite set of integers has a least element
LEMMA LeastExists ==
  ASSUME NEW S, IsFiniteSet(S), S \subseteq Int, S # {}
  PROVE  \E x \in S : \A y \in S : x <= y
  <1>1. PICK key : key = [x \in S |-> x]
    OBVIOUS
  <1>2. key \in [S -> Int]
    BY <1>1
  <1>3. PICK n \in Nat : n = Cardinality(S)
    BY FS_CardinalityType
  <1>4. n > 0
    BY <1>3, FS_EmptySet
  <1>5. PICK q \in Bijection(1..n, S) : \A i, j \in 1..n : i < j => key[q[i]] <= key[q[j]]
    BY <1>2, <1>3, SortedExists
  <1>6. 1 \in 1..n /\ q \in [1..n -> S] /\ \A x \in S : \E i \in 1..n : q[i] = x
    BY <1>4, <1>5 DEF Bijection, Injection, Surjection
  <1>7. ASSUME NEW y \in S PROVE q[1] <= y
    <2>1. PICK i \in 1..n : q[i] = y
      BY <1>6
    <2>2. CASE i = 1
      BY <1>6, <2>1, <2>2
    <2>3. CASE i # 1
      <3>1. key[q[1]] <= key[q[i]]
        BY <1>5, <1>6, <2>3
      <3> QED  BY <1>1, <1>6, <2>1, <3>1
    <2> QED  BY <2>2, <2>3
  <1> QED  BY <1>6, <1>7
-----------------------------------------------------------------------------
(* The node kinds *)

\* The parents' outputs a node may meet
Parents(parents) ==
  /\ IsFiniteSet(DOMAIN parents)
  /\ DOMAIN parents \subseteq Int
  /\ \A p \in DOMAIN parents : Numeric(parents[p]) \subseteq Int

\* The numbers of a value
LEMMA NumericOf ==
  /\ \A n : Numeric(Num(n)) = {n} /\ AsF64(Num(n)) = {n}
  /\ \A s : Numeric(Str(s)) = {}
  /\ \A b, n : Numeric(Obj([ok |-> b, value |-> Num(n)])) = {n}
  /\ AsF64(Null) = {}
  <1>1. \A n : Numeric(Num(n)) = {n} /\ AsF64(Num(n)) = {n}
    BY DEF Numeric, AsF64, Num
  <1>2. \A s : Numeric(Str(s)) = {}
    BY DEF Numeric, AsF64, Get, Str
  <1>3. ASSUME NEW b, NEW n PROVE Numeric(Obj([ok |-> b, value |-> Num(n)])) = {n}
    <2> DEFINE v == Obj([ok |-> b, value |-> Num(n)])
    <2>1. AsF64(v) = {}
      BY DEF AsF64, Obj
    <2>2. Get(v, "value") = {Num(n)}
      BY DEF Get, Obj
    <2>3. Numeric(v) = AsF64(Num(n))
      BY <2>1, <2>2 DEF Numeric
    <2> QED  BY <1>1, <2>3
  <1>4. AsF64(Null) = {}
    BY DEF AsF64, Null
  <1> QED  BY <1>1, <1>2, <1>3, <1>4

LEMMA NumericJson ==
  ASSUME NEW v \in Json
  PROVE  Numeric(v) \subseteq Int
  BY NodeLibraryAssumption DEF Numeric

\* What median answers
LEMMA MedianAnswers ==
  ASSUME NEW parents, Parents(parents), NEW r \in MedianNode(parents)
  PROVE  LET f == Numbers(parents)
             n == Cardinality(DOMAIN f)
             t == Ascending(Nums(parents))
         IN  /\ r.kind = "ok" => n > 0 /\ n \in Nat /\ Lists(t, f, n) /\ r.value = Num(Middle(t))
             /\ r.kind = "err" => \A p \in DOMAIN parents : Numeric(parents[p]) = {}
  <1>1. PICK f : f = Numbers(parents)
    OBVIOUS
  <1>2. PICK n : n = Cardinality(DOMAIN f)
    OBVIOUS
  <1>3. PICK t : t = Ascending(Nums(parents))
    OBVIOUS
  <1>4. n \in Nat /\ (Nums(parents) = << >> <=> n = 0) /\ Lists(t, f, n)
    BY <1>1, <1>2, <1>3, NumsSorted DEF Parents
  <1>5. CASE n = 0
    <2>1. r = Fail("InvalidInput")
      BY <1>4, <1>5 DEF MedianNode
    <2>2. IsFiniteSet(DOMAIN f)
      <3>1. DOMAIN f \in SUBSET DOMAIN parents
        BY <1>1 DEF Numbers
      <3> QED  BY <3>1, FS_Subset DEF Parents
    <2>3. DOMAIN f = {}
      BY <1>2, <1>5, <2>2, FS_EmptySet
    <2>4. \A p \in DOMAIN parents : Numeric(parents[p]) = {}
      BY <1>1, <2>3 DEF Numbers
    <2> QED  BY <1>1, <1>2, <1>3, <2>1, <2>4 DEF Fail
  <1>6. CASE n # 0
    <2>1. r = Done(Num(Middle(t)))
      BY <1>3, <1>4, <1>6 DEF MedianNode
    <2>2. r.kind = "ok" /\ r.value = Num(Middle(t))
      BY <2>1 DEF Done
    <2> QED  BY <1>1, <1>2, <1>3, <1>4, <1>6, <2>2
  <1> QED  BY <1>5, <1>6

\* Execute of each kind
LEMMA ExecuteOf ==
  ASSUME NEW node, NEW payload, NEW parents
  PROVE  /\ node.kind = "constant" => Execute(node, payload, parents) = ConstantNode(node.args)
         /\ node.kind = "sha256" => Execute(node, payload, parents) = Sha256Node(payload)
         /\ node.kind = "http_fetch" => Execute(node, payload, parents) = HttpFetchNode(node.args)
         /\ node.kind = "median" => Execute(node, payload, parents) = MedianNode(parents)
         /\ node.kind = "threshold" =>
              Execute(node, payload, parents) = ThresholdNode(node.args, payload, parents)
  BY DEF Execute
-----------------------------------------------------------------------------
(* The inductive invariant *)

\* What Scheduler::run hands a node: its parents' outputs
Inputs(n) == [p \in ParentsOf(n) |-> outputs[p]]

TypeInv ==
  /\ flow \in Workflows
  /\ edge \in 0..Len(Wiring)
  /\ made \in 0..Len(flow)
  /\ \E S : outputs \in Seq(S)
  /\ Len(outputs) <= Len(flow)

\* The edges counted as validated join kinds that fit
ValidInv ==
  \A i \in 1..edge : ValidateEdge(flow[Wiring[i][1]].kind, flow[Wiring[i][2]].kind) = "ok"

\* The nodes counted as made have arguments their kind can be created from
MadeInv == \A i \in 1..made : Instantiate(flow[i]) = "ok"

\* Nodes run when the whole workflow is validated and made
StageInv == outputs # << >> => edge = Len(Wiring) /\ made = Len(flow)

\* An output is what its node returned for its parents' outputs, which have not
\* changed since
Returned(n) ==
  \E r \in Execute(flow[n], Null, Inputs(n)) : r.kind = "ok" /\ r.value = outputs[n]

RanInv == \A n \in DOMAIN outputs : Returned(n) /\ Numeric(outputs[n]) \subseteq Int

\* A node whose error ended the workflow returned it for its parents' outputs
StatusInv ==
  \A n : status = <<"execute", "InvalidInput", n>> =>
    /\ edge = Len(Wiring) /\ made = Len(flow)
    /\ n = Len(outputs) + 1 /\ n <= Len(flow)
    /\ \E r \in Execute(flow[n], Null, Inputs(n)) : r.kind = "err"

IInv == TypeInv /\ ValidInv /\ MadeInv /\ StageInv /\ RanInv /\ StatusInv

\* Parents come earlier in the workflow, so that they are finitely many
LEMMA ParentsEarlier ==
  ASSUME NEW n \in Nat
  PROVE  /\ \A p \in ParentsOf(n) : p \in Nat /\ 0 < p /\ p < n
         /\ IsFiniteSet(ParentsOf(n))
         /\ ParentsOf(n) \subseteq Int
  <1>1. \A i \in DOMAIN Wiring : Wiring[i][1] \in Nat \ {0} /\ Wiring[i][1] < Wiring[i][2]
    BY NodeLibraryAssumption
  <1>2. ASSUME NEW p \in ParentsOf(n) PROVE p \in Nat /\ 0 < p /\ p < n
    <2>1. PICK i \in DOMAIN Wiring : Wiring[i][2] = n /\ Wiring[i][1] = p
      BY DEF ParentsOf
    <2> QED  BY <1>1, <2>1
  <1>3. ParentsOf(n) \in SUBSET (0..n)
    BY <1>2
  <1>4. IsFiniteSet(0..n)
    BY FS_Interval
  <1>5. IsFiniteSet(ParentsOf(n))
    BY <1>3, <1>4, FS_Subset
  <1> QED  BY <1>2, <1>5

\* The nodes of a workflow
LEMMA FlowNodes ==
  ASSUME TypeInv
  PROVE  /\ Len(flow) \in Nat /\ DOMAIN flow = 1..Len(flow)
         /\ \A n \in 1..Len(flow) : flow[n].args \in Json
         /\ Len(outputs) \in Nat /\ DOMAIN outputs = 1..Len(outputs)
         /\ Len(Wiring) \in Nat /\ DOMAIN Wiring = 1..Len(Wiring)
  <1>1. flow \in Seq([kind : STRING, args : Json])
    BY NodeLibraryAssumption DEF TypeInv
  <1>2. Len(flow) \in Nat /\ DOMAIN flow = 1..Len(flow)
    BY <1>1
  <1>3. \A n \in 1..Len(flow) : flow[n] \in [kind : STRING, args : Json]
    <2>1. PICK R : R = [kind : STRING, args : Json]
      OBVIOUS
    <2>2. flow \in Seq(R)
      BY <1>1, <2>1
    <2>3. \A n \in 1..Len(flow) : flow[n] \in R
      BY <2>2
    <2> QED  BY <2>1, <2>3
  <1>4. PICK S : outputs \in Seq(S)
    BY DEF TypeInv
  <1>5. Len(outputs) \in Nat /\ DOMAIN outputs = 1..Len(outputs)
    BY <1>4
  <1>6. Len(Wiring) \in Nat /\ DOMAIN Wiring = 1..Len(Wiring)
    BY NodeLibraryAssumption
  <1> QED  BY <1>2, <1>3, <1>5, <1>6

\* The parents' outputs of the nodes that ran and of the next one
LEMMA InputsNumeric ==
  ASSUME TypeInv, RanInv, NEW n \in 1..(Len(outputs) + 1)
  PROVE  /\ ParentsOf(n) \subseteq DOMAIN outputs
         /\ Parents(Inputs(n))
         /\ Numbers(Inputs(n)) = Sent(n)
  <1>1. Len(outputs) \in Nat /\ DOMAIN outputs = 1..Len(outputs)
    BY FlowNodes
  <1>2. n \in Nat
    BY <1>1
  <1>3. ParentsOf(n) \subseteq DOMAIN outputs
    BY <1>1, <1>2, ParentsEarlier
  <1>4. DOMAIN Inputs(n) = ParentsOf(n) /\ \A p \in ParentsOf(n) : Inputs(n)[p] = outputs[p]
    BY DEF Inputs
  <1>5. \A p \in ParentsOf(n) : Numeric(Inputs(n)[p]) \subseteq Int
    BY <1>3, <1>4 DEF RanInv
  <1>6. Parents(Inputs(n))
    BY <1>2, <1>4, <1>5, ParentsEarlier DEF Parents
  <1>7. {q \in DOMAIN Inputs(n) : Numeric(Inputs(n)[q]) # {}} = {p \in ParentsOf(n) : Numeric(outputs[p]) # {}}
    BY <1>4
  <1>8. Numbers(Inputs(n)) = Sent(n)
    BY <1>4, <1>7 DEF Numbers, Sent
  <1> QED  BY <1>3, <1>6, <1>8
-----------------------------------------------------------------------------
(* What a node may answer *)

\* What threshold answers depends on the numbers it finds
LEMMA ThresholdAnswers ==
  ASSUME NEW args, NEW parents, Parents(parents), NEW r \in ThresholdNode(args, Null, parents)
  PROVE  /\ r.kind = "ok" =>
              \E p \in DOMAIN parents :
                /\ \A q \in DOMAIN parents : p <= q
                /\ \E n \in AsF64(parents[p]) :
                     r.value = Obj([ok |-> Bool(Compare(args.f.op.s, n, args.f.threshold.n)), value |-> Num(n)])
         /\ r.kind = "err" => DOMAIN parents = {} \/ \E p \in DOMAIN parents : AsF64(parents[p]) = {}
  <1> DEFINE lowest == {q \in DOMAIN parents : \A s \in DOMAIN parents : q <= s}
             first == {parents[p] : p \in lowest}
             fromParent == UNION {AsF64(v) : v \in first}
             answer(n) == Done(Obj([ok |-> Bool(Compare(args.f.op.s, n, args.f.threshold.n)), value |-> Num(n)]))
  <1>1. \A n \in fromParent : \E p \in lowest : n \in AsF64(parents[p])
    OBVIOUS
  <1>2. CASE fromParent # {}
    <2>1. PICK n \in fromParent : r = answer(n)
      BY <1>2 DEF ThresholdNode
    <2>2. PICK p \in lowest : n \in AsF64(parents[p])
      BY <1>1
    <2>3. r.kind = "ok" /\ r.value = Obj([ok |-> Bool(Compare(args.f.op.s, n, args.f.threshold.n)), value |-> Num(n)])
      BY <2>1 DEF Done
    <2> QED  BY <2>2, <2>3
  <1>3. CASE fromParent = {}
    <2>1. AsF64(Null) = {}
      BY NumericOf
    <2>2. r = Fail("InvalidInput")
      BY <1>3, <2>1 DEF ThresholdNode
    <2>3. r.kind = "err"
      BY <2>2 DEF Fail
    <2>4. ASSUME DOMAIN parents # {} PROVE \E p \in DOMAIN parents : AsF64(parents[p]) = {}
      <3>1. PICK p \in DOMAIN parents : \A q \in DOMAIN parents : p <= q
        BY <2>4, LeastExists DEF Parents
      <3>2. p \in lowest /\ parents[p] \in first
        BY <3>1
      <3> QED  BY <1>3, <3>2
    <2> QED  BY <2>3, <2>4
  <1> QED  BY <1>2, <1>3

\* Only median, threshold and http_fetch refuse to answer
LEMMA ErrorsOf ==
  ASSUME NEW node, node.kind \in DOMAIN Stdlib, NEW parents, Parents(parents),
         NEW r \in Execute(node, Null, parents), r.kind = "err"
  PROVE  \/ node.kind = "http_fetch"
         \/ node.kind = "median" /\ \A p \in DOMAIN parents : Numeric(parents[p]) = {}
         \/ node.kind = "threshold" /\ (DOMAIN parents = {} \/ \E p \in DOMAIN parents : AsF64(parents[p]) = {})
  <1>1. node.kind \in {"constant", "sha256", "http_fetch", "median", "threshold"}
    BY DEF Stdlib
  <1>2. ASSUME NEW v, r = Done(v) PROVE FALSE
    BY <1>2 DEF Done
  <1>3. node.kind # "constant"
    BY <1>2, ExecuteOf DEF ConstantNode
  <1>4. node.kind # "sha256"
    BY <1>2, ExecuteOf DEF Sha256Node
  <1>5. CASE node.kind = "median"
    <2>1. r \in MedianNode(parents)
      BY <1>5, ExecuteOf
    <2> QED  BY <1>5, <2>1, MedianAnswers
  <1>6. CASE node.kind = "threshold"
    <2>1. r \in ThresholdNode(node.args, Null, parents)
      BY <1>6, ExecuteOf
    <2> QED  BY <1>6, <2>1, ThresholdAnswers
  <1> QED  BY <1>1, <1>3, <1>4, <1>5, <1>6

\* Whatever numbers an answer holds are integers
LEMMA AnswersNumeric ==
  ASSUME NEW node, node.kind \in DOMAIN Stdlib, node.args \in Json,
         NEW parents, Parents(parents), NEW r \in Execute(node, Null, parents), r.kind = "ok"
  PROVE  Numeric(r.value) \subseteq Int
  <1>1. node.kind \in {"constant", "sha256", "http_fetch", "median", "threshold"}
    BY DEF Stdlib
  <1>2. \A v : Done(v).value = v
    BY DEF Done
  <1>3. CASE node.kind = "constant"
    <2>1. r = Done(node.args)
      BY <1>3, ExecuteOf DEF ConstantNode
    <2> QED  BY <1>2, <2>1, NumericJson
  <1>4. CASE node.kind = "sha256"
    <2>1. r = Done(Str(Hash(Null)))
      BY <1>4, ExecuteOf DEF Sha256Node
    <2> QED  BY <1>2, <2>1, NumericOf
  <1>5. CASE node.kind = "http_fetch"
    <2>1. r \in HttpFetchNode(node.args)
      BY <1>5, ExecuteOf
    <2>2. \A e : r # Fail(e)
      BY DEF Fail
    <2>3. PICK b \in Bodies : r = Done(b)
      BY <2>1, <2>2 DEF HttpFetchNode
    <2>4. b \in Json
      BY NodeLibraryAssumption
    <2> QED  BY <1>2, <2>3, <2>4, NumericJson
  <1>6. CASE node.kind = "median"
    <2>1. r \in MedianNode(parents)
      BY <1>6, ExecuteOf
    <2>2. PICK f : f = Numbers(parents)
      OBVIOUS
    <2>3. PICK n : n = Cardinality(DOMAIN f)
      OBVIOUS
    <2>4. PICK t : t = Ascending(Nums(parents))
      OBVIOUS
    <2>5. n > 0 /\ n \in Nat /\ Lists(t, f, n) /\ r.value = Num(Middle(t))
      BY <2>1, <2>2, <2>3, <2>4, MedianAnswers
    <2>6. Middle(t) \in Int
      BY <2>5, MiddleType
    <2>7. Numeric(r.value) = {Middle(t)}
      BY <2>5, NumericOf
    <2> QED  BY <2>6, <2>7
  <1>7. CASE node.kind = "threshold"
    <2>1. r \in ThresholdNode(node.args, Null, parents)
      BY <1>7, ExecuteOf
    <2>0. PICK p \in DOMAIN parents :
            \E n \in AsF64(parents[p]) :
              r.value = Obj([ok |-> Bool(Compare(node.args.f.op.s, n, node.args.f.threshold.n)), value |-> Num(n)])
      BY <2>1, ThresholdAnswers
    <2>2. PICK n \in AsF64(parents[p]) :
            r.value = Obj([ok |-> Bool(Compare(node.args.f.op.s, n, node.args.f.threshold.n)), value |-> Num(n)])
      BY <2>0
    <2>3. n \in Int
      <3>1. n \in Numeric(parents[p])
        BY DEF Numeric
      <3> QED  BY <3>1 DEF Parents
    <2>4. Numeric(r.value) = {n}
      BY <2>2, NumericOf
    <2> QED  BY <2>3, <2>4
  <1> QED  BY <1>1, <1>3, <1>4, <1>5, <1>6, <1>7
-----------------------------------------------------------------------------
(* The invariant holds *)

\* What it takes to create a node
LEMMA Made ==
  ASSUME NEW node, Instantiate(node) = "ok"
  PROVE  /\ node.kind \in DOMAIN Stdlib
         /\ node.kind = "threshold" => ParsesThreshold(node.args)
  BY DEF Instantiate

\* An answer is an output or an error
LEMMA Answered ==
  ASSUME NEW node, node.kind \in DOMAIN Stdlib, NEW parents, NEW r \in Execute(node, Null, parents)
  PROVE  r.kind = "ok" \/ r.kind = "err"
  <1>1. node.kind \in {"constant", "sha256", "http_fetch", "median", "threshold"}
    BY DEF Stdlib
  <1>2. \A v : Done(v).kind = "ok"
    BY DEF Done
  <1>3. \A e : Fail(e).kind = "err"
    BY DEF Fail
  <1>4. CASE node.kind = "constant"
    BY <1>2, <1>4, ExecuteOf DEF ConstantNode
  <1>5. CASE node.kind = "sha256"
    BY <1>2, <1>5, ExecuteOf DEF Sha256Node
  <1>6. CASE node.kind = "http_fetch"
    <2>1. r \in HttpFetchNode(node.args)
      BY <1>6, ExecuteOf
    <2> QED  BY <1>2, <1>3, <2>1 DEF HttpFetchNode
  <1>7. CASE node.kind = "median"
    <2>1. r \in MedianNode(parents)
      BY <1>7, ExecuteOf
    <2> QED  BY <1>2, <1>3, <2>1 DEF MedianNode
  <1>8. CASE node.kind = "threshold"
    <2>1. r \in ThresholdNode(node.args, Null, parents)
      BY <1>8, ExecuteOf
    <2>2. (\E v : r = Done(v)) \/ r = Fail("InvalidInput")
      BY <2>1 DEF ThresholdNode
    <2> QED  BY <1>2, <1>3, <2>2
  <1> QED  BY <1>1, <1>4, <1>5, <1>6, <1>7, <1>8

\* Composition: an edge is validated or a node created
LEMMA ComposePreserves ==
  ASSUME IInv, Validate \/ Make
  PROVE  IInv'
  <1> USE DEF IInv
  <1>1. outputs = << >> /\ outputs' = outputs /\ flow' = flow
    <2>1. CASE Validate
      <3>1. Len(Wiring) \in Nat /\ edge < Len(Wiring)
        BY <2>1, FlowNodes DEF Validate
      <3> QED  BY <2>1, <3>1 DEF Validate, StageInv, TypeInv
    <2>2. CASE Make
      <3>1. Len(flow) \in Nat /\ made < Len(flow)
        BY <2>2, FlowNodes DEF Make
      <3> QED  BY <2>2, <3>1 DEF Make, StageInv, TypeInv
    <2> QED  BY <2>1, <2>2
  <1>2. (\A n : status' # <<"execute", "InvalidInput", n>>)
    <2>1. \A n : status # <<"execute", "InvalidInput", n>>
      BY DEF Validate, Make, Running
    <2>2. CASE status' = status
      BY <2>1, <2>2
    <2>3. CASE \E v : status' = <<"validate", v>> \/ status' = <<"instantiate", v>>
      BY <2>3
    <2> QED  BY <2>2, <2>3 DEF Validate, Make
  <1>3. StatusInv' /\ StageInv' /\ RanInv'
    <2>1. StatusInv'
      BY <1>2 DEF StatusInv
    <2>2. StageInv'
      BY <1>1 DEF StageInv
    <2>3. RanInv'
      BY <1>1 DEF RanInv
    <2> QED  BY <2>1, <2>2, <2>3
  <1>4. CASE Validate
    <2>1. made' = made
      BY <1>4 DEF Validate
    <2>2. CASE edge' = edge + 1
      <3>1. ValidateEdge(flow[Wiring[edge + 1][1]].kind, flow[Wiring[edge + 1][2]].kind) = "ok"
        BY <1>4, <2>2 DEF Validate, TypeInv
      <3>2. edge \in Nat /\ edge + 1 \in 0..Len(Wiring)
        BY <1>4, FlowNodes DEF Validate, TypeInv
      <3>3. ValidInv'
        BY <1>1, <2>2, <3>1, <3>2 DEF ValidInv
      <3>4. TypeInv'
        BY <1>1, <2>1, <2>2, <3>2 DEF TypeInv
      <3>5. MadeInv'
        BY <1>1, <2>1 DEF MadeInv
      <3> QED  BY <1>3, <3>3, <3>4, <3>5
    <2>3. CASE edge' = edge
      BY <1>1, <1>3, <2>1, <2>3 DEF TypeInv, ValidInv, MadeInv
    <2> QED  BY <1>4, <2>2, <2>3 DEF Validate
  <1>5. CASE Make
    <2>1. edge' = edge
      BY <1>5 DEF Make
    <2>2. CASE made' = made + 1
      <3>1. Instantiate(flow[made + 1]) = "ok"
        BY <1>5, <2>2 DEF Make, TypeInv
      <3>2. made \in Nat /\ made + 1 \in 0..Len(flow)
        BY <1>5, FlowNodes DEF Make, TypeInv
      <3>3. MadeInv'
        BY <1>1, <2>2, <3>1, <3>2 DEF MadeInv
      <3>4. TypeInv'
        BY <1>1, <2>1, <2>2, <3>2 DEF TypeInv
      <3>5. ValidInv'
        BY <1>1, <2>1 DEF ValidInv
      <3> QED  BY <1>3, <3>3, <3>4, <3>5
    <2>3. CASE made' = made
      BY <1>1, <1>3, <2>1, <2>3 DEF TypeInv, ValidInv, MadeInv
    <2> QED  BY <1>5, <2>2, <2>3 DEF Make
  <1> QED  BY <1>4, <1>5

\* Execution: the next node returns an output or an error
LEMMA RunNodePreserves ==
  ASSUME IInv, RunNode
  PROVE  IInv'
  <1> USE DEF IInv
  <1> DEFINE k == Len(outputs) + 1
  <1>1. /\ status = Running /\ edge = Len(Wiring) /\ made = Len(flow) /\ k <= Len(flow)
        /\ UNCHANGED <<flow, edge, made>>
    BY DEF RunNode
  <1>2. PICK r \in Execute(flow[k], Null, Inputs(k)) :
          IF r.kind = "ok" THEN outputs' = Append(outputs, r.value) /\ UNCHANGED status
          ELSE status' = <<"execute", r.error, k>> /\ UNCHANGED outputs
    BY DEF RunNode, Inputs
  <1>3. Len(outputs) \in Nat /\ DOMAIN outputs = 1..Len(outputs) /\ Len(flow) \in Nat
    BY FlowNodes
  <1>4. k \in 1..Len(flow) /\ k \in 1..(Len(outputs) + 1)
    BY <1>1, <1>3
  <1>5. flow[k].kind \in DOMAIN Stdlib /\ flow[k].args \in Json
    <2>1. Instantiate(flow[k]) = "ok"
      BY <1>1, <1>4 DEF MadeInv
    <2> QED  BY <1>4, <2>1, Made, FlowNodes
  <1>6. Parents(Inputs(k))
    BY <1>4, InputsNumeric
  <1>7. ValidInv' /\ MadeInv'
    BY <1>1 DEF ValidInv, MadeInv
  <1>8. StageInv'
    BY <1>1 DEF StageInv
  <1>9. CASE r.kind = "ok"
    <2>1. outputs' = Append(outputs, r.value) /\ status' = status
      BY <1>2, <1>9
    <2>2. PICK S : outputs \in Seq(S)
      BY DEF TypeInv
    <2>3. PICK T : T = S \cup {r.value}
      OBVIOUS
    <2>4. /\ outputs \in Seq(T) /\ r.value \in T
          /\ outputs' \in Seq(T) /\ Len(outputs') = k
          /\ outputs'[k] = r.value /\ \A i \in 1..Len(outputs) : outputs'[i] = outputs[i]
      BY <2>1, <2>2, <2>3
    <2>5. DOMAIN outputs' = 1..k
      BY <2>4
    <2>6. TypeInv'
      BY <1>1, <2>4 DEF TypeInv
    <2>7. \A n \in 1..k : Inputs(n)' = Inputs(n)
      <3> SUFFICES ASSUME NEW n \in 1..k PROVE Inputs(n)' = Inputs(n)
        OBVIOUS
      <3>1. ParentsOf(n) \subseteq 1..Len(outputs)
        BY <1>3, InputsNumeric
      <3> QED  BY <2>4, <3>1 DEF Inputs
    <2>8. ASSUME NEW n \in DOMAIN outputs' PROVE Returned(n)' /\ Numeric(outputs'[n]) \subseteq Int
      <3>1. CASE n = k
        <4>1. Numeric(r.value) \subseteq Int
          BY <1>5, <1>6, <1>9, AnswersNumeric
        <4>2. r \in Execute(flow'[n], Null, Inputs(n)')
          BY <1>1, <1>4, <2>7, <3>1
        <4> QED  BY <1>9, <2>4, <3>1, <4>1, <4>2 DEF Returned
      <3>2. CASE n # k
        <4>1. n \in DOMAIN outputs /\ outputs'[n] = outputs[n] /\ n \in 1..k
          BY <1>3, <2>4, <2>5, <3>2
        <4>2. Returned(n) /\ Numeric(outputs[n]) \subseteq Int
          BY <4>1 DEF RanInv
        <4>3. PICK a \in Execute(flow[n], Null, Inputs(n)) : a.kind = "ok" /\ a.value = outputs[n]
          BY <4>2 DEF Returned
        <4>4. a \in Execute(flow'[n], Null, Inputs(n)')
          BY <1>1, <2>7, <4>1, <4>3
        <4> QED  BY <4>1, <4>2, <4>3, <4>4 DEF Returned
      <3> QED  BY <3>1, <3>2
    <2>9. RanInv'
      BY <2>8 DEF RanInv
    <2>10. StatusInv'
      BY <1>1, <2>1 DEF StatusInv, Running
    <2> QED  BY <1>7, <1>8, <2>6, <2>9, <2>10
  <1>10. CASE r.kind # "ok"
    <2>1. status' = <<"execute", r.error, k>> /\ outputs' = outputs
      BY <1>2, <1>10
    <2>2. TypeInv'
      BY <1>1, <2>1 DEF TypeInv
    <2>3. \A n : Inputs(n)' = Inputs(n)
      BY <2>1 DEF Inputs
    <2>4. RanInv'
      <3>1. ASSUME NEW n \in DOMAIN outputs PROVE Returned(n)' /\ Numeric(outputs'[n]) \subseteq Int
        BY <1>1, <2>1 DEF RanInv, Returned, Inputs
      <3> QED  BY <2>1, <3>1 DEF RanInv
    <2>5. r.kind = "err"
      BY <1>5, <1>10, Answered
    <2>6. StatusInv'
      <3> SUFFICES ASSUME NEW n, status' = <<"execute", "InvalidInput", n>>
                   PROVE  /\ edge' = Len(Wiring) /\ made' = Len(flow')
                          /\ n = Len(outputs') + 1 /\ n <= Len(flow')
                          /\ \E a \in Execute(flow'[n], Null, Inputs(n)') : a.kind = "err"
        BY DEF StatusInv
      <3>1. n = k
        BY <2>1
      <3>2. r \in Execute(flow'[n], Null, Inputs(n)')
        BY <1>1, <2>3, <3>1
      <3> QED  BY <1>1, <2>1, <2>5, <3>1, <3>2
    <2> QED  BY <1>7, <1>8, <2>2, <2>4, <2>6
  <1> QED  BY <1>9, <1>10

LEMMA NodeLibraryInvariant == Spec => []IInv
  <1>1. Init => IInv
    <2> SUFFICES ASSUME Init PROVE IInv
      OBVIOUS
    <2>1. Len(Wiring) \in Nat
      BY NodeLibraryAssumption
    <2>2. Len(flow) \in Nat
      <3>1. flow \in Seq([kind : STRING, args : Json])
        BY NodeLibraryAssumption DEF Init
      <3> QED  BY <3>1
    <2>3. outputs = << >> /\ edge = 0 /\ made = 0 /\ status = Running
      BY DEF Init
    <2>4. outputs \in Seq({}) /\ Len(outputs) = 0 /\ DOMAIN outputs = {}
      BY <2>3
    <2>5. TypeInv
      BY <2>1, <2>2, <2>3, <2>4 DEF Init, TypeInv
    <2>6. StatusInv
      BY <2>3 DEF StatusInv, Running
    <2> QED  BY <2>3, <2>4, <2>5, <2>6 DEF IInv, ValidInv, MadeInv, StageInv, RanInv
  <1>2. IInv /\ [Next]_vars => IInv'
    <2>1. CASE UNCHANGED vars
      BY <2>1 DEF vars, IInv, TypeInv, ValidInv, MadeInv, StageInv, RanInv, Returned, Inputs, StatusInv
    <2> QED  BY <2>1, ComposePreserves, RunNodePreserves DEF Next
  <1> QED  BY <1>1, <1>2, PTL DEF Spec
-----------------------------------------------------------------------------
(* Wiring that passed the check *)

\* A median that ran answered a number
LEMMA MedianSendsNumber ==
  ASSUME IInv, NEW p \in DOMAIN outputs, flow[p].kind = "median"
  PROVE  AsF64(outputs[p]) # {} /\ Numeric(outputs[p]) # {}
  <1>1. PICK r \in Execute(flow[p], Null, Inputs(p)) : r.kind = "ok" /\ r.value = outputs[p]
    BY DEF IInv, RanInv, Returned
  <1>2. r \in MedianNode(Inputs(p))
    BY <1>1, ExecuteOf
  <1>3. Parents(Inputs(p))
    BY FlowNodes, InputsNumeric DEF IInv
  <1>4. PICK x : r.value = Num(x)
    BY <1>1, <1>2, <1>3, MedianAnswers
  <1> QED  BY <1>1, <1>4, NumericOf

\* assignable lets only a median or an "any" feed a node that asks for a number
LEMMA ValidatedEdge ==
  ASSUME IInv, edge = Len(Wiring), NEW n, flow[n].kind \in {"median", "threshold"},
         NEW p \in ParentsOf(n)
  PROVE  flow[p].kind = "median" \/ Stdlib[flow[p].kind].output = "Json"
  <1>1. PICK i \in DOMAIN Wiring : Wiring[i][2] = n /\ Wiring[i][1] = p
    BY DEF ParentsOf
  <1>2. ValidateEdge(flow[p].kind, flow[n].kind) = "ok"
    BY <1>1, FlowNodes DEF IInv, ValidInv
  <1>3. /\ flow[p].kind \in DOMAIN Stdlib
        /\ Assignable(Stdlib[flow[p].kind].output, Stdlib[flow[n].kind].input)
    BY <1>2 DEF ValidateEdge
  <1>4. Stdlib[flow[n].kind].input = "Number"
    BY DEF Stdlib, Sig, MedianDescriptor, ThresholdDescriptor
  <1>5. Stdlib[flow[p].kind].output \in {"Json", "Number"}
    BY <1>3, <1>4 DEF Assignable
  <1>6. flow[p].kind \in {"constant", "sha256", "http_fetch", "median", "threshold"}
    BY <1>3 DEF Stdlib
  <1>7. Stdlib[flow[p].kind].output = "Number" => flow[p].kind = "median"
    BY <1>6 DEF Stdlib, Sig, ConstantDescriptor, Sha256Descriptor, HttpFetchDescriptor,
                MedianDescriptor, ThresholdDescriptor
  <1> QED  BY <1>5, <1>7

\* NodeRegistry::validate_edge: a node fails on its input at run time only when
\* nothing concretely typed feeds it
THEOREM ConcreteWiringRuns == Spec => []ValidatedWiringRuns
  <1>1. IInv => ValidatedWiringRuns
    <2> SUFFICES ASSUME IInv, NEW n \in DOMAIN flow, status = <<"execute", "InvalidInput", n>>,
                        flow[n].kind # "http_fetch", ParentsOf(n) # {}
                 PROVE  \E p \in ParentsOf(n) : Stdlib[flow[p].kind].output = "Json"
      BY DEF ValidatedWiringRuns
    <2>1. /\ edge = Len(Wiring) /\ made = Len(flow)
          /\ n = Len(outputs) + 1 /\ n <= Len(flow)
      BY DEF IInv, StatusInv
    <2>2. PICK r \in Execute(flow[n], Null, Inputs(n)) : r.kind = "err"
      BY DEF IInv, StatusInv
    <2>3. n \in 1..(Len(outputs) + 1) /\ n \in 1..made
      BY <2>1, FlowNodes DEF IInv
    <2>4. /\ ParentsOf(n) \subseteq DOMAIN outputs
          /\ Parents(Inputs(n))
          /\ DOMAIN Inputs(n) = ParentsOf(n)
          /\ \A p \in ParentsOf(n) : Inputs(n)[p] = outputs[p]
      BY <2>3, InputsNumeric DEF IInv, Inputs
    <2>5. flow[n].kind \in DOMAIN Stdlib
      BY <2>3, Made DEF IInv, MadeInv
    <2>6. \/ flow[n].kind = "median" /\ \A p \in ParentsOf(n) : Numeric(outputs[p]) = {}
          \/ flow[n].kind = "threshold" /\ \E p \in ParentsOf(n) : AsF64(outputs[p]) = {}
      BY <2>2, <2>4, <2>5, ErrorsOf
    <2>7. PICK p \in ParentsOf(n) : AsF64(outputs[p]) = {} \/ Numeric(outputs[p]) = {}
      BY <2>6
    <2>8. flow[p].kind # "median"
      BY <2>4, <2>7, MedianSendsNumber
    <2>9. Stdlib[flow[p].kind].output = "Json"
      BY <2>1, <2>6, <2>8, ValidatedEdge
    <2> QED  BY <2>9
  <1> QED  BY <1>1, NodeLibraryInvariant, PTL
-----------------------------------------------------------------------------
(* What the answers mean *)

\* A median that ran answered the middle of its sorted numbers
LEMMA MedianOutput ==
  ASSUME IInv, NEW m \in DOMAIN outputs, flow[m].kind = "median"
  PROVE  \E n, t :
           /\ n \in Nat /\ n > 0 /\ n = Cardinality(DOMAIN Sent(m))
           /\ Lists(t, Sent(m), n) /\ outputs[m] = Num(Middle(t))
  <1>1. PICK r \in Execute(flow[m], Null, Inputs(m)) : r.kind = "ok" /\ r.value = outputs[m]
    BY DEF IInv, RanInv, Returned
  <1>2. r \in MedianNode(Inputs(m))
    BY <1>1, ExecuteOf
  <1>3. Parents(Inputs(m)) /\ Numbers(Inputs(m)) = Sent(m)
    BY FlowNodes, InputsNumeric DEF IInv
  <1>4. PICK f : f = Sent(m)
    OBVIOUS
  <1>5. PICK n : n = Cardinality(DOMAIN f)
    OBVIOUS
  <1>6. PICK t : t = Ascending(Nums(Inputs(m)))
    OBVIOUS
  <1>7. n > 0 /\ n \in Nat /\ Lists(t, f, n) /\ r.value = Num(Middle(t))
    BY <1>1, <1>2, <1>3, <1>4, <1>5, <1>6, MedianAnswers
  <1> QED  BY <1>1, <1>4, <1>5, <1>7

\* MedianNode::execute answers the midpoint of the values that split the numbers
\* of its parents in halves
THEOREM MedianIsCorrect == Spec => []MedianCorrect
  <1>1. IInv => MedianCorrect
    <2> SUFFICES ASSUME IInv, NEW m \in DOMAIN outputs, flow[m].kind = "median"
                 PROVE  LET f == Sent(m)
                            values == {f[p] : p \in DOMAIN f}
                            split == {x \in Min(values)..Max(values) : Splits(f, x)}
                        IN outputs[m].n = (Min(split) + Max(split)) \div 2
      BY DEF MedianCorrect
    <2>1. PICK f : f = Sent(m)
      OBVIOUS
    <2>2. PICK n, t : n \in Nat /\ n > 0 /\ Lists(t, f, n) /\ outputs[m] = Num(Middle(t))
      BY <2>1, MedianOutput
    <2>3. outputs[m].n = Middle(t)
      BY <2>2 DEF Num
    <2>4. LET values == {f[p] : p \in DOMAIN f}
              split == {x \in Min(values)..Max(values) : Splits(f, x)}
          IN  Middle(t) = (Min(split) + Max(split)) \div 2
      BY <2>2, MiddleIsMidpoint
    <2> QED  BY <2>1, <2>3, <2>4
  <1> QED  BY <1>1, NodeLibraryInvariant, PTL

\* The limit of a threshold node that could be created
LEMMA LimitType ==
  ASSUME NEW args \in Json, ParsesThreshold(args)
  PROVE  args.f.threshold.n \in Int
  <1>1. PICK v \in Get(args, "threshold") : v.t = "num"
    BY DEF ParsesThreshold, HasField
  <1>2. v = args.f.threshold
    BY DEF Get
  <1>3. AsF64(v) \subseteq Int
    BY NodeLibraryAssumption
  <1>4. v.n \in AsF64(v)
    BY <1>1 DEF AsF64
  <1> QED  BY <1>2, <1>3, <1>4

\* ThresholdNode::execute behind a median: no minority of the sources decides
THEOREM MajorityRules == Spec => []MajorityDecides
  <1>1. IInv => MajorityDecides
    <2> SUFFICES ASSUME IInv, NEW m \in DOMAIN outputs, NEW t \in DOMAIN outputs,
                        flow[m].kind = "median", flow[t].kind = "threshold", ParentsOf(t) = {m},
                        flow[t].args.f.op.s = "gt", Cardinality(DOMAIN Sent(m)) % 2 = 1
                 PROVE  LET f == Sent(m) IN
                        outputs[t].f.ok.b <=>
                          2 * Cardinality({p \in DOMAIN f : f[p] > flow[t].args.f.threshold.n}) > Cardinality(DOMAIN f)
      BY DEF MajorityDecides
    <2>1. PICK limit : limit = flow[t].args.f.threshold.n
      OBVIOUS
    <2>2. limit \in Int
      <3>1. t \in 1..made /\ flow[t].args \in Json
        BY FlowNodes DEF IInv, TypeInv, StageInv
      <3>2. ParsesThreshold(flow[t].args)
        BY <3>1, Made DEF IInv, MadeInv
      <3> QED  BY <2>1, <3>1, <3>2, LimitType
    <2>3. PICK f : f = Sent(m)
      OBVIOUS
    <2>4. PICK n, s : n \in Nat /\ n = Cardinality(DOMAIN f) /\ Lists(s, f, n) /\ outputs[m] = Num(Middle(s))
      BY <2>3, MedianOutput
    <2>5. Middle(s) > limit <=> 2 * Cardinality(Above(f, limit)) > n
      BY <2>2, <2>3, <2>4, MiddleIsMajority
    <2>6. PICK r \in Execute(flow[t], Null, Inputs(t)) : r.kind = "ok" /\ r.value = outputs[t]
      BY DEF IInv, RanInv, Returned
    <2>7. r \in ThresholdNode(flow[t].args, Null, Inputs(t))
      BY <2>6, ExecuteOf
    <2>8. Parents(Inputs(t)) /\ DOMAIN Inputs(t) = {m} /\ Inputs(t)[m] = outputs[m]
      <3>1. Parents(Inputs(t))
        BY FlowNodes, InputsNumeric DEF IInv
      <3> QED  BY <3>1 DEF Inputs
    <2>9. \E x \in AsF64(outputs[m]) :
             outputs[t] = Obj([ok |-> Bool(Compare("gt", x, limit)), value |-> Num(x)])
      BY <2>1, <2>6, <2>7, <2>8, ThresholdAnswers
    <2>10. AsF64(outputs[m]) = {Middle(s)}
      BY <2>4, NumericOf
    <2>11. outputs[t] = Obj([ok |-> Bool(Compare("gt", Middle(s), limit)), value |-> Num(Middle(s))])
      BY <2>9, <2>10
    <2>12. outputs[t].f.ok.b = Compare("gt", Middle(s), limit)
      BY <2>11 DEF Obj, Bool
    <2>13. Compare("gt", Middle(s), limit) = (Middle(s) > limit)
      BY DEF Compare
    <2>14. outputs[t].f.ok.b <=> 2 * Cardinality(Above(f, limit)) > n
      BY <2>5, <2>12, <2>13
    <2> QED  BY <2>1, <2>3, <2>4, <2>14 DEF Above
  <1> QED  BY <1>1, NodeLibraryInvariant, PTL
=============================================================================
