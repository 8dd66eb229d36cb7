-------------------------- MODULE Enumerations_proofs --------------------------
(***************************************************************************)
(* What the proofs about several modules rest on: every finite set can be   *)
(* sorted by a strict total order; a set of numbers can be enumerated in    *)
(* ascending order; a recursive function over 0 .. n exists.                *)
(***************************************************************************)
EXTENDS Enumerations, Integers, FiniteSetTheorems, WellFoundedInduction, TLAPS

(* A set of naturals that is not empty has a least element.                 *)
LEMMA LeastElement ==
  ASSUME NEW S \in SUBSET Nat, S # {}
  PROVE  \E n \in S : \A m \in S : n <= m
<1>1. PICK n \in S : \A m \in S : <<m, n>> \notin OpToRel(<, Nat)
  BY NatLessThanWellFounded, WFMin, Zenon
<1>2. ASSUME NEW m \in S PROVE n <= m
  <2>1. <<m, n>> \notin OpToRel(<, Nat)
    BY <1>1, Zenon
  <2>2. ~(m < n)
    BY <2>1 DEF OpToRel
  <2> QED BY <2>2
<1> QED BY <1>2

(* A set of the numbers up to n that is not empty has a greatest element.   *)
LEMMA GreatestElement ==
  ASSUME NEW n \in Nat, NEW S \in SUBSET (1 .. n), S # {}
  PROVE  \E m \in S : \A i \in S : i <= m
<1> DEFINE D == {n - i : i \in S}
<1>1. D \in SUBSET Nat /\ D # {}
  <2>1. \A i \in S : n - i \in Nat
    OBVIOUS
  <2> QED BY <2>1
<1>2. PICK d \in D : \A e \in D : d <= e
  <2> HIDE DEF D
  <2> QED BY <1>1, LeastElement
<1>3. PICK m \in S : d = n - m
  OBVIOUS
<1>4. ASSUME NEW i \in S PROVE i <= m
  <2>1. n - m <= n - i
    BY <1>2, <1>3
  <2>2. n \in Int /\ m \in Int /\ i \in Int
    OBVIOUS
  <2> QED BY <2>1, <2>2
<1> QED BY <1>4

-----------------------------------------------------------------------------
(* A relation that puts the elements of a set in a row.                     *)
IsOrder(R, S) ==
  /\ \A x \in S : <<x, x>> \notin R
  /\ \A x, y \in S : x # y => <<x, y>> \in R \/ <<y, x>> \in R
  /\ \A x, y, z \in S : <<x, y>> \in R /\ <<y, z>> \in R => <<x, z>> \in R

Below(x, R, S) == {y \in S : <<y, x>> \in R}
Place(x, R, S) == Cardinality(Below(x, R, S)) + 1

(* A place of an element is one more than the number of those before it.    *)
LEMMA PlaceIs ==
  ASSUME NEW S, IsFiniteSet(S), NEW R, IsOrder(R, S), NEW x \in S
  PROVE  /\ IsFiniteSet(Below(x, R, S)) /\ Cardinality(Below(x, R, S)) \in Nat
         /\ Place(x, R, S) \in 1 .. Cardinality(S)
<1>1. Below(x, R, S) \subseteq S /\ x \notin Below(x, R, S)
  BY DEF Below, IsOrder
<1>2. /\ IsFiniteSet(Below(x, R, S)) /\ Cardinality(Below(x, R, S)) \in Nat
      /\ Cardinality(S) \in Nat
  BY <1>1, FS_Subset, FS_CardinalityType
<1>3. Cardinality(Below(x, R, S)) < Cardinality(S)
  <2>1. Below(x, R, S) # S
    BY <1>1
  <2> QED BY <1>1, <1>2, <2>1, FS_Subset
<1> QED BY <1>2, <1>3 DEF Place

LEMMA PlacesGrow ==
  ASSUME NEW S, IsFiniteSet(S), NEW R, IsOrder(R, S),
         NEW x \in S, NEW y \in S, <<x, y>> \in R
  PROVE  Place(x, R, S) < Place(y, R, S)
<1>1. Below(x, R, S) \subseteq Below(y, R, S)
  BY DEF Below, IsOrder
<1>2. x \in Below(y, R, S) /\ x \notin Below(x, R, S)
  BY DEF Below, IsOrder
<1>3. /\ IsFiniteSet(Below(y, R, S)) /\ Cardinality(Below(y, R, S)) \in Nat
      /\ Cardinality(Below(x, R, S)) \in Nat
  BY PlaceIs
<1>4. Below(x, R, S) # Below(y, R, S)
  BY <1>2
<1>5. Cardinality(Below(x, R, S)) < Cardinality(Below(y, R, S))
  BY <1>1, <1>3, <1>4, FS_Subset
<1> QED BY <1>3, <1>5 DEF Place

LEMMA PlacesApart ==
  ASSUME NEW S, IsFiniteSet(S), NEW R, IsOrder(R, S), NEW x \in S, NEW y \in S
  PROVE  /\ x # y => Place(x, R, S) # Place(y, R, S)
         /\ Place(x, R, S) < Place(y, R, S) => <<x, y>> \in R
<1>1. Place(x, R, S) \in Nat /\ Place(y, R, S) \in Nat
  BY PlaceIs DEF Place
<1>2. <<x, y>> \in R => Place(x, R, S) < Place(y, R, S)
  BY PlacesGrow
<1>3. <<y, x>> \in R => Place(y, R, S) < Place(x, R, S)
  BY PlacesGrow
<1>4. x # y => <<x, y>> \in R \/ <<y, x>> \in R
  BY DEF IsOrder
<1> QED BY <1>1, <1>2, <1>3, <1>4

(* No place is left empty: the elements are as many as the places.          *)
LEMMA PlacesTaken ==
  ASSUME NEW S, IsFiniteSet(S), NEW R, IsOrder(R, S), NEW k \in 1 .. Cardinality(S)
  PROVE  \E x \in S : Place(x, R, S) = k
<1>1. SUFFICES ASSUME \A x \in S : Place(x, R, S) # k PROVE FALSE
  OBVIOUS
<1>2. PICK n \in Nat : n = Cardinality(S)
  BY FS_CardinalityType
<1> DEFINE T == (1 .. n) \ {k}
           f == [x \in S |-> Place(x, R, S)]
<1>3. IsFiniteSet(T) /\ Cardinality(T) < Cardinality(S)
  <2>1. 1 \in Int /\ n \in Int
    BY <1>2
  <2>2. IsFiniteSet(1 .. n) /\ Cardinality(1 .. n) = n
    <3>1. IsFiniteSet(1 .. n) /\ Cardinality(1 .. n) = (IF 1 > n THEN 0 ELSE n - 1 + 1)
      BY <2>1, FS_Interval
    <3> QED BY <1>2, <3>1
  <2>3. IsFiniteSet(T) /\ Cardinality(T) = n - 1
    BY <1>2, <2>2, FS_RemoveElement
  <2> QED BY <1>2, <2>3
<1>4. f \in [S -> T]
  <2>1. \A x \in S : Place(x, R, S) \in 1 .. n
    BY <1>2, PlaceIs
  <2> QED BY <1>1, <2>1
<1>5. PICK x \in S, y \in S : x # y /\ f[x] = f[y]
  <2> HIDE DEF f, T
  <2> QED BY <1>3, <1>4, FS_PigeonHole
<1> QED BY <1>5, PlacesApart

(* The elements in their order, each at its place.                          *)
Sorts(seq, R, S) ==
  /\ seq \in [1 .. Cardinality(S) -> S]
  /\ \A i, j \in 1 .. Cardinality(S) : i < j => <<seq[i], seq[j]>> \in R
  /\ \A i, j \in 1 .. Cardinality(S) : seq[i] = seq[j] => i = j
  /\ \A x \in S : Place(x, R, S) \in 1 .. Cardinality(S) /\ seq[Place(x, R, S)] = x

LEMMA Sortable ==
  ASSUME NEW S, IsFiniteSet(S), NEW R, IsOrder(R, S)
  PROVE  \E seq : Sorts(seq, R, S)
<1> DEFINE c == Cardinality(S)
           seq == [k \in 1 .. c |-> CHOOSE x \in S : Place(x, R, S) = k]
<1>1. ASSUME NEW k \in 1 .. c PROVE seq[k] \in S /\ Place(seq[k], R, S) = k
  <2>1. \E x \in S : Place(x, R, S) = k
    BY PlacesTaken
  <2> QED BY <2>1
<1>2. seq \in [1 .. c -> S]
  BY <1>1
<1> HIDE DEF seq
<1>3. ASSUME NEW x \in S PROVE Place(x, R, S) \in 1 .. c /\ seq[Place(x, R, S)] = x
  <2>1. Place(x, R, S) \in 1 .. c
    BY PlaceIs
  <2>2. seq[Place(x, R, S)] \in S /\ Place(seq[Place(x, R, S)], R, S) = Place(x, R, S)
    BY <1>1, <2>1
  <2> QED BY <2>1, <2>2, PlacesApart
<1>4. ASSUME NEW i \in 1 .. c, NEW j \in 1 .. c, i < j
      PROVE  <<seq[i], seq[j]>> \in R
  BY <1>1, <1>4, PlacesApart
<1> QED BY <1>1, <1>2, <1>3, <1>4 DEF Sorts

-----------------------------------------------------------------------------
(* Numbers in ascending order.                                              *)
Enumerates(seq, S) ==
  /\ seq \in [1 .. Cardinality(S) -> S]
  /\ \A p, q \in 1 .. Cardinality(S) : p < q => seq[p] < seq[q]

Smaller == {pair \in Nat \X Nat : pair[1] < pair[2]}

LEMMA SmallerIsOrder == \A S \in SUBSET Nat : IsOrder(Smaller, S)
BY DEF IsOrder, Smaller

LEMMA AscendingSorts ==
  ASSUME NEW S \in SUBSET Nat, IsFiniteSet(S)
  PROVE  /\ Enumerates(Ascending(S), S)
         /\ \A x \in S : \E p \in 1 .. Cardinality(S) : Ascending(S)[p] = x
<1> DEFINE c == Cardinality(S)
<1>1. IsOrder(Smaller, S)
  BY SmallerIsOrder
<1>2. ASSUME NEW x \in S
      PROVE  /\ Cardinality({y \in S : y < x}) \in Nat
             /\ Place(x, Smaller, S) = Cardinality({y \in S : y < x}) + 1
  <2>1. Below(x, Smaller, S) = {y \in S : y < x}
    BY DEF Below, Smaller
  <2>2. Cardinality(Below(x, Smaller, S)) \in Nat
    BY <1>1, PlaceIs
  <2> QED BY <2>1, <2>2 DEF Place
<1>3. ASSUME NEW k \in 1 .. c
      PROVE  Ascending(S)[k] \in S /\ Place(Ascending(S)[k], Smaller, S) = k
  <2>1. PICK x \in S : Place(x, Smaller, S) = k
    BY <1>1, PlacesTaken
  <2>2. Cardinality({y \in S : y < x}) = k - 1
    BY <1>2, <2>1
  <2>3. Ascending(S)[k] = CHOOSE i \in S : Cardinality({j \in S : j < i}) = k - 1
    BY DEF Ascending
  <2>4. PICK i \in S : i = Ascending(S)[k] /\ Cardinality({j \in S : j < i}) = k - 1
    BY <2>2, <2>3
  <2>5. Place(i, Smaller, S) = (k - 1) + 1
    BY <1>2, <2>4
  <2> QED BY <2>4, <2>5
<1>4. Ascending(S) \in [1 .. c -> S]
  BY <1>3 DEF Ascending
<1>5. ASSUME NEW p \in 1 .. c, NEW q \in 1 .. c, p < q
      PROVE  Ascending(S)[p] < Ascending(S)[q]
  <2>1. <<Ascending(S)[p], Ascending(S)[q]>> \in Smaller
    BY <1>1, <1>3, <1>5, PlacesApart
  <2> QED BY <2>1 DEF Smaller
<1>6. ASSUME NEW x \in S PROVE \E p \in 1 .. c : Ascending(S)[p] = x
  <2>1. Place(x, Smaller, S) \in 1 .. c
    BY <1>1, PlaceIs
  <2> QED BY <1>1, <1>3, <2>1, PlacesApart
<1> QED BY <1>4, <1>5, <1>6 DEF Enumerates

LEMMA Apart ==
  ASSUME NEW n \in Nat, NEW seq \in [1 .. n -> Nat],
         \A p, q \in 1 .. n : p < q => seq[p] < seq[q],
         NEW p \in 1 .. n, NEW q \in 1 .. n
  PROVE  (seq[p] < seq[q] => p < q) /\ (seq[p] = seq[q] => p = q)
<1>1. seq[p] \in Nat /\ seq[q] \in Nat
  OBVIOUS
<1>2. (p < q => seq[p] < seq[q]) /\ (q < p => seq[q] < seq[p])
  OBVIOUS
<1> QED BY <1>1, <1>2

(* There is one way only.                                                   *)
LEMMA AscendingIs ==
  ASSUME NEW S \in SUBSET Nat, NEW n \in Nat, NEW seq \in [1 .. n -> S],
         \A p, q \in 1 .. n : p < q => seq[p] < seq[q],
         \A x \in S : \E p \in 1 .. n : seq[p] = x
  PROVE  IsFiniteSet(S) /\ Cardinality(S) = n /\ Ascending(S) = seq
<1>1. IsFiniteSet(S) /\ Cardinality(S) = n
  <2>1. 1 \in Int /\ n \in Int
    OBVIOUS
  <2>2. IsFiniteSet(1 .. n) /\ Cardinality(1 .. n) = n
    <3>1. IsFiniteSet(1 .. n) /\ Cardinality(1 .. n) = (IF 1 > n THEN 0 ELSE n - 1 + 1)
      BY <2>1, FS_Interval
    <3> QED BY <3>1
  <2>3. \A p, q \in 1 .. n : seq[p] = seq[q] => p = q
    <3>1. seq \in [1 .. n -> Nat]
      OBVIOUS
    <3> QED BY <3>1, Apart
  <2>4. seq \in Bijection(1 .. n, S)
    BY <2>3 DEF Bijection, Injection, Surjection, IsInjective
  <2>5. ExistsBijection(1 .. n, S)
    BY <2>4 DEF ExistsBijection
  <2> QED BY <2>2, <2>5, FS_Bijection
<1>2. PICK a : a = Ascending(S) /\ a \in [1 .. n -> S]
               /\ (\A p, q \in 1 .. n : p < q => a[p] < a[q])
               /\ (\A x \in S : \E p \in 1 .. n : a[p] = x)
  BY <1>1, AscendingSorts DEF Enumerates
<1> DEFINE Bad == {k \in 1 .. n : a[k] # seq[k]}
<1>3. ASSUME Bad # {} PROVE FALSE
  <2>1. PICK k \in Bad : \A j \in Bad : k <= j
    <3>1. Bad \in SUBSET Nat
      OBVIOUS
    <3> QED BY <1>3, <3>1, LeastElement
  <2>2. k \in 1 .. n /\ a[k] # seq[k] /\ a[k] \in S /\ seq[k] \in S
    BY <1>2
  <2>3. \A j \in 1 .. n : j < k => a[j] = seq[j]
    BY <2>1
  <2>4. PICK p \in 1 .. n : seq[p] = a[k]
    BY <2>2
  <2>5. PICK q \in 1 .. n : a[q] = seq[k]
    BY <1>2, <2>2
  <2>6. a \in [1 .. n -> Nat] /\ seq \in [1 .. n -> Nat]
    BY <1>2
  <2>7. \A i, j \in 1 .. n : a[i] = a[j] => i = j
    BY <1>2, <2>6, Apart
  <2>8. \A i, j \in 1 .. n : seq[i] = seq[j] => i = j
    BY <2>6, Apart
  <2>9. ~(a[k] < seq[k])
    <3>1. seq[p] < seq[k] => p < k
      BY <2>2, <2>6, Apart
    <3>2. p < k => a[p] = a[k]
      BY <2>3, <2>4
    <3> QED BY <2>2, <2>4, <2>7, <3>1, <3>2
  <2>10. ~(seq[k] < a[k])
    <3>1. a[q] < a[k] => q < k
      BY <1>2, <2>2, <2>6, Apart
    <3>2. q < k => seq[q] = seq[k]
      BY <2>3, <2>5
    <3> QED BY <2>2, <2>5, <2>8, <3>1, <3>2
  <2>11. a[k] \in Nat /\ seq[k] \in Nat
    BY <2>2
  <2> QED BY <2>2, <2>9, <2>10, <2>11
<1>4. a = seq
  <2>1. \A k \in 1 .. n : a[k] = seq[k]
    BY <1>3
  <2> QED BY <1>2, <2>1
<1> QED BY <1>1, <1>2, <1>4

LEMMA AscendingEnumerates ==
  ASSUME NEW n \in Nat, NEW places \in SUBSET (1 .. n)
  PROVE  Enumerates(Ascending(places), places)
<1>1. 1 \in Int /\ n \in Int
  OBVIOUS
<1>2. IsFiniteSet(1 .. n)
  BY <1>1, FS_Interval
<1>3. IsFiniteSet(places)
  BY <1>2, FS_Subset
<1>4. places \in SUBSET Nat
  OBVIOUS
<1> QED BY <1>3, <1>4, AscendingSorts

-----------------------------------------------------------------------------
(* A function over 0 .. n defined by recursion exists, when its steps are   *)
(* given by a function.                                                     *)
Recursively(f, first, step, n) ==
  f = [k \in 0 .. n |-> IF k = 0 THEN first ELSE step[<<k, f[k - 1]>>]]

LEMMA RecursionExists ==
  ASSUME NEW T, NEW first \in T, NEW n \in Nat, NEW step \in [(1 .. n) \X T -> T]
  PROVE  \E f \in [0 .. n -> T] : Recursively(f, first, step, n)
<1> DEFINE P(m) == \E f \in [0 .. m -> T] : Recursively(f, first, step, m)
           Bad == {m \in 0 .. n : ~P(m)}
<1>1. SUFFICES ASSUME Bad # {} PROVE FALSE
  OBVIOUS
<1>2. PICK m \in Bad : \A k \in Bad : m <= k
  <2>1. Bad \in SUBSET Nat
    OBVIOUS
  <2> QED BY <1>1, <2>1, LeastElement
<1>3. P(0)
  <2> DEFINE f == [k \in 0 .. 0 |-> first]
  <2>1. f \in [0 .. 0 -> T] /\ Recursively(f, first, step, 0)
    BY DEF Recursively
  <2> QED BY <2>1
<1>4. m \in 1 .. n /\ m - 1 \in 0 .. n /\ P(m - 1)
  <2> HIDE DEF P
  <2>1. m \in 0 .. n /\ m # 0
    BY <1>2, <1>3
  <2>2. m - 1 \in 0 .. n /\ ~(m <= m - 1)
    BY <2>1
  <2> QED BY <1>2, <2>1, <2>2
<1>5. PICK f \in [0 .. m - 1 -> T] : Recursively(f, first, step, m - 1)
  BY <1>4
<1> DEFINE g == [k \in 0 .. m |-> IF k = m THEN step[<<m, f[m - 1]>>] ELSE f[k]]
<1>6. \A k \in 0 .. m - 1 : g[k] = f[k] /\ f[k] \in T
  BY <1>4
<1>7. g[m] = step[<<m, f[m - 1]>>] /\ g[m] \in T
  <2>1. f[m - 1] \in T
    BY <1>4, <1>6
  <2>2. <<m, f[m - 1]>> \in (1 .. n) \X T
    BY <1>4, <2>1
  <2>3. step[<<m, f[m - 1]>>] \in T
    BY <2>2
  <2> QED BY <1>4, <2>3
<1>8. g \in [0 .. m -> T]
  BY <1>4, <1>6, <1>7
<1>9. DOMAIN g = 0 .. m
  OBVIOUS
<1> HIDE DEF g
<1>10. ASSUME NEW k \in 0 .. m
       PROVE  g[k] = IF k = 0 THEN first ELSE step[<<k, g[k - 1]>>]
  <2>1. CASE k = m
    <3>1. m # 0 /\ m - 1 \in 0 .. m - 1
      BY <1>4
    <3>2. g[m - 1] = f[m - 1]
      BY <1>6, <3>1
    <3> QED BY <1>7, <2>1, <3>1, <3>2
  <2>2. CASE k # m
    <3>1. k \in 0 .. m - 1 /\ g[k] = f[k]
      BY <1>4, <1>6, <2>2
    <3>2. f[k] = IF k = 0 THEN first ELSE step[<<k, f[k - 1]>>]
      BY <1>5, <3>1 DEF Recursively
    <3>3. k # 0 => g[k - 1] = f[k - 1]
      BY <1>6, <3>1
    <3> QED BY <3>1, <3>2, <3>3
  <2> QED BY <2>1, <2>2
<1>11. Recursively(g, first, step, m)
  BY <1>8, <1>9, <1>10 DEF Recursively
<1>12. P(m)
  BY <1>8, <1>11
<1> QED BY <1>2, <1>12

(* What holds of the first value and carries over with every step holds of  *)
(* all values, and may speak of how many steps there were.                  *)
LEMMA RecursionKeeps ==
  ASSUME NEW n \in Nat, NEW f, NEW I,
         <<0, f[0]>> \in I, \A k \in 1 .. n : <<k - 1, f[k - 1]>> \in I => <<k, f[k]>> \in I
  PROVE  \A k \in 0 .. n : <<k, f[k]>> \in I
<1> DEFINE Bad == {m \in 0 .. n : <<m, f[m]>> \notin I}
<1>1. SUFFICES ASSUME Bad # {} PROVE FALSE
  OBVIOUS
<1>2. PICK m \in Bad : \A k \in Bad : m <= k
  <2>1. Bad \in SUBSET Nat
    OBVIOUS
  <2> QED BY <1>1, <2>1, LeastElement
<1>3. m \in 1 .. n /\ m - 1 \in 0 .. n /\ m - 1 \notin Bad
  BY <1>2
<1>4. <<m - 1, f[m - 1]>> \in I
  BY <1>3
<1> QED BY <1>2, <1>3, <1>4
=============================================================================
