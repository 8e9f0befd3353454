------------------------------- MODULE Places -------------------------------
(***************************************************************************)
(* Finite sets of numbers and their order, for the proofs about components *)
(* that read a table by offset (HotList, Migration) or by id (Comments):   *)
(* the place of a row is the number of rows before it.  Sums, for Balancer.*)
(***************************************************************************)
EXTENDS Integers, FiniteSets, Functions, TLAPS, FiniteSetTheorems, WellFoundedInduction

Place(R, i)    == Cardinality({j \in R : j < i})
Under(R, k)    == {i \in R : Place(R, i) < k}
Slice(R, o, b) == {i \in R : o <= Place(R, i) /\ Place(R, i) < o + b}

-----------------------------------------------------------------------------
(* Finite sets.                                                              *)

(* Finite sets one of which is part of the other.                             *)
LEMMA Part ==
  ASSUME NEW S, IsFiniteSet(S), NEW T, T \subseteq S
  PROVE  /\ IsFiniteSet(T) /\ Cardinality(T) \in Nat /\ Cardinality(S) \in Nat
         /\ Cardinality(T) <= Cardinality(S) /\ (Cardinality(T) = Cardinality(S) => T = S)
BY FS_Subset, FS_CardinalityType

(* What is left of a set when a part of it is taken away.                     *)
LEMMA Difference ==
  ASSUME NEW S, IsFiniteSet(S), NEW T, T \subseteq S
  PROVE  /\ Cardinality(S \ T) = Cardinality(S) - Cardinality(T) /\ IsFiniteSet(S \ T)
<1>1. IsFiniteSet(T) /\ IsFiniteSet(S \ T) /\ Cardinality(T) \in Nat /\ Cardinality(S \ T) \in Nat
  BY Part
<1>2. T \cap (S \ T) = {} /\ T \cup (S \ T) = S
  OBVIOUS
<1>3. Cardinality(T \cup (S \ T)) = Cardinality(T) + Cardinality(S \ T) - Cardinality(T \cap (S \ T))
  BY <1>1, FS_Union
<1>4. Cardinality({}) = 0
  BY FS_EmptySet
<1>5. Cardinality(S) = Cardinality(T) + Cardinality(S \ T) - 0
  BY <1>2, <1>3, <1>4
<1> QED
  BY <1>1, <1>5

(* The union of two sets has no more members than the two.                    *)
LEMMA Together ==
  ASSUME NEW S, IsFiniteSet(S), NEW T, IsFiniteSet(T)
  PROVE  /\ IsFiniteSet(S \cup T) /\ Cardinality(S \cup T) \in Nat
         /\ Cardinality(S \cup T) <= Cardinality(S) + Cardinality(T)
<1>1. /\ IsFiniteSet(S \cup T)
      /\ Cardinality(S \cup T) = Cardinality(S) + Cardinality(T) - Cardinality(S \cap T)
  BY FS_Union
<1>2. /\ Cardinality(S) \in Nat /\ Cardinality(T) \in Nat /\ Cardinality(S \cap T) \in Nat
      /\ Cardinality(S \cup T) \in Nat
  BY <1>1, Part, FS_CardinalityType
<1> QED
  BY <1>1, <1>2

(* The least of some numbers, and the greatest of finitely many.              *)
LEMMA Least ==
  ASSUME NEW S, S \subseteq Nat, S # {}
  PROVE  \E m \in S : \A i \in S : m <= i
<1> DEFINE less == OpToRel(<, Nat)
<1>1. IsWellFoundedOn(less, Nat)
  BY NatLessThanWellFounded, Zenon
<1>2. \A i, m \in Nat : i < m => <<i, m>> \in less
  BY Zenon DEF OpToRel
<1> HIDE DEF less
<1>3. \E m \in S : \A i \in S : ~(<<i, m>> \in less)
  BY <1>1, WFMin
<1>4. \E m \in S : \A i \in S : ~(i < m)
  BY <1>2, <1>3, Zenon
<1> QED
  BY <1>4

LEMMA Greatest ==
  ASSUME NEW n \in Nat, NEW S, S \subseteq 1 .. n, S # {}
  PROVE  \E m \in S : \A i \in S : i <= m
<1> DEFINE above == {k \in Nat : \E i \in S : k = n - i}
<1>1. above \subseteq Nat /\ above # {}
  <2>1. PICK i \in S : TRUE
    OBVIOUS
  <2>2. i \in 1 .. n /\ n - i \in Nat
    BY <2>1
  <2> QED
    BY <2>1, <2>2
<1> HIDE DEF above
<1>2. PICK k \in above : \A l \in above : k <= l
  BY <1>1, Least
<1>3. PICK m \in S : k = n - m
  BY <1>2 DEF above
<1>4. ASSUME NEW i \in S PROVE i <= m
  <2>1. i \in 1 .. n /\ m \in 1 .. n /\ n - i \in Nat
    BY <1>3
  <2>2. n - i \in above
    BY <2>1 DEF above
  <2>3. n - m <= n - i
    BY <1>2, <1>3, <2>2
  <2> QED
    BY <2>1, <2>3
<1> QED
  BY <1>4

(* The numbers up to n are finitely many.                                     *)
LEMMA Bounded ==
  ASSUME NEW n \in Nat, NEW R, R \subseteq 1 .. n
  PROVE  IsFiniteSet(R) /\ Cardinality(R) \in Nat
<1>1. \A a, b \in Int : IsFiniteSet(a .. b)
  BY FS_Interval
<1>2. IsFiniteSet(1 .. n)
  BY <1>1
<1> QED
  BY <1>2, FS_Subset, FS_CardinalityType

(* A sequence of as many ids as there are, each greater than the one before,  *)
(* leaves none out.                                                           *)
LEMMA NoneLeftOut ==
  ASSUME NEW ids, IsFiniteSet(ids), NEW s \in [1 .. Cardinality(ids) -> ids], ids \subseteq Nat,
         \A i, j \in 1 .. Cardinality(ids) : i < j => s[i] < s[j]
  PROVE  \A id \in ids : \E i \in 1 .. Cardinality(ids) : s[i] = id
<1>1. PICK n \in Nat : n = Cardinality(ids)
  BY FS_CardinalityType
<1>2. \A a, b \in Int : Cardinality(a .. b) = IF a > b THEN 0 ELSE b - a + 1
  BY FS_Interval
<1>3. Cardinality(1 .. n) = n
  BY <1>2
<1>4. s \in [1 .. n -> ids] /\ \A i, j \in 1 .. n : i < j => s[i] < s[j]
  BY <1>1
<1>5. ASSUME NEW i \in 1 .. n, NEW j \in 1 .. n, s[i] = s[j] PROVE i = j
  <2>1. s[i] \in Nat /\ s[j] \in Nat
    BY <1>4
  <2>2. ~(i < j) /\ ~(j < i)
    BY <1>4, <1>5, <2>1
  <2> QED
    BY <2>2
<1>6. s \in Injection(1 .. n, ids)
  BY <1>4, <1>5 DEF Injection, IsInjective
<1>7. s \in Surjection(1 .. n, ids)
  BY <1>1, <1>3, <1>6, FS_Injection
<1> QED
  BY <1>1, <1>7 DEF Surjection

-----------------------------------------------------------------------------
(* Rows and their places.                                                    *)

(* No more than k rows have a place under k, and if there is a place k, no    *)
(* fewer.                                                                     *)
LEMMA UnderPlaces ==
  ASSUME NEW n \in Nat, NEW R, R \subseteq 1 .. n, NEW k \in Nat
  PROVE  /\ IsFiniteSet(R) /\ IsFiniteSet(Under(R, k)) /\ Cardinality(Under(R, k)) \in Nat
         /\ \A i \in R : Place(R, i) \in Nat
         /\ Cardinality(Under(R, k)) <= k
         /\ (\E i \in R : ~(Place(R, i) < k)) => Cardinality(Under(R, k)) >= k
<1>1. IsFiniteSet(R)
  <2>1. IsFiniteSet(1 .. n)
    <3>1. \A a, b \in Int : IsFiniteSet(a .. b)
      BY FS_Interval
    <3> QED
      BY <3>1
  <2> QED
    BY <2>1, FS_Subset
<1>2. IsFiniteSet(Under(R, k)) /\ Cardinality(Under(R, k)) \in Nat
  BY <1>1, Part DEF Under
<1>3. \A i : /\ IsFiniteSet({j \in R : j < i}) /\ Cardinality({j \in R : j < i}) \in Nat
             /\ Place(R, i) = Cardinality({j \in R : j < i})
  BY <1>1, Part DEF Place
<1>4. Cardinality(Under(R, k)) <= k
  <2>1. CASE Under(R, k) = {}
    BY <2>1, FS_EmptySet
  <2>2. CASE Under(R, k) # {}
    <3>1. PICK m \in Under(R, k) : \A i \in Under(R, k) : i <= m
      BY <2>2, Greatest DEF Under
    <3>2. Under(R, k) \subseteq {j \in R : j < m} \cup {m}
      <4>1. ASSUME NEW i \in Under(R, k), i # m PROVE i \in R /\ i < m
        BY <3>1, <4>1 DEF Under
      <4> QED
        BY <4>1
    <3>3. IsFiniteSet({m}) /\ Cardinality({m}) = 1
      BY FS_Singleton
    <3>4. /\ IsFiniteSet({j \in R : j < m} \cup {m})
          /\ Cardinality({j \in R : j < m} \cup {m}) <= Cardinality({j \in R : j < m}) + 1
      BY <1>3, <3>3, Together
    <3>5. Cardinality(Under(R, k)) <= Cardinality({j \in R : j < m} \cup {m})
      BY <3>2, <3>4, Part
    <3>6. Cardinality({j \in R : j < m}) < k /\ Cardinality({j \in R : j < m} \cup {m}) \in Nat
      BY <1>3, <3>1, <3>4, Part DEF Under
    <3> QED
      BY <1>2, <1>3, <3>4, <3>5, <3>6
  <2> QED
    BY <2>1, <2>2
<1>5. ASSUME NEW r \in R, ~(Place(R, r) < k) PROVE Cardinality(Under(R, k)) >= k
  <2> DEFINE beyond == {i \in R : ~(Place(R, i) < k)}
  <2>0. beyond \subseteq Nat /\ beyond # {}
    <3> HIDE DEF Place
    <3>1. r \in beyond
      BY <1>5
    <3>2. beyond \subseteq R /\ R \subseteq Nat
      OBVIOUS
    <3> QED
      BY <3>1, <3>2
  <2>1. PICK m \in beyond : \A i \in beyond : m <= i
    <3> HIDE DEF beyond
    <3> QED
      BY <2>0, Least
  <2>2. {j \in R : j < m} \subseteq Under(R, k)
    <3>1. ASSUME NEW j \in R, j < m, j \notin Under(R, k) PROVE FALSE
      <4>1. j \in beyond
        BY <3>1 DEF Under
      <4>2. j \in Nat /\ m \in Nat /\ m <= j
        BY <2>0, <2>1, <4>1
      <4> QED
        BY <3>1, <4>2
    <3> QED
      BY <3>1
  <2>3. Cardinality({j \in R : j < m}) <= Cardinality(Under(R, k))
    BY <1>2, <2>2, Part
  <2>4. Cardinality({j \in R : j < m}) \in Nat /\ ~(Cardinality({j \in R : j < m}) < k)
    BY <1>3, <2>1
  <2> QED
    BY <1>2, <2>3, <2>4
<1> QED
  BY <1>1, <1>2, <1>3, <1>4, <1>5

(* A page is not longer than it should be, its rows have the next places, and *)
(* if it is short there is nothing behind it.                                 *)
LEMMA SlicePlaces ==
  ASSUME NEW n \in Nat, NEW R, R \subseteq 1 .. n, NEW o \in Nat, NEW b \in Nat
  PROVE  /\ IsFiniteSet(Slice(R, o, b)) /\ Cardinality(Slice(R, o, b)) \in Nat
         /\ Cardinality(Slice(R, o, b)) <= b
         /\ \A i \in Slice(R, o, b) : Place(R, i) < o + Cardinality(Slice(R, o, b))
         /\ Cardinality(Slice(R, o, b)) < b => R \subseteq Under(R, o) \cup Slice(R, o, b)
<1>0. PICK slice : slice = Slice(R, o, b)
  OBVIOUS
<1>1. PICK k \in Nat : k = o + b
  OBVIOUS
<1>2. /\ \A i \in R : Place(R, i) \in Nat
      /\ IsFiniteSet(Under(R, o)) /\ Cardinality(Under(R, o)) \in Nat /\ Cardinality(Under(R, o)) <= o
      /\ (\E i \in R : ~(Place(R, i) < o)) => Cardinality(Under(R, o)) >= o
  BY UnderPlaces
<1>3. /\ IsFiniteSet(Under(R, k)) /\ Cardinality(Under(R, k)) \in Nat /\ Cardinality(Under(R, k)) <= k
      /\ (\E i \in R : ~(Place(R, i) < k)) => Cardinality(Under(R, k)) >= k
  BY UnderPlaces
<1>4. Under(R, o) \subseteq Under(R, k) /\ slice = Under(R, k) \ Under(R, o)
  <2>1. ASSUME NEW i \in R
        PROVE  /\ Place(R, i) < o => Place(R, i) < k
               /\ ~(Place(R, i) < o) <=> o <= Place(R, i)
    <3>1. Place(R, i) \in Nat
      BY <1>2
    <3> QED
      BY <1>1, <3>1
  <2>2. slice = {i \in R : o <= Place(R, i) /\ Place(R, i) < k}
    BY <1>0, <1>1 DEF Slice
  <2> QED
    BY <2>1, <2>2 DEF Under
<1>5. /\ IsFiniteSet(slice) /\ Cardinality(slice) = Cardinality(Under(R, k)) - Cardinality(Under(R, o))
      /\ Cardinality(slice) \in Nat
  BY <1>3, <1>4, Difference, FS_CardinalityType
<1>6. Cardinality(slice) <= b
  <2>1. CASE slice = {}
    <3>1. Cardinality({}) = 0
      BY FS_EmptySet
    <3>2. Cardinality(slice) = 0
      BY <2>1, <3>1
    <3> QED
      BY <3>2
  <2>2. CASE slice # {}
    <3>1. PICK i \in slice : TRUE
      BY <2>2
    <3>2. i \in R /\ ~(Place(R, i) < o)
      BY <1>4 DEF Under
    <3>3. Cardinality(Under(R, o)) >= o
      BY <1>2, <3>2
    <3> QED
      BY <1>1, <1>2, <1>3, <1>5, <3>3
  <2> QED
    BY <2>1, <2>2
<1>7. ASSUME NEW i \in slice PROVE Place(R, i) < o + Cardinality(slice)
  <2>1. IsFiniteSet(slice \ {i}) /\ Cardinality(slice \ {i}) = Cardinality(slice) - 1
    BY <1>5, FS_RemoveElement
  <2>2. {j \in R : j < i} \subseteq Under(R, o) \cup (slice \ {i})
    <3>1. ASSUME NEW j \in R, j < i, j \notin Under(R, o) PROVE j \in slice \ {i}
      <4>0. i \in Nat /\ R \subseteq Nat
        BY <1>4 DEF Under
      <4>1. {l \in R : l < j} \subseteq {l \in R : l < i}
        <5>1. ASSUME NEW l \in R, l < j PROVE l < i
          <6>1. l \in Nat /\ j \in Nat /\ i \in Nat
            BY <4>0
          <6> QED
            BY <3>1, <5>1, <6>1
        <5> QED
          BY <5>1
      <4>2. IsFiniteSet({l \in R : l < i})
        BY UnderPlaces, FS_Subset
      <4>3. Place(R, j) <= Place(R, i)
        BY <4>1, <4>2, Part DEF Place
      <4>4. Place(R, i) < k /\ Place(R, i) \in Nat /\ Place(R, j) \in Nat /\ k \in Nat
        BY <1>1, <1>2, <1>4, <3>1 DEF Under
      <4>5. j # i
        BY <3>1
      <4>6. j \in Under(R, k)
        BY <3>1, <4>3, <4>4 DEF Under
      <4> QED
        BY <1>4, <3>1, <4>5, <4>6
    <3> QED
      BY <3>1
  <2>3. /\ IsFiniteSet(Under(R, o) \cup (slice \ {i}))
        /\ Cardinality(Under(R, o) \cup (slice \ {i})) \in Nat
        /\ Cardinality(Under(R, o) \cup (slice \ {i})) <= Cardinality(Under(R, o)) + Cardinality(slice \ {i})
    BY <1>2, <2>1, Together
  <2>4. Place(R, i) <= Cardinality(Under(R, o) \cup (slice \ {i})) /\ Place(R, i) \in Nat
    BY <2>2, <2>3, Part DEF Place
  <2> QED
    BY <1>2, <1>5, <2>1, <2>3, <2>4
<1>8. ASSUME Cardinality(slice) < b PROVE R \subseteq Under(R, o) \cup slice
  <2>1. ~(\E i \in R : ~(Place(R, i) < k))
    BY <1>1, <1>2, <1>3, <1>5, <1>8
  <2> QED
    BY <1>4, <2>1 DEF Under
<1> QED
  BY <1>0, <1>5, <1>6, <1>7, <1>8

(* Rows have different places, and there is a row at each place before that   *)
(* of another.                                                                *)
LEMMA OnePlace ==
  ASSUME NEW n \in Nat, NEW R, R \subseteq 1 .. n, NEW a \in R, NEW b \in R, a < b
  PROVE  Place(R, a) < Place(R, b) /\ Place(R, a) \in Nat /\ Place(R, b) \in Nat
<1> DEFINE before(i) == {j \in R : j < i}
<1>1. R \subseteq Nat
  OBVIOUS
<1>2. before(a) \subseteq before(b) /\ before(b) \subseteq 1 .. n /\ a \in before(b) /\ a \notin before(a)
  <2>1. ASSUME NEW j \in R, j < a PROVE j < b
    <3>1. j \in Nat /\ a \in Nat /\ b \in Nat
      BY <1>1
    <3> QED
      BY <2>1, <3>1
  <2>2. ~(a < a) /\ before(b) \subseteq R
    BY <1>1
  <2> QED
    BY <2>1, <2>2
<1> HIDE DEF before
<1>3. /\ Cardinality(before(a)) <= Cardinality(before(b))
      /\ Cardinality(before(a)) \in Nat /\ Cardinality(before(b)) \in Nat
      /\ Cardinality(before(a)) # Cardinality(before(b))
  BY <1>2, Bounded, Part
<1> QED
  BY <1>3 DEF before, Place

LEMMA EveryPlace ==
  ASSUME NEW n \in Nat, NEW R, R \subseteq 1 .. n, NEW k \in Nat,
         NEW r \in R, ~(Place(R, r) < k)
  PROVE  \E m \in R : Place(R, m) = k
<1> DEFINE beyond == {i \in R : ~(Place(R, i) < k)}
<1>1. beyond \subseteq Nat /\ beyond # {} /\ beyond \subseteq R
  <2> HIDE DEF Place
  <2>1. r \in beyond /\ beyond \subseteq R /\ R \subseteq Nat
    OBVIOUS
  <2> QED
    BY <2>1
<1>2. PICK m \in beyond : \A i \in beyond : m <= i
  <2> HIDE DEF beyond
  <2> QED
    BY <1>1, Least
<1>3. {j \in R : j < m} \subseteq Under(R, k)
  <2>1. ASSUME NEW j \in R, j < m, j \notin Under(R, k) PROVE FALSE
    <3>1. j \in beyond
      BY <2>1 DEF Under
    <3>2. j \in Nat /\ m \in Nat /\ m <= j
      BY <1>1, <1>2, <3>1
    <3> QED
      BY <2>1, <3>2
  <2> QED
    BY <2>1
<1>4. /\ IsFiniteSet(Under(R, k)) /\ Cardinality(Under(R, k)) \in Nat
      /\ Cardinality(Under(R, k)) <= k /\ Place(R, m) \in Nat
  BY <1>1, <1>2, UnderPlaces
<1>5. Place(R, m) <= Cardinality(Under(R, k))
  BY <1>3, <1>4, Part DEF Place
<1>6. ~(Place(R, m) < k) /\ m \in R
  BY <1>2
<1> QED
  BY <1>4, <1>5, <1>6

(* More rows put none in a place further to the front.                        *)
LEMMA PlacesGrow ==
  ASSUME NEW n \in Nat, NEW S, S \subseteq 1 .. n, NEW R, R \subseteq S, NEW i
  PROVE  Place(R, i) <= Place(S, i) /\ Place(R, i) \in Nat /\ Place(S, i) \in Nat
<1> DEFINE here  == {j \in R : j < i}
           there == {j \in S : j < i}
<1>1. here \subseteq there /\ there \subseteq 1 .. n
  OBVIOUS
<1> HIDE DEF here, there
<1>2. /\ Cardinality(here) <= Cardinality(there)
      /\ Cardinality(here) \in Nat /\ Cardinality(there) \in Nat
  BY <1>1, Bounded, Part
<1> QED
  BY <1>2 DEF here, there, Place

-----------------------------------------------------------------------------
(* Sums of finitely many numbers.                                            *)

One(s) == CHOOSE x \in s : TRUE

(* it adds up the values of F over every set of its arguments, one by one.    *)
Summing(F, it) ==
  it = [s \in SUBSET DOMAIN F |-> IF s = {} THEN 0 ELSE F[One(s)] + it[s \ {One(s)}]]

(* SumFunction is defined by recursion over sets.                             *)
LEMMA SumUnfolds == \A F : SumFunction(F) = (CHOOSE it : Summing(F, it))[DOMAIN F]
BY DEF SumFunction, SumFunctionOnSet, FoldFunctionOnSet, MapThenFoldSet, Summing, One

(* What holds of no element, and of some as soon as it does of all but the one that
   is taken next, holds of all.                                               *)
LEMMA SubsetInduction ==
  ASSUME NEW D, IsFiniteSet(D), NEW G, {} \in G,
         \A s \in SUBSET D : s # {} /\ s \ {One(s)} \in G => s \in G
  PROVE  \A s \in SUBSET D : s \in G
<1> SUFFICES ASSUME NEW u \in SUBSET D, u \notin G PROVE FALSE
  OBVIOUS
<1> DEFINE bad == {n \in Nat : \E s \in SUBSET D : s \notin G /\ Cardinality(s) = n}
<1>1. bad \subseteq Nat /\ bad # {}
  BY Part
<1>2. PICK n \in bad : \A m \in bad : n <= m
  BY <1>1, Least
<1>3. PICK s \in SUBSET D : s \notin G /\ Cardinality(s) = n
  OBVIOUS
<1> DEFINE t == s \ {One(s)}
<1>4. s # {} /\ One(s) \in s /\ t \in SUBSET D
  BY <1>3 DEF One
<1>5. IsFiniteSet(s)
  BY Part
<1>6. Cardinality(t) = n - 1
  BY <1>3, <1>4, <1>5, FS_RemoveElement
<1>7. Cardinality(t) \in Nat
  BY <1>4, Part
<1>8. t \notin G
  BY <1>3, <1>4
<1>9. n - 1 \in bad
  BY <1>4, <1>6, <1>7, <1>8
<1> QED
  BY <1>1, <1>2, <1>9

(* The recursion has a solution, and all its values are numbers.              *)
LEMMA Sums ==
  ASSUME NEW D, IsFiniteSet(D), NEW F \in [D -> Int]
  PROVE  \E it \in [SUBSET D -> Int] : Summing(F, it) /\ SumFunction(F) = it[D]
<1> DEFINE Upto(n) == {s \in SUBSET D : Cardinality(s) <= n}
           Solves(n, g) == /\ g \in [Upto(n) -> Int]
                           /\ \A s \in Upto(n) : g[s] = IF s = {} THEN 0
                                                        ELSE F[One(s)] + g[s \ {One(s)}]
<1>1. \A s \in SUBSET D : Cardinality(s) \in Nat /\ IsFiniteSet(s)
  BY Part
<1>2. \A s \in SUBSET D : s # {} =>
         /\ One(s) \in D /\ s \ {One(s)} \in SUBSET D
         /\ Cardinality(s \ {One(s)}) = Cardinality(s) - 1
  <2> SUFFICES ASSUME NEW s \in SUBSET D, s # {}
               PROVE  /\ One(s) \in D /\ s \ {One(s)} \in SUBSET D
                      /\ Cardinality(s \ {One(s)}) = Cardinality(s) - 1
    OBVIOUS
  <2>1. One(s) \in s
    BY DEF One
  <2> QED
    BY <1>1, <2>1, FS_RemoveElement
<1>3. \A n \in Nat : \E g : Solves(n, g)
  <2> SUFFICES ASSUME NEW w \in Nat, ~ \E g : Solves(w, g) PROVE FALSE
    OBVIOUS
  <2> DEFINE bad == {n \in Nat : ~ \E g : Solves(n, g)}
  <2>1. bad \subseteq Nat /\ bad # {}
    OBVIOUS
  <2> HIDE DEF bad
  <2>2. PICK n \in bad : \A m \in bad : n <= m
    BY <2>1, Least
  <2>3. n \in Nat /\ n - 1 \notin bad
    BY <2>1, <2>2
  <2> USE DEF bad
  <2>4. n # 0
    <3> SUFFICES ASSUME n = 0 PROVE \E g : Solves(0, g)
      OBVIOUS
    <3>1. \A s \in Upto(0) : s = {}
      BY <1>1, FS_EmptySet
    <3> DEFINE z == [s \in Upto(0) |-> 0]
    <3>2. Solves(0, z)
      BY <3>1
    <3> QED
      BY <3>2
  <2>5. n - 1 \in Nat
    BY <2>3, <2>4
  <2>6. PICK g : Solves(n - 1, g)
    <3> HIDE DEF Solves
    <3> QED
      BY <2>3, <2>5
  <2> HIDE DEF bad
  <2> DEFINE h == [s \in Upto(n) |-> IF s = {} THEN 0 ELSE F[One(s)] + g[s \ {One(s)}]]
  <2>7. \A s \in Upto(n) : s # {} => s \ {One(s)} \in Upto(n - 1)
    BY <1>1, <1>2, <2>3
  <2>8. \A s \in Upto(n - 1) : s \in Upto(n) /\ h[s] = g[s]
    BY <1>1, <2>3, <2>5, <2>6
  <2>9. h \in [Upto(n) -> Int]
    BY <1>2, <2>6, <2>7
  <2>10. \A s \in Upto(n) : h[s] = IF s = {} THEN 0 ELSE F[One(s)] + h[s \ {One(s)}]
    BY <2>7, <2>8
  <2>11. Solves(n, h)
    BY <2>9, <2>10
  <2> QED
    BY <2>2, <2>11 DEF bad
<1>4. PICK it : Solves(Cardinality(D), it)
  BY <1>1, <1>3
<1>5. Upto(Cardinality(D)) = SUBSET D
  BY Part
<1>6. DOMAIN F = D
  OBVIOUS
<1>7. it \in [SUBSET D -> Int] /\ Summing(F, it)
  BY <1>4, <1>5, <1>6 DEF Summing
<1> DEFINE all == CHOOSE j : Summing(F, j)
<1>8. Summing(F, all) /\ SumFunction(F) = all[D]
  BY <1>6, <1>7, SumUnfolds
<1> HIDE DEF all
<1> DEFINE G == {s \in SUBSET D : all[s] = it[s]}
<1>9. {} \in G
  BY <1>6, <1>7, <1>8 DEF Summing
<1>10. \A s \in SUBSET D : s # {} /\ s \ {One(s)} \in G => s \in G
  BY <1>2, <1>6, <1>7, <1>8 DEF Summing
<1> HIDE DEF G
<1>11. \A s \in SUBSET D : s \in G
  BY <1>9, <1>10, SubsetInduction
<1>12. all[D] = it[D]
  BY <1>11 DEF G
<1> QED
  BY <1>7, <1>8, <1>12

(* The sums over the sets of arguments: of none, of one more, of all.         *)
Adds(D, F, it) ==
  /\ it[{}] = 0
  /\ \A s \in SUBSET D : s # {} =>
       /\ One(s) \in s /\ One(s) \in D
       /\ F[One(s)] \in Int /\ it[s \ {One(s)}] \in Int
       /\ it[s] = F[One(s)] + it[s \ {One(s)}]

LEMMA SumSteps ==
  ASSUME NEW D, IsFiniteSet(D), NEW F \in [D -> Int]
  PROVE  \E it \in [SUBSET D -> Int] : Adds(D, F, it) /\ SumFunction(F) = it[D]
<1>1. PICK it \in [SUBSET D -> Int] : Summing(F, it) /\ SumFunction(F) = it[D]
  BY Sums
<1>2. DOMAIN F = D
  OBVIOUS
<1>3. \A s \in SUBSET D : s # {} => One(s) \in s
  BY DEF One
<1>4. it[{}] = 0
  BY <1>1, <1>2 DEF Summing
<1>5. \A s \in SUBSET D : s # {} => it[s] = F[One(s)] + it[s \ {One(s)}]
  BY <1>1, <1>2 DEF Summing
<1> QED
  BY <1>1, <1>3, <1>4, <1>5 DEF Adds

(* A greater summand makes a greater sum; equal sums have equal summands.     *)
LEMMA SumGreater ==
  ASSUME NEW D, IsFiniteSet(D), NEW F \in [D -> Int], NEW H \in [D -> Int],
         \A x \in D : F[x] <= H[x]
  PROVE  /\ SumFunction(F) \in Int /\ SumFunction(H) \in Int
         /\ SumFunction(F) <= SumFunction(H)
         /\ SumFunction(F) = SumFunction(H) => F = H
<1>1. PICK f \in [SUBSET D -> Int] : Adds(D, F, f) /\ SumFunction(F) = f[D]
  BY SumSteps
<1>2. PICK h \in [SUBSET D -> Int] : Adds(D, H, h) /\ SumFunction(H) = h[D]
  BY SumSteps
<1> DEFINE G == {s \in SUBSET D : /\ f[s] <= h[s]
                                  /\ f[s] = h[s] => \A x \in s : F[x] = H[x]}
<1>3. {} \in G
  BY <1>1, <1>2 DEF Adds
<1>4. ASSUME NEW s \in SUBSET D, s # {}, s \ {One(s)} \in G PROVE s \in G
  <2> DEFINE x == One(s)
             t == s \ {x}
  <2>1. /\ x \in s /\ x \in D /\ f[s] = F[x] + f[t] /\ F[x] \in Int /\ f[t] \in Int
    BY <1>1, <1>4 DEF Adds
  <2>2. /\ h[s] = H[x] + h[t] /\ H[x] \in Int /\ h[t] \in Int
    BY <1>2, <1>4 DEF Adds
  <2>3. F[x] <= H[x] /\ f[t] <= h[t] /\ (f[t] = h[t] => \A y \in t : F[y] = H[y])
    BY <1>4, <2>1
  <2> HIDE DEF x, t
  <2>4. f[s] <= h[s] /\ (f[s] = h[s] => F[x] = H[x] /\ f[t] = h[t])
    BY <2>1, <2>2, <2>3
  <2>5. \A y \in s : y = x \/ y \in t
    BY DEF t
  <2> QED
    BY <2>3, <2>4, <2>5
<1> HIDE DEF G
<1>5. \A s \in SUBSET D : s \in G
  BY <1>3, <1>4, SubsetInduction
<1>6. f[D] <= h[D] /\ (f[D] = h[D] => \A x \in D : F[x] = H[x])
  BY <1>5 DEF G
<1> QED
  BY <1>1, <1>2, <1>6

(* The sum of a linear combination.                                           *)
LEMMA SumLinear ==
  ASSUME NEW D, IsFiniteSet(D), NEW F \in [D -> Int], NEW H \in [D -> Int],
         NEW a \in Int, NEW b \in Int, NEW K \in [D -> Int],
         \A x \in D : K[x] = a * F[x] - b * H[x]
  PROVE  /\ SumFunction(F) \in Int /\ SumFunction(H) \in Int
         /\ SumFunction(K) = a * SumFunction(F) - b * SumFunction(H)
<1>1. PICK f \in [SUBSET D -> Int] : Adds(D, F, f) /\ SumFunction(F) = f[D]
  BY SumSteps
<1>2. PICK h \in [SUBSET D -> Int] : Adds(D, H, h) /\ SumFunction(H) = h[D]
  BY SumSteps
<1>3. PICK k \in [SUBSET D -> Int] : Adds(D, K, k) /\ SumFunction(K) = k[D]
  BY SumSteps
<1> DEFINE G == {s \in SUBSET D : k[s] = a * f[s] - b * h[s]}
<1>4. {} \in G
  BY <1>1, <1>2, <1>3 DEF Adds
<1>5. ASSUME NEW s \in SUBSET D, s # {}, s \ {One(s)} \in G PROVE s \in G
  <2> DEFINE x == One(s)
             t == s \ {x}
  <2>1. /\ x \in D /\ f[s] = F[x] + f[t] /\ F[x] \in Int /\ f[t] \in Int
    BY <1>1, <1>5 DEF Adds
  <2>2. /\ h[s] = H[x] + h[t] /\ H[x] \in Int /\ h[t] \in Int
    BY <1>2, <1>5 DEF Adds
  <2>3. k[s] = K[x] + k[t]
    BY <1>3, <1>5 DEF Adds
  <2>4. K[x] = a * F[x] - b * H[x] /\ k[t] = a * f[t] - b * h[t]
    BY <1>5, <2>1
  <2> HIDE DEF x, t
  <2>5. \A u, v, y, z \in Int : (a * u - b * v) + (a * y - b * z) = a * (u + y) - b * (v + z)
    OBVIOUS
  <2>6. k[s] = a * (F[x] + f[t]) - b * (H[x] + h[t])
    BY <2>1, <2>2, <2>3, <2>4, <2>5
  <2> QED
    BY <2>1, <2>2, <2>6
<1> HIDE DEF G
<1>6. k[D] = a * f[D] - b * h[D]
  BY <1>4, <1>5, SubsetInduction DEF G
<1> QED
  BY <1>1, <1>2, <1>3, <1>6

(* One summand changes.                                                       *)
LEMMA SumChange ==
  ASSUME NEW D, IsFiniteSet(D), NEW F \in [D -> Int], NEW i \in D, NEW n \in Int
  PROVE  SumFunction([F EXCEPT ![i] = n]) = SumFunction(F) + n - F[i]
<1> DEFINE H == [F EXCEPT ![i] = n]
<1>1. PICK f \in [SUBSET D -> Int] : Adds(D, F, f) /\ SumFunction(F) = f[D]
  BY SumSteps
<1>2. PICK h \in [SUBSET D -> Int] : Adds(D, H, h) /\ SumFunction(H) = h[D]
  BY SumSteps
<1>3. H \in [D -> Int] /\ H[i] = n /\ \A x \in D \ {i} : H[x] = F[x]
  OBVIOUS
<1> HIDE DEF H
<1> DEFINE G == {s \in SUBSET D : h[s] = f[s] + (IF i \in s THEN n - F[i] ELSE 0)}
<1>4. {} \in G
  BY <1>1, <1>2, <1>3 DEF Adds
<1>5. ASSUME NEW s \in SUBSET D, s # {}, s \ {One(s)} \in G PROVE s \in G
  <2> DEFINE x == One(s)
             t == s \ {x}
  <2>1. /\ x \in s /\ x \in D /\ f[s] = F[x] + f[t] /\ F[x] \in Int /\ f[t] \in Int
    BY <1>1, <1>5 DEF Adds
  <2>2. /\ h[s] = H[x] + h[t] /\ H[x] \in Int /\ h[t] \in Int
    BY <1>2, <1>3, <1>5 DEF Adds
  <2>3. h[t] = f[t] + (IF i \in t THEN n - F[i] ELSE 0)
    BY <1>5
  <2> HIDE DEF x
  <2> QED
    BY <1>3, <2>1, <2>2, <2>3
<1> HIDE DEF G
<1>6. h[D] = f[D] + (n - F[i])
  <2>1. D \in G
    BY <1>4, <1>5, SubsetInduction
  <2> QED
    BY <2>1 DEF G
<1>7. f[D] \in Int /\ F[i] \in Int
  OBVIOUS
<1> QED
  BY <1>1, <1>2, <1>6, <1>7 DEF H

(* Equal summands.                                                            *)
LEMMA SumConstant ==
  ASSUME NEW D, IsFiniteSet(D), NEW c \in Int, NEW F \in [D -> Int], \A x \in D : F[x] = c
  PROVE  SumFunction(F) = Cardinality(D) * c
<1>1. PICK f \in [SUBSET D -> Int] : Adds(D, F, f) /\ SumFunction(F) = f[D]
  BY SumSteps
<1> DEFINE G == {s \in SUBSET D : f[s] = Cardinality(s) * c}
<1>2. {} \in G
  BY <1>1, FS_EmptySet DEF Adds
<1>3. ASSUME NEW s \in SUBSET D, s # {}, s \ {One(s)} \in G PROVE s \in G
  <2>1. One(s) \in s /\ f[s] = c + f[s \ {One(s)}]
    BY <1>1, <1>3 DEF Adds
  <2>2. Cardinality(s) \in Nat /\ Cardinality(s \ {One(s)}) = Cardinality(s) - 1
    BY <2>1, Part, FS_RemoveElement
  <2>3. \A m \in Nat : c + (m - 1) * c = m * c
    OBVIOUS
  <2> QED
    BY <1>3, <2>1, <2>2, <2>3
<1> HIDE DEF G
<1> QED
  BY <1>1, <1>2, <1>3, SubsetInduction DEF G
=============================================================================
