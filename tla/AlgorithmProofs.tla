--------------------------- MODULE AlgorithmProofs ---------------------------
(***************************************************************************)
(* Theorems about the pure algorithms.                                     *)
(***************************************************************************)
EXTENDS MCAlgorithms, FiniteSetTheorems, SequenceTheorems, WellFoundedInduction, TLAPS

-----------------------------------------------------------------------------
(* Lists.                                                                  *)

\* j comes no later than i in a sort of the positions by key.
NoLater(key, j, i) == key[j] > key[i] \/ (key[j] = key[i] /\ j <= i)

Place(chosen, key, j) == Cardinality({k \in chosen : NoLater(key, k, j)})

\* The place of a position is a number of its own, and all numbers are taken.
LEMMA PlacesAreRanks ==
    ASSUME NEW chosen, IsFiniteSet(chosen), chosen \subseteq Int,
           NEW key, \A i \in chosen : key[i] \in Int
    PROVE  /\ \A i \in chosen : Place(chosen, key, i) \in 1..Cardinality(chosen)
           /\ \A i, j \in chosen :
                  (i # j /\ NoLater(key, i, j)) => Place(chosen, key, i) < Place(chosen, key, j)
           /\ \A n \in 1..Cardinality(chosen) : \E i \in chosen : Place(chosen, key, i) = n
  <1> DEFINE Upto(j) == {k \in chosen : NoLater(key, k, j)}
             N == Cardinality(chosen)
  <1>1. \A j \in chosen : IsFiniteSet(Upto(j)) /\ Cardinality(Upto(j)) \in Nat
    BY FS_Subset, FS_CardinalityType
  <1>2. N \in Nat
    BY FS_CardinalityType
  <1>3. \A i \in chosen : Cardinality(Upto(i)) \in 1..N
    <2> TAKE i \in chosen
    <2>1. i \in Upto(i)
      BY DEF NoLater
    <2>2. Upto(i) # {}
      BY <2>1
    <2>3. Cardinality(Upto(i)) # 0
      BY <1>1, <2>2, FS_EmptySet
    <2>4. Cardinality(Upto(i)) <= N
      <3>1. Upto(i) \subseteq chosen
        OBVIOUS
      <3> HIDE DEF Upto
      <3> QED BY <3>1, FS_Subset
    <2> HIDE DEF Upto, N
    <2> QED BY <1>1, <1>2, <2>3, <2>4
  <1>4. \A i, j \in chosen : (i # j /\ NoLater(key, i, j)) => Cardinality(Upto(i)) < Cardinality(Upto(j))
    <2> SUFFICES ASSUME NEW i \in chosen, NEW j \in chosen, i # j, NoLater(key, i, j)
                 PROVE  Cardinality(Upto(i)) < Cardinality(Upto(j))
      OBVIOUS
    <2>1. Upto(i) \subseteq Upto(j)
      <3> SUFFICES ASSUME NEW k \in Upto(i) PROVE NoLater(key, k, j)
        OBVIOUS
      <3>1. k \in chosen /\ NoLater(key, k, i)
        OBVIOUS
      <3>2. key[i] \in Int /\ key[j] \in Int /\ key[k] \in Int /\ i \in Int /\ j \in Int /\ k \in Int
        BY <3>1
      <3> HIDE DEF Upto
      <3> QED BY <3>1, <3>2 DEF NoLater
    <2>2. j \in Upto(j) /\ j \notin Upto(i)
      BY DEF NoLater
    <2>3. IsFiniteSet(Upto(j)) /\ Cardinality(Upto(j)) \in Nat /\ Cardinality(Upto(i)) \in Nat
      BY <1>1
    <2> HIDE DEF Upto
    <2>4. Cardinality(Upto(i)) <= Cardinality(Upto(j)) /\ Cardinality(Upto(i)) # Cardinality(Upto(j))
      BY <2>1, <2>2, <2>3, FS_Subset
    <2> QED BY <2>3, <2>4
  <1>5. \A n \in 1..N : \E i \in chosen : Cardinality(Upto(i)) = n
    <2> DEFINE f == [i \in chosen |-> Cardinality(Upto(i))]
               taken == {f[i] : i \in chosen}
    <2>1. \A i, j \in chosen : f[i] = f[j] => i = j
      <3> SUFFICES ASSUME NEW i \in chosen, NEW j \in chosen, i # j PROVE f[i] # f[j]
        OBVIOUS
      <3>1. NoLater(key, i, j) \/ NoLater(key, j, i)
        BY DEF NoLater
      <3>2. Cardinality(Upto(i)) < Cardinality(Upto(j)) \/ Cardinality(Upto(j)) < Cardinality(Upto(i))
        BY <1>4, <3>1
      <3>3. f[i] = Cardinality(Upto(i)) /\ f[j] = Cardinality(Upto(j))
        OBVIOUS
      <3>4. f[i] \in Nat /\ f[j] \in Nat
        BY <1>1, <3>3
      <3> HIDE DEF f
      <3> QED BY <3>2, <3>3, <3>4
    <2>2. taken \subseteq 1..N /\ f \in Bijection(chosen, taken)
      <3>1. taken \subseteq 1..N
        BY <1>3
      <3>2. f \in Bijection(chosen, taken)
        BY <2>1 DEF Bijection, Injection, Surjection, IsInjective
      <3> QED BY <3>1, <3>2
    <2>3. Cardinality(taken) = N /\ IsFiniteSet(taken)
      <3> HIDE DEF f, taken
      <3> QED BY <2>2, FS_Bijection DEF ExistsBijection
    <2>4. IsFiniteSet(1..N) /\ Cardinality(1..N) = N
      BY <1>2, FS_Interval
    <2>5. taken = 1..N
      <3> HIDE DEF f, taken, N
      <3> QED BY <2>2, <2>3, <2>4, FS_Subset
    <2> QED BY <2>5
  <1> QED BY <1>3, <1>4, <1>5 DEF Place

\* Ordered lists the chosen positions, each once, in the order of the sort.
LEMMA OrderedPositions ==
    ASSUME NEW chosen, IsFiniteSet(chosen), chosen \subseteq Int,
           NEW key, \A i \in chosen : key[i] \in Int
    PROVE  LET at == Ordered(chosen, key)
               N == Cardinality(chosen)
           IN  /\ N \in Nat /\ at \in [1..N -> chosen]
               /\ \A i \in chosen : \E n \in 1..N : at[n] = i
               /\ \A m, n \in 1..N : m < n => at[m] # at[n] /\ NoLater(key, at[m], at[n])
  <1> DEFINE at == Ordered(chosen, key)
             N == Cardinality(chosen)
  <1>1. N \in Nat
    BY FS_CardinalityType
  <1>2. /\ \A i \in chosen : Place(chosen, key, i) \in 1..N
        /\ \A i, j \in chosen : (i # j /\ NoLater(key, i, j)) => Place(chosen, key, i) < Place(chosen, key, j)
        /\ \A n \in 1..N : \E i \in chosen : Place(chosen, key, i) = n
    BY PlacesAreRanks
  <1>3. at = [n \in 1..N |-> CHOOSE j \in chosen : Place(chosen, key, j) = n]
    BY DEF Ordered, NoLater, Place
  <1> HIDE DEF at
  <1>4. \A n \in 1..N : at[n] \in chosen /\ Place(chosen, key, at[n]) = n
    BY <1>2, <1>3
  <1>5. at \in [1..N -> chosen]
    BY <1>3, <1>4
  <1>6. \A i, j \in chosen : i # j => (NoLater(key, i, j) /\ Place(chosen, key, i) < Place(chosen, key, j))
                                     \/ (NoLater(key, j, i) /\ Place(chosen, key, j) < Place(chosen, key, i))
    <2> SUFFICES ASSUME NEW i \in chosen, NEW j \in chosen, i # j
                 PROVE  \/ NoLater(key, i, j) /\ Place(chosen, key, i) < Place(chosen, key, j)
                        \/ NoLater(key, j, i) /\ Place(chosen, key, j) < Place(chosen, key, i)
      OBVIOUS
    <2>1. NoLater(key, i, j) \/ NoLater(key, j, i)
      BY DEF NoLater
    <2> QED BY <1>2, <2>1
  <1>7. \A i \in chosen : \E n \in 1..N : at[n] = i
    <2> TAKE i \in chosen
    <2> DEFINE n == Place(chosen, key, i)
    <2>1. n \in 1..N /\ at[n] \in chosen /\ Place(chosen, key, at[n]) = n
      BY <1>2, <1>4
    <2>2. Place(chosen, key, at[n]) = Place(chosen, key, i) /\ Place(chosen, key, i) \in Nat
      BY <2>1
    <2>3. at[n] = i
      <3> HIDE DEF n
      <3>1. /\ ~(Place(chosen, key, at[n]) < Place(chosen, key, i))
            /\ ~(Place(chosen, key, i) < Place(chosen, key, at[n]))
        BY <2>2
      <3> QED BY <1>6, <2>1, <3>1
    <2> QED BY <2>1, <2>3
  <1>8. \A m, n \in 1..N : m < n => at[m] # at[n] /\ NoLater(key, at[m], at[n])
    <2> SUFFICES ASSUME NEW m \in 1..N, NEW n \in 1..N, m < n
                 PROVE  at[m] # at[n] /\ NoLater(key, at[m], at[n])
      OBVIOUS
    <2>1. at[m] \in chosen /\ at[n] \in chosen /\ Place(chosen, key, at[m]) = m /\ Place(chosen, key, at[n]) = n
      BY <1>4
    <2>2. m # n /\ ~(n < m)
      BY <1>1
    <2> QED BY <1>6, <2>1, <2>2
  <1> QED BY <1>1, <1>5, <1>7, <1>8 DEF at

IsList(s) == s \in Seq(ToSet(s))

\* What is written [i \in 1..n |-> ...] is a list.
LEMMA MakesList ==
    ASSUME NEW n \in Nat, NEW s, DOMAIN s = 1..n, s = [i \in 1..n |-> s[i]]
    PROVE  IsList(s) /\ Len(s) = n
  <1>1. \A i \in 1..n : s[i] \in ToSet(s)
    BY DEF ToSet
  <1> QED BY <1>1 DEF IsList

\* 1..n has n elements.
LEMMA UptoCounts ==
    ASSUME NEW n \in Nat
    PROVE  IsFiniteSet(1..n) /\ Cardinality(1..n) = n
  <1>1. IsFiniteSet(1..n) /\ Cardinality(1..n) = IF 1 > n THEN 0 ELSE n - 1 + 1
    BY FS_Interval
  <1> QED BY <1>1

\* A list is known by its elements, which have the positions 1..Len(s).
LEMMA ListParts ==
    ASSUME NEW s, IsList(s)
    PROVE  /\ Len(s) \in Nat /\ DOMAIN s = 1..Len(s) /\ s = [i \in 1..Len(s) |-> s[i]]
           /\ \A e : e \in ToSet(s) <=> \E i \in 1..Len(s) : s[i] = e
           /\ IsFiniteSet(DOMAIN s) /\ Cardinality(DOMAIN s) = Len(s)
  <1>1. Len(s) \in Nat /\ DOMAIN s = 1..Len(s) /\ s = [i \in 1..Len(s) |-> s[i]]
    BY DEF IsList
  <1>2. \A e : e \in ToSet(s) <=> \E i \in 1..Len(s) : s[i] = e
    BY <1>1 DEF ToSet
  <1>3. IsFiniteSet(1..Len(s)) /\ Cardinality(1..Len(s)) = Len(s)
    <2> DEFINE n == Len(s)
    <2>1. 1 \in Int /\ n \in Int /\ n >= 0
      BY <1>1
    <2> HIDE DEF n
    <2>2. IsFiniteSet(1..n) /\ Cardinality(1..n) = IF 1 > n THEN 0 ELSE n - 1 + 1
      BY <2>1, FS_Interval
    <2>3. Cardinality(1..n) = n
      BY <2>1, <2>2
    <2> QED BY <2>2, <2>3 DEF n
  <1> QED BY <1>1, <1>2, <1>3

\* One list after the other.
LEMMA JoinedLists ==
    ASSUME NEW s, NEW t, IsList(s), IsList(t)
    PROVE  IsList(s \o t) /\ ToSet(s \o t) = ToSet(s) \cup ToSet(t)
  <1> DEFINE T == ToSet(s) \cup ToSet(t)
             r == s \o t
  <1>1. s \in Seq(T) /\ t \in Seq(T)
    BY ListParts DEF IsList
  <1>2. /\ r \in Seq(T) /\ Len(r) = Len(s) + Len(t)
        /\ \A i \in 1..Len(s) + Len(t) : r[i] = IF i <= Len(s) THEN s[i] ELSE t[i - Len(s)]
    BY <1>1, ConcatProperties
  <1> HIDE DEF r
  <1>3. /\ Len(s) \in Nat /\ Len(t) \in Nat
        /\ \A e : e \in ToSet(s) <=> \E i \in 1..Len(s) : s[i] = e
        /\ \A e : e \in ToSet(t) <=> \E i \in 1..Len(t) : t[i] = e
    BY ListParts
  <1>4. DOMAIN r = 1..Len(r) /\ r = [i \in 1..Len(r) |-> r[i]] /\ Len(r) \in Nat
    BY <1>2
  <1>5. IsList(r)
    BY <1>4, MakesList
  <1>6. \A e : e \in ToSet(r) <=> \E i \in 1..Len(r) : r[i] = e
    BY <1>5, ListParts
  <1>7. ASSUME NEW e \in ToSet(s) PROVE e \in ToSet(r)
    <2>1. PICK i \in 1..Len(s) : s[i] = e
      BY <1>3
    <2>2. i \in 1..Len(r) /\ r[i] = e
      BY <1>2, <1>3, <2>1
    <2> QED BY <1>6, <2>2
  <1>8. ASSUME NEW e \in ToSet(t) PROVE e \in ToSet(r)
    <2>1. PICK i \in 1..Len(t) : t[i] = e
      BY <1>3
    <2>2. i + Len(s) \in 1..Len(r) /\ ~(i + Len(s) <= Len(s)) /\ (i + Len(s)) - Len(s) = i
      BY <1>2, <1>3
    <2>3. r[i + Len(s)] = e
      BY <1>2, <2>1, <2>2
    <2> QED BY <1>6, <2>2, <2>3
  <1>9. ASSUME NEW e \in ToSet(r) PROVE e \in T
    <2>1. PICK i \in 1..Len(r) : r[i] = e
      BY <1>6
    <2>2. CASE i <= Len(s)
      BY <1>2, <1>3, <2>1, <2>2
    <2>3. CASE ~(i <= Len(s))
      <3>1. i - Len(s) \in 1..Len(t)
        BY <1>2, <1>3, <2>3
      <3> QED BY <1>2, <1>3, <2>1, <2>3, <3>1
    <2> QED BY <2>2, <2>3
  <1> QED BY <1>5, <1>7, <1>8, <1>9 DEF r

\* Picked keeps the chosen elements, each once and in their order.
LEMMA PickedElements ==
    ASSUME NEW s, IsList(s), NEW chosen \in SUBSET DOMAIN s
    PROVE  LET r == Picked(s, chosen)
           IN  /\ IsList(r) /\ Len(r) = Cardinality(chosen) /\ ToSet(r) = {s[i] : i \in chosen}
               /\ \E at \in [1..Len(r) -> chosen] :
                      /\ \A n \in 1..Len(r) : r[n] = s[at[n]]
                      /\ \A i \in chosen : \E n \in 1..Len(r) : at[n] = i
                      /\ \A m, n \in 1..Len(r) : m < n => at[m] < at[n]
  <1> DEFINE key == [i \in chosen |-> 0]
             at == Ordered(chosen, key)
             N == Cardinality(chosen)
             r == Picked(s, chosen)
  <1>1. IsFiniteSet(chosen) /\ chosen \subseteq Int
    BY ListParts, FS_Subset
  <1>2. /\ N \in Nat /\ at \in [1..N -> chosen]
        /\ \A i \in chosen : \E n \in 1..N : at[n] = i
        /\ \A m, n \in 1..N : m < n => at[m] # at[n] /\ NoLater(key, at[m], at[n])
    <2>1. \A i \in chosen : key[i] \in Int
      OBVIOUS
    <2> HIDE DEF key
    <2> QED BY <1>1, <2>1, OrderedPositions
  <1>3. r = [n \in 1..N |-> s[at[n]]]
    BY <1>2 DEF Picked, Rearranged
  <1>4. \A m, n \in 1..N : m < n => at[m] < at[n]
    <2> SUFFICES ASSUME NEW m \in 1..N, NEW n \in 1..N, m < n PROVE at[m] < at[n]
      OBVIOUS
    <2>1. at[m] \in chosen /\ at[n] \in chosen
      BY <1>2
    <2>2. key[at[m]] = 0 /\ key[at[n]] = 0
      BY <2>1
    <2>3. at[m] # at[n] /\ NoLater(key, at[m], at[n])
      BY <1>2
    <2> HIDE DEF key, at
    <2> QED BY <1>1, <2>1, <2>2, <2>3 DEF NoLater
  <1> HIDE DEF at, N, r
  <1>5. DOMAIN r = 1..N /\ r = [n \in 1..N |-> r[n]] /\ \A n \in 1..N : r[n] = s[at[n]]
    BY <1>3
  <1>6. IsList(r) /\ Len(r) = N
    BY <1>2, <1>5, MakesList
  <1>7. \A e : e \in ToSet(r) <=> \E n \in 1..N : s[at[n]] = e
    <2>1. \A e : e \in ToSet(r) <=> \E n \in 1..Len(r) : r[n] = e
      BY <1>6, ListParts
    <2> QED BY ZenonT(30), <1>5, <1>6, <2>1
  <1>8. ToSet(r) = {s[i] : i \in chosen}
    BY <1>2, <1>7
  <1> QED BY <1>2, <1>4, <1>5, <1>6, <1>8 DEF N, r

\* A stable sort has each element once, larger keys first.
LEMMA SortedElements ==
    ASSUME NEW s, IsList(s), NEW key, \A i \in DOMAIN s : key[i] \in Int
    PROVE  LET r == Rearranged(s, Ordered(DOMAIN s, key))
           IN  /\ IsList(r) /\ Len(r) = Len(s) /\ ToSet(r) = ToSet(s)
               /\ \E at \in [1..Len(s) -> DOMAIN s] :
                      /\ \A n \in 1..Len(s) : r[n] = s[at[n]]
                      /\ \A i \in DOMAIN s : \E n \in 1..Len(s) : at[n] = i
                      /\ \A m, n \in 1..Len(s) : m < n => at[m] # at[n] /\ NoLater(key, at[m], at[n])
  <1> DEFINE at == Ordered(DOMAIN s, key)
             N == Len(s)
             r == Rearranged(s, at)
  <1>1. /\ IsFiniteSet(DOMAIN s) /\ Cardinality(DOMAIN s) = N
        /\ DOMAIN s = 1..N /\ DOMAIN s \subseteq Int
        /\ \A e : e \in ToSet(s) <=> \E i \in 1..N : s[i] = e
    BY ListParts
  <1>2. /\ N \in Nat /\ at \in [1..N -> DOMAIN s]
        /\ \A i \in DOMAIN s : \E n \in 1..N : at[n] = i
        /\ \A m, n \in 1..N : m < n => at[m] # at[n] /\ NoLater(key, at[m], at[n])
    BY <1>1, OrderedPositions
  <1> HIDE DEF at
  <1>3. r = [n \in 1..N |-> s[at[n]]]
    BY <1>2 DEF Rearranged
  <1> HIDE DEF N, r
  <1>5. DOMAIN r = 1..N /\ r = [n \in 1..N |-> r[n]] /\ \A n \in 1..N : r[n] = s[at[n]]
    BY <1>3
  <1>6. IsList(r) /\ Len(r) = N
    BY <1>2, <1>5, MakesList
  <1>7. \A e : e \in ToSet(r) <=> \E n \in 1..N : s[at[n]] = e
    <2>1. \A e : e \in ToSet(r) <=> \E n \in 1..Len(r) : r[n] = e
      BY <1>6, ListParts
    <2> QED BY ZenonT(30), <1>5, <1>6, <2>1
  <1>8. ToSet(r) = ToSet(s)
    <2>1. ASSUME NEW e \in ToSet(r) PROVE e \in ToSet(s)
      <3>1. PICK n \in 1..N : s[at[n]] = e
        BY <1>7
      <3>2. at[n] \in 1..N
        BY <1>1, <1>2
      <3> QED BY <1>1, <3>1, <3>2
    <2>2. ASSUME NEW e \in ToSet(s) PROVE e \in ToSet(r)
      <3>1. PICK i \in 1..N : s[i] = e
        BY <1>1
      <3>2. PICK n \in 1..N : at[n] = i
        BY <1>1, <1>2
      <3> QED BY <1>7, <3>1, <3>2
    <2> QED BY <2>1, <2>2
  <1> QED BY <1>2, <1>5, <1>6, <1>8 DEF N, r, at

\* The first of a sorted list has the largest key.
LEMMA HeadIsLargest ==
    ASSUME NEW s, IsList(s), s # <<>>, NEW key, \A i \in DOMAIN s : key[i] \in Int
    PROVE  \E i \in DOMAIN s : /\ Head(Rearranged(s, Ordered(DOMAIN s, key))) = s[i]
                             /\ \A j \in DOMAIN s : key[j] <= key[i]
  <1> DEFINE r == Rearranged(s, Ordered(DOMAIN s, key))
             N == Len(s)
  <1>1. N \in Nat /\ N # 0 /\ DOMAIN s = 1..N
    BY ListParts DEF IsList
  <1>2. IsList(r) /\ Len(r) = N
    BY SortedElements
  <1>3. PICK at \in [1..N -> DOMAIN s] :
            /\ \A n \in 1..N : r[n] = s[at[n]]
            /\ \A i \in DOMAIN s : \E n \in 1..N : at[n] = i
            /\ \A m, n \in 1..N : m < n => at[m] # at[n] /\ NoLater(key, at[m], at[n])
    BY SortedElements
  <1> HIDE DEF r, N
  <1>4. 1 \in 1..N /\ Head(r) = r[1]
    BY <1>1, <1>2 DEF IsList
  <1>5. \A j \in DOMAIN s : key[j] <= key[at[1]]
    <2> TAKE j \in DOMAIN s
    <2>1. PICK n \in 1..N : at[n] = j
      BY <1>3
    <2>2. key[at[1]] \in Int /\ key[j] \in Int
      BY <1>3, <1>4
    <2>3. CASE n = 1
      BY <2>1, <2>2, <2>3
    <2>4. CASE n # 1
      <3>1. 1 < n
        BY <1>1, <2>4
      <3>2. NoLater(key, at[1], j)
        BY <1>3, <1>4, <2>1, <3>1
      <3> QED BY <2>2, <3>2 DEF NoLater
    <2> QED BY <2>3, <2>4
  <1> QED BY <1>3, <1>4, <1>5 DEF r

\* The first elements of a list.
LEMMA TakenElements ==
    ASSUME NEW s, IsList(s), NEW n \in Nat
    PROVE  /\ IsList(Take(s, n)) /\ Len(Take(s, n)) = Smaller(n, Len(s))
           /\ \A i \in 1..Len(Take(s, n)) : Take(s, n)[i] = s[i]
  <1> DEFINE k == Smaller(n, Len(s))
             r == Take(s, n)
  <1>1. Len(s) \in Nat /\ DOMAIN s = 1..Len(s)
    BY ListParts
  <1>2. k \in 0..Len(s)
    BY <1>1 DEF Smaller
  <1>3. r = SubSeq(s, 1, k)
    BY DEF Take
  <1> HIDE DEF k, r
  <1>4. r = [i \in 1..k |-> s[i]]
    <2>1. SubSeq(s, 1, k) = [i \in 1..k |-> s[i + 1 - 1]]
      BY <1>1, <1>2, SubSeqProperties DEF IsList
    <2>2. \A i \in 1..k : s[i + 1 - 1] = s[i]
      BY <1>2
    <2> QED BY <1>3, <2>1, <2>2
  <1>5. k \in Nat /\ DOMAIN r = 1..k /\ r = [i \in 1..k |-> r[i]]
    BY <1>1, <1>2, <1>4
  <1>6. IsList(r) /\ Len(r) = k
    BY <1>5, MakesList
  <1> QED BY <1>4, <1>6 DEF k, r

\* Every set of naturals has a least element.
LEMMA Least ==
    ASSUME NEW T \in SUBSET Nat, T # {}
    PROVE  \E n \in T : \A m \in T : n <= m
  <1> DEFINE R == {ss \in Nat \X Nat : ss[1] < ss[2]}
  <1>1. IsWellFoundedOn(R, Nat)
    BY NatLessThanWellFounded DEF OpToRel
  <1>2. PICK x \in T : \A y \in T : ~ (<<y, x>> \in R)
    <2> HIDE DEF R
    <2> QED BY <1>1, WFMin
  <1>3. ASSUME NEW y \in T PROVE x <= y
    <2>1. <<y, x>> \in Nat \X Nat  OBVIOUS
    <2>2. ~(y < x)                 BY <1>2, <2>1
    <2> QED BY <2>2
  <1> QED BY <1>3

\* The positions of a list where a name occurs for the first time.
Firsts(s, name) == {i \in DOMAIN s : \A j \in 1..i - 1 : name[j] # name[i]}

\* The elements there have each name once.
LEMMA FirstElements ==
    ASSUME NEW s, IsList(s), NEW name
    PROVE  LET r == Picked(s, Firsts(s, name))
           IN  /\ IsList(r)
               /\ \E at \in [1..Len(r) -> DOMAIN s] :
                      /\ \A n \in 1..Len(r) : r[n] = s[at[n]]
                      /\ \A m, n \in 1..Len(r) : m < n => name[at[m]] # name[at[n]]
                      /\ \A i \in DOMAIN s : \E n \in 1..Len(r) : name[at[n]] = name[i]
  <1> DEFINE firsts == {i \in DOMAIN s : \A j \in 1..i - 1 : name[j] # name[i]}
             r == Picked(s, Firsts(s, name))
  <1>0. Firsts(s, name) = firsts
    BY DEF Firsts
  <1>1. IsList(r) /\ \E at \in [1..Len(r) -> firsts] :
                        /\ \A n \in 1..Len(r) : r[n] = s[at[n]]
                        /\ \A i \in firsts : \E n \in 1..Len(r) : at[n] = i
                        /\ \A m, n \in 1..Len(r) : m < n => at[m] < at[n]
    <2>1. firsts \in SUBSET DOMAIN s
      OBVIOUS
    <2> HIDE DEF firsts
    <2> QED BY <1>0, <2>1, PickedElements
  <1> HIDE DEF r
  <1>2. PICK at \in [1..Len(r) -> firsts] :
            /\ \A n \in 1..Len(r) : r[n] = s[at[n]]
            /\ \A i \in firsts : \E n \in 1..Len(r) : at[n] = i
            /\ \A m, n \in 1..Len(r) : m < n => at[m] < at[n]
    BY <1>1
  <1>3. DOMAIN s = 1..Len(s) /\ Len(s) \in Nat
    BY ListParts
  <1>4. ASSUME NEW m \in 1..Len(r), NEW n \in 1..Len(r), m < n PROVE name[at[m]] # name[at[n]]
    <2>1. at[m] \in firsts /\ at[n] \in firsts /\ at[m] < at[n]
      BY <1>2, <1>4
    <2>2. at[m] \in 1..at[n] - 1
      BY <1>3, <2>1
    <2> QED BY <2>1, <2>2
  <1>5. ASSUME NEW i \in DOMAIN s PROVE \E n \in 1..Len(r) : name[at[n]] = name[i]
    <2> DEFINE same == {j \in DOMAIN s : name[j] = name[i]}
    <2>1. same \in SUBSET Nat /\ same # {}
      BY <1>3
    <2>2. PICK k \in same : \A j \in same : k <= j
      <3> HIDE DEF same
      <3> QED BY <2>1, Least
    <2>3. k \in firsts
      <3> SUFFICES ASSUME NEW j \in 1..k - 1, name[j] = name[k] PROVE FALSE
        BY <2>2
      <3>1. j \in same /\ ~(k <= j)
        BY <1>3, <2>2
      <3> QED BY <2>2, <3>1
    <2>4. PICK n \in 1..Len(r) : at[n] = k
      BY <1>2, <2>3
    <2> QED BY <2>2, <2>4
  <1>6. at \in [1..Len(r) -> DOMAIN s]
    OBVIOUS
  <1> QED BY <1>1, <1>2, <1>4, <1>5, <1>6 DEF r

\* What no two positions of a list have in common is told apart by as many names.
LEMMA DistinctNames ==
    ASSUME NEW s, IsList(s), NEW name, \A m, n \in DOMAIN s : m < n => name[m] # name[n]
    PROVE  Cardinality({name[n] : n \in DOMAIN s}) = Len(s)
  <1> DEFINE f == [n \in DOMAIN s |-> name[n]]
             names == {name[n] : n \in DOMAIN s}
  <1>1. /\ IsFiniteSet(DOMAIN s) /\ Cardinality(DOMAIN s) = Len(s)
        /\ DOMAIN s = 1..Len(s) /\ Len(s) \in Nat
    BY ListParts
  <1>2. \A m, n \in DOMAIN s : f[m] = f[n] => m = n
    <2> SUFFICES ASSUME NEW m \in DOMAIN s, NEW n \in DOMAIN s, m # n PROVE name[m] # name[n]
      OBVIOUS
    <2>1. m < n \/ n < m
      BY <1>1
    <2> QED BY <2>1
  <1>3. f \in Bijection(DOMAIN s, names)
    BY <1>2 DEF Bijection, Injection, Surjection, IsInjective
  <1> HIDE DEF f, names
  <1>4. Cardinality(names) = Cardinality(DOMAIN s)
    BY <1>1, <1>3, FS_Bijection DEF ExistsBijection
  <1> QED BY <1>1, <1>4 DEF names

-----------------------------------------------------------------------------
(* Filters.                                                                *)

\* What a text field of a filter or of a product's record can hold.
MaybeTexts == Texts \cup {Absent}

\* Normalized texts are equal when their words are, however each was written;
\* what is normalized again stays as it is.
LEMMA NormalizedByKey ==
    ASSUME NEW x \in MaybeTexts, NEW y \in MaybeTexts
    PROVE  /\ NormalizeFacet(x) = Absent <=> x = Absent
           /\ x # Absent /\ y # Absent => (NormalizeFacet(x) = NormalizeFacet(y) <=> x.key = y.key)
           /\ NormalizeFacet(NormalizeFacet(x)) = NormalizeFacet(x)
  <1>1. CASE x = Absent
    BY <1>1 DEF NormalizeFacet
  <1>2. CASE x # Absent
    <2>1. x \in Texts
      BY <1>2 DEF MaybeTexts
    <2> DEFINE form == IF x.key \in SeveralWords THEN "slug" ELSE "folded"
    <2>2. NormalizeFacet(x) = [key |-> x.key, form |-> form]
      BY <1>2 DEF NormalizeFacet, Text
    <2>3. NormalizeFacet(x) \in Texts
      BY <2>1, <2>2 DEF Texts
    <2>4. NormalizeFacet(x) # Absent
      BY <2>3, TextsAssumption DEF Texts
    <2>5. NormalizeFacet(NormalizeFacet(x)) = NormalizeFacet(x)
      BY <2>2, <2>4 DEF NormalizeFacet, Text
    <2>6. ASSUME y # Absent
          PROVE  NormalizeFacet(x) = NormalizeFacet(y) <=> x.key = y.key
      <3>1. NormalizeFacet(y) = [key |-> y.key, form |-> IF y.key \in SeveralWords THEN "slug" ELSE "folded"]
        BY <2>6 DEF NormalizeFacet, Text
      <3> QED BY <2>2, <3>1
    <2> QED BY <1>2, <2>4, <2>5, <2>6
  <1> QED BY <1>1, <1>2

\* A filter, with a bound of 0 where none is given.
Filters == [category : MaybeTexts, brand : MaybeTexts, minPrice : Nat, maxPrice : Nat]

\* What a filter is to find: the words that were typed, whatever their form,
\* and a price within the bounds that were given.
Matches(f, d) ==
    /\ f.category = Absent \/ (d.category # Absent /\ f.category.key = d.category.key)
    /\ f.brand = Absent \/ (d.brand # Absent /\ d.brand.key = f.brand.key)
    /\ \/ f.minPrice = 0 /\ f.maxPrice = 0
       \/ /\ d.price # 0 /\ f.minPrice <= d.price
          /\ f.maxPrice = 0 \/ d.price <= f.maxPrice

\* Whatever a product's record and a filter are, the filter lets through what
\* process_upload stored exactly when it matches what was submitted.
THEOREM FilterMatches ==
    ASSUME NEW f \in Filters,
           NEW d, {"brand", "category", "price"} \subseteq DOMAIN d,
           d.brand \in MaybeTexts, d.category \in MaybeTexts, d.price \in Nat
    PROVE  Passes(f, Stored(d)) <=> Matches(f, d)
  <1>1. /\ Stored(d).categoryKey = NormalizeFacet(d.category)
        /\ Stored(d).brandKey = NormalizeFacet(d.brand)
        /\ Stored(d).price = d.price
    BY DEF Stored
  <1>2. f.category \in MaybeTexts /\ f.brand \in MaybeTexts /\ f.minPrice \in Nat /\ f.maxPrice \in Nat
    BY DEF Filters
  <1>3. NormalizeFacet(f.category) \in {Absent, NormalizeFacet(d.category)}
        <=> f.category = Absent \/ (d.category # Absent /\ f.category.key = d.category.key)
    BY <1>2, NormalizedByKey
  <1>4. NormalizeFacet(f.brand) \in {Absent, NormalizeFacet(d.brand)}
        <=> f.brand = Absent \/ (d.brand # Absent /\ d.brand.key = f.brand.key)
    BY <1>2, NormalizedByKey
  <1>5. (/\ f.minPrice = 0 \/ (d.price # 0 /\ d.price >= f.minPrice)
         /\ f.maxPrice = 0 \/ (d.price # 0 /\ d.price <= f.maxPrice))
        <=> \/ f.minPrice = 0 /\ f.maxPrice = 0
            \/ /\ d.price # 0 /\ f.minPrice <= d.price
               /\ f.maxPrice = 0 \/ d.price <= f.maxPrice
    BY <1>2
  <1> QED BY <1>1, <1>3, <1>4, <1>5 DEF Passes, Matches

\* A step answers the task at hand, by the action of that task, or returns.
LEMMA StepOfTask ==
    ASSUME Next
    PROVE  /\ task' = task
           /\ done' /\ task = "filter" => DoFilter
           /\ done' /\ task = "enrich" => DoEnrich
           /\ done' /\ task = "estimate" => DoEstimate
           /\ done' /\ task = "priceOwn" => DoPriceOwn
           /\ done' /\ task = "recommend" => DoRecommend
  <1>1. CASE DoSearch
    <2>1. task = "search" /\ task' = task
      BY <1>1 DEF DoSearch, Asked, Answered
    <2> QED BY <1>1, <2>1
  <1>2. CASE DoSearchHalf
    <2>1. task = "search" /\ task' = task
      BY <1>2 DEF DoSearchHalf, Asked, Answered
    <2> QED BY <1>2, <2>1
  <1>3. CASE DoRerank
    <2>1. task = "rerank" /\ task' = task
      BY <1>3 DEF DoRerank, Asked, Answered
    <2> QED BY <1>3, <2>1
  <1>4. CASE DoById
    <2>1. task = "byId" /\ task' = task
      BY <1>4 DEF DoById, Asked, Answered
    <2> QED BY <1>4, <2>1
  <1>5. CASE DoLookup
    <2>1. task = "lookup" /\ task' = task
      BY <1>5 DEF DoLookup, Asked, Answered
    <2> QED BY <1>5, <2>1
  <1>6. CASE DoDetect
    <2>1. task = "detect" /\ task' = task
      BY <1>6 DEF DoDetect, Asked, Answered
    <2> QED BY <1>6, <2>1
  <1>7. CASE DoDetectById
    <2>1. task = "detectById" /\ task' = task
      BY <1>7 DEF DoDetectById, Asked, Answered
    <2> QED BY <1>7, <2>1
  <1>8. CASE DoVerify
    <2>1. task = "verify" /\ task' = task
      BY <1>8 DEF DoVerify, Asked, Answered
    <2> QED BY <1>8, <2>1
  <1>9. CASE DoFilter
    <2>1. task = "filter" /\ task' = task
      BY <1>9 DEF DoFilter, Asked, Answered
    <2> QED BY <1>9, <2>1
  <1>10. CASE DoEstimate
    <2>1. task = "estimate" /\ task' = task
      BY <1>10 DEF DoEstimate, Asked, Answered
    <2> QED BY <1>10, <2>1
  <1>11. CASE DoPrice
    <2>1. task = "price" /\ task' = task
      BY <1>11 DEF DoPrice, Asked, Answered
    <2> QED BY <1>11, <2>1
  <1>12. CASE DoPriceOwn
    <2>1. task = "priceOwn" /\ task' = task
      BY <1>12 DEF DoPriceOwn, Asked, Answered
    <2> QED BY <1>12, <2>1
  <1>13. CASE DoRecommend
    <2>1. task = "recommend" /\ task' = task
      BY <1>13 DEF DoRecommend, Asked, Answered
    <2> QED BY <1>13, <2>1
  <1>14. CASE DoEvaluate
    <2>1. task = "evaluate" /\ task' = task
      BY <1>14 DEF DoEvaluate, Asked, Answered
    <2> QED BY <1>14, <2>1
  <1>15. CASE DoAggregate
    <2>1. task = "aggregate" /\ task' = task
      BY <1>15 DEF DoAggregate, Asked, Answered
    <2> QED BY <1>15, <2>1
  <1>16. CASE DoEnrich
    <2>1. task = "enrich" /\ task' = task
      BY <1>16 DEF DoEnrich, Asked, Answered
    <2> QED BY <1>16, <2>1
  <1>17. CASE DoDescribe
    <2>1. task = "describe" /\ task' = task
      BY <1>17 DEF DoDescribe, Asked, Answered
    <2> QED BY <1>17, <2>1
  <1>18. CASE DoName
    <2>1. task = "name" /\ task' = task
      BY <1>18 DEF DoName, Asked, Answered
    <2> QED BY <1>18, <2>1
  <1>19. CASE DoResize
    <2>1. task = "resize" /\ task' = task
      BY <1>19 DEF DoResize, Asked, Answered
    <2> QED BY <1>19, <2>1
  <1>20. CASE Return
    <2>1. task' = task /\ ~done'
      BY <1>20 DEF Return
    <2> QED BY <2>1
  <1> QED BY <1>1, <1>2, <1>3, <1>4, <1>5, <1>6, <1>7, <1>8, <1>9, <1>10, <1>11, <1>12,
           <1>13, <1>14, <1>15, <1>16, <1>17, <1>18, <1>19, <1>20
         DEF Next

\* What a catalog's products are typed with is a text.
LEMMA TypedTexts ==
    /\ \A d \in Typed : /\ {"brand", "category", "price"} \subseteq DOMAIN d
                       /\ d.brand \in MaybeTexts /\ d.category \in MaybeTexts /\ d.price \in Nat
    /\ Word("acme") \in MaybeTexts /\ Fold(Word("acme")) \in MaybeTexts /\ Word("zeta") \in MaybeTexts
  <1>1. \A key \in Words : Word(key) \in MaybeTexts /\ Fold(Word(key)) \in MaybeTexts
    BY DEF Word, Text, Fold, Texts, MaybeTexts
  <1>2. /\ Word("acme") \in MaybeTexts /\ Word("zeta") \in MaybeTexts /\ Absent \in MaybeTexts
        /\ Word("men shoes") \in MaybeTexts /\ Word("shoes") \in MaybeTexts
        /\ Word("home decor") \in MaybeTexts /\ Fold(Word("acme")) \in MaybeTexts
    BY <1>1, WordsAssumption DEF MaybeTexts
  <1>3. ASSUME NEW d \in Typed
        PROVE  /\ {"brand", "category", "price"} \subseteq DOMAIN d
               /\ d.brand \in MaybeTexts /\ d.category \in MaybeTexts /\ d.price \in Nat
    <2>1. CASE d = Data("shirt", Word("acme"), Word("men shoes"), Word("red"), 20)
      <3>1. {"brand", "category", "price"} \subseteq DOMAIN d /\ d.price \in Nat
        BY <2>1 DEF Data
      <3>2. d.brand = Word("acme") /\ d.category = Word("men shoes")
        BY <2>1 DEF Data
      <3> QED BY <1>2, <3>1, <3>2
    <2>2. CASE d = Data("shirt", Word("acme"), Word("shoes"), Word("red"), 20)
      <3>1. {"brand", "category", "price"} \subseteq DOMAIN d /\ d.price \in Nat
        BY <2>2 DEF Data
      <3>2. d.brand = Word("acme") /\ d.category = Word("shoes")
        BY <2>2 DEF Data
      <3> QED BY <1>2, <3>1, <3>2
    <2>3. CASE d = Data("shirt", Word("acme"), Absent, Word("red"), 0)
      <3>1. {"brand", "category", "price"} \subseteq DOMAIN d /\ d.price \in Nat
        BY <2>3 DEF Data
      <3>2. d.brand = Word("acme") /\ d.category = Absent
        BY <2>3 DEF Data
      <3> QED BY <1>2, <3>1, <3>2
    <2>4. CASE d = Data("shirt", Word("zeta"), Word("shoes"), Word("blue"), 40)
      <3>1. {"brand", "category", "price"} \subseteq DOMAIN d /\ d.price \in Nat
        BY <2>4 DEF Data
      <3>2. d.brand = Word("zeta") /\ d.category = Word("shoes")
        BY <2>4 DEF Data
      <3> QED BY <1>2, <3>1, <3>2
    <2>5. CASE d = Data("lamp", Absent, Word("home decor"), Absent, 100)
      <3>1. {"brand", "category", "price"} \subseteq DOMAIN d /\ d.price \in Nat
        BY <2>5 DEF Data
      <3>2. d.brand = Absent /\ d.category = Word("home decor")
        BY <2>5 DEF Data
      <3> QED BY <1>2, <3>1, <3>2
    <2> QED BY <1>3, <2>1, <2>2, <2>3, <2>4, <2>5 DEF Typed
  <1> QED BY <1>2, <1>3

\* Of the answers of the model, what passes a filter is what matches it.
THEOREM FilterFinds == Spec => []FilterFindsStored
  <1>1. Init => FilterFindsStored
    BY DEF Init, FilterFindsStored, Answer
  <1>2. FilterFindsStored /\ [Next]_vars => FilterFindsStored'
    <2> SUFFICES ASSUME FilterFindsStored, [Next]_vars PROVE FilterFindsStored'
      OBVIOUS
    <2>1. CASE UNCHANGED vars
      BY <2>1 DEF vars, FilterFindsStored, Answer
    <2>2. CASE Next
      <3> SUFFICES ASSUME Answer("filter")' PROVE out' <=> Matches(case.filter, case.product)'
        BY DEF FilterFindsStored, Matches
      <3>1. DoFilter
        BY <2>2, StepOfTask DEF Answer
      <3>2. PICK product \in Typed, category \in {d.category : d \in Typed},
                 brand \in {Word("acme"), Fold(Word("acme")), Word("zeta"), Absent},
                 low \in {0, 20, 30}, high \in {0, 30, 100} :
                 LET filter == [category |-> category, brand |-> brand, minPrice |-> low, maxPrice |-> high]
                 IN  Answered([filter |-> filter, product |-> product], Passes(filter, Stored(product)))
        BY <3>1 DEF DoFilter
      <3> DEFINE filter == [category |-> category, brand |-> brand, minPrice |-> low, maxPrice |-> high]
      <3>3. case'.filter = filter /\ case'.product = product /\ out' = Passes(filter, Stored(product))
        BY <3>2 DEF Answered
      <3>4. filter \in Filters
        <4>1. category \in MaybeTexts
          BY <3>2, TypedTexts
        <4>2. brand \in MaybeTexts /\ low \in Nat /\ high \in Nat
          BY <3>2, TypedTexts DEF MaybeTexts
        <4> QED BY <4>1, <4>2 DEF Filters
      <3>5. Passes(filter, Stored(product)) <=> Matches(filter, product)
        BY <3>4, TypedTexts, FilterMatches
      <3> QED BY <3>3, <3>5
    <2> QED BY <2>1, <2>2
  <1> QED BY <1>1, <1>2, PTL DEF Spec

-----------------------------------------------------------------------------
(* Attributes.                                                             *)

\* The prediction that decides attribute a.
Best(predictions, a) == Head(Ranked(predictions, a))

\* It is one of its attribute, and none of them is more confident.
LEMMA BestIsBest ==
    ASSUME NEW ps, IsList(ps), \A p \in ToSet(ps) : p.confidence \in Int,
           NEW q \in ToSet(ps)
    PROVE  LET b == Best(ps, q.attribute)
           IN  /\ b \in ToSet(ps) /\ b.attribute = q.attribute
               /\ \A p \in ToSet(ps) : p.attribute = q.attribute => p.confidence <= b.confidence
  <1> DEFINE a == q.attribute
             I == {i \in DOMAIN ps : ps[i].attribute = a}
             of == Picked(ps, I)
             key == [i \in DOMAIN of |-> of[i].confidence]
             b == Best(ps, a)
  <1>1. IsList(of) /\ ToSet(of) = {ps[i] : i \in I}
    <2> HIDE DEF I
    <2>1. I \in SUBSET DOMAIN ps
      BY DEF I
    <2> QED BY <2>1, PickedElements
  <1>2. ToSet(of) = {p \in ToSet(ps) : p.attribute = a}
    BY <1>1 DEF ToSet
  <1>3. b = Head(Rearranged(of, Ordered(DOMAIN of, key)))
    BY DEF Best, Ranked, SortedDown, Where
  <1> HIDE DEF of, b
  <1>4. of # <<>>
    BY <1>1, <1>2, ListParts
  <1>5. \A i \in DOMAIN of : of[i] \in ToSet(of) /\ key[i] = of[i].confidence /\ key[i] \in Int
    BY <1>2 DEF ToSet
  <1> HIDE DEF key
  <1>6. PICK i \in DOMAIN of : b = of[i] /\ \A j \in DOMAIN of : key[j] <= key[i]
    BY <1>1, <1>3, <1>4, <1>5, HeadIsLargest
  <1>7. \A p \in ToSet(of) : p.confidence <= b.confidence
    BY <1>5, <1>6 DEF ToSet
  <1> QED BY <1>2, <1>5, <1>6, <1>7 DEF b

\* Whatever was predicted, an attribute has the value of a most confident
\* prediction that reaches the threshold, if there is one.
THEOREM MergedAttributes ==
    ASSUME NEW ps, IsList(ps), \A p \in ToSet(ps) : p.confidence \in Int
    PROVE  LET m == MergeAttributes(ps).resolved
           IN  /\ \A p \in ToSet(ps) : p.confidence >= Threshold => p.attribute \in DOMAIN m
               /\ \A a \in DOMAIN m : /\ m[a] \in ToSet(ps) /\ m[a].attribute = a
                                     /\ m[a].confidence >= Threshold
               /\ \A p \in ToSet(ps) : p.attribute \in DOMAIN m => p.confidence <= m[p.attribute].confidence
  <1> DEFINE seen == {ps[i].attribute : i \in DOMAIN ps}
             resolved == {a \in seen : Best(ps, a).confidence >= Threshold}
             m == MergeAttributes(ps).resolved
  <1>1. m = [a \in resolved |-> Best(ps, a)]
    BY DEF MergeAttributes, Best
  <1>2. seen = {p.attribute : p \in ToSet(ps)}
    BY DEF ToSet
  <1> HIDE DEF m, seen
  <1>3. \A p \in ToSet(ps) : /\ Best(ps, p.attribute) \in ToSet(ps)
                            /\ Best(ps, p.attribute).attribute = p.attribute
                            /\ p.confidence <= Best(ps, p.attribute).confidence
    BY BestIsBest
  <1>4. Threshold \in Int
    BY CatalogAssumption DEF CatalogSettings
  <1>5. \A p \in ToSet(ps) : p.confidence >= Threshold => p.attribute \in DOMAIN m
    <2> SUFFICES ASSUME NEW p \in ToSet(ps), p.confidence >= Threshold PROVE p.attribute \in resolved
      BY <1>1
    <2> QED BY <1>2, <1>3, <1>4
  <1>6. \A a \in DOMAIN m : m[a] \in ToSet(ps) /\ m[a].attribute = a /\ m[a].confidence >= Threshold
    BY <1>1, <1>2, <1>3
  <1>7. \A p \in ToSet(ps) : p.attribute \in DOMAIN m => p.confidence <= m[p.attribute].confidence
    BY <1>1, <1>3
  <1> QED BY <1>5, <1>6, <1>7 DEF m

-----------------------------------------------------------------------------
(* Tags.                                                                   *)

\* A merged tag has the confidence of a most confident tag of its name.
LEMMA MergedIsBest ==
    ASSUME NEW tags, IsList(tags), \A t \in ToSet(tags) : t.confidence \in Int,
           NEW q \in ToSet(tags)
    PROVE  LET m == MergedTag(tags, q.tag)
           IN  /\ m.tag = q.tag /\ m.confidence \in Int
               /\ \E t \in ToSet(tags) : t.tag = q.tag /\ t.confidence = m.confidence
               /\ \A t \in ToSet(tags) : t.tag = q.tag => t.confidence <= m.confidence
  <1> DEFINE I == {i \in DOMAIN tags : tags[i].tag = q.tag}
             of == {tags[i] : i \in I}
             C == {x.confidence : x \in of}
             m == MergedTag(tags, q.tag)
             key == [i \in I |-> tags[i].confidence]
             at == Ordered(I, key)
             N == Cardinality(I)
  <1>1. m.tag = q.tag /\ m.confidence = Max(C)
    BY DEF MergedTag, Tag
  <1>2. of = {t \in ToSet(tags) : t.tag = q.tag}
    BY DEF ToSet
  <1>3. IsFiniteSet(I) /\ I \subseteq Int /\ \A i \in I : key[i] \in Int
    <2>1. DOMAIN tags = 1..Len(tags) /\ Len(tags) \in Nat /\ IsFiniteSet(DOMAIN tags)
      BY ListParts
    <2>2. I \subseteq DOMAIN tags /\ \A i \in I : key[i] \in Int
      BY DEF ToSet
    <2> HIDE DEF I
    <2> QED BY <2>1, <2>2, FS_Subset
  <1>4. /\ N \in Nat /\ at \in [1..N -> I]
        /\ \A i \in I : \E n \in 1..N : at[n] = i
        /\ \A k, n \in 1..N : k < n => at[k] # at[n] /\ NoLater(key, at[k], at[n])
    <2> HIDE DEF I, key
    <2> QED BY <1>3, OrderedPositions
  <1>5. \A i \in I : key[i] = tags[i].confidence
    OBVIOUS
  <1>6. I # {}
    BY DEF ToSet
  <1> HIDE DEF at, N, key, m
  <1>7. 1 \in 1..N
    <2>1. \E n \in 1..N : TRUE
      BY <1>4, <1>6
    <2> QED BY <1>4, <2>1
  <1>8. \A i \in I : key[i] <= key[at[1]]
    <2> TAKE i \in I
    <2>1. PICK n \in 1..N : at[n] = i
      BY <1>4
    <2>2. key[at[1]] \in Int /\ key[i] \in Int
      BY <1>3, <1>4, <1>7
    <2>3. CASE n = 1
      BY <2>1, <2>2, <2>3
    <2>4. CASE n # 1
      <3>1. 1 < n
        BY <1>4, <2>4
      <3>2. NoLater(key, at[1], i)
        BY <1>4, <1>7, <2>1, <3>1
      <3> QED BY <2>2, <3>2 DEF NoLater
    <2> QED BY <2>3, <2>4
  <1>9. at[1] \in I
    BY <1>4, <1>7
  <1>10. C = {key[i] : i \in I}
    BY <1>5
  <1> HIDE DEF C, I
  <1>11. Max(C) \in C /\ \A c \in C : Max(C) >= c
    <2>1. key[at[1]] \in C /\ \A c \in C : key[at[1]] >= c
      BY <1>3, <1>8, <1>9, <1>10
    <2> QED BY <2>1 DEF Max
  <1>12. C = {t.confidence : t \in {u \in ToSet(tags) : u.tag = q.tag}}
    BY <1>2 DEF C, I
  <1> QED BY <1>1, <1>11, <1>12 DEF m

\* MergedTags has each name that reaches the threshold, once.
LEMMA MergedTagsOnce ==
    ASSUME NEW tags, IsList(tags), \A t \in ToSet(tags) : t.confidence \in Int
    PROVE  LET s == MergedTags(tags)
           IN  /\ IsList(s)
               /\ \A i \in DOMAIN s : /\ s[i].confidence >= Threshold
                                     /\ \E q \in ToSet(tags) : s[i] = MergedTag(tags, q.tag)
               /\ \A i, j \in DOMAIN s : i < j => s[i].tag # s[j].tag
               /\ \A q \in ToSet(tags) : MergedTag(tags, q.tag).confidence >= Threshold =>
                      \E i \in DOMAIN s : s[i] = MergedTag(tags, q.tag)
  <1> DEFINE name == [i \in DOMAIN tags |-> tags[i].tag]
             first == Picked(tags, Firsts(tags, name))
             all == [n \in DOMAIN first |-> MergedTag(tags, first[n].tag)]
             G == {i \in DOMAIN all : all[i].confidence >= Threshold}
             s == MergedTags(tags)
  <1>0. Len(tags) \in Nat /\ DOMAIN tags = 1..Len(tags)
    BY ListParts
  <1>1. WithoutRepeats(tags, LAMBDA x : x.tag) = first
    <2>1. \A i \in DOMAIN tags : \A j \in 1..i - 1 : name[j] = tags[j].tag /\ name[i] = tags[i].tag
      BY <1>0
    <2>2. Firsts(tags, name) = {i \in DOMAIN tags : \A j \in 1..i - 1 : tags[j].tag # tags[i].tag}
      BY <2>1 DEF Firsts
    <2> QED BY <2>2 DEF WithoutRepeats
  <1>2. s = Picked(all, G)
    BY <1>1 DEF MergedTags, Where, Mapped
  <1>3. IsList(first) /\ \E at \in [1..Len(first) -> DOMAIN tags] :
                            /\ \A n \in 1..Len(first) : first[n] = tags[at[n]]
                            /\ \A m, n \in 1..Len(first) : m < n => name[at[m]] # name[at[n]]
                            /\ \A i \in DOMAIN tags : \E n \in 1..Len(first) : name[at[n]] = name[i]
    <2> HIDE DEF name
    <2> QED BY FirstElements
  <1> HIDE DEF first, s
  <1>4. PICK at \in [1..Len(first) -> DOMAIN tags] :
            /\ \A n \in 1..Len(first) : first[n] = tags[at[n]]
            /\ \A m, n \in 1..Len(first) : m < n => name[at[m]] # name[at[n]]
            /\ \A i \in DOMAIN tags : \E n \in 1..Len(first) : name[at[n]] = name[i]
    BY <1>3
  <1>5. Len(first) \in Nat /\ DOMAIN first = 1..Len(first)
    BY <1>3, ListParts
  <1>6. \A n \in 1..Len(first) : first[n] \in ToSet(tags) /\ name[at[n]] = first[n].tag
    BY <1>4 DEF ToSet
  <1>7. \A n \in 1..Len(first) : all[n] = MergedTag(tags, first[n].tag) /\ all[n].tag = first[n].tag
    BY <1>5, <1>6, MergedIsBest
  <1>8. IsList(all) /\ DOMAIN all = 1..Len(first)
    <2>1. DOMAIN all = 1..Len(first) /\ all = [i \in 1..Len(first) |-> all[i]]
      BY <1>5
    <2> HIDE DEF all
    <2> QED BY <1>5, <2>1, MakesList
  <1> HIDE DEF all
  <1>9. /\ IsList(s) /\ ToSet(s) = {all[i] : i \in G}
        /\ \E to \in [1..Len(s) -> G] :
               /\ \A n \in 1..Len(s) : s[n] = all[to[n]]
               /\ \A m, n \in 1..Len(s) : m < n => to[m] < to[n]
    <2>1. G \in SUBSET DOMAIN all
      OBVIOUS
    <2> HIDE DEF G
    <2> QED BY <1>2, <1>8, <2>1, PickedElements
  <1>10. PICK to \in [1..Len(s) -> G] :
            /\ \A n \in 1..Len(s) : s[n] = all[to[n]]
            /\ \A m, n \in 1..Len(s) : m < n => to[m] < to[n]
    BY <1>9
  <1>11. DOMAIN s = 1..Len(s)
    BY <1>9, ListParts
  <1>12. ASSUME NEW i \in DOMAIN s
         PROVE  s[i].confidence >= Threshold /\ \E q \in ToSet(tags) : s[i] = MergedTag(tags, q.tag)
    <2>1. to[i] \in G /\ s[i] = all[to[i]]
      BY <1>10, <1>11
    <2>2. to[i] \in 1..Len(first) /\ s[i].confidence >= Threshold
      BY <1>8, <2>1
    <2> QED BY <1>6, <1>7, <2>1, <2>2
  <1>13. ASSUME NEW i \in DOMAIN s, NEW j \in DOMAIN s, i < j PROVE s[i].tag # s[j].tag
    <2>1. to[i] \in 1..Len(first) /\ to[j] \in 1..Len(first) /\ to[i] < to[j]
      BY <1>8, <1>10, <1>11, <1>13
    <2>2. name[at[to[i]]] # name[at[to[j]]]
      BY <1>4, <2>1
    <2>3. s[i] = all[to[i]] /\ s[j] = all[to[j]]
      BY <1>10, <1>11
    <2> QED BY <1>6, <1>7, <2>1, <2>2, <2>3
  <1>14. ASSUME NEW q \in ToSet(tags), MergedTag(tags, q.tag).confidence >= Threshold
         PROVE  \E i \in DOMAIN s : s[i] = MergedTag(tags, q.tag)
    <2>1. PICK i \in DOMAIN tags : tags[i] = q
      BY DEF ToSet
    <2>2. PICK n \in 1..Len(first) : name[at[n]] = name[i]
      BY <1>4
    <2>3. first[n].tag = q.tag
      BY <1>6, <2>1, <2>2
    <2>4. all[n] = MergedTag(tags, q.tag)
      BY <1>7, <2>3
    <2>5. n \in G
      BY <1>8, <1>14, <2>4
    <2>6. all[n] \in ToSet(s)
      BY <1>9, <2>5
    <2> QED BY <2>4, <2>6 DEF ToSet
  <1> QED BY <1>9, <1>12, <1>13, <1>14 DEF s

\* Whatever was offered, the tags given are no more than there may be, no two of
\* a name, each as confident as the best offered of its name and none below the
\* threshold; and what is left out is no more confident than what is given.
THEOREM TagsKept ==
    ASSUME NEW tags, IsList(tags), \A t \in ToSet(tags) : t.confidence \in Int
    PROVE  LET r == MergeTags(tags)
               names == {t.tag : t \in ToSet(r)}
           IN  /\ Len(r) <= MaxTags /\ Cardinality(names) = Len(r)
               /\ \A t \in ToSet(r) :
                      /\ t.confidence >= Threshold
                      /\ \E q \in ToSet(tags) : q.tag = t.tag /\ q.confidence = t.confidence
                      /\ \A q \in ToSet(tags) : q.tag = t.tag => q.confidence <= t.confidence
               /\ \A q \in ToSet(tags) : q.tag \notin names =>
                      \A t \in ToSet(r) : q.confidence <= t.confidence
  <1> DEFINE s == MergedTags(tags)
             key == [i \in DOMAIN s |-> s[i].confidence]
             sorted == Rearranged(s, Ordered(DOMAIN s, key))
             r == MergeTags(tags)
             names == {t.tag : t \in ToSet(r)}
             N == Len(s)
  <1>1. /\ IsList(s)
        /\ \A i \in DOMAIN s : /\ s[i].confidence >= Threshold
                              /\ \E q \in ToSet(tags) : s[i] = MergedTag(tags, q.tag)
        /\ \A i, j \in DOMAIN s : i < j => s[i].tag # s[j].tag
        /\ \A q \in ToSet(tags) : MergedTag(tags, q.tag).confidence >= Threshold =>
               \E i \in DOMAIN s : s[i] = MergedTag(tags, q.tag)
    BY MergedTagsOnce
  <1>2. r = Take(sorted, MaxTags)
    BY DEF MergeTags, SortedDown
  <1> HIDE DEF s, r
  <1>3. \A i \in DOMAIN s : key[i] = s[i].confidence /\ key[i] \in Int
    BY <1>1, MergedIsBest
  <1> HIDE DEF key
  <1>4. N \in Nat /\ DOMAIN s = 1..N
    BY <1>1, ListParts
  <1>5. /\ IsList(sorted) /\ Len(sorted) = N
        /\ \E at \in [1..N -> DOMAIN s] :
               /\ \A n \in 1..N : sorted[n] = s[at[n]]
               /\ \A i \in DOMAIN s : \E n \in 1..N : at[n] = i
               /\ \A m, n \in 1..N : m < n => at[m] # at[n] /\ NoLater(key, at[m], at[n])
    BY <1>1, <1>3, SortedElements
  <1> HIDE DEF sorted
  <1>6. PICK at \in [1..N -> DOMAIN s] :
            /\ \A n \in 1..N : sorted[n] = s[at[n]]
            /\ \A i \in DOMAIN s : \E n \in 1..N : at[n] = i
            /\ \A m, n \in 1..N : m < n => at[m] # at[n] /\ NoLater(key, at[m], at[n])
    BY <1>5
  <1>7. MaxTags \in Nat /\ Threshold \in Int
    BY CatalogAssumption DEF CatalogSettings
  <1>8. IsList(r) /\ Len(r) = Smaller(MaxTags, N) /\ \A i \in 1..Len(r) : r[i] = sorted[i]
    BY <1>2, <1>5, <1>7, TakenElements
  <1>9. Len(r) \in Nat /\ Len(r) <= MaxTags /\ Len(r) <= N
    BY <1>4, <1>7, <1>8 DEF Smaller
  <1> HIDE DEF N
  <1>10. \A i \in 1..Len(r) : i \in 1..N /\ at[i] \in DOMAIN s /\ r[i] = s[at[i]]
    BY SMTT(30), <1>4, <1>6, <1>8, <1>9
  <1>11. \A t : t \in ToSet(r) <=> \E i \in 1..Len(r) : r[i] = t
    BY <1>8, ListParts
  <1>12. ASSUME NEW i \in DOMAIN s, NEW j \in DOMAIN s, i # j PROVE s[i].tag # s[j].tag
    <2>1. i < j \/ j < i
      BY <1>4, <1>12
    <2> QED BY <1>1, <2>1
  <1>13. Cardinality(names) = Len(r)
    <2> DEFINE name == [n \in DOMAIN r |-> r[n].tag]
    <2>1. DOMAIN r = 1..Len(r)
      BY <1>8, ListParts
    <2>2. ASSUME NEW m \in DOMAIN r, NEW n \in DOMAIN r, m < n PROVE name[m] # name[n]
      <3>1. at[m] # at[n]
        BY <1>6, <1>10, <2>1, <2>2
      <3>2. r[m].tag # r[n].tag
        BY <1>10, <1>12, <2>1, <3>1
      <3> QED BY <3>2
    <2>3. names = {name[n] : n \in DOMAIN r}
      BY DEF ToSet
    <2> HIDE DEF name, names
    <2> QED BY <1>8, <2>2, <2>3, DistinctNames
  <1>14. ASSUME NEW t \in ToSet(r)
         PROVE  /\ t.confidence >= Threshold
                /\ \E q \in ToSet(tags) : q.tag = t.tag /\ q.confidence = t.confidence
                /\ \A q \in ToSet(tags) : q.tag = t.tag => q.confidence <= t.confidence
    <2>1. PICK i \in 1..Len(r) : r[i] = t
      BY <1>11
    <2>2. at[i] \in DOMAIN s /\ t = s[at[i]]
      BY <1>10, <2>1
    <2>3. t.confidence >= Threshold
      BY <1>1, <2>2
    <2>4. PICK q \in ToSet(tags) : t = MergedTag(tags, q.tag)
      BY <1>1, <2>2
    <2>5. t.tag = q.tag
      BY <2>4, MergedIsBest
    <2> QED BY <2>3, <2>4, <2>5, MergedIsBest
  <1>15. ASSUME NEW q \in ToSet(tags), q.tag \notin names, NEW t \in ToSet(r)
         PROVE  q.confidence <= t.confidence
    <2> DEFINE m == MergedTag(tags, q.tag)
    <2>1. q.confidence <= m.confidence /\ m.confidence \in Int /\ m.tag = q.tag
      BY MergedIsBest
    <2>2. PICK i \in 1..Len(r) : r[i] = t
      BY <1>11
    <2>3. t = s[at[i]] /\ at[i] \in DOMAIN s /\ key[at[i]] = t.confidence /\ t.confidence \in Int
      BY <1>3, <1>10, <2>2
    <2>4. t.confidence >= Threshold
      BY <1>14
    <2> HIDE DEF m
    <2>5. q.confidence \in Int
      OBVIOUS
    <2>6. CASE ~(m.confidence >= Threshold)
      BY <1>7, <2>1, <2>3, <2>4, <2>5, <2>6
    <2>7. CASE m.confidence >= Threshold
      <3>1. PICK j \in DOMAIN s : s[j] = m
        BY <1>1, <2>7 DEF m
      <3>2. PICK k \in 1..N : at[k] = j
        BY <1>6
      <3>3. k \notin 1..Len(r)
        <4> SUFFICES ASSUME k \in 1..Len(r) PROVE FALSE
          OBVIOUS
        <4>1. r[k] = m /\ m \in ToSet(r)
          BY <1>10, <1>11, <3>1, <3>2
        <4> QED BY <1>15, <2>1, <4>1
      <3>4. i < k /\ i \in 1..N
        BY <1>4, <1>9, <1>10, <3>3
      <3>5. NoLater(key, at[i], j)
        BY <1>6, <3>2, <3>4
      <3>6. key[j] = m.confidence
        BY <1>3, <3>1
      <3> QED BY <2>1, <2>3, <2>5, <3>5, <3>6 DEF NoLater
    <2> QED BY <2>6, <2>7
  <1> QED BY <1>9, <1>13, <1>14, <1>15 DEF r

-----------------------------------------------------------------------------
(* The score.                                                              *)

\* The element that MapThenSumSet takes first, and the running sums it makes: a
\* function from the subsets of a set.
AnyOf(s) == CHOOSE x \in s : TRUE

Add(m, g, s) == IF s = {} THEN 0 ELSE m[AnyOf(s)].confidence + g[s \ {AnyOf(s)}]

Running(m, g, S) == g = [s \in S |-> Add(m, g, s)]

\* The rest of a set is smaller than the set.
LEMMA RestSmaller ==
    ASSUME NEW s, IsFiniteSet(s), s # {}
    PROVE  Cardinality(s \ {AnyOf(s)}) = Cardinality(s) - 1
  <1>1. AnyOf(s) \in s
    BY DEF AnyOf
  <1> QED BY <1>1, FS_RemoveElement

\* The running sums over the subsets of a finite set exist.
LEMMA RunningExists ==
    ASSUME NEW m, NEW S, IsFiniteSet(S)
    PROVE  \E g : Running(m, g, SUBSET S)
  <1> DEFINE Upto(n) == {s \in SUBSET S : Cardinality(s) <= n}
             Bad == {n \in Nat : ~\E g : Running(m, g, Upto(n))}
  <1>f. \A s \in SUBSET S : IsFiniteSet(s) /\ Cardinality(s) \in Nat /\ Cardinality(s) <= Cardinality(S)
    BY FS_Subset, FS_CardinalityType
  <1>1. Bad = {}
    <2> SUFFICES ASSUME Bad # {} PROVE FALSE
      OBVIOUS
    <2>1. PICK k \in Bad : \A n \in Bad : k <= n
      <3> HIDE DEF Bad
      <3>1. Bad \in SUBSET Nat
        BY DEF Bad
      <3> QED BY <3>1, Least
    <2>2. k # 0
      <3> SUFFICES ASSUME k = 0 PROVE FALSE
        OBVIOUS
      <3> DEFINE g == [s \in Upto(0) |-> 0]
      <3>1. \A s \in Upto(0) : s = {}
        BY <1>f, FS_EmptySet
      <3>2. \A s \in Upto(0) : Add(m, g, s) = 0
        BY <3>1 DEF Add
      <3>3. Running(m, g, Upto(0))
        BY <3>2 DEF Running
      <3> QED BY <3>3
    <2>3. k - 1 \in Nat /\ k - 1 \notin Bad
      <3>1. k - 1 \in Nat
        BY <2>1, <2>2
      <3>2. ~(k <= k - 1)
        BY <2>1
      <3> QED BY <2>1, <3>1, <3>2
    <2>4. PICK g : Running(m, g, Upto(k - 1))
      BY <2>3
    <2> DEFINE h == [s \in Upto(k) |-> Add(m, g, s)]
    <2>5. ASSUME NEW s \in Upto(k) PROVE Add(m, h, s) = Add(m, g, s)
      <3>1. CASE s = {}
        BY <3>1 DEF Add
      <3>2. CASE s # {}
        <4> DEFINE t == s \ {AnyOf(s)}
        <4>1. t \in Upto(k - 1) /\ t \in Upto(k)
          <5>1. IsFiniteSet(s) /\ Cardinality(s) \in Nat
            BY <1>f
          <5>2. Cardinality(t) = Cardinality(s) - 1
            BY <3>2, <5>1, RestSmaller
          <5> QED BY <5>1, <5>2, <2>1
        <4>2. g[t] = Add(m, g, t)
          BY <2>4, <4>1 DEF Running
        <4>3. h[t] = g[t]
          BY <4>1, <4>2
        <4> QED BY <3>2, <4>3 DEF Add
      <3> QED BY <3>1, <3>2
    <2>6. Running(m, h, Upto(k))
      BY <2>5 DEF Running
    <2> QED BY <2>1, <2>6
  <1>2. Cardinality(S) \in Nat
    BY FS_CardinalityType
  <1>3. Upto(Cardinality(S)) = SUBSET S
    BY <1>f
  <1>4. \E g : Running(m, g, Upto(Cardinality(S)))
    BY <1>1, <1>2
  <1> QED BY <1>3, <1>4

ConfidenceSum(m, S) == MapThenSumSet(LAMBDA a : m[a].confidence, S)

\* A sum of confidences is a number.
LEMMA SumType ==
    ASSUME NEW S, IsFiniteSet(S), NEW m, \A a \in S : m[a].confidence \in Int
    PROVE  ConfidenceSum(m, S) \in Int
  <1> DEFINE g == CHOOSE h : Running(m, h, SUBSET S)
  <1>1. ConfidenceSum(m, S) = g[S]
    BY DEF ConfidenceSum, MapThenSumSet, MapThenFoldSet, Running, Add, AnyOf
  <1>2. Running(m, g, SUBSET S)
    BY RunningExists
  <1> HIDE DEF g
  <1> DEFINE Bad == {T \in SUBSET S : g[T] \notin Int}
             Sizes == {Cardinality(T) : T \in Bad}
  <1>3. ASSUME Bad # {} PROVE FALSE
    <2>1. Sizes \in SUBSET Nat /\ Sizes # {}
      BY <1>3, FS_Subset, FS_CardinalityType
    <2>2. PICK n \in Sizes : \A k \in Sizes : n <= k
      <3> HIDE DEF Sizes
      <3> QED BY <2>1, Least
    <2>3. PICK T \in Bad : Cardinality(T) = n
      BY <2>2
    <2>4. IsFiniteSet(T) /\ T \in SUBSET S
      BY <2>3, FS_Subset
    <2>5. g[T] = Add(m, g, T)
      BY <1>2, <2>4 DEF Running
    <2>6. T # {}
      BY <2>3, <2>5 DEF Add
    <2> DEFINE U == T \ {AnyOf(T)}
    <2>7. AnyOf(T) \in T /\ U \in SUBSET S
      BY <2>4, <2>6 DEF AnyOf
    <2>8. Cardinality(U) = n - 1 /\ n \in Nat
      BY <2>1, <2>2, <2>3, <2>4, <2>6, RestSmaller
    <2>9. g[U] \in Int
      <3>1. SUFFICES ASSUME U \in Bad PROVE FALSE
        BY <2>7
      <3>2. Cardinality(U) \in Sizes
        BY <3>1
      <3>3. n <= n - 1
        <4> HIDE DEF Sizes, U
        <4> QED BY <2>2, <2>8, <3>2
      <3> QED BY <2>8, <3>3
    <2>10. m[AnyOf(T)].confidence \in Int
      BY <2>4, <2>7
    <2>11. g[T] = m[AnyOf(T)].confidence + g[U]
      BY <2>5, <2>6 DEF Add
    <2> QED BY <2>3, <2>9, <2>10, <2>11
  <1> QED BY <1>1, <1>3

\* The score of any predictions is a share of the full score.
THEOREM QualityBounded ==
    ASSUME NEW ps, IsList(ps), \A p \in ToSet(ps) : p.confidence \in Int
    PROVE  LET full == 600000 * AttributeCount
           IN  full \in Nat /\ Quality(MergeAttributes(ps)) \in 0..full
  <1> DEFINE seen == {ps[i].attribute : i \in DOMAIN ps}
             clash == {a \in seen : \E p, q \in ToSet(Ranked(ps, a)) : p.value # q.value}
             merge == MergeAttributes(ps)
             m == merge.resolved
             filled == Cardinality(DOMAIN m)
             sum == MapThenSumSet(LAMBDA a : m[a].confidence, DOMAIN m)
             confidence == IF filled = 0 THEN 0 ELSE sum * (60 \div filled)
             consistency == IF merge.considered = 0 THEN 60
                            ELSE 60 - merge.conflicts * (60 \div merge.considered)
             points == QualityWeights.completeness * filled * 6000
                       + QualityWeights.confidence * confidence * AttributeCount
                       + QualityWeights.consistency * consistency * 100 * AttributeCount
             full == 600000 * AttributeCount
  <1>1. merge.considered = Cardinality(seen) /\ merge.conflicts = Cardinality(clash) /\ DOMAIN m \subseteq seen
    BY DEF MergeAttributes
  <1>2. IsFiniteSet(seen)
    <2> DEFINE f == [i \in DOMAIN ps |-> ps[i].attribute]
    <2>1. IsFiniteSet(DOMAIN ps)
      BY ListParts
    <2>2. f \in Surjection(DOMAIN ps, seen)
      BY DEF Surjection
    <2> HIDE DEF f, seen
    <2> QED BY <2>1, <2>2, FS_Surjection
  <1>3. clash \subseteq seen
    OBVIOUS
  <1> HIDE DEF seen, clash
  <1>4. merge.considered \in Nat /\ merge.conflicts \in Nat /\ IsFiniteSet(DOMAIN m) /\ filled \in Nat
    BY <1>1, <1>2, <1>3, FS_Subset, FS_CardinalityType
  <1>5. \A a \in DOMAIN m : m[a].confidence \in Int
    BY MergedAttributes
  <1>6. sum \in Int
    <2> DEFINE D == DOMAIN m
    <2>1. IsFiniteSet(D) /\ \A a \in D : m[a].confidence \in Int
      BY <1>4, <1>5
    <2> HIDE DEF m
    <2>2. ConfidenceSum(m, D) \in Int
      <3> HIDE DEF D
      <3> QED BY <2>1, SumType
    <2> QED BY <2>2 DEF ConfidenceSum
  <1>7. Quality(merge) = Clamp(points, full)
    BY DEF Quality
  <1>8. AttributeCount \in Nat \ {0} /\ QualityWeights.completeness \in Nat
        /\ QualityWeights.confidence \in Nat /\ QualityWeights.consistency \in Nat
    BY CatalogAssumption DEF CatalogSettings, ExtractorTables
  <1> HIDE DEF merge, m, sum
  <1> HIDE DEF filled
  <1>9. confidence \in Int
    <2>1. filled # 0 => 60 \div filled \in Int
      BY <1>4
    <2> QED BY <1>6, <2>1
  <1>10. consistency \in Int
    <2>1. merge.considered # 0 => 60 \div merge.considered \in Int
      BY <1>4
    <2> QED BY <1>4, <2>1
  <1> HIDE DEF confidence, consistency
  <1>11. points \in Int
    BY <1>4, <1>8, <1>9, <1>10
  <1>12. full \in Nat
    BY <1>8
  <1> HIDE DEF points, full
  <1>13. Clamp(points, full) \in 0..full
    BY <1>11, <1>12 DEF Clamp, Larger, Smaller
  <1> QED BY <1>7, <1>12, <1>13 DEF merge, full

-----------------------------------------------------------------------------
(* Enrichment.                                                             *)

\* Confident(s): a list of things with a confidence.
Confident(s) == IsList(s) /\ \A x \in ToSet(s) : x.confidence \in Int

\* One such list after the other is one.
LEMMA JoinedConfident ==
    ASSUME NEW s, NEW t, Confident(s), Confident(t)
    PROVE  Confident(s \o t) /\ ToSet(s \o t) = ToSet(s) \cup ToSet(t)
  BY JoinedLists DEF Confident

\* A list written by position, with confidences.
LEMMA MakesConfident ==
    ASSUME NEW s, NEW t, IsList(t), DOMAIN s = DOMAIN t, s = [i \in DOMAIN t |-> s[i]],
           \A i \in DOMAIN t : s[i].confidence \in Int
    PROVE  Confident(s)
  <1>1. Len(t) \in Nat /\ DOMAIN t = 1..Len(t)
    BY ListParts
  <1>2. IsList(s)
    BY <1>1, MakesList
  <1> QED BY <1>2 DEF Confident, ToSet

\* And so is what a pass that is not enabled finds.
LEMMA NothingConfident == Confident(<<>>) /\ ToSet(<<>>) = {}
  <1>1. DOMAIN <<>> = 1..0 /\ <<>> = [i \in 1..0 |-> <<>>[i]]
    OBVIOUS
  <1>2. IsList(<<>>)
    BY <1>1, MakesList
  <1>3. ToSet(<<>>) = {}
    BY DEF ToSet
  <1> QED BY <1>2, <1>3 DEF Confident

\* A list of the type in ExtractorTables.
LEMMA TypedLists ==
    ASSUME NEW T, NEW s \in Seq(T)
    PROVE  IsList(s) /\ ToSet(s) \subseteq T
  <1>1. Len(s) \in Nat /\ DOMAIN s = 1..Len(s) /\ s = [i \in 1..Len(s) |-> s[i]] /\ \A i \in 1..Len(s) : s[i] \in T
    OBVIOUS
  <1>2. IsList(s)
    BY <1>1, MakesList
  <1> QED BY <1>1, <1>2 DEF ToSet

\* The table of an attribute is a list, and its matches have a confidence.
LEMMA KeywordTables ==
    ASSUME NEW a \in DOMAIN Keywords
    PROVE  IsList(Keywords[a]) /\ TextConfidence[a] \in Int
  <1>1. Keywords[a] \in Seq(STRING \X STRING)
    BY Zenon, CatalogAssumption DEF ExtractorTables
  <1>2. IsList(Keywords[a])
    BY <1>1, TypedLists
  <1>3. TextConfidence[a] \in 0..100
    BY Zenon, CatalogAssumption DEF ExtractorTables
  <1> QED BY <1>2, <1>3

\* The text pass predicts a list, each with the confidence of its table.
LEMMA TextPredictionsConfident ==
    ASSUME NEW given, NEW text
    PROVE  Confident(TextPredictions(given, text))
  <1> DEFINE I == {i \in DOMAIN TextOrder :
                       TextOrder[i] \in DOMAIN given \/ FirstKeyword(text, TextOrder[i]) # <<>>}
             order == Picked(TextOrder, I)
             s == TextPredictions(given, text)
  <1>1. IsList(TextOrder) /\ ToSet(TextOrder) \subseteq DOMAIN Keywords
    <2>1. TextOrder \in Seq(DOMAIN Keywords)
      BY CatalogAssumption DEF ExtractorTables
    <2> QED BY <2>1, TypedLists
  <1>2. IsList(order) /\ ToSet(order) = {TextOrder[i] : i \in I}
    <2>1. I \in SUBSET DOMAIN TextOrder
      OBVIOUS
    <2> HIDE DEF I
    <2> QED BY <1>1, <2>1, PickedElements
  <1>3. \A i \in DOMAIN order : order[i] \in DOMAIN Keywords
    BY <1>1, <1>2 DEF ToSet
  <1>4. s = [i \in DOMAIN order |->
                 IF order[i] \in DOMAIN given THEN Prediction(order[i], given[order[i]], 100, "text")
                 ELSE Prediction(order[i], FirstKeyword(text, order[i])[1], TextConfidence[order[i]], "text")]
    BY DEF TextPredictions, Mapped, Where
  <1> HIDE DEF order, s
  <1>5. \A a \in DOMAIN Keywords : TextConfidence[a] \in Int
    BY KeywordTables
  <1>6. \A i \in DOMAIN order : s[i].confidence \in Int
    BY <1>3, <1>4, <1>5 DEF Prediction
  <1>7. DOMAIN s = DOMAIN order /\ s = [i \in DOMAIN order |-> s[i]]
    BY <1>4
  <1>8. Confident(s)
    BY <1>2, <1>6, <1>7, MakesConfident
  <1> QED BY <1>8 DEF s

\* The tags of every keyword of one attribute.
KeywordTags(text, a) == Mapped(AllKeywords(text, a), LAMBDA v : Tag(v, TextConfidence[a], "text"))

\* They are given the confidence of the table.
LEMMA KeywordTagsConfident ==
    ASSUME NEW text, NEW a \in DOMAIN Keywords
    PROVE  Confident(KeywordTags(text, a))
  <1> DEFINE table == Keywords[a]
             I == {i \in DOMAIN table : table[i][1] \in ToSet(text)}
             hits == Picked(table, I)
             values == [i \in DOMAIN hits |-> hits[i][2]]
             F == {i \in DOMAIN values : \A j \in 1..i - 1 : values[j] # values[i]}
             words == AllKeywords(text, a)
             s == KeywordTags(text, a)
  <1>1. IsList(table) /\ TextConfidence[a] \in Int
    BY KeywordTables
  <1>2. IsList(hits)
    <2>1. I \in SUBSET DOMAIN table
      OBVIOUS
    <2> HIDE DEF I, table
    <2> QED BY <1>1, <2>1, PickedElements
  <1>3. words = Picked(values, F)
    BY DEF AllKeywords, WithoutRepeats, Where, Mapped
  <1> HIDE DEF hits, words
  <1>4. IsList(values)
    <2>1. Len(hits) \in Nat /\ DOMAIN hits = 1..Len(hits)
      BY <1>2, ListParts
    <2>2. DOMAIN values = 1..Len(hits) /\ values = [i \in 1..Len(hits) |-> values[i]]
      BY <2>1
    <2> HIDE DEF values
    <2> QED BY <2>1, <2>2, MakesList
  <1>5. IsList(words)
    <2>1. F \in SUBSET DOMAIN values
      OBVIOUS
    <2> HIDE DEF F, values
    <2> QED BY <1>3, <1>4, <2>1, PickedElements
  <1>6. s = [i \in DOMAIN words |-> Tag(words[i], TextConfidence[a], "text")]
    BY DEF KeywordTags, Mapped, words
  <1> HIDE DEF s
  <1>7. DOMAIN s = DOMAIN words /\ s = [i \in DOMAIN words |-> s[i]]
    BY <1>6
  <1>8. \A i \in DOMAIN words : s[i].confidence \in Int
    BY <1>1, <1>6 DEF Tag
  <1>9. Confident(s)
    BY <1>5, <1>7, <1>8, MakesConfident
  <1> QED BY <1>9 DEF s

\* The tags of the text, before those that repeat one are left out.
AllTextTags(given, text) ==
    Mapped(TextPredictions(given, text), LAMBDA p : Tag(p.value, p.confidence, "text"))
    \o KeywordTags(text, "color") \o KeywordTags(text, "material") \o KeywordTags(text, "style")
    \o Mapped(Where(Descriptors, LAMBDA w : w \in ToSet(text)),
              LAMBDA w : Tag(w, DescriptorConfidence, "text"))

\* The tags of the text are a list, each with a confidence.
LEMMA TextTagsConfident ==
    ASSUME NEW given, NEW text
    PROVE  Confident(TextTags(given, text))
  <1> DEFINE ps == TextPredictions(given, text)
             I == {i \in DOMAIN Descriptors : Descriptors[i] \in ToSet(text)}
             words == Picked(Descriptors, I)
             first == Mapped(ps, LAMBDA p : Tag(p.value, p.confidence, "text"))
             last == Mapped(Where(Descriptors, LAMBDA w : w \in ToSet(text)),
                            LAMBDA w : Tag(w, DescriptorConfidence, "text"))
             all == AllTextTags(given, text)
             F == {i \in DOMAIN all : \A j \in 1..i - 1 : all[j].tag # all[i].tag}
             s == TextTags(given, text)
  <1>1. Confident(first)
    <2>1. first = [i \in DOMAIN ps |-> Tag(ps[i].value, ps[i].confidence, "text")]
      BY DEF Mapped
    <2>2. IsList(ps) /\ \A i \in DOMAIN ps : ps[i].confidence \in Int
      BY TextPredictionsConfident DEF Confident, ToSet
    <2> HIDE DEF ps, first
    <2>3. \A i \in DOMAIN ps : first[i].confidence \in Int
      BY <2>1, <2>2 DEF Tag
    <2>4. DOMAIN first = DOMAIN ps /\ first = [i \in DOMAIN ps |-> first[i]]
      BY <2>1
    <2> QED BY <2>2, <2>3, <2>4, MakesConfident
  <1>2. Confident(last)
    <2>1. last = [i \in DOMAIN words |-> Tag(words[i], DescriptorConfidence, "text")]
      BY DEF Mapped, Where
    <2>2. IsList(words)
      <3>1. IsList(Descriptors)
        BY CatalogAssumption, TypedLists DEF ExtractorTables
      <3>2. I \in SUBSET DOMAIN Descriptors
        OBVIOUS
      <3> HIDE DEF I
      <3> QED BY <3>1, <3>2, PickedElements
    <2>3. DescriptorConfidence \in Int
      BY CatalogAssumption DEF ExtractorTables
    <2> HIDE DEF words, last
    <2>4. \A i \in DOMAIN words : last[i].confidence \in Int
      BY <2>1, <2>3 DEF Tag
    <2>5. DOMAIN last = DOMAIN words /\ last = [i \in DOMAIN words |-> last[i]]
      BY <2>1
    <2> QED BY <2>2, <2>4, <2>5, MakesConfident
  <1>3. Confident(KeywordTags(text, "color")) /\ Confident(KeywordTags(text, "material"))
        /\ Confident(KeywordTags(text, "style"))
    <2>1. "color" \in DOMAIN Keywords /\ "material" \in DOMAIN Keywords /\ "style" \in DOMAIN Keywords
      BY CatalogAssumption DEF ExtractorTables
    <2> QED BY <2>1, KeywordTagsConfident
  <1>4. s = Picked(all, F)
    BY DEF TextTags, AllTextTags, KeywordTags, WithoutRepeats
  <1>5. Confident(all)
    <2>1. all = first \o KeywordTags(text, "color") \o KeywordTags(text, "material")
                \o KeywordTags(text, "style") \o last
      BY DEF AllTextTags
    <2> HIDE DEF first, last, all
    <2>2. Confident(first \o KeywordTags(text, "color"))
      BY <1>1, <1>3, JoinedConfident
    <2>3. Confident((first \o KeywordTags(text, "color")) \o KeywordTags(text, "material"))
      BY <1>3, <2>2, JoinedConfident
    <2>4. Confident(((first \o KeywordTags(text, "color")) \o KeywordTags(text, "material"))
                    \o KeywordTags(text, "style"))
      BY <1>3, <2>3, JoinedConfident
    <2> QED BY <1>2, <2>1, <2>4, JoinedConfident
  <1> HIDE DEF all, s
  <1>6. IsList(s) /\ ToSet(s) = {all[i] : i \in F}
    <2>1. F \in SUBSET DOMAIN all
      OBVIOUS
    <2> HIDE DEF F
    <2> QED BY <1>4, <1>5, <2>1, PickedElements DEF Confident
  <1>7. \A t \in ToSet(s) : t.confidence \in Int
    BY <1>5, <1>6 DEF Confident, ToSet
  <1>8. Confident(s)
    BY <1>6, <1>7 DEF Confident
  <1> QED BY <1>8 DEF s

\* The image pass.
LEMMA ImageConfident ==
    ASSUME NEW color, NEW about, IsList(about)
    PROVE  Confident(ImagePredictions(color)) /\ Confident(ImageTags(color, about))
  <1> DEFINE ps == ImagePredictions(color)
             words == Append(about, color)
             s == ImageTags(color, about)
  <1>1. Confident(ps)
    <2>1. ps = <<Prediction("color", color, 70, "image")>>
      BY DEF ImagePredictions
    <2> HIDE DEF ps
    <2>2. DOMAIN ps = 1..1 /\ ps = [i \in 1..1 |-> ps[i]] /\ ps[1] = Prediction("color", color, 70, "image")
      BY <2>1
    <2>3. IsList(ps)
      BY <2>2, MakesList
    <2>4. \A i \in DOMAIN ps : ps[i].confidence \in Int
      BY <2>2 DEF Prediction
    <2> QED BY <2>3, <2>4 DEF Confident, ToSet
  <1>2. IsList(words)
    <2> DEFINE T == ToSet(about) \cup {color}
    <2>1. about \in Seq(T) /\ color \in T
      BY ListParts DEF IsList
    <2>2. words \in Seq(T)
      BY <2>1
    <2> HIDE DEF words
    <2> QED BY <2>2, TypedLists
  <1>3. s = [i \in DOMAIN words |-> Tag(words[i], 70, "image")]
    BY DEF ImageTags, Mapped
  <1> HIDE DEF words, s
  <1>4. \A i \in DOMAIN words : s[i].confidence \in Int
    BY <1>3 DEF Tag
  <1>5. DOMAIN s = DOMAIN words /\ s = [i \in DOMAIN words |-> s[i]]
    BY <1>3
  <1>6. Confident(s)
    BY <1>2, <1>4, <1>5, MakesConfident
  <1> QED BY <1>1, <1>6 DEF s, ps

\* Whatever the product, its text and its image are, and whichever passes are
\* enabled, enrichment keeps the best of what the passes found.
THEOREM EnrichKeeps ==
    ASSUME NEW passes, NEW given, NEW text, NEW color, NEW about, IsList(about)
    PROVE  LET Pass(p, found) == IF p \in passes THEN ToSet(found) ELSE {}
           IN  KeepsBest(Pass("text", TextPredictions(given, text)) \cup Pass("image", ImagePredictions(color)),
                         Pass("text", TextTags(given, text)) \cup Pass("image", ImageTags(color, about)),
                         Enrich(passes, given, text, color, about))
  <1> DEFINE Pass(p, found) == IF p \in passes THEN found ELSE <<>>
             Named(p, found) == IF p \in passes THEN ToSet(found) ELSE {}
             ps == Pass("text", TextPredictions(given, text)) \o Pass("image", ImagePredictions(color))
             ts == Pass("text", TextTags(given, text)) \o Pass("image", ImageTags(color, about))
             predictions == Named("text", TextPredictions(given, text)) \cup Named("image", ImagePredictions(color))
             offered == Named("text", TextTags(given, text)) \cup Named("image", ImageTags(color, about))
             found == Enrich(passes, given, text, color, about)
             m == MergeAttributes(ps).resolved
             r == MergeTags(ts)
  <1>1. Confident(ps) /\ ToSet(ps) = predictions
    <2>1. Confident(Pass("text", TextPredictions(given, text)))
          /\ ToSet(Pass("text", TextPredictions(given, text))) = Named("text", TextPredictions(given, text))
      BY TextPredictionsConfident, NothingConfident
    <2>2. Confident(Pass("image", ImagePredictions(color)))
          /\ ToSet(Pass("image", ImagePredictions(color))) = Named("image", ImagePredictions(color))
      BY ImageConfident, NothingConfident
    <2> HIDE DEF Pass, Named
    <2> QED BY <2>1, <2>2, JoinedConfident
  <1>2. Confident(ts) /\ ToSet(ts) = offered
    <2>1. Confident(Pass("text", TextTags(given, text)))
          /\ ToSet(Pass("text", TextTags(given, text))) = Named("text", TextTags(given, text))
      BY TextTagsConfident, NothingConfident
    <2>2. Confident(Pass("image", ImageTags(color, about)))
          /\ ToSet(Pass("image", ImageTags(color, about))) = Named("image", ImageTags(color, about))
      BY ImageConfident, NothingConfident
    <2> HIDE DEF Pass, Named
    <2> QED BY <2>1, <2>2, JoinedConfident
  <1>3. found.merge.resolved = m /\ found.tags = r /\ found.quality = Quality(MergeAttributes(ps))
    BY DEF Enrich
  <1> HIDE DEF ps, ts, predictions, offered, found
  <1>4. /\ \A p \in predictions : p.confidence >= Threshold => p.attribute \in DOMAIN m
        /\ \A a \in DOMAIN m : m[a] \in {p \in predictions : p.attribute = a /\ p.confidence >= Threshold}
        /\ \A p \in predictions : p.attribute \in DOMAIN m => p.confidence <= m[p.attribute].confidence
    <2>1. IsList(ps) /\ \A p \in ToSet(ps) : p.confidence \in Int
      BY <1>1 DEF Confident
    <2>2. /\ \A p \in ToSet(ps) : p.confidence >= Threshold => p.attribute \in DOMAIN m
          /\ \A a \in DOMAIN m : m[a] \in ToSet(ps) /\ m[a].attribute = a /\ m[a].confidence >= Threshold
          /\ \A p \in ToSet(ps) : p.attribute \in DOMAIN m => p.confidence <= m[p.attribute].confidence
      BY <2>1, MergedAttributes
    <2> HIDE DEF m
    <2> QED BY <1>1, <2>2
  <1>5. LET names == {t.tag : t \in ToSet(r)}
        IN  /\ Cardinality(names) = Len(r) /\ Len(r) <= MaxTags
            /\ \A t \in ToSet(r) :
                   /\ t.confidence >= Threshold
                   /\ \E q \in offered : q.tag = t.tag /\ q.confidence = t.confidence
                   /\ \A q \in offered : q.tag = t.tag => q.confidence <= t.confidence
            /\ \A q \in offered : q.tag \notin names => \A t \in ToSet(r) : q.confidence <= t.confidence
    <2>1. IsList(ts) /\ \A t \in ToSet(ts) : t.confidence \in Int
      BY <1>2 DEF Confident
    <2> QED BY <1>2, <2>1, TagsKept
  <1>6. found.quality \in 0..600000 * AttributeCount
    <2>1. IsList(ps) /\ \A p \in ToSet(ps) : p.confidence \in Int
      BY <1>1 DEF Confident
    <2> QED BY <1>3, <2>1, QualityBounded
  <1>7. KeepsBest(predictions, offered, found)
    <2> HIDE DEF m, r
    <2> QED BY <1>3, <1>4, <1>5, <1>6 DEF KeepsBest
  <1> QED BY <1>7 DEF predictions, offered, found

\* Of the answers of the model, every enrichment does.
THEOREM EnrichmentKeepsBest == Spec => []EnrichKeepsBest
  <1>1. Init => EnrichKeepsBest
    BY DEF Init, EnrichKeepsBest, Answer
  <1>2. EnrichKeepsBest /\ [Next]_vars => EnrichKeepsBest'
    <2> SUFFICES ASSUME EnrichKeepsBest, [Next]_vars PROVE EnrichKeepsBest'
      OBVIOUS
    <2>1. CASE UNCHANGED vars
      BY <2>1 DEF vars, EnrichKeepsBest, Answer
    <2>2. CASE Next
      <3> SUFFICES ASSUME Answer("enrich")' PROVE EnrichKeepsBest'
        BY DEF EnrichKeepsBest
      <3>1. DoEnrich
        BY <2>2, StepOfTask DEF Answer
      <3>2. PICK n \in 0..3 :
                \E text \in [1..n -> {"blue", "grey", "gray", "cotton", "casual", "warm"}],
                   color \in {"gray", "blue"}, given \in {<<>>, [material |-> "wool"]},
                   passes \in SUBSET {"text", "image"} :
                    Answered([passes |-> passes, text |-> text, color |-> color, given |-> given],
                             Enrich(passes, given, text, color, <<"portrait">>))
        BY <3>1 DEF DoEnrich
      <3>3. PICK text, color, given, passes :
                Answered([passes |-> passes, text |-> text, color |-> color, given |-> given],
                         Enrich(passes, given, text, color, <<"portrait">>))
        BY <3>2
      <3>4. /\ case'.passes = passes /\ case'.text = text /\ case'.color = color /\ case'.given = given
            /\ out' = Enrich(passes, given, text, color, <<"portrait">>)
        BY <3>3 DEF Answered
      <3>5. IsList(<<"portrait">>)
        <4>1. DOMAIN <<"portrait">> = 1..1 /\ <<"portrait">> = [i \in 1..1 |-> <<"portrait">>[i]]
          OBVIOUS
        <4> QED BY <4>1, MakesList
      <3> DEFINE Pass(p, found) == IF p \in passes THEN ToSet(found) ELSE {}
      <3>6. KeepsBest(Pass("text", TextPredictions(given, text)) \cup Pass("image", ImagePredictions(color)),
                      Pass("text", TextTags(given, text)) \cup Pass("image", ImageTags(color, <<"portrait">>)),
                      Enrich(passes, given, text, color, <<"portrait">>))
        BY <3>5, EnrichKeeps
      <3> QED BY <3>4, <3>6 DEF EnrichKeepsBest
    <2> QED BY <2>1, <2>2
  <1> QED BY <1>1, <1>2, PTL DEF Spec

-----------------------------------------------------------------------------
(* Hybrid search.                                                          *)

\* A collection: a function from finitely many products to their similarity.
IsCollection(near) == IsFiniteSet(DOMAIN near) /\ \A p \in DOMAIN near : near[p] \in Nat

\* list has products of the collection, none twice and none before one that
\* is more similar.
Rightly(list, near) ==
    /\ IsList(list)
    /\ \A j \in DOMAIN list : list[j].id \in DOMAIN near /\ list[j].score = near[list[j].id]
    /\ \A i, j \in DOMAIN list : i < j => list[i].id # list[j].id
    /\ \A j \in DOMAIN list, p \in DOMAIN near :
           near[p] > list[j].score => \E i \in 1..j - 1 : list[i].id = p

\* The points of a finite set in some order.
LEMMA SetAsList ==
    ASSUME NEW S, IsFiniteSet(S)
    PROVE  LET s == SetToSeq(S)
           IN  /\ IsList(s) /\ ToSet(s) = S
               /\ \A i, j \in DOMAIN s : i # j => s[i] # s[j]
  <1> DEFINE n == Cardinality(S)
             s == SetToSeq(S)
  <1>1. n \in Nat
    BY FS_CardinalityType
  <1>2. \E f \in [1..n -> S] : IsInjective(f)
    <2>1. PICK f : f \in Bijection(1..n, S)
      BY FS_CountingElements, FS_NatBijection DEF ExistsBijection
    <2> QED BY <2>1 DEF Bijection, Injection, IsInjective
  <1>3. s \in [1..n -> S] /\ IsInjective(s)
    BY <1>2 DEF SetToSeq
  <1> HIDE DEF s
  <1>4. IsList(s) /\ DOMAIN s = 1..n /\ Len(s) = n
    <2>1. DOMAIN s = 1..n /\ s = [i \in 1..n |-> s[i]]
      BY <1>3
    <2> HIDE DEF n
    <2> QED BY <1>1, <2>1, MakesList
  <1>5. \A i, j \in DOMAIN s : i # j => s[i] # s[j]
    BY <1>3 DEF IsInjective
  <1>6. ToSet(s) = S
    <2>1. ToSet(s) \subseteq S
      BY <1>3 DEF ToSet
    <2>2. s \in Bijection(1..n, ToSet(s))
      BY <1>3, <1>4 DEF ToSet, Bijection, Injection, Surjection, IsInjective
    <2>3. IsFiniteSet(1..n) /\ Cardinality(1..n) = n
      BY <1>4, ListParts
    <2>4. Cardinality(ToSet(s)) = n
      <3> HIDE DEF n
      <3> QED BY <2>2, <2>3, FS_Bijection DEF ExistsBijection
    <2> QED BY <2>1, <2>4, FS_Subset
  <1> QED BY <1>4, <1>5, <1>6 DEF s

\* What Qdrant answers, by its specification.
LEMMA NearestRightly ==
    ASSUME NEW near, IsCollection(near), NEW k \in Nat
    PROVE  Rightly(Nearest(near, k), near) /\ Len(Nearest(near, k)) <= k
  <1> DEFINE Point(p) == [id |-> p, score |-> near[p]]
             S == {Point(p) : p \in DOMAIN near}
             s == SetToSeq(S)
             key == [i \in DOMAIN s |-> s[i].score]
             sorted == Rearranged(s, Ordered(DOMAIN s, key))
             r == Nearest(near, k)
  <1>1. IsList(s) /\ ToSet(s) = S /\ \A i, j \in DOMAIN s : i # j => s[i] # s[j]
    <2> DEFINE f == [p \in DOMAIN near |-> Point(p)]
    <2>1. f \in Surjection(DOMAIN near, S)
      BY DEF Surjection
    <2>2. IsFiniteSet(S)
      <3> HIDE DEF f, S
      <3> QED BY <2>1, FS_Surjection DEF IsCollection
    <2> HIDE DEF S
    <2> QED BY <2>2, SetAsList
  <1>2. r = Take(sorted, k)
    BY DEF Nearest, SortedDown
  <1> HIDE DEF s, r
  <1>3. \A i \in DOMAIN s : s[i].id \in DOMAIN near /\ s[i] = Point(s[i].id)
    BY <1>1 DEF ToSet
  <1>4. \A p \in DOMAIN near : \E i \in DOMAIN s : s[i] = Point(p)
    BY <1>1 DEF ToSet
  <1>5. \A i \in DOMAIN s : key[i] = near[s[i].id] /\ key[i] \in Int
    BY <1>3 DEF IsCollection
  <1>6. \A i, j \in DOMAIN s : i # j => s[i].id # s[j].id
    BY <1>1, <1>3
  <1> HIDE DEF key, S
  <1> DEFINE N == Len(s)
  <1>7. N \in Nat /\ DOMAIN s = 1..N
    BY <1>1, ListParts
  <1>8. /\ IsList(sorted) /\ Len(sorted) = N
        /\ \E at \in [1..N -> DOMAIN s] :
               /\ \A n \in 1..N : sorted[n] = s[at[n]]
               /\ \A i \in DOMAIN s : \E n \in 1..N : at[n] = i
               /\ \A m, n \in 1..N : m < n => at[m] # at[n] /\ NoLater(key, at[m], at[n])
    BY <1>1, <1>5, SortedElements
  <1> HIDE DEF sorted
  <1>9. PICK at \in [1..N -> DOMAIN s] :
            /\ \A n \in 1..N : sorted[n] = s[at[n]]
            /\ \A i \in DOMAIN s : \E n \in 1..N : at[n] = i
            /\ \A m, n \in 1..N : m < n => at[m] # at[n] /\ NoLater(key, at[m], at[n])
    BY <1>8
  <1> HIDE DEF N, Point
  <1>10. IsList(r) /\ Len(r) = Smaller(k, N) /\ \A i \in 1..Len(r) : r[i] = sorted[i]
    <2>1. IsList(sorted) /\ Len(sorted) = N
      BY <1>8
    <2> QED BY <1>2, <2>1, TakenElements
  <1>11. Len(r) \in Nat /\ Len(r) <= k /\ Len(r) <= N /\ DOMAIN r = 1..Len(r)
    <2>1. Len(r) \in Nat /\ DOMAIN r = 1..Len(r)
      BY <1>10, ListParts
    <2> QED BY <1>7, <1>10, <2>1 DEF Smaller
  <1>12. ASSUME NEW i \in DOMAIN r PROVE i \in 1..N /\ at[i] \in DOMAIN s /\ r[i] = s[at[i]]
    <2>1. i \in 1..Len(r) /\ i \in 1..N
      BY <1>7, <1>11
    <2> QED BY <1>9, <1>10, <2>1
  <1>13. ASSUME NEW i \in DOMAIN s PROVE s[i].score = near[s[i].id]
    BY <1>3 DEF Point
  <1>14. \A j \in DOMAIN r : r[j].id \in DOMAIN near /\ r[j].score = near[r[j].id]
    BY <1>3, <1>12, <1>13
  <1>15. ASSUME NEW i \in DOMAIN r, NEW j \in DOMAIN r, i < j PROVE r[i].id # r[j].id
    <2>1. at[i] # at[j]
      BY <1>9, <1>12, <1>15
    <2> QED BY <1>6, <1>12, <2>1
  <1>16. ASSUME NEW j \in DOMAIN r, NEW p \in DOMAIN near, near[p] > r[j].score
         PROVE  \E i \in 1..j - 1 : r[i].id = p
    <2>1. PICK i \in DOMAIN s : s[i] = Point(p)
      BY <1>4
    <2>2. s[i].id = p
      BY <2>1 DEF Point
    <2>3. PICK n \in 1..N : at[n] = i
      BY <1>9
    <2>4. key[i] = near[p] /\ key[at[j]] = r[j].score /\ key[i] \in Int /\ key[at[j]] \in Int
      BY <1>5, <1>12, <1>13, <2>2
    <2>5. ~NoLater(key, at[j], i) /\ at[j] # i
      BY <1>16, <2>4 DEF NoLater
    <2>6. n < j
      BY <1>7, <1>9, <1>12, <2>3, <2>5
    <2>7. n \in 1..j - 1 /\ n \in DOMAIN r
      <3>1. j \in 1..Len(r) /\ n \in 1..N
        BY <1>11, <2>3
      <3>2. n \in 1..j - 1
        BY <1>7, <2>6, <3>1
      <3>3. n \in 1..Len(r)
        BY <1>7, <1>11, <2>6, <3>1
      <3> QED BY <1>11, <3>2, <3>3
    <2>8. r[n].id = p
      BY <1>12, <2>2, <2>3, <2>7
    <2> QED BY <2>7, <2>8
  <1>17. Rightly(r, near)
    BY <1>10, <1>14, <1>15, <1>16 DEF Rightly
  <1> QED BY <1>11, <1>17 DEF r

\* The score of a product in one list: its similarity, or 0 if it is not in it.
ScoreIn(list, p) == IF p \in ToSet(Ids(list)) THEN ById(list, p).score ELSE 0

\* In a list of a collection it is the similarity the collection has.
LEMMA ScoreFound ==
    ASSUME NEW near, IsCollection(near), NEW list, Rightly(list, near), NEW p
    PROVE  /\ IsList(Ids(list)) /\ Len(Ids(list)) = Len(list)
           /\ \A i \in DOMAIN list : Ids(list)[i] = list[i].id
           /\ p \in ToSet(Ids(list)) <=> \E i \in DOMAIN list : list[i].id = p
           /\ p \in ToSet(Ids(list)) => p \in DOMAIN near /\ ScoreIn(list, p) = near[p]
           /\ ScoreIn(list, p) \in Nat
  <1>1. Len(list) \in Nat /\ DOMAIN list = 1..Len(list)
    BY ListParts DEF Rightly
  <1>2. DOMAIN Ids(list) = 1..Len(list) /\ \A i \in 1..Len(list) : Ids(list)[i] = list[i].id
    BY <1>1 DEF Ids, Mapped
  <1>3. IsList(Ids(list)) /\ Len(Ids(list)) = Len(list)
    <2>1. Ids(list) = [i \in 1..Len(list) |-> Ids(list)[i]]
      BY <1>1 DEF Ids, Mapped
    <2> QED BY <1>1, <1>2, <2>1, MakesList
  <1>4. p \in ToSet(Ids(list)) <=> \E i \in DOMAIN list : list[i].id = p
    BY <1>1, <1>2 DEF ToSet
  <1>5. ASSUME p \in ToSet(Ids(list)) PROVE p \in DOMAIN near /\ ScoreIn(list, p) = near[p]
    <2> DEFINE i == CHOOSE i \in DOMAIN list : list[i].id = p
    <2>1. i \in DOMAIN list /\ list[i].id = p
      BY <1>4, <1>5
    <2>2. ById(list, p) = list[i]
      BY DEF ById
    <2> HIDE DEF i
    <2> QED BY <1>5, <2>1, <2>2 DEF ScoreIn, Rightly
  <1>6. ScoreIn(list, p) \in Nat
    <2>1. CASE p \in ToSet(Ids(list))
      BY <1>5, <2>1 DEF IsCollection
    <2>2. CASE p \notin ToSet(Ids(list))
      BY <2>2 DEF ScoreIn
    <2> QED BY <2>1, <2>2
  <1> QED BY <1>1, <1>2, <1>3, <1>4, <1>5, <1>6

\* What beats a listed product is listed and scores no less there.
LEMMA ScoresFollow ==
    ASSUME NEW near, IsCollection(near), NEW list, Rightly(list, near), NEW p, NEW r,
           Sim(near, p) > Sim(near, r)
    PROVE  /\ ScoreIn(list, p) >= ScoreIn(list, r)
           /\ \A j \in DOMAIN list : list[j].id = r => \E i \in 1..j - 1 : list[i].id = p
  <1>1. Sim(near, r) \in Nat /\ p \in DOMAIN near /\ Sim(near, p) = near[p]
    BY DEF Sim, IsCollection
  <1>2. ASSUME NEW j \in DOMAIN list, list[j].id = r PROVE \E i \in 1..j - 1 : list[i].id = p
    <2>1. r \in DOMAIN near /\ list[j].score = near[r]
      BY <1>2 DEF Rightly
    <2>2. near[p] > list[j].score
      BY <1>1, <2>1 DEF Sim
    <2> QED BY <1>1, <2>2 DEF Rightly
  <1>3. ScoreIn(list, p) >= ScoreIn(list, r)
    <2>0. ScoreIn(list, p) \in Nat /\ ScoreIn(list, r) \in Nat
      BY ScoreFound
    <2>1. CASE r \notin ToSet(Ids(list))
      BY <2>0, <2>1 DEF ScoreIn
    <2>2. CASE r \in ToSet(Ids(list))
      <3>1. r \in DOMAIN near /\ ScoreIn(list, r) = near[r]
        BY <2>2, ScoreFound
      <3>2. PICK j \in DOMAIN list : list[j].id = r
        BY <2>2, ScoreFound
      <3>3. PICK i \in 1..j - 1 : list[i].id = p
        BY <1>2, <3>2
      <3>4. i \in DOMAIN list
        BY <3>2, <3>3, ListParts DEF Rightly
      <3>5. ScoreIn(list, p) = near[p]
        BY <3>3, <3>4, ScoreFound
      <3>6. near[p] > near[r] /\ near[p] \in Nat /\ near[r] \in Nat
        BY <1>1, <3>1 DEF Sim, IsCollection
      <3> QED BY <3>1, <3>5, <3>6
    <2> QED BY <2>1, <2>2
  <1> QED BY <1>2, <1>3

\* Weights keep an order.
LEMMA MoreTimes ==
    ASSUME NEW w \in Nat, NEW a \in Nat, NEW b \in Nat, a >= b
    PROVE  w * a >= w * b
  <1> DEFINE d == a - b
  <1>1. d \in Nat /\ a = b + d
    OBVIOUS
  <1> HIDE DEF d
  <1>2. w * a = w * b + w * d
    BY <1>1
  <1>3. w * d \in Nat /\ w * b \in Nat
    BY <1>1
  <1> QED BY <1>2, <1>3

\* Fusing two lists keeps what both agree on.
LEMMA FusedRightly ==
    ASSUME NEW q, IsCollection(q.image), IsCollection(q.text),
           NEW image, Rightly(image, q.image), NEW text, Rightly(text, q.text)
    PROVE  LET f == Fuse(image, text)
           IN  /\ IsList(f)
               /\ \A j \in DOMAIN f : f[j].score \in Int
               /\ \A i, j \in DOMAIN f : i < j => f[i].id # f[j].id
               /\ \A j \in DOMAIN f, p \in DOMAIN q.image : Beats(q, p, f[j].id) =>
                      \E i \in 1..j - 1 : f[i].id = p /\ f[i].score >= f[j].score
  <1> DEFINE first == Ids(image)
             ids == Ids(text)
             I == {i \in DOMAIN ids : ids[i] \notin ToSet(first)}
             more == Picked(ids, I)
             all == first \o more
             Points(p) == HybridWeights.image * ScoreIn(image, p) + HybridWeights.text * ScoreIn(text, p)
             f == Fuse(image, text)
             n == Len(first)
  <1>1. f = [i \in DOMAIN all |-> [id |-> all[i], image |-> ScoreIn(image, all[i]),
                                   text |-> ScoreIn(text, all[i]), score |-> Points(all[i])]]
    BY DEF Fuse, Mapped, Where, ScoreIn
  <1>2. /\ IsList(first) /\ n = Len(image) /\ \A i \in DOMAIN image : first[i] = image[i].id
        /\ IsList(ids) /\ Len(ids) = Len(text) /\ \A i \in DOMAIN text : ids[i] = text[i].id
    BY ScoreFound
  <1>3. /\ n \in Nat /\ DOMAIN first = 1..n /\ DOMAIN image = 1..n
        /\ Len(ids) \in Nat /\ DOMAIN ids = 1..Len(ids) /\ DOMAIN text = DOMAIN ids
    BY <1>2, ListParts DEF Rightly
  <1> HIDE DEF first, ids
  <1>4. IsList(more) /\ \E at \in [1..Len(more) -> I] :
                            /\ \A m \in 1..Len(more) : more[m] = ids[at[m]]
                            /\ \A i \in I : \E m \in 1..Len(more) : at[m] = i
                            /\ \A l, m \in 1..Len(more) : l < m => at[l] < at[m]
    <2>1. I \in SUBSET DOMAIN ids
      OBVIOUS
    <2> HIDE DEF I
    <2> QED BY <1>2, <2>1, PickedElements
  <1> HIDE DEF more
  <1>5. PICK at \in [1..Len(more) -> I] :
            /\ \A m \in 1..Len(more) : more[m] = ids[at[m]]
            /\ \A i \in I : \E m \in 1..Len(more) : at[m] = i
            /\ \A l, m \in 1..Len(more) : l < m => at[l] < at[m]
    BY <1>4
  <1>6. Len(more) \in Nat
    BY <1>4, ListParts
  <1>7. /\ IsList(all) /\ Len(all) = n + Len(more) /\ DOMAIN all = 1..n + Len(more)
        /\ \A i \in 1..n + Len(more) : all[i] = IF i <= n THEN first[i] ELSE more[i - n]
    <2> DEFINE T == ToSet(first) \cup ToSet(more)
    <2>1. first \in Seq(T) /\ more \in Seq(T)
      BY <1>2, <1>4, ListParts DEF IsList
    <2>2. /\ all \in Seq(T) /\ Len(all) = n + Len(more)
          /\ \A i \in 1..n + Len(more) : all[i] = IF i <= n THEN first[i] ELSE more[i - n]
      <3> HIDE DEF T
      <3> QED BY <2>1, ConcatProperties
    <2>3. IsList(all)
      BY <1>2, <1>4, JoinedLists
    <2> HIDE DEF T, all
    <2>4. DOMAIN all = 1..Len(all)
      BY <2>3, ListParts
    <2> QED BY <2>2, <2>3, <2>4
  <1> HIDE DEF all, n, Points
  <1>8. DOMAIN f = DOMAIN all /\ \A i \in DOMAIN all : f[i].id = all[i] /\ f[i].score = Points(all[i])
    BY <1>1
  <1>9. IsList(f)
    <2>1. DOMAIN f = 1..Len(all) /\ Len(all) \in Nat /\ f = [i \in 1..Len(all) |-> f[i]]
      BY <1>1, <1>3, <1>6, <1>7
    <2> HIDE DEF f
    <2> QED BY <2>1, MakesList
  <1> HIDE DEF f
  <1>10. \A p : ScoreIn(image, p) \in Nat /\ ScoreIn(text, p) \in Nat
    BY ScoreFound
  <1>11. HybridWeights.image \in Nat /\ HybridWeights.text \in Nat
    BY SearchAssumption DEF HybridSettings
  <1>12. ASSUME NEW j \in DOMAIN f PROVE f[j].score \in Int
    BY <1>8, <1>10, <1>11 DEF Points
  \* Where a position of the fused list comes from.
  <1>13. ASSUME NEW i \in DOMAIN all
         PROVE  \/ i \in 1..n /\ i \in DOMAIN image /\ all[i] = image[i].id
                \/ /\ i - n \in 1..Len(more) /\ i \notin 1..n /\ at[i - n] \in I
                   /\ all[i] = text[at[i - n]].id
    <2>1. CASE i <= n
      BY <1>2, <1>3, <1>7, <2>1
    <2>2. CASE ~(i <= n)
      <3>1. i - n \in 1..Len(more) /\ i \notin 1..n /\ all[i] = more[i - n]
        BY <1>3, <1>6, <1>7, <2>2
      <3>2. at[i - n] \in I /\ more[i - n] = ids[at[i - n]]
        BY <1>5, <3>1
      <3> QED BY <1>2, <1>3, <3>1, <3>2
    <2> QED BY <2>1, <2>2
  <1>14. \A i \in 1..n : i \in DOMAIN all /\ all[i] = image[i].id
    BY <1>2, <1>3, <1>6, <1>7
  <1>15. \A m \in 1..Len(more) : m + n \in DOMAIN all /\ all[m + n] = text[at[m]].id
    <2> TAKE m \in 1..Len(more)
    <2>1. m + n \in DOMAIN all /\ ~(m + n <= n) /\ (m + n) - n = m
      BY <1>3, <1>6, <1>7
    <2>2. all[m + n] = more[m] /\ more[m] = ids[at[m]] /\ at[m] \in I
      BY <1>5, <1>7, <2>1
    <2> QED BY <1>2, <1>3, <2>1, <2>2
  <1>16. \A i \in I, j \in 1..n : text[i].id # image[j].id
    BY <1>2, <1>3 DEF ToSet
  <1>17. ASSUME NEW i \in DOMAIN all, NEW j \in DOMAIN all, i < j PROVE all[i] # all[j]
    <2>1. CASE i \in 1..n /\ j \in 1..n
      BY <1>3, <1>14, <1>17, <2>1 DEF Rightly
    <2>2. CASE i \in 1..n /\ j \notin 1..n
      BY <1>13, <1>14, <1>16, <2>2
    <2>3. CASE i \notin 1..n
      <3>0. j \notin 1..n
        BY <1>3, <1>6, <1>7, <1>17, <2>3
      <3>1. /\ i - n \in 1..Len(more) /\ at[i - n] \in I /\ all[i] = text[at[i - n]].id
            /\ j - n \in 1..Len(more) /\ at[j - n] \in I /\ all[j] = text[at[j - n]].id
        BY <1>13, <2>3, <3>0
      <3>2. i - n < j - n
        BY <1>3, <1>6, <1>7, <1>17
      <3>3. at[i - n] < at[j - n]
        BY <1>5, <3>1, <3>2
      <3> QED BY <1>3, <3>1, <3>3 DEF Rightly
    <2> QED BY <2>1, <2>2, <2>3
  <1>18. ASSUME NEW j \in DOMAIN all, NEW p \in DOMAIN q.image, Beats(q, p, all[j])
         PROVE  \E i \in 1..j - 1 : i \in DOMAIN all /\ all[i] = p
    <2>1. Sim(q.image, p) > Sim(q.image, all[j]) /\ Sim(q.text, p) > Sim(q.text, all[j])
      BY <1>18 DEF Beats, Modalities
    <2>2. CASE j \in 1..n
      <3>1. j \in DOMAIN image /\ image[j].id = all[j]
        BY <1>3, <1>14, <2>2
      <3>2. PICK i \in 1..j - 1 : image[i].id = p
        BY <2>1, <3>1, ScoresFollow
      <3>3. i \in 1..n
        BY <1>3, <2>2
      <3> QED BY <1>14, <3>2, <3>3
    <2>3. CASE j \notin 1..n
      <3>1. j - n \in 1..Len(more) /\ at[j - n] \in I /\ text[at[j - n]].id = all[j]
        BY <1>13, <2>3
      <3>2. at[j - n] \in DOMAIN text
        BY <1>3, <3>1
      <3>3. PICK k \in 1..at[j - n] - 1 : text[k].id = p
        BY <2>1, <3>1, <3>2, ScoresFollow
      <3>4. k \in DOMAIN text /\ ids[k] = p /\ k < at[j - n]
        BY <1>2, <1>3, <3>2, <3>3
      <3>5. n < j
        BY <1>3, <1>6, <1>7, <2>3
      <3>6. CASE p \in ToSet(first)
        <4>1. PICK i \in 1..n : first[i] = p
          BY <1>3, <3>6 DEF ToSet
        <4>2. i \in 1..j - 1
          BY <1>3, <1>6, <1>7, <3>5
        <4> QED BY <1>2, <1>3, <1>14, <4>1, <4>2
      <3>7. CASE p \notin ToSet(first)
        <4>1. k \in I
          BY <1>3, <3>4, <3>7
        <4>2. PICK m \in 1..Len(more) : at[m] = k
          BY <1>5, <4>1
        <4>3. ~(j - n < m) /\ j - n # m
          <5>1. at[m] \in Int /\ at[j - n] \in Int /\ at[m] < at[j - n]
            BY <1>3, <3>1, <3>4, <4>1, <4>2
          <5>2. ~(at[j - n] < at[m])
            BY <5>1
          <5> QED BY <1>5, <3>1, <4>2, <5>1, <5>2
        <4>4. m + n \in 1..j - 1
          BY <1>3, <1>6, <1>7, <4>2, <4>3
        <4> QED BY <1>15, <3>3, <4>2, <4>4
      <3> QED BY <3>6, <3>7
    <2> QED BY <2>2, <2>3
  <1>19. ASSUME NEW j \in DOMAIN f, NEW p \in DOMAIN q.image, Beats(q, p, f[j].id)
         PROVE  \E i \in 1..j - 1 : f[i].id = p /\ f[i].score >= f[j].score
    <2> DEFINE r == all[j]
    <2>1. f[j].id = r /\ f[j].score = Points(r) /\ j \in DOMAIN all
      BY <1>8
    <2>2. PICK i \in 1..j - 1 : i \in DOMAIN all /\ all[i] = p
      BY <1>18, <1>19, <2>1
    <2>3. f[i].id = p /\ f[i].score = Points(p)
      BY <1>8, <2>2
    <2>4. Sim(q.image, p) > Sim(q.image, r) /\ Sim(q.text, p) > Sim(q.text, r)
      BY <1>19, <2>1 DEF Beats, Modalities
    <2>5. ScoreIn(image, p) >= ScoreIn(image, r) /\ ScoreIn(text, p) >= ScoreIn(text, r)
      BY <2>4, ScoresFollow
    <2> HIDE DEF r
    <2>6. HybridWeights.image * ScoreIn(image, p) >= HybridWeights.image * ScoreIn(image, r)
      BY <1>10, <1>11, <2>5, MoreTimes
    <2>7. HybridWeights.text * ScoreIn(text, p) >= HybridWeights.text * ScoreIn(text, r)
      BY <1>10, <1>11, <2>5, MoreTimes
    <2>8. Points(p) >= Points(r)
      <3>1. /\ HybridWeights.image * ScoreIn(image, p) \in Int /\ HybridWeights.image * ScoreIn(image, r) \in Int
            /\ HybridWeights.text * ScoreIn(text, p) \in Int /\ HybridWeights.text * ScoreIn(text, r) \in Int
        BY <1>10, <1>11
      <3> QED BY <2>6, <2>7, <3>1 DEF Points
    <2> QED BY <2>1, <2>2, <2>3, <2>8
  <1>20. ASSUME NEW i \in DOMAIN f, NEW j \in DOMAIN f, i < j PROVE f[i].id # f[j].id
    BY <1>8, <1>17, <1>20
  <1> QED BY <1>9, <1>12, <1>19, <1>20 DEF f

\* A hybrid search of any two collections is honest, whatever the weights and
\* however few of each modality it asks for.
THEOREM SearchIsHonest ==
    ASSUME NEW q, q.has = Modalities, IsCollection(q.image), IsCollection(q.text),
           NEW relevance, NEW k \in Nat
    PROVE  Honest(q, k, Search(q, relevance, k, FALSE))
  <1> DEFINE image == Nearest(q.image, k)
             text == Nearest(q.text, k)
             f == Fuse(image, text)
             key == [i \in DOMAIN f |-> f[i].score]
             sorted == Rearranged(f, Ordered(DOMAIN f, key))
             r == Search(q, relevance, k, FALSE)
             N == Len(f)
  <1>1. Rightly(image, q.image) /\ Rightly(text, q.text)
    BY NearestRightly
  <1>2. r = Take(sorted, k)
    <2>1. q.has # {"image"} /\ q.has # {"text"}
      BY DEF Modalities
    <2>2. r = Finalize(SortedDown(Fuse(SearchByImage(q, k), SearchByText(q, k)),
                                  LAMBDA x : x.score), relevance, k, FALSE)
      BY <2>1 DEF Search
    <2> QED BY <2>2 DEF Finalize, SearchByImage, SearchByText, SortedDown
  <1> HIDE DEF image, text, r
  <1>3. /\ IsList(f)
        /\ \A j \in DOMAIN f : f[j].score \in Int
        /\ \A i, j \in DOMAIN f : i < j => f[i].id # f[j].id
        /\ \A j \in DOMAIN f, p \in DOMAIN q.image : Beats(q, p, f[j].id) =>
               \E i \in 1..j - 1 : f[i].id = p /\ f[i].score >= f[j].score
    BY <1>1, FusedRightly
  <1> HIDE DEF f
  <1>4. \A i \in DOMAIN f : key[i] = f[i].score /\ key[i] \in Int
    BY <1>3
  <1> HIDE DEF key
  <1>5. N \in Nat /\ DOMAIN f = 1..N
    BY <1>3, ListParts
  <1>6. /\ IsList(sorted) /\ Len(sorted) = N
        /\ \E at \in [1..N -> DOMAIN f] :
               /\ \A n \in 1..N : sorted[n] = f[at[n]]
               /\ \A i \in DOMAIN f : \E n \in 1..N : at[n] = i
               /\ \A m, n \in 1..N : m < n => at[m] # at[n] /\ NoLater(key, at[m], at[n])
    BY <1>3, <1>4, SortedElements
  <1> HIDE DEF sorted
  <1>7. PICK at \in [1..N -> DOMAIN f] :
            /\ \A n \in 1..N : sorted[n] = f[at[n]]
            /\ \A i \in DOMAIN f : \E n \in 1..N : at[n] = i
            /\ \A m, n \in 1..N : m < n => at[m] # at[n] /\ NoLater(key, at[m], at[n])
    BY <1>6
  <1> HIDE DEF N
  <1>8. IsList(r) /\ Len(r) = Smaller(k, N) /\ \A i \in 1..Len(r) : r[i] = sorted[i]
    <2>1. IsList(sorted) /\ Len(sorted) = N
      BY <1>6
    <2> QED BY <1>2, <2>1, TakenElements
  <1>9. Len(r) \in Nat /\ Len(r) <= k /\ Len(r) <= N /\ DOMAIN r = 1..Len(r)
    <2>1. Len(r) \in Nat /\ DOMAIN r = 1..Len(r)
      BY <1>8, ListParts
    <2> QED BY <1>5, <1>8, <2>1 DEF Smaller
  <1>10. ASSUME NEW i \in DOMAIN r PROVE i \in 1..N /\ at[i] \in DOMAIN f /\ r[i] = f[at[i]]
    <2>1. i \in 1..Len(r) /\ i \in 1..N
      BY <1>5, <1>9
    <2> QED BY <1>7, <1>8, <2>1
  <1>11. ASSUME NEW i \in DOMAIN f, NEW j \in DOMAIN f, i # j PROVE f[i].id # f[j].id
    <2>1. i < j \/ j < i
      BY <1>5, <1>11
    <2> QED BY <1>3, <2>1
  <1>12. ASSUME NEW i \in DOMAIN r, NEW j \in DOMAIN r, i < j PROVE r[i].id # r[j].id
    <2>1. at[i] # at[j]
      BY <1>7, <1>10, <1>12
    <2> QED BY <1>10, <1>11, <2>1
  <1>13. ASSUME NEW j \in DOMAIN r, NEW p \in DOMAIN q.image, Beats(q, p, r[j].id)
         PROVE  \E i \in 1..j - 1 : r[i].id = p
    <2>1. PICK i \in 1..at[j] - 1 : f[i].id = p /\ f[i].score >= f[at[j]].score
      BY <1>3, <1>10, <1>13
    <2>2. i \in DOMAIN f /\ i < at[j] /\ at[j] \in Int
      BY <1>5, <1>10, <2>1
    <2>3. PICK n \in 1..N : at[n] = i
      BY <1>7, <2>2
    <2>4. key[i] = f[i].score /\ key[at[j]] = f[at[j]].score /\ key[i] \in Int /\ key[at[j]] \in Int
      BY <1>4, <1>10, <2>2
    <2>5. ~NoLater(key, at[j], i) /\ at[j] # i
      BY <2>1, <2>2, <2>4 DEF NoLater
    <2>6. j \in 1..Len(r) /\ j \in 1..N
      BY <1>9, <1>10
    <2>7. n < j
      BY <1>5, <1>7, <2>3, <2>5, <2>6
    <2>8. n \in 1..j - 1
      BY <1>5, <2>6, <2>7
    <2>9. n \in 1..Len(r)
      BY <1>5, <1>9, <2>6, <2>7
    <2>10. r[n].id = p
      BY <1>9, <1>10, <2>1, <2>3, <2>9
    <2> QED BY <2>8, <2>10
  <1>14. Honest(q, k, r)
    BY <1>9, <1>12, <1>13 DEF Honest
  <1> QED BY <1>14 DEF r

-----------------------------------------------------------------------------
(* Diversity.                                                              *)

\* A round goes to each candidate of a brand in its order, the first round to
\* the first.
LEMMA RoundsOfBrand ==
    ASSUME NEW s, IsList(s), NEW b
    PROVE  LET B == OfBrand(s, b)
           IN  /\ IsFiniteSet(B) /\ Cardinality(B) \in Nat
               /\ \A i \in B : Round(s, i) \in 1..Cardinality(B)
               /\ \A i, j \in B : i < j => Round(s, i) < Round(s, j)
               /\ \A n \in 1..Cardinality(B) : \E i \in B : Round(s, i) = n
  <1> DEFINE B == OfBrand(s, b)
             key == [i \in B |-> 0]
  <1>1. Len(s) \in Nat /\ DOMAIN s = 1..Len(s) /\ IsFiniteSet(DOMAIN s)
    BY ListParts
  <1>2. B \subseteq DOMAIN s /\ IsFiniteSet(B) /\ B \subseteq Int /\ Cardinality(B) \in Nat
    <2>1. B \subseteq DOMAIN s
      BY DEF OfBrand
    <2> HIDE DEF B
    <2> QED BY <1>1, <2>1, FS_Subset, FS_CardinalityType
  <1>3. ASSUME NEW i \in B PROVE Round(s, i) = Place(B, key, i)
    <2>1. {j \in 1..i : s[j].brand = s[i].brand} = {k \in B : NoLater(key, k, i)}
      <3>1. s[i].brand = b /\ i \in 1..Len(s)
        BY <1>1 DEF OfBrand
      <3>2. ASSUME NEW j \in 1..i, s[j].brand = s[i].brand PROVE j \in B /\ NoLater(key, j, i)
        <4>1. j \in B /\ j <= i
          BY <1>1, <3>1, <3>2 DEF OfBrand
        <4> QED BY <4>1 DEF NoLater
      <3>3. ASSUME NEW k \in B, NoLater(key, k, i) PROVE k \in 1..i /\ s[k].brand = s[i].brand
        <4>1. s[k].brand = b /\ k \in 1..Len(s)
          BY <1>1 DEF OfBrand
        <4>2. k <= i
          BY <3>3 DEF NoLater
        <4> QED BY <1>1, <3>1, <4>1, <4>2
      <3> HIDE DEF B, key
      <3> QED BY <3>2, <3>3
    <2> QED BY <2>1 DEF Round, Place
  <1>4. \A i \in B : key[i] \in Int /\ key[i] = 0
    OBVIOUS
  <1> HIDE DEF B, key
  <1>5. /\ \A i \in B : Place(B, key, i) \in 1..Cardinality(B)
        /\ \A i, j \in B : (i # j /\ NoLater(key, i, j)) => Place(B, key, i) < Place(B, key, j)
        /\ \A n \in 1..Cardinality(B) : \E i \in B : Place(B, key, i) = n
    BY <1>2, <1>4, PlacesAreRanks
  <1>6. ASSUME NEW i \in B, NEW j \in B, i < j PROVE Round(s, i) < Round(s, j)
    <2>1. i # j /\ NoLater(key, i, j)
      BY <1>2, <1>4, <1>6 DEF NoLater
    <2> QED BY <1>3, <1>5, <2>1
  <1> QED BY <1>2, <1>3, <1>5, <1>6 DEF B

\* A bucket is begun at or before each of its candidates.
LEMMA FirstSeenBefore ==
    ASSUME NEW s, IsList(s), NEW i \in DOMAIN s
    PROVE  FirstSeen(s, i) \in 1..i
  <1> DEFINE same == {j \in 1..i : s[j].brand = s[i].brand}
  <1>1. i \in Nat /\ i \in same
    BY ListParts
  <1>2. PICK j \in same : \A h \in same : j <= h
    <2>1. same \in SUBSET Nat /\ same # {}
      BY <1>1
    <2> HIDE DEF same
    <2> QED BY <2>1, Least
  <1>3. \A h \in 1..j - 1 : s[h].brand # s[i].brand
    <2> SUFFICES ASSUME NEW h \in 1..j - 1, s[h].brand = s[i].brand PROVE FALSE
      OBVIOUS
    <2>1. h \in same /\ ~(j <= h)
      BY <1>1, <1>2
    <2> QED BY <1>2, <2>1
  <1> QED BY <1>2, <1>3 DEF FirstSeen

\* The turn of a candidate: first the round, then the bucket.
TurnOf(s, i) == (Len(s) + 1) * Round(s, i) + FirstSeen(s, i)

\* What has more rounds comes later, wherever it stands in its round.
LEMMA RoundsFirst ==
    ASSUME NEW w \in Nat, NEW a \in Nat, NEW b \in Nat, a > b,
           NEW f \in Nat, NEW g \in Nat, g < w
    PROVE  w * a + f > w * b + g
  <1>1. b + 1 \in Nat /\ a >= b + 1
    OBVIOUS
  <1>2. w * a >= w * (b + 1)
    BY <1>1, MoreTimes
  <1>3. w * (b + 1) = w * b + w
    OBVIOUS
  <1>4. w * a \in Nat /\ w * b \in Nat
    OBVIOUS
  <1> QED BY <1>2, <1>3, <1>4

\* Turns go by rounds, and the first candidate has the first turn.
LEMMA TurnsFollow ==
    ASSUME NEW s, IsList(s), NEW i \in DOMAIN s, NEW j \in DOMAIN s
    PROVE  /\ TurnOf(s, i) \in Nat
           /\ Round(s, i) \in Nat \ {0}
           /\ TurnOf(s, i) <= TurnOf(s, j) => Round(s, i) <= Round(s, j)
           /\ TurnOf(s, 1) <= TurnOf(s, i) /\ 1 \in DOMAIN s
  <1>1. Len(s) \in Nat /\ i \in 1..Len(s) /\ j \in 1..Len(s) /\ DOMAIN s = 1..Len(s)
    BY ListParts
  <1>2. \A n \in DOMAIN s : Round(s, n) \in Nat \ {0} /\ FirstSeen(s, n) \in 1..Len(s)
    <2> TAKE n \in DOMAIN s
    <2>1. n \in OfBrand(s, s[n].brand)
      BY DEF OfBrand
    <2>2. Round(s, n) \in Nat \ {0}
      BY <2>1, RoundsOfBrand
    <2>3. FirstSeen(s, n) \in 1..n
      BY FirstSeenBefore
    <2> QED BY <1>1, <2>2, <2>3
  <1> DEFINE M == Len(s) + 1
  <1>3. M \in Nat /\ \A n \in DOMAIN s : FirstSeen(s, n) < M /\ FirstSeen(s, n) \in Nat
    BY <1>1, <1>2
  <1>a. \A n \in DOMAIN s : TurnOf(s, n) = M * Round(s, n) + FirstSeen(s, n)
    BY DEF TurnOf
  <1> HIDE DEF M
  <1>b. \A n \in DOMAIN s : M * Round(s, n) \in Nat
    <2> TAKE n \in DOMAIN s
    <2> DEFINE x == Round(s, n)
    <2>1. x \in Nat
      BY <1>2
    <2> HIDE DEF x
    <2>2. M * x \in Nat
      BY <1>3, <2>1
    <2> QED BY <2>2 DEF x
  <1>4. TurnOf(s, i) \in Nat /\ TurnOf(s, j) \in Nat
    BY <1>3, <1>a, <1>b
  <1>5. ASSUME ~(Round(s, i) <= Round(s, j)) PROVE ~(TurnOf(s, i) <= TurnOf(s, j))
    <2>1. Round(s, i) \in Nat /\ Round(s, j) \in Nat /\ FirstSeen(s, i) \in Nat /\ FirstSeen(s, j) \in Nat
      BY <1>2, <1>3
    <2>2. Round(s, i) > Round(s, j)
      BY <1>5, <2>1
    <2>3. M * Round(s, i) + FirstSeen(s, i) > M * Round(s, j) + FirstSeen(s, j)
      BY <1>3, <2>1, <2>2, RoundsFirst
    <2>4. TurnOf(s, i) > TurnOf(s, j)
      BY <1>a, <2>3
    <2> QED BY <1>4, <2>4
  <1>6. TurnOf(s, 1) <= TurnOf(s, i) /\ 1 \in DOMAIN s
    <2>1. 1 \in DOMAIN s
      BY <1>1
    <2>2. FirstSeen(s, 1) = 1
      BY <2>1, FirstSeenBefore
    <2>3. Round(s, 1) = 1
      <3>1. {k \in 1..1 : s[k].brand = s[1].brand} = {1}
        OBVIOUS
      <3> QED BY <3>1, FS_Singleton DEF Round
    <2>4. M * Round(s, i) >= M * 1
      <3>1. Round(s, i) \in Nat /\ Round(s, i) >= 1
        BY <1>2
      <3> QED BY <1>3, <3>1, MoreTimes
    <2>5. TurnOf(s, 1) = M * 1 + 1 /\ M * 1 = M
      BY <1>3, <1>a, <2>1, <2>2, <2>3
    <2>6. FirstSeen(s, i) \in Nat /\ FirstSeen(s, i) >= 1 /\ M * Round(s, i) \in Nat
      BY <1>2, <1>3, <1>b
    <2>7. TurnOf(s, i) = M * Round(s, i) + FirstSeen(s, i)
      BY <1>a
    <2> QED BY <1>3, <2>1, <2>4, <2>5, <2>6, <2>7
  <1> QED BY <1>2, <1>4, <1>5, <1>6

\* For any candidates: the first leads, each is given once, those of a brand in
\* their order, and a brand gets two more places than another one only if all
\* candidates of the other have one.
THEOREM DiversityIsFair ==
    ASSUME NEW s, IsList(s), NEW k \in Nat
    PROVE  LET r == Diversify(s, k)
           IN  /\ IsList(r) /\ Len(r) = Smaller(k, Len(s))
               /\ \E at \in [1..Len(r) -> DOMAIN s] :
                      /\ \A n \in 1..Len(r) : r[n] = s[at[n]]
                      /\ Len(r) # 0 => at[1] = 1
                      /\ \A m, n \in 1..Len(r) : m < n => at[m] # at[n]
                      /\ \A m, n \in 1..Len(r) : m < n /\ r[m].brand = r[n].brand => at[m] < at[n]
               /\ \A b, c : Cardinality(OfBrand(r, b)) > Cardinality(OfBrand(r, c)) + 1
                            => Cardinality(OfBrand(r, c)) = Cardinality(OfBrand(s, c))
  <1> DEFINE N == Len(s)
             own == [i \in DOMAIN s |-> i]
             key == [i \in DOMAIN own |-> -TurnOf(s, own[i])]
             at == Rearranged(own, Ordered(DOMAIN own, key))
             all == [n \in DOMAIN at |-> s[at[n]]]
             r == Diversify(s, k)
  <1>1. N \in Nat /\ DOMAIN s = 1..N
    BY ListParts
  <1>2. r = Take(all, k)
    BY DEF Diversify, InTurn, SortedDown, Mapped, TurnOf
  <1> HIDE DEF r
  <1>3. DOMAIN own = 1..N /\ \A i \in 1..N : own[i] = i
    BY <1>1
  <1>4. IsList(own) /\ Len(own) = N
    <2>1. DOMAIN own = 1..N /\ own = [i \in 1..N |-> own[i]]
      BY <1>1
    <2> HIDE DEF own, N
    <2> QED BY <1>1, <2>1, MakesList
  <1>5. \A i \in 1..N : key[i] = -TurnOf(s, i) /\ TurnOf(s, i) \in Nat /\ key[i] \in Int
    BY <1>1, <1>3, TurnsFollow
  <1> HIDE DEF own, key, N
  <1>6. IsList(at) /\ Len(at) = N
        /\ \E to \in [1..N -> 1..N] :
               /\ \A n \in 1..N : at[n] = own[to[n]]
               /\ \A i \in 1..N : \E n \in 1..N : to[n] = i
               /\ \A m, n \in 1..N : m < n => to[m] # to[n] /\ NoLater(key, to[m], to[n])
    <2>1. \A i \in DOMAIN own : key[i] \in Int
      BY <1>3, <1>5
    <2>2. /\ IsList(at) /\ Len(at) = Len(own)
          /\ \E to \in [1..Len(own) -> DOMAIN own] :
                 /\ \A n \in 1..Len(own) : at[n] = own[to[n]]
                 /\ \A i \in DOMAIN own : \E n \in 1..Len(own) : to[n] = i
                 /\ \A m, n \in 1..Len(own) : m < n => to[m] # to[n] /\ NoLater(key, to[m], to[n])
      BY <1>4, <2>1, SortedElements
    <2> HIDE DEF at
    <2> QED BY <1>3, <1>4, <2>2
  <1> HIDE DEF at
  <1>7. /\ \A n \in 1..N : at[n] \in 1..N
        /\ \A i \in 1..N : \E n \in 1..N : at[n] = i
        /\ \A m, n \in 1..N : m < n => at[m] # at[n] /\ NoLater(key, at[m], at[n])
    <2>1. PICK to \in [1..N -> 1..N] :
               /\ \A n \in 1..N : at[n] = own[to[n]]
               /\ \A i \in 1..N : \E n \in 1..N : to[n] = i
               /\ \A m, n \in 1..N : m < n => to[m] # to[n] /\ NoLater(key, to[m], to[n])
      BY <1>6
    <2>2. \A n \in 1..N : to[n] \in 1..N
      OBVIOUS
    <2>3. \A n \in 1..N : at[n] = to[n]
      BY <1>3, <2>1, <2>2
    <2>4. \A i \in 1..N : \E n \in 1..N : at[n] = i
      BY <2>1, <2>3
    <2>5. \A m, n \in 1..N : m < n => at[m] # at[n] /\ NoLater(key, at[m], at[n])
      BY <2>1, <2>3
    <2> QED BY <2>2, <2>3, <2>4, <2>5
  <1>8. DOMAIN at = 1..N
    BY <1>6, ListParts
  <1>9. IsList(all) /\ Len(all) = N /\ \A n \in 1..N : all[n] = s[at[n]]
    <2>1. DOMAIN all = 1..N /\ all = [i \in 1..N |-> all[i]] /\ \A n \in 1..N : all[n] = s[at[n]]
      BY <1>8
    <2> HIDE DEF all
    <2> QED BY <1>1, <2>1, MakesList
  <1> HIDE DEF all
  <1>10. IsList(r) /\ Len(r) = Smaller(k, N) /\ \A i \in 1..Len(r) : r[i] = all[i]
    BY <1>2, <1>9, TakenElements
  <1>11. Len(r) \in Nat /\ Len(r) <= N /\ DOMAIN r = 1..Len(r)
    <2>1. Len(r) \in Nat /\ DOMAIN r = 1..Len(r)
      BY <1>10, ListParts
    <2> QED BY <1>1, <1>10, <2>1 DEF Smaller
  <1>12. ASSUME NEW n \in 1..Len(r) PROVE n \in 1..N /\ at[n] \in 1..N /\ r[n] = s[at[n]]
    <2>1. n \in 1..N
      BY <1>1, <1>11
    <2> QED BY <1>7, <1>9, <1>10, <2>1
  \* Who comes earlier has no later turn.
  <1>13. ASSUME NEW m \in 1..N, NEW n \in 1..N, m < n
         PROVE  at[m] # at[n] /\ TurnOf(s, at[m]) <= TurnOf(s, at[n])
                /\ Round(s, at[m]) <= Round(s, at[n])
    <2>1. at[m] \in 1..N /\ at[n] \in 1..N /\ at[m] # at[n] /\ NoLater(key, at[m], at[n])
      BY <1>7, <1>13
    <2>2. TurnOf(s, at[m]) <= TurnOf(s, at[n])
      BY <1>5, <2>1 DEF NoLater
    <2> QED BY <1>1, <2>1, <2>2, TurnsFollow
  <1>14. ASSUME Len(r) # 0 PROVE at[1] = 1
    <2>1. 1 \in 1..N
      BY <1>1, <1>11, <1>14
    <2>2. PICK m \in 1..N : at[m] = 1
      BY <1>7, <2>1
    <2>3. CASE m = 1
      BY <2>2, <2>3
    <2>4. CASE m # 1
      <3>1. 1 < m
        BY <1>1, <2>4
      <3>2. at[1] \in 1..N /\ NoLater(key, at[1], 1) /\ at[1] # 1
        BY <1>7, <2>1, <2>2, <3>1
      <3>3. TurnOf(s, 1) <= TurnOf(s, at[1])
        BY <1>1, <3>2, TurnsFollow
      <3>4. FALSE
        BY <1>1, <1>5, <2>1, <3>2, <3>3 DEF NoLater
      <3> QED BY <3>4
    <2> QED BY <2>3, <2>4
  <1>15. ASSUME NEW m \in 1..Len(r), NEW n \in 1..Len(r), m < n, r[m].brand = r[n].brand
         PROVE  at[m] < at[n]
    <2>1. m \in 1..N /\ n \in 1..N /\ at[m] \in 1..N /\ at[n] \in 1..N
          /\ at[m] # at[n] /\ Round(s, at[m]) <= Round(s, at[n])
      BY <1>12, <1>13, <1>15
    <2> DEFINE b == r[n].brand
    <2>2. at[m] \in OfBrand(s, b) /\ at[n] \in OfBrand(s, b)
      BY <1>1, <1>12, <1>15, <2>1 DEF OfBrand
    <2> HIDE DEF b
    <2>3. at[n] < at[m] => Round(s, at[n]) < Round(s, at[m])
      BY <2>2, RoundsOfBrand
    <2>4. Round(s, at[m]) \in Nat /\ Round(s, at[n]) \in Nat
      BY <1>1, <2>1, TurnsFollow
    <2> QED BY <1>1, <2>1, <2>3, <2>4
  \* The candidates of a brand that are given, by their positions in s.
  <1> DEFINE In(b) == OfBrand(r, b)
             Taken(b) == {at[n] : n \in In(b)}
  <1>16. ASSUME NEW b
         PROVE  /\ IsFiniteSet(In(b)) /\ IsFiniteSet(Taken(b)) /\ Cardinality(Taken(b)) = Cardinality(In(b))
                /\ Taken(b) \subseteq OfBrand(s, b) /\ Cardinality(In(b)) \in Nat
    <2> DEFINE f == [n \in In(b) |-> at[n]]
    <2>1. In(b) \subseteq 1..Len(r) /\ IsFiniteSet(In(b))
      <3>1. In(b) \subseteq 1..Len(r) /\ IsFiniteSet(DOMAIN r)
        BY <1>10, <1>11, ListParts DEF OfBrand
      <3> HIDE DEF In
      <3> QED BY <1>11, <3>1, FS_Subset
    <2>2. \A m, n \in In(b) : m # n => at[m] # at[n]
      <3> SUFFICES ASSUME NEW m \in In(b), NEW n \in In(b), m # n PROVE at[m] # at[n]
        OBVIOUS
      <3>1. m \in 1..N /\ n \in 1..N
        BY <1>12, <2>1
      <3>2. m < n \/ n < m
        BY <1>1, <3>1
      <3> QED BY <1>13, <3>1, <3>2
    <2>3. f \in Bijection(In(b), Taken(b))
      BY <2>2 DEF Bijection, Injection, Surjection, IsInjective
    <2>4. Taken(b) \subseteq OfBrand(s, b)
      <3> SUFFICES ASSUME NEW n \in In(b) PROVE at[n] \in OfBrand(s, b)
        OBVIOUS
      <3>1. r[n].brand = b /\ n \in 1..Len(r)
        BY <2>1 DEF OfBrand
      <3> QED BY <1>1, <1>12, <3>1 DEF OfBrand
    <2> HIDE DEF f, In, Taken
    <2> QED BY <2>1, <2>3, <2>4, FS_Bijection, FS_CardinalityType DEF ExistsBijection
  <1>17. ASSUME NEW b, NEW c, Cardinality(In(b)) > Cardinality(In(c)) + 1,
                Cardinality(In(c)) # Cardinality(OfBrand(s, c))
         PROVE  FALSE
    <2> DEFINE C == OfBrand(s, c)
               B == OfBrand(s, b)
               m == Cardinality(In(c))
    <2>1. /\ IsFiniteSet(C) /\ Cardinality(C) \in Nat
          /\ \A n \in 1..Cardinality(C) : \E i \in C : Round(s, i) = n
          /\ \A i, j \in B : i < j => Round(s, i) < Round(s, j)
          /\ B \subseteq Int /\ C \subseteq 1..N
      <3>1. B \subseteq Int /\ C \subseteq 1..N
        BY <1>1 DEF OfBrand
      <3> QED BY <3>1, RoundsOfBrand
    <2>2. m \in Nat /\ m < Cardinality(C)
      <3>1. Cardinality(Taken(c)) <= Cardinality(C)
        <4> HIDE DEF Taken, C
        <4> QED BY <1>16, <2>1, FS_Subset DEF C
      <3> HIDE DEF In, Taken, C
      <3> QED BY <1>16, <1>17, <2>1, <3>1 DEF C
    \* One of the first m + 1 candidates of c is left out.
    <2>3. PICK x \in C : x \notin Taken(c) /\ Round(s, x) <= m + 1
      <3> SUFFICES ASSUME \A x \in C : Round(s, x) <= m + 1 => x \in Taken(c) PROVE FALSE
        OBVIOUS
      <3> DEFINE g == [n \in 1..m + 1 |-> CHOOSE i \in C : Round(s, i) = n]
      <3> HIDE DEF In, Taken, C, m
      <3>1. \A n \in 1..m + 1 : g[n] \in C /\ Round(s, g[n]) = n
        BY <2>1, <2>2
      <3> DEFINE T == {g[n] : n \in 1..m + 1}
      <3>2. T \subseteq Taken(c)
        BY <2>2, <3>1
      <3>3. \A n, o \in 1..m + 1 : n # o => g[n] # g[o]
        BY <3>1
      <3>4. g \in Bijection(1..m + 1, T)
        BY <3>3 DEF Bijection, Injection, Surjection, IsInjective
      <3>5. IsFiniteSet(1..m + 1) /\ Cardinality(1..m + 1) = m + 1
        <4>1. m + 1 \in Nat
          BY <2>2
        <4> QED BY <4>1, UptoCounts
      <3> HIDE DEF g, T
      <3>6. Cardinality(T) = m + 1
        BY <3>4, <3>5, FS_Bijection DEF ExistsBijection
      <3>7. Cardinality(T) <= Cardinality(Taken(c)) /\ Cardinality(Taken(c)) = m
        BY <1>16, <3>2, FS_Subset DEF m
      <3> QED BY <2>2, <3>6, <3>7
    <2>4. ASSUME NEW n \in In(b) PROVE Round(s, at[n]) \in 1..m + 1
      <3>1. n \in 1..Len(r) /\ n \in 1..N /\ at[n] \in 1..N
        BY <1>11, <1>12 DEF OfBrand
      <3>2. PICK o \in 1..N : at[o] = x
        BY <1>7, <2>1, <2>3
      <3>3. o \notin 1..Len(r)
        <4> SUFFICES ASSUME o \in 1..Len(r) PROVE FALSE
          OBVIOUS
        <4>1. r[o].brand = c
          BY <1>12, <2>3, <3>2 DEF OfBrand
        <4>2. o \in In(c)
          BY <1>11, <4>1 DEF OfBrand
        <4> QED BY <2>3, <3>2, <4>2
      <3>4. n < o
        BY <1>1, <1>11, <3>1, <3>2, <3>3
      <3>5. Round(s, at[n]) <= Round(s, x)
        BY <1>13, <3>1, <3>2, <3>4
      <3>6. Round(s, at[n]) \in Nat \ {0} /\ Round(s, x) \in Nat
        BY <1>1, <2>1, <3>1, TurnsFollow
      <3> HIDE DEF m
      <3> QED BY <2>2, <2>3, <3>5, <3>6
    <2>5. Cardinality(Taken(b)) <= m + 1
      <3> DEFINE h == [i \in Taken(b) |-> Round(s, i)]
                 H == {Round(s, i) : i \in Taken(b)}
      <3>1. \A i \in Taken(b) : Round(s, i) \in 1..m + 1 /\ i \in B
        BY <1>16, <2>4
      <3> HIDE DEF Taken, B, m
      <3>2. \A i, j \in Taken(b) : i # j => Round(s, i) # Round(s, j)
        <4> SUFFICES ASSUME NEW i \in Taken(b), NEW j \in Taken(b), i # j PROVE Round(s, i) # Round(s, j)
          OBVIOUS
        <4>0. i \in Int /\ j \in Int
          BY <2>1, <3>1
        <4>1. i < j \/ j < i
          BY <4>0
        <4>2. Round(s, i) < Round(s, j) \/ Round(s, j) < Round(s, i)
          BY <2>1, <3>1, <4>1
        <4>3. Round(s, i) \in Int /\ Round(s, j) \in Int
          BY <3>1
        <4> QED BY <4>2, <4>3
      <3>3. h \in Bijection(Taken(b), H) /\ H \subseteq 1..m + 1
        BY <3>1, <3>2 DEF Bijection, Injection, Surjection, IsInjective
      <3> HIDE DEF h, H
      <3>4. Cardinality(H) = Cardinality(Taken(b)) /\ IsFiniteSet(H)
        BY <1>16, <3>3, FS_Bijection DEF ExistsBijection
      <3>5. IsFiniteSet(1..m + 1) /\ Cardinality(1..m + 1) = m + 1
        <4>1. m + 1 \in Nat
          BY <2>2
        <4> QED BY <4>1, UptoCounts
      <3> QED BY <3>3, <3>4, <3>5, FS_Subset
    <2> HIDE DEF In, Taken, m
    <2>6. Cardinality(In(b)) <= m + 1
      BY <1>16, <2>5
    <2> QED BY <1>16, <1>17, <2>2, <2>6 DEF m
  <1>18. \A m, n \in 1..Len(r) : m < n => at[m] # at[n]
    BY <1>12, <1>13
  <1>19. \E to \in [1..Len(r) -> DOMAIN s] :
            /\ \A n \in 1..Len(r) : r[n] = s[to[n]]
            /\ Len(r) # 0 => to[1] = 1
            /\ \A m, n \in 1..Len(r) : m < n => to[m] # to[n]
            /\ \A m, n \in 1..Len(r) : m < n /\ r[m].brand = r[n].brand => to[m] < to[n]
    <2> DEFINE to == [n \in 1..Len(r) |-> at[n]]
    <2>1. to \in [1..Len(r) -> DOMAIN s] /\ \A n \in 1..Len(r) : to[n] = at[n]
      BY <1>1, <1>12
    <2>2. Len(r) # 0 => 1 \in 1..Len(r)
      BY <1>11
    <2> HIDE DEF to
    <2> QED BY <1>12, <1>14, <1>15, <1>18, <2>1, <2>2
  <1> QED BY <1>10, <1>17, <1>19 DEF r, N

-----------------------------------------------------------------------------
(* Recommendations.                                                        *)

\* Renaming the elements of a set one to one does not change their number.
LEMMA OneToOne ==
    ASSUME NEW S, IsFiniteSet(S), NEW g, \A i, j \in S : i # j => g[i] # g[j]
    PROVE  LET T == {g[i] : i \in S}
           IN  IsFiniteSet(T) /\ Cardinality(T) = Cardinality(S)
  <1> DEFINE f == [i \in S |-> g[i]]
             T == {g[i] : i \in S}
  <1>1. f \in Bijection(S, T)
    BY DEF Bijection, Injection, Surjection, IsInjective
  <1> HIDE DEF f, T
  <1>2. IsFiniteSet(T) /\ Cardinality(T) = Cardinality(S)
    BY <1>1, FS_Bijection DEF ExistsBijection
  <1> QED BY <1>2 DEF T

\* Enough points are asked for: the whole collection answers.
LEMMA NearestAll ==
    ASSUME NEW near, IsCollection(near), NEW k \in Nat, Cardinality(DOMAIN near) <= k
    PROVE  \A p \in DOMAIN near : \E i \in DOMAIN Nearest(near, k) : Nearest(near, k)[i].id = p
  <1> DEFINE Point(p) == [id |-> p, score |-> near[p]]
             S == {Point(p) : p \in DOMAIN near}
             s == SetToSeq(S)
             key == [i \in DOMAIN s |-> s[i].score]
             sorted == Rearranged(s, Ordered(DOMAIN s, key))
             r == Nearest(near, k)
  <1>1. IsFiniteSet(S) /\ Cardinality(S) = Cardinality(DOMAIN near)
    <2> DEFINE f == [p \in DOMAIN near |-> Point(p)]
    <2>1. S = {f[p] : p \in DOMAIN near}
      OBVIOUS
    <2>2. \A p, o \in DOMAIN near : p # o => f[p] # f[o]
      <3> TAKE p, o \in DOMAIN near
      <3>1. f[p].id = p /\ f[o].id = o
        OBVIOUS
      <3> QED BY <3>1
    <2>3. IsFiniteSet(DOMAIN near)
      BY DEF IsCollection
    <2> HIDE DEF f, S
    <2> QED BY <2>1, <2>2, <2>3, OneToOne
  <1>2. IsList(s) /\ ToSet(s) = S /\ \A i, j \in DOMAIN s : i # j => s[i] # s[j]
    <2> HIDE DEF S
    <2> QED BY <1>1, SetAsList
  <1>3. r = Take(sorted, k)
    BY DEF Nearest, SortedDown
  <1> HIDE DEF s, r
  <1> DEFINE N == Len(s)
  <1>4. N \in Nat /\ DOMAIN s = 1..N
    BY <1>2, ListParts
  <1>5. N <= k
    <2>1. ToSet(s) = {s[i] : i \in 1..N}
      BY <1>4 DEF ToSet
    <2>2. IsFiniteSet(1..N) /\ Cardinality(1..N) = N
      BY <1>4, UptoCounts
    <2> HIDE DEF S, N
    <2>3. Cardinality({s[i] : i \in 1..N}) = Cardinality(1..N)
      BY <1>2, <1>4, <2>2, OneToOne
    <2> QED BY <1>1, <1>2, <2>1, <2>2, <2>3
  <1>6. \A i \in DOMAIN s : key[i] \in Int
    <2> TAKE i \in DOMAIN s
    <2>1. PICK p \in DOMAIN near : s[i] = Point(p)
      BY <1>2 DEF ToSet
    <2> QED BY <2>1 DEF IsCollection
  <1> HIDE DEF key
  <1>7. IsList(sorted) /\ Len(sorted) = N /\ ToSet(sorted) = ToSet(s)
    <2> HIDE DEF N
    <2> QED BY <1>2, <1>6, SortedElements DEF N
  <1> HIDE DEF sorted
  <1>8. /\ IsList(r) /\ Len(r) = Smaller(k, N) /\ \A i \in 1..Len(r) : r[i] = sorted[i]
    <2> HIDE DEF N
    <2> QED BY <1>3, <1>7, TakenElements
  <1>9. DOMAIN sorted = 1..N /\ DOMAIN r = 1..N /\ Len(r) = N
    <2>1. Smaller(k, N) = N
      <3> HIDE DEF N
      <3> QED BY <1>4, <1>5 DEF Smaller
    <2> QED BY <1>7, <1>8, <2>1, ListParts
  <1> SUFFICES ASSUME NEW p \in DOMAIN near PROVE \E i \in DOMAIN r : r[i].id = p
    BY DEF r
  <1>10. Point(p) \in ToSet(sorted)
    BY <1>2, <1>7
  <1>11. PICK i \in 1..N : sorted[i] = Point(p)
    BY <1>9, <1>10 DEF ToSet
  <1> QED BY <1>8, <1>9, <1>11

\* What is fused are the results of both lists.
LEMMA FusedIds ==
    ASSUME NEW q, IsCollection(q.image), IsCollection(q.text),
           NEW image, Rightly(image, q.image), NEW text, Rightly(text, q.text)
    PROVE  LET f == Fuse(image, text)
           IN  /\ \A i \in DOMAIN image : \E j \in DOMAIN f : f[j].id = image[i].id
               /\ \A j \in DOMAIN f : f[j].id \in DOMAIN q.image \cup DOMAIN q.text
  <1> DEFINE first == Ids(image)
             ids == Ids(text)
             I == {i \in DOMAIN ids : ids[i] \notin ToSet(first)}
             more == Picked(ids, I)
             all == first \o more
             f == Fuse(image, text)
  <1>1. DOMAIN f = DOMAIN all /\ \A i \in DOMAIN all : f[i].id = all[i]
    BY DEF Fuse, Mapped, Where, ScoreIn
  <1>2. /\ IsList(first) /\ Len(first) = Len(image) /\ \A i \in DOMAIN image : first[i] = image[i].id
        /\ IsList(ids) /\ Len(ids) = Len(text) /\ \A i \in DOMAIN text : ids[i] = text[i].id
    BY ScoreFound
  <1>3. DOMAIN first = DOMAIN image /\ DOMAIN ids = DOMAIN text
    BY <1>2, ListParts DEF Rightly
  <1> HIDE DEF first, ids, f
  <1>4. IsList(more) /\ ToSet(more) = {ids[i] : i \in I}
    <2>1. I \in SUBSET DOMAIN ids
      OBVIOUS
    <2> HIDE DEF I
    <2> QED BY <1>2, <2>1, PickedElements
  <1> HIDE DEF more
  <1>5. IsList(all) /\ ToSet(all) = ToSet(first) \cup ToSet(more)
    BY <1>2, <1>4, JoinedLists
  <1> HIDE DEF all
  <1>6. ASSUME NEW i \in DOMAIN image PROVE \E j \in DOMAIN f : f[j].id = image[i].id
    <2>1. image[i].id \in ToSet(first)
      BY <1>2, <1>3 DEF ToSet
    <2>2. image[i].id \in ToSet(all)
      BY <1>5, <2>1
    <2>3. PICK j \in DOMAIN all : all[j] = image[i].id
      BY <2>2 DEF ToSet
    <2> QED BY <1>1, <2>3
  <1>7. ASSUME NEW j \in DOMAIN f PROVE f[j].id \in DOMAIN q.image \cup DOMAIN q.text
    <2>1. f[j].id \in ToSet(all)
      BY <1>1 DEF ToSet
    <2>2. f[j].id \in ToSet(first) \/ f[j].id \in ToSet(more)
      BY <1>5, <2>1
    <2>3. CASE f[j].id \in ToSet(first)
      BY <1>2, <1>3, <2>3 DEF ToSet, Rightly
    <2>4. CASE f[j].id \in ToSet(more)
      <3>1. PICK i \in DOMAIN ids : f[j].id = ids[i]
        BY <1>4, <2>4
      <3> QED BY <1>2, <1>3, <3>1 DEF Rightly
    <2> QED BY <2>2, <2>3, <2>4
  <1> QED BY <1>6, <1>7 DEF f

\* Enough is asked for: a search by id answers all others, each once.
LEMMA OthersFound ==
    ASSUME NEW q, q.has = Modalities, IsCollection(q.image), IsCollection(q.text),
           DOMAIN q.text = DOMAIN q.image, NEW target \in DOMAIN q.image,
           NEW k \in Nat, Cardinality(DOMAIN q.image) <= k + 1
    PROVE  LET r == SearchByProductId(q, target, k)
           IN  /\ IsList(r)
               /\ \A i \in DOMAIN r : r[i].id \in DOMAIN q.image \ {target} /\ r[i].score \in Int
               /\ \A i, j \in DOMAIN r : i < j => r[i].id # r[j].id
               /\ \A p \in DOMAIN q.image \ {target} : \E i \in DOMAIN r : r[i].id = p
  <1> DEFINE P == DOMAIN q.image
             image == Nearest(q.image, k + 1)
             text == Nearest(q.text, k + 1)
             f == Fuse(image, text)
             key == [i \in DOMAIN f |-> f[i].score]
             sorted == Rearranged(f, Ordered(DOMAIN f, key))
             I == {i \in DOMAIN sorted : sorted[i].id # target}
             others == Picked(sorted, I)
             r == SearchByProductId(q, target, k)
  <1>1. r = Take(others, k)
    BY DEF SearchByProductId, SortedDown, Where
  <1> HIDE DEF r
  <1>2. k + 1 \in Nat
    OBVIOUS
  <1>3. /\ Rightly(image, q.image) /\ Rightly(text, q.text)
        /\ \A p \in P : \E i \in DOMAIN image : image[i].id = p
    BY <1>2, NearestRightly, NearestAll
  <1> HIDE DEF image, text
  <1>4. /\ IsList(f)
        /\ \A j \in DOMAIN f : f[j].score \in Int
        /\ \A i, j \in DOMAIN f : i < j => f[i].id # f[j].id
    BY <1>3, FusedRightly
  <1>5. /\ \A p \in P : \E j \in DOMAIN f : f[j].id = p
        /\ \A j \in DOMAIN f : f[j].id \in P
    <2>1. /\ \A i \in DOMAIN image : \E j \in DOMAIN f : f[j].id = image[i].id
          /\ \A j \in DOMAIN f : f[j].id \in DOMAIN q.image \cup DOMAIN q.text
      BY <1>3, FusedIds
    <2> QED BY <1>3, <2>1
  <1> HIDE DEF f
  <1>6. \A i \in DOMAIN f : key[i] = f[i].score /\ key[i] \in Int
    BY <1>4
  <1> HIDE DEF key
  <1> DEFINE N == Len(f)
  <1>7. N \in Nat /\ DOMAIN f = 1..N
    BY <1>4, ListParts
  <1>8. /\ IsList(sorted) /\ Len(sorted) = N
        /\ \E at \in [1..N -> DOMAIN f] :
               /\ \A n \in 1..N : sorted[n] = f[at[n]]
               /\ \A i \in DOMAIN f : \E n \in 1..N : at[n] = i
               /\ \A m, n \in 1..N : m < n => at[m] # at[n] /\ NoLater(key, at[m], at[n])
    BY <1>4, <1>6, SortedElements
  <1> HIDE DEF sorted
  <1>9. PICK at \in [1..N -> DOMAIN f] :
            /\ \A n \in 1..N : sorted[n] = f[at[n]]
            /\ \A i \in DOMAIN f : \E n \in 1..N : at[n] = i
            /\ \A m, n \in 1..N : m < n => at[m] # at[n] /\ NoLater(key, at[m], at[n])
    BY <1>8
  <1>10. DOMAIN sorted = 1..N
    BY <1>8, ListParts
  <1> HIDE DEF N
  <1>11. ASSUME NEW i \in DOMAIN f, NEW j \in DOMAIN f, i # j PROVE f[i].id # f[j].id
    <2>1. i < j \/ j < i
      BY <1>7, <1>11
    <2> QED BY <1>4, <2>1
  <1>12. /\ \A n \in 1..N : sorted[n].id \in P /\ sorted[n].score \in Int
         /\ \A m, n \in 1..N : m < n => sorted[m].id # sorted[n].id
         /\ \A p \in P : \E n \in 1..N : sorted[n].id = p
    <2>1. \A n \in 1..N : at[n] \in DOMAIN f /\ sorted[n] = f[at[n]]
      BY <1>9
    <2>2. \A p \in P : \E n \in 1..N : sorted[n].id = p
      <3> TAKE p \in P
      <3>1. PICK j \in DOMAIN f : f[j].id = p
        BY <1>5
      <3>2. PICK n \in 1..N : at[n] = j
        BY <1>9
      <3> QED BY <2>1, <3>1, <3>2
    <2>3. ASSUME NEW m \in 1..N, NEW n \in 1..N, m < n PROVE sorted[m].id # sorted[n].id
      BY <1>9, <1>11, <2>1, <2>3
    <2> QED BY <1>4, <1>5, <2>1, <2>2, <2>3
  <1>13. /\ IsList(others)
         /\ \E of \in [1..Len(others) -> I] :
                /\ \A n \in 1..Len(others) : others[n] = sorted[of[n]]
                /\ \A i \in I : \E n \in 1..Len(others) : of[n] = i
                /\ \A m, n \in 1..Len(others) : m < n => of[m] < of[n]
    <2>1. I \in SUBSET DOMAIN sorted
      OBVIOUS
    <2> HIDE DEF I
    <2> QED BY <1>8, <2>1, PickedElements
  <1> HIDE DEF others
  <1> DEFINE M == Len(others)
  <1>14. PICK of \in [1..M -> I] :
             /\ \A n \in 1..M : others[n] = sorted[of[n]]
             /\ \A i \in I : \E n \in 1..M : of[n] = i
             /\ \A m, n \in 1..M : m < n => of[m] < of[n]
    BY <1>13
  <1>15. M \in Nat /\ DOMAIN others = 1..M
    BY <1>13, ListParts
  <1> HIDE DEF M
  <1>16. \A n \in 1..M : of[n] \in 1..N /\ others[n] = sorted[of[n]] /\ sorted[of[n]].id # target
    <2>1. \A n \in 1..M : of[n] \in I
      BY <1>14
    <2> QED BY <1>10, <1>14, <2>1
  <1>17. /\ \A n \in 1..M : others[n].id \in P \ {target} /\ others[n].score \in Int
         /\ \A m, n \in 1..M : m < n => others[m].id # others[n].id
         /\ \A p \in P \ {target} : \E n \in 1..M : others[n].id = p
    <2>1. \A n \in 1..M : others[n].id \in P \ {target} /\ others[n].score \in Int
      BY <1>12, <1>16
    <2>2. ASSUME NEW m \in 1..M, NEW n \in 1..M, m < n PROVE others[m].id # others[n].id
      <3>1. of[m] < of[n]
        BY <1>14, <2>2
      <3>2. of[m] \in 1..N /\ of[n] \in 1..N
        BY <1>16
      <3>3. sorted[of[m]].id # sorted[of[n]].id
        BY <1>12, <3>1, <3>2
      <3> QED BY <1>16, <3>3
    <2>3. \A p \in P \ {target} : \E n \in 1..M : others[n].id = p
      <3> TAKE p \in P \ {target}
      <3>1. PICK i \in 1..N : sorted[i].id = p
        BY <1>12
      <3>2. i \in I
        BY <1>10, <3>1
      <3>3. PICK n \in 1..M : of[n] = i
        BY <1>14, <3>2
      <3> QED BY <1>16, <3>1, <3>3
    <2> QED BY <2>1, <2>2, <2>3
  \* They are fewer than the collection has.
  <1>18. M <= k
    <2> DEFINE g == [n \in 1..M |-> others[n].id]
               T == {g[n] : n \in 1..M}
    <2>1. \A n \in 1..M : g[n] = others[n].id
      OBVIOUS
    <2>2. \A m, n \in 1..M : m # n => g[m] # g[n]
      <3> SUFFICES ASSUME NEW m \in 1..M, NEW n \in 1..M, m # n PROVE g[m] # g[n]
        OBVIOUS
      <3>1. m < n \/ n < m
        BY <1>15
      <3> QED BY <1>17, <2>1, <3>1
    <2>3. T \subseteq P \ {target}
      BY <1>17, <2>1
    <2>4. IsFiniteSet(1..M) /\ Cardinality(1..M) = M
      BY <1>15, UptoCounts
    <2> HIDE DEF g, T
    <2>5. IsFiniteSet(T) /\ Cardinality(T) = M
      <3>1. LET S == {g[n] : n \in 1..M} IN IsFiniteSet(S) /\ Cardinality(S) = Cardinality(1..M)
        BY ZenonT(30), <2>2, <2>4, OneToOne
      <3> QED BY <2>4, <3>1 DEF T
    <2>6. IsFiniteSet(P) /\ Cardinality(P) \in Nat
      BY FS_CardinalityType DEF IsCollection
    <2>7. IsFiniteSet(P \ {target}) /\ Cardinality(P \ {target}) = Cardinality(P) - 1
      BY <2>6, FS_RemoveElement
    <2>8. Cardinality(T) <= Cardinality(P \ {target})
      BY <2>3, <2>7, FS_Subset
    <2> QED BY <1>15, <2>5, <2>6, <2>7, <2>8
  <1>19. IsList(r) /\ Len(r) = M /\ DOMAIN r = 1..M /\ \A i \in 1..M : r[i] = others[i]
    <2>1. Smaller(k, M) = M
      BY <1>15, <1>18 DEF Smaller
    <2>2. Len(others) = M
      BY DEF M
    <2>3. IsList(r) /\ Len(r) = M /\ \A i \in 1..Len(r) : r[i] = others[i]
      BY <1>1, <1>13, <2>1, <2>2, TakenElements
    <2> QED BY <2>3, ListParts
  <1> QED BY SMTT(30), <1>17, <1>19 DEF r, P

\* A score is a number, whatever the products have.
LEMMA FinalTyped ==
    ASSUME NEW target, IsFiniteSet(target.tags), NEW data, IsFiniteSet(data.tags), data.quality \in Int,
           NEW candidate, candidate.score \in Int
    PROVE  FinalScore(target, candidate, data) \in Int
  <1> DEFINE both == {f \in {"color", "material", "gender", "season", "style"} :
                         target[f] # Absent /\ data[f] # Absent}
             W == RecommendationWeights
             a == AttributeMatch(target, data)
             t == TagMatch(target, data)
  <1>1. \A n \in Int : Clamp(n, 10000) \in Int /\ Clamp(n, 1000000) \in Int
    BY DEF Clamp, Larger, Smaller
  <1>2. \A n, m \in Nat : Share(n, m) \in Int
    <2> TAKE n, m \in Nat
    <2>1. CASE m = 0
      BY <2>1 DEF Share
    <2>2. CASE m # 0
      <3>1. (10000 * n) \div m \in Int
        BY <2>2
      <3> QED BY <2>2, <3>1 DEF Share
    <2> QED BY <2>1, <2>2
  <1>3. a \in Int
    <2> DEFINE all == {"color", "material", "gender", "season", "style"}
    <2>1. IsFiniteSet(all)
      <3>1. all = {"color"} \cup {"material"} \cup {"gender"} \cup {"season"} \cup {"style"}
        OBVIOUS
      <3> HIDE DEF all
      <3> QED BY <3>1, FS_Singleton, FS_Union
    <2>2. both \subseteq all /\ {f \in both : target[f] = data[f]} \subseteq all
      OBVIOUS
    <2> HIDE DEF all
    <2>3. IsFiniteSet(both) /\ IsFiniteSet({f \in both : target[f] = data[f]})
      BY <2>1, <2>2, FS_Subset
    <2>4. Cardinality(both) \in Nat /\ Cardinality({f \in both : target[f] = data[f]}) \in Nat
      BY <2>3, FS_CardinalityType
    <2>5. a = Share(Cardinality({f \in both : target[f] = data[f]}), Cardinality(both))
      BY DEF AttributeMatch
    <2> HIDE DEF both, a
    <2> QED BY <1>2, <2>4, <2>5
  <1>4. t \in Int
    <2>1. IsFiniteSet(target.tags \cup data.tags)
      BY FS_Union
    <2>2. IsFiniteSet(target.tags \cap data.tags)
      BY FS_Intersection
    <2>3. Cardinality(target.tags \cup data.tags) \in Nat /\ Cardinality(target.tags \cap data.tags) \in Nat
      BY <2>1, <2>2, FS_CardinalityType
    <2> QED BY <1>2, <2>3 DEF TagMatch
  <1>5. W.similarity \in Nat /\ W.attribute \in Nat /\ W.tag \in Nat /\ W.quality \in Nat
    BY RecommendationAssumption DEF RecommendationSettings
  <1> DEFINE s == Clamp(candidate.score, 10000)
             x == Clamp(100 * data.quality, 10000)
             w1 == W.similarity
             w2 == W.attribute
             w3 == W.tag
             w4 == W.quality
  <1>6. s \in Int /\ x \in Int
    <2> DEFINE y == 100 * data.quality
    <2>1. y \in Int
      OBVIOUS
    <2> HIDE DEF y
    <2>2. Clamp(y, 10000) \in Int /\ Clamp(candidate.score, 10000) \in Int
      BY <1>1, <2>1
    <2> QED BY <2>2 DEF y
  <1>7. FinalScore(target, candidate, data) = Clamp(w1 * s + w2 * a + w3 * t + w4 * x, 1000000)
    BY DEF FinalScore
  <1>8. w1 \in Int /\ w2 \in Int /\ w3 \in Int /\ w4 \in Int
    BY <1>5
  <1> HIDE DEF s, x, a, t, w1, w2, w3, w4
  <1>9. w1 * s + w2 * a + w3 * t + w4 * x \in Int
    BY <1>3, <1>4, <1>6, <1>8
  <1> QED BY <1>1, <1>7, <1>9

\* For any catalog and collections of any products, where the limit lets the
\* search reach all of them: the recommendations are fair to the brands.
THEOREM RecommendationsFair ==
    ASSUME Diversity, NEW q, q.has = Modalities, IsCollection(q.image), IsCollection(q.text),
           DOMAIN q.text = DOMAIN q.image, NEW target \in DOMAIN q.image,
           NEW k \in Nat, Cardinality(DOMAIN q.image) <= 3 * k + 1,
           NEW catalog,
           \A p \in DOMAIN q.image : IsFiniteSet(catalog[p].tags) /\ catalog[p].quality \in Int,
           NEW relevance
    PROVE  Fair(DOMAIN q.image \ {target}, catalog, k,
                RecommendFrom(q, target, catalog, relevance, k, FALSE))
  <1> DEFINE Q == DOMAIN q.image \ {target}
             wide == 3 * k
             found == SearchByProductId(q, target, wide)
             rated == [i \in DOMAIN found |->
                         [id |-> found[i].id, brand |-> catalog[found[i].id].brand,
                          final |-> FinalScore(catalog[target], found[i], catalog[found[i].id]),
                          reasons |-> Reasons(catalog[target], found[i], catalog[found[i].id])]]
             key == [i \in DOMAIN rated |-> rated[i].final]
             scored == Rearranged(rated, Ordered(DOMAIN rated, key))
             r == Diversify(scored, k)
  <1>1. RecommendFrom(q, target, catalog, relevance, k, FALSE) = r
    BY DEF RecommendFrom, SortedDown, Mapped
  <1>2. /\ IsList(found)
        /\ \A i \in DOMAIN found : found[i].id \in Q /\ found[i].score \in Int
        /\ \A i, j \in DOMAIN found : i < j => found[i].id # found[j].id
        /\ \A p \in Q : \E i \in DOMAIN found : found[i].id = p
    <2>1. wide \in Nat /\ Cardinality(DOMAIN q.image) <= wide + 1
      OBVIOUS
    <2> HIDE DEF wide
    <2> QED BY <2>1, OthersFound
  <1> HIDE DEF found
  <1> DEFINE N == Len(found)
  <1>3. N \in Nat /\ DOMAIN found = 1..N
    BY <1>2, ListParts
  <1>4. ASSUME NEW i \in DOMAIN found
        PROVE  /\ rated[i].id = found[i].id /\ rated[i].id \in Q
               /\ rated[i].brand = catalog[rated[i].id].brand /\ rated[i].final \in Int
    <2>1. found[i].id \in Q /\ found[i].score \in Int
      BY <1>2
    <2>2. FinalScore(catalog[target], found[i], catalog[found[i].id]) \in Int
      BY <2>1, FinalTyped
    <2> QED BY <2>1, <2>2
  <1>5. IsList(rated) /\ Len(rated) = N /\ DOMAIN rated = 1..N
    <2>1. DOMAIN rated = 1..N
      BY <1>3
    <2>2. rated = [i \in 1..N |-> rated[i]]
      BY <1>3
    <2> HIDE DEF rated, N
    <2> QED BY <1>3, <2>1, <2>2, MakesList
  <1> HIDE DEF rated
  <1>6. \A i \in DOMAIN rated : key[i] = rated[i].final /\ key[i] \in Int
    BY <1>3, <1>4, <1>5
  <1> HIDE DEF key
  <1>7. /\ IsList(scored) /\ Len(scored) = N
        /\ \E at \in [1..N -> DOMAIN rated] :
               /\ \A n \in 1..N : scored[n] = rated[at[n]]
               /\ \A i \in DOMAIN rated : \E n \in 1..N : at[n] = i
               /\ \A m, n \in 1..N : m < n => at[m] # at[n] /\ NoLater(key, at[m], at[n])
    <2>1. /\ IsList(scored) /\ Len(scored) = Len(rated)
          /\ \E at \in [1..Len(rated) -> DOMAIN rated] :
                 /\ \A n \in 1..Len(rated) : scored[n] = rated[at[n]]
                 /\ \A i \in DOMAIN rated : \E n \in 1..Len(rated) : at[n] = i
                 /\ \A m, n \in 1..Len(rated) : m < n => at[m] # at[n] /\ NoLater(key, at[m], at[n])
      BY <1>5, <1>6, SortedElements
    <2>2. Len(rated) = N
      BY <1>5
    <2> HIDE DEF N, scored
    <2> QED BY <2>1, <2>2
  <1> HIDE DEF scored
  <1>8. PICK to \in [1..N -> 1..N] :
            /\ \A n \in 1..N : scored[n] = rated[to[n]]
            /\ \A i \in 1..N : \E n \in 1..N : to[n] = i
            /\ \A m, n \in 1..N : m < n => to[m] # to[n] /\ NoLater(key, to[m], to[n])
    BY <1>5, <1>7
  <1>9. DOMAIN scored = 1..N
    BY <1>7, ListParts
  <1> HIDE DEF N
  \* The candidates: all other products, each once, the best first.
  <1>10. /\ \A n \in 1..N : /\ scored[n].id \in Q /\ scored[n].final \in Int
                            /\ scored[n].brand = catalog[scored[n].id].brand
         /\ \A m, n \in 1..N : m # n => scored[m].id # scored[n].id
         /\ \A p \in Q : \E n \in 1..N : scored[n].id = p
         /\ \A m, n \in 1..N : m < n => scored[n].final <= scored[m].final
    <2>1. \A n \in 1..N : to[n] \in 1..N /\ scored[n] = rated[to[n]]
      BY <1>8
    <2>2. \A i, j \in 1..N : i # j => rated[i].id # rated[j].id
      <3> SUFFICES ASSUME NEW i \in 1..N, NEW j \in 1..N, i # j PROVE rated[i].id # rated[j].id
        OBVIOUS
      <3>1. i < j \/ j < i
        BY <1>3
      <3>2. rated[i].id = found[i].id /\ rated[j].id = found[j].id
        BY <1>3, <1>4
      <3>3. found[i].id # found[j].id
        BY <1>2, <1>3, <3>1
      <3> QED BY <3>2, <3>3
    <2>3. ASSUME NEW m \in 1..N, NEW n \in 1..N, m # n PROVE scored[m].id # scored[n].id
      <3>1. m < n \/ n < m
        BY <1>3, <2>3
      <3>2. to[m] # to[n]
        BY <1>8, <3>1
      <3> QED BY <2>1, <2>2, <3>2
    <2>4. \A p \in Q : \E n \in 1..N : scored[n].id = p
      <3> TAKE p \in Q
      <3>1. PICK i \in 1..N : found[i].id = p
        BY <1>2, <1>3
      <3>2. PICK n \in 1..N : to[n] = i
        BY <1>8
      <3> QED BY <1>3, <1>4, <2>1, <3>1, <3>2
    <2>5. ASSUME NEW m \in 1..N, NEW n \in 1..N, m < n PROVE scored[n].final <= scored[m].final
      <3>1. NoLater(key, to[m], to[n]) /\ to[m] \in 1..N /\ to[n] \in 1..N
        BY <1>8, <2>5
      <3>2. key[to[m]] = scored[m].final /\ key[to[n]] = scored[n].final
            /\ key[to[m]] \in Int /\ key[to[n]] \in Int
        BY <1>5, <1>6, <2>1, <3>1
      <3> QED BY <3>1, <3>2 DEF NoLater
    <2>6. \A n \in 1..N : /\ scored[n].id \in Q /\ scored[n].final \in Int
                          /\ scored[n].brand = catalog[scored[n].id].brand
      <3> TAKE n \in 1..N
      <3> DEFINE i == to[n]
      <3>1. i \in DOMAIN found /\ scored[n] = rated[i]
        BY <1>3, <2>1
      <3> HIDE DEF i
      <3> QED BY <1>4, <3>1
    <2> QED BY <2>3, <2>4, <2>5, <2>6
  \* Candidates and products are as many, of each brand too.
  <1> DEFINE All(b) == StoredOf(Q, catalog, b)
             name == [n \in 1..N |-> scored[n].id]
  <1>11. \A n \in 1..N : name[n] = scored[n].id
    OBVIOUS
  <1>12. \A m, n \in 1..N : m # n => name[m] # name[n]
    BY <1>10, <1>11
  <1> HIDE DEF name
  <1>13. N = Cardinality(Q)
    <2>1. Q = {name[n] : n \in 1..N}
      BY <1>10, <1>11
    <2>2. IsFiniteSet(1..N) /\ Cardinality(1..N) = N
      BY <1>3, UptoCounts
    <2> HIDE DEF Q
    <2>3. Cardinality({name[n] : n \in 1..N}) = Cardinality(1..N)
      BY ZenonT(30), <1>12, <2>2, OneToOne
    <2> QED BY <2>1, <2>2, <2>3
  <1>14. ASSUME NEW b PROVE Cardinality(OfBrand(scored, b)) = Cardinality(All(b))
    <2> DEFINE S == OfBrand(scored, b)
    <2>1. S \subseteq 1..N /\ \A n \in 1..N : n \in S <=> scored[n].brand = b
      BY <1>9 DEF OfBrand
    <2>2. IsFiniteSet(S)
      BY <1>7, RoundsOfBrand
    <2> HIDE DEF S
    <2>3. All(b) = {name[n] : n \in S}
      BY <1>10, <1>11, <2>1 DEF StoredOf
    <2>4. \A m, n \in S : m # n => name[m] # name[n]
      BY <1>12, <2>1
    <2> HIDE DEF All
    <2>5. Cardinality({name[n] : n \in S}) = Cardinality(S)
      BY <2>2, <2>4, OneToOne
    <2> QED BY <2>3, <2>5 DEF S
  <1> HIDE DEF Q
  \* Among them, the rounds are fair.
  <1>15. /\ IsList(r) /\ Len(r) = Smaller(k, N)
         /\ \E at \in [1..Len(r) -> DOMAIN scored] :
                /\ \A n \in 1..Len(r) : r[n] = scored[at[n]]
                /\ Len(r) # 0 => at[1] = 1
                /\ \A m, n \in 1..Len(r) : m < n => at[m] # at[n]
                /\ \A m, n \in 1..Len(r) : m < n /\ r[m].brand = r[n].brand => at[m] < at[n]
         /\ \A b, c : Cardinality(OfBrand(r, b)) > Cardinality(OfBrand(r, c)) + 1
                      => Cardinality(OfBrand(r, c)) = Cardinality(OfBrand(scored, c))
    <2> HIDE DEF N
    <2>1. /\ IsList(r) /\ Len(r) = Smaller(k, Len(scored))
          /\ \E at \in [1..Len(r) -> DOMAIN scored] :
                 /\ \A n \in 1..Len(r) : r[n] = scored[at[n]]
                 /\ Len(r) # 0 => at[1] = 1
                 /\ \A m, n \in 1..Len(r) : m < n => at[m] # at[n]
                 /\ \A m, n \in 1..Len(r) : m < n /\ r[m].brand = r[n].brand => at[m] < at[n]
          /\ \A b, c : Cardinality(OfBrand(r, b)) > Cardinality(OfBrand(r, c)) + 1
                       => Cardinality(OfBrand(r, c)) = Cardinality(OfBrand(scored, c))
      <3>1. IsList(scored)
        BY <1>7
      <3> HIDE DEF scored
      <3> QED BY <3>1, DiversityIsFair, Zenon
    <2> HIDE DEF r
    <2> QED BY <1>7, <2>1
  <1> HIDE DEF r
  <1>16. PICK at \in [1..Len(r) -> 1..N] :
                /\ \A n \in 1..Len(r) : r[n] = scored[at[n]]
                /\ Len(r) # 0 => at[1] = 1
                /\ \A m, n \in 1..Len(r) : m < n /\ r[m].brand = r[n].brand => at[m] < at[n]
    BY <1>9, <1>15
  <1>17. Len(r) \in Nat /\ DOMAIN r = 1..Len(r)
    BY <1>15, ListParts
  <1>18. \A i \in DOMAIN r : at[i] \in 1..N /\ r[i] = scored[at[i]] /\ r[i].final \in Int
    BY <1>10, <1>16, <1>17
  <1>19. ASSUME NEW i \in DOMAIN r PROVE r[i].final <= r[1].final
    <2>1. 1 \in DOMAIN r /\ at[1] = 1 /\ 1 \in 1..N
      BY <1>16, <1>17, <1>18
    <2>2. r[1] = scored[1] /\ r[i] = scored[at[i]] /\ at[i] \in 1..N
      BY <1>18, <2>1
    <2>3. CASE at[i] = 1
      BY <1>10, <2>1, <2>2, <2>3
    <2>4. CASE at[i] # 1
      <3>1. 1 < at[i]
        BY <1>3, <2>2, <2>4
      <3> QED BY <1>10, <2>1, <2>2, <3>1
    <2> QED BY <2>3, <2>4
  <1>20. ASSUME NEW i \in DOMAIN r, NEW j \in DOMAIN r, i < j, r[i].brand = r[j].brand
         PROVE  r[i].final >= r[j].final
    <2>1. at[i] < at[j] /\ at[i] \in 1..N /\ at[j] \in 1..N
      BY <1>16, <1>17, <1>18, <1>20
    <2>2. scored[at[j]].final <= scored[at[i]].final
      BY <1>10, <2>1
    <2>3. r[i] = scored[at[i]] /\ r[j] = scored[at[j]] /\ r[i].final \in Int /\ r[j].final \in Int
      BY <1>18
    <2> QED BY <2>2, <2>3
  <1>21. ASSUME NEW b, NEW c, Cardinality(OfBrand(r, b)) > Cardinality(OfBrand(r, c)) + 1
         PROVE  Cardinality(OfBrand(r, c)) = Cardinality(All(c))
    BY <1>14, <1>15, <1>21
  <1>22. Len(r) = Smaller(k, Cardinality(Q))
    BY <1>13, <1>15
  <1>23. Fair(Q, catalog, k, r)
    <2>1. \A b, c \in {catalog[p].brand : p \in Q} :
              Cardinality(OfBrand(r, b)) > Cardinality(OfBrand(r, c)) + 1
              => Cardinality(OfBrand(r, c)) = Cardinality(StoredOf(Q, catalog, c))
      BY <1>21
    <2> QED BY <1>19, <1>20, <1>22, <2>1, Zenon DEF Fair
  <1> QED BY <1>1, <1>23 DEF Q

\* Of the answers of the model, where diversity is on, all are fair.
THEOREM BrandsAreFair ==
    ASSUME Diversity
    PROVE  Spec => []BrandsFair
  <1>1. Init => BrandsFair
    BY DEF Init, BrandsFair, Answer
  <1>2. BrandsFair /\ [Next]_vars => BrandsFair'
    <2> SUFFICES ASSUME BrandsFair, [Next]_vars PROVE BrandsFair'
      OBVIOUS
    <2>1. CASE UNCHANGED vars
      BY <2>1 DEF vars, BrandsFair, Answer
    <2>2. CASE Next
      <3> SUFFICES ASSUME Answer("recommend")' PROVE Fair(Shop, case'.catalog, case'.k, out')
        BY DEF BrandsFair
      <3>1. DoRecommend
        BY <2>2, StepOfTask DEF Answer
      <3>2. PICK brand \in [Shop -> Brands], image \in [Shop -> {60, 80}],
                 tags \in [Shop -> {{}, {"red"}}], k \in 2..3 :
                 LET q == [has |-> Modalities, image |-> With(p4, 100, image), text |-> With(p4, 100, image)]
                     catalog == With(p4, Shirt(p4, Word("acme"), {"red"}),
                                     [p \in Shop |-> Shirt(p, brand[p], tags[p])])
                 IN  Answered([q |-> q, catalog |-> catalog, k |-> k, relevance |-> image],
                              RecommendFrom(q, p4, catalog, image, k, FALSE))
        BY <3>1 DEF DoRecommend
      <3> DEFINE near == With(p4, 100, image)
                 q == [has |-> Modalities, image |-> near, text |-> near]
                 catalog == With(p4, Shirt(p4, Word("acme"), {"red"}),
                                 [p \in Shop |-> Shirt(p, brand[p], tags[p])])
      <3>3. case'.catalog = catalog /\ case'.k = k /\ out' = RecommendFrom(q, p4, catalog, image, k, FALSE)
        BY <3>2 DEF Answered
      <3>4. DOMAIN near = {p4} \cup Shop /\ \A p \in DOMAIN near : near[p] \in Nat
        BY DEF With
      <3>5. IsFiniteSet(DOMAIN near) /\ Cardinality(DOMAIN near) <= 4
        <4>1. DOMAIN near = {p1} \cup {p2} \cup {p3} \cup {p4}
          BY <3>4 DEF Shop
        <4> HIDE DEF near
        <4> DEFINE two == {p1} \cup {p2}
                   three == two \cup {p3}
        <4>2. IsFiniteSet({p1}) /\ Cardinality({p1}) = 1
          BY FS_Singleton
        <4>3. IsFiniteSet(two) /\ Cardinality(two) \in Nat /\ Cardinality(two) <= 2
          <5>1. IsFiniteSet(two)
                /\ (Cardinality(two) = Cardinality({p1}) \/ Cardinality(two) = Cardinality({p1}) + 1)
            BY <4>2, FS_AddElement
          <5> QED BY <4>2, <5>1
        <4> HIDE DEF two
        <4>4. IsFiniteSet(three) /\ Cardinality(three) \in Nat /\ Cardinality(three) <= 3
          <5>1. IsFiniteSet(three)
                /\ (Cardinality(three) = Cardinality(two) \/ Cardinality(three) = Cardinality(two) + 1)
            BY <4>3, FS_AddElement
          <5> QED BY <4>3, <5>1
        <4>5. DOMAIN near = three \cup {p4}
          BY <4>1 DEF two
        <4> HIDE DEF three
        <4>6. IsFiniteSet(DOMAIN near)
              /\ (Cardinality(DOMAIN near) = Cardinality(three)
                  \/ Cardinality(DOMAIN near) = Cardinality(three) + 1)
          BY <4>4, <4>5, FS_AddElement
        <4> QED BY <4>4, <4>6
      <3>6. \A p \in DOMAIN near : IsFiniteSet(catalog[p].tags) /\ catalog[p].quality \in Int
        <4>1. IsFiniteSet({}) /\ IsFiniteSet({"red"})
          BY FS_EmptySet, FS_Singleton
        <4>2. \A p, b, t : IsFiniteSet(t) => IsFiniteSet(Shirt(p, b, t).tags) /\ Shirt(p, b, t).quality \in Int
          BY DEF Shirt, Data
        <4> TAKE p \in DOMAIN near
        <4>3. CASE p = p4
          <5>1. catalog[p] = Shirt(p4, Word("acme"), {"red"})
            BY <4>3 DEF With
          <5> QED BY <4>1, <4>2, <5>1
        <4>4. CASE p # p4
          <5>1. p \in Shop
            BY <3>4, <4>4
          <5>2. catalog[p] = Shirt(p, brand[p], tags[p])
            BY <4>4, <5>1 DEF With
          <5>3. tags[p] \in {{}, {"red"}}
            BY <5>1
          <5>4. IsFiniteSet(tags[p])
            BY <4>1, <5>3
          <5> QED BY <4>2, <5>2, <5>4
        <4> QED BY <4>3, <4>4
      <3>7. p4 \in DOMAIN near /\ DOMAIN near \ {p4} = Shop
        BY <3>4, ProductsAssumption
      <3> HIDE DEF near, catalog
      <3>8. q.has = Modalities /\ q.image = near /\ q.text = near
        OBVIOUS
      <3>9. k \in Nat /\ Cardinality(DOMAIN near) <= 3 * k + 1
        <4>1. k \in Nat /\ k >= 2
          BY <3>2
        <4>2. Cardinality(DOMAIN near) \in Nat
          BY <3>5, FS_CardinalityType
        <4> QED BY <3>5, <4>1, <4>2
      <3>10. IsCollection(near)
        BY <3>4, <3>5 DEF IsCollection
      <3> HIDE DEF q
      <3>11. Fair(DOMAIN q.image \ {p4}, catalog, k, RecommendFrom(q, p4, catalog, image, k, FALSE))
        BY <3>6, <3>7, <3>8, <3>9, <3>10, RecommendationsFair
      <3> QED BY <3>3, <3>7, <3>8, <3>11
    <2> QED BY <2>1, <2>2
  <1> QED BY <1>1, <1>2, PTL DEF Spec

-----------------------------------------------------------------------------
(* Prices.                                                                 *)

\* upto has the sums of the first elements of s.
SumsOf(s, upto) == upto = [n \in 0..Len(s) |-> IF n = 0 THEN 0 ELSE upto[n - 1] + s[n]]

\* The sums of the first elements exist, and Total is the last of them.
LEMMA TotalParts ==
    ASSUME NEW s, IsList(s), \A i \in 1..Len(s) : s[i] \in Int
    PROVE  \E upto : /\ upto[0] = 0 /\ upto[Len(s)] = Total(s)
                     /\ \A n \in 1..Len(s) : upto[n] = upto[n - 1] + s[n]
                     /\ \A n \in 0..Len(s) : upto[n] \in Int
  <1> DEFINE N == Len(s)
             To(n, g) == g = [m \in 0..n |-> IF m = 0 THEN 0 ELSE g[m - 1] + s[m]]
             Bad == {n \in Nat : ~\E g : To(n, g)}
  <1>1. N \in Nat
    BY ListParts
  <1>2. Bad = {}
    <2> SUFFICES ASSUME Bad # {} PROVE FALSE
      OBVIOUS
    <2>1. PICK k \in Bad : \A n \in Bad : k <= n
      <3>1. Bad \in SUBSET Nat
        OBVIOUS
      <3> HIDE DEF Bad
      <3> QED BY <3>1, Least
    <2>2. k # 0
      <3> DEFINE g == [m \in 0..0 |-> 0]
      <3>1. To(0, g)
        OBVIOUS
      <3> QED BY <2>1, <3>1
    <2>3. k - 1 \in Nat /\ k - 1 \notin Bad
      <3>1. k - 1 \in Nat /\ ~(k <= k - 1)
        BY <2>1, <2>2
      <3> QED BY <2>1, <3>1
    <2>4. PICK g : To(k - 1, g)
      BY <2>3
    <2> DEFINE h == [m \in 0..k |-> IF m = 0 THEN 0 ELSE g[m - 1] + s[m]]
    <2>5. \A m \in 0..k - 1 : h[m] = g[m]
      <3> TAKE m \in 0..k - 1
      <3>1. m \in 0..k
        BY <2>1
      <3>2. g[m] = IF m = 0 THEN 0 ELSE g[m - 1] + s[m]
        BY <2>4
      <3> QED BY <3>1, <3>2
    <2>6. \A m \in 0..k : m # 0 => h[m - 1] = g[m - 1]
      <3> TAKE m \in 0..k
      <3>1. m # 0 => m - 1 \in 0..k - 1
        BY <2>1
      <3> HIDE DEF h
      <3> QED BY <2>5, <3>1
    <2>7. To(k, h)
      <3>1. h = [m \in 0..k |-> IF m = 0 THEN 0 ELSE h[m - 1] + s[m]]
        BY <2>6
      <3> QED BY <3>1
    <2> QED BY <2>1, <2>7
  <1>3. \E g : SumsOf(s, g)
    <2>1. PICK g : To(N, g)
      BY <1>1, <1>2
    <2> QED BY <2>1 DEF SumsOf
  <1> DEFINE upto == CHOOSE g : SumsOf(s, g)
  <1>4. SumsOf(s, upto) /\ Total(s) = upto[N]
    BY <1>3 DEF Total, SumsOf
  <1> HIDE DEF upto, N
  <1>5. upto[0] = 0 /\ \A n \in 1..N : upto[n] = upto[n - 1] + s[n]
    BY <1>1, <1>4 DEF SumsOf, N
  <1> DEFINE Odd == {n \in 0..N : upto[n] \notin Int}
  <1>6. Odd = {}
    <2> SUFFICES ASSUME Odd # {} PROVE FALSE
      OBVIOUS
    <2>1. PICK k \in Odd : \A n \in Odd : k <= n
      <3>1. Odd \in SUBSET Nat
        BY <1>1
      <3> HIDE DEF Odd
      <3> QED BY <3>1, Least
    <2>2. k \in 1..N /\ k - 1 \in 0..N /\ ~(k <= k - 1)
      BY <1>1, <1>5, <2>1
    <2>3. upto[k - 1] \in Int /\ s[k] \in Int
      BY <2>1, <2>2 DEF N
    <2>4. upto[k] = upto[k - 1] + s[k]
      BY <1>5, <2>2
    <2> QED BY <2>1, <2>3, <2>4
  <1> QED BY <1>4, <1>5, <1>6 DEF N

\* What holds of each two elements holds of the sums.
LEMMA TotalsBetween ==
    ASSUME NEW s, IsList(s), NEW t, IsList(t), Len(s) = Len(t), NEW lo \in Int, NEW hi \in Int,
           \A i \in 1..Len(s) : s[i] \in Int /\ t[i] \in Int /\ lo * t[i] <= s[i] /\ s[i] <= hi * t[i]
    PROVE  /\ Total(s) \in Int /\ Total(t) \in Int
           /\ lo * Total(t) <= Total(s) /\ Total(s) <= hi * Total(t)
  <1> DEFINE N == Len(s)
  <1>1. N \in Nat
    BY ListParts
  <1>2. PICK a : /\ a[0] = 0 /\ a[N] = Total(s)
                 /\ \A n \in 1..N : a[n] = a[n - 1] + s[n]
                 /\ \A n \in 0..N : a[n] \in Int
    BY TotalParts
  <1>3. PICK b : /\ b[0] = 0 /\ b[N] = Total(t)
                 /\ \A n \in 1..N : b[n] = b[n - 1] + t[n]
                 /\ \A n \in 0..N : b[n] \in Int
    <2>1. \A i \in 1..Len(t) : t[i] \in Int
      OBVIOUS
    <2> QED BY <2>1, TotalParts
  <1>4. \A i \in 1..N : s[i] \in Int /\ t[i] \in Int /\ lo * t[i] <= s[i] /\ s[i] <= hi * t[i]
    OBVIOUS
  <1> HIDE DEF N
  <1> DEFINE Good(n) == lo * b[n] <= a[n] /\ a[n] <= hi * b[n]
             Bad == {n \in 0..N : ~Good(n)}
  <1>5. Bad = {}
    <2> SUFFICES ASSUME Bad # {} PROVE FALSE
      OBVIOUS
    <2>1. PICK k \in Bad : \A n \in Bad : k <= n
      <3>1. Bad \in SUBSET Nat
        BY <1>1
      <3> HIDE DEF Bad
      <3> QED BY <3>1, Least
    <2>2. Good(0)
      BY <1>2, <1>3
    <2>3. k \in 1..N /\ k - 1 \in 0..N /\ ~(k <= k - 1) /\ ~Good(k)
      BY <1>1, <2>1, <2>2
    <2>4. Good(k - 1)
      BY <2>1, <2>3
    <2> DEFINE x == b[k - 1]
               y == t[k]
               u == a[k - 1]
               v == s[k]
    <2>5. x \in Int /\ y \in Int /\ u \in Int /\ v \in Int /\ a[k] = u + v /\ b[k] = x + y
      BY <1>2, <1>3, <1>4, <2>3
    <2>6. lo * x <= u /\ u <= hi * x /\ lo * y <= v /\ v <= hi * y
      BY <1>4, <2>3, <2>4
    <2>7. ~(lo * (x + y) <= u + v /\ u + v <= hi * (x + y))
      BY <2>3, <2>5
    <2> HIDE DEF x, y, u, v
    <2>8. lo * (x + y) = lo * x + lo * y /\ hi * (x + y) = hi * x + hi * y
      BY <2>5
    <2>9. lo * x \in Int /\ lo * y \in Int /\ hi * x \in Int /\ hi * y \in Int
      BY <2>5
    <2> QED BY <2>5, <2>6, <2>7, <2>8, <2>9
  <1>6. N \in 0..N
    BY <1>1
  <1> QED BY <1>2, <1>3, <1>5, <1>6

\* A sum of ones counts.
LEMMA TotalOfOnes ==
    ASSUME NEW s, IsList(s), \A i \in 1..Len(s) : s[i] = 1
    PROVE  Total(s) = Len(s)
  <1> DEFINE N == Len(s)
  <1>1. N \in Nat
    BY ListParts
  <1>2. PICK a : /\ a[0] = 0 /\ a[N] = Total(s)
                 /\ \A n \in 1..N : a[n] = a[n - 1] + s[n]
                 /\ \A n \in 0..N : a[n] \in Int
    BY TotalParts
  <1>3. \A n \in 1..N : a[n] = a[n - 1] + 1
    BY <1>2
  <1> HIDE DEF N
  <1> DEFINE Bad == {n \in 0..N : a[n] # n}
  <1>4. Bad = {}
    <2> SUFFICES ASSUME Bad # {} PROVE FALSE
      OBVIOUS
    <2>1. PICK k \in Bad : \A n \in Bad : k <= n
      <3>1. Bad \in SUBSET Nat
        BY <1>1
      <3> HIDE DEF Bad
      <3> QED BY <3>1, Least
    <2>2. k \in 1..N /\ k - 1 \in 0..N /\ ~(k <= k - 1)
      BY <1>1, <1>2, <2>1
    <2>3. a[k - 1] = k - 1
      BY <2>1, <2>2
    <2> QED BY <1>3, <2>1, <2>2, <2>3
  <1>5. N \in 0..N
    BY <1>1
  <1> QED BY <1>2, <1>4, <1>5 DEF N

\* Elements within bounds have their mean within the bounds.
LEMMA MeanBetween ==
    ASSUME NEW s, IsList(s), NEW lo \in Int, NEW hi \in Int,
           \A i \in 1..Len(s) : s[i] \in Int /\ lo <= s[i] /\ s[i] <= hi
    PROVE  Total(s) \in Int /\ lo * Len(s) <= Total(s) /\ Total(s) <= hi * Len(s)
  <1> DEFINE N == Len(s)
             t == [i \in 1..N |-> 1]
  <1>1. N \in Nat
    BY ListParts
  <1>2. IsList(t) /\ Len(t) = N /\ \A i \in 1..N : t[i] = 1
    <2>1. DOMAIN t = 1..N /\ t = [i \in 1..N |-> t[i]] /\ \A i \in 1..N : t[i] = 1
      OBVIOUS
    <2> HIDE DEF t, N
    <2> QED BY <1>1, <2>1, MakesList
  <1> HIDE DEF t
  <1>3. \A i \in 1..N : s[i] \in Int /\ t[i] \in Int /\ lo * t[i] <= s[i] /\ s[i] <= hi * t[i]
    BY <1>2
  <1>4. Total(t) = N
    BY <1>2, TotalOfOnes
  <1>5. /\ Total(s) \in Int /\ lo * Total(t) <= Total(s) /\ Total(s) <= hi * Total(t)
    BY <1>2, <1>3, TotalsBetween
  <1> QED BY <1>4, <1>5

\* A list of what a function gives for the elements of another.
LEMMA MappedElements ==
    ASSUME NEW s, IsList(s), NEW t, DOMAIN t = DOMAIN s, t = [i \in DOMAIN s |-> t[i]]
    PROVE  IsList(t) /\ Len(t) = Len(s) /\ DOMAIN t = 1..Len(s) /\ DOMAIN s = 1..Len(s) /\ Len(s) \in Nat
  <1>1. Len(s) \in Nat /\ DOMAIN s = 1..Len(s)
    BY ListParts
  <1>2. DOMAIN t = 1..Len(s) /\ t = [i \in 1..Len(s) |-> t[i]]
    BY <1>1
  <1> QED BY <1>1, <1>2, MakesList

\* Numbers in ascending order.
LEMMA AscendingElements ==
    ASSUME NEW s, IsList(s), \A i \in DOMAIN s : s[i] \in Int
    PROVE  LET r == SortedUp(s)
           IN  /\ IsList(r) /\ Len(r) = Len(s)
               /\ \A m, n \in 1..Len(s) : m <= n => r[m] <= r[n]
               /\ \E at \in [1..Len(s) -> 1..Len(s)] :
                      /\ \A n \in 1..Len(s) : r[n] = s[at[n]]
                      /\ \A i \in 1..Len(s) : \E n \in 1..Len(s) : at[n] = i
                      /\ \A m, n \in 1..Len(s) : m # n => at[m] # at[n]
  <1> DEFINE N == Len(s)
             key == [i \in DOMAIN s |-> -s[i]]
             r == Rearranged(s, Ordered(DOMAIN s, key))
  <1>1. SortedUp(s) = r
    BY DEF SortedUp, SortedDown
  <1>2. N \in Nat /\ DOMAIN s = 1..N
    BY ListParts
  <1>3. \A i \in DOMAIN s : key[i] = -s[i] /\ key[i] \in Int
    OBVIOUS
  <1> HIDE DEF key
  <1>4. /\ IsList(r) /\ Len(r) = Len(s)
        /\ \E at \in [1..Len(s) -> DOMAIN s] :
               /\ \A n \in 1..Len(s) : r[n] = s[at[n]]
               /\ \A i \in DOMAIN s : \E n \in 1..Len(s) : at[n] = i
               /\ \A m, n \in 1..Len(s) : m < n => at[m] # at[n] /\ NoLater(key, at[m], at[n])
    BY <1>3, SortedElements
  <1> HIDE DEF r
  <1>5. PICK at \in [1..N -> 1..N] :
               /\ \A n \in 1..N : r[n] = s[at[n]]
               /\ \A i \in 1..N : \E n \in 1..N : at[n] = i
               /\ \A m, n \in 1..N : m < n => at[m] # at[n] /\ NoLater(key, at[m], at[n])
    BY <1>2, <1>4
  <1> HIDE DEF N
  <1>6. \A n \in 1..N : at[n] \in 1..N /\ r[n] = s[at[n]] /\ r[n] \in Int /\ key[at[n]] = -r[n]
    BY <1>2, <1>3, <1>5
  <1>7. ASSUME NEW m \in 1..N, NEW n \in 1..N, m <= n PROVE r[m] <= r[n]
    <2>1. CASE m = n
      BY <1>6, <2>1
    <2>2. CASE m # n
      <3>1. m < n
        BY <1>2, <1>7, <2>2
      <3>2. NoLater(key, at[m], at[n])
        BY <1>5, <3>1
      <3>3. key[at[m]] = -r[m] /\ key[at[n]] = -r[n] /\ r[m] \in Int /\ r[n] \in Int
        BY <1>6
      <3> QED BY <3>2, <3>3 DEF NoLater
    <2> QED BY <2>1, <2>2
  <1>8. ASSUME NEW m \in 1..N, NEW n \in 1..N, m # n PROVE at[m] # at[n]
    <2>1. m < n \/ n < m
      BY <1>2, <1>8
    <2> QED BY <1>5, <2>1
  <1> QED BY <1>1, <1>4, <1>5, <1>7, <1>8 DEF N

\* A weight keeps the order of two numbers.
LEMMA Weighed ==
    ASSUME NEW w \in Nat, NEW a \in Int, NEW b \in Int, a <= b
    PROVE  a * w <= b * w /\ a * w \in Int /\ b * w \in Int
  <1> DEFINE d == b - a
  <1>1. d \in Nat /\ b = a + d
    OBVIOUS
  <1> HIDE DEF d
  <1>2. b * w = a * w + d * w
    BY <1>1
  <1>3. d * w \in Nat /\ a * w \in Int
    BY <1>1
  <1> QED BY <1>2, <1>3

\* A fraction between two numbers.
Within(p, lo, hi) ==
    p[1] \in Int /\ p[2] \in Nat \ {0} /\ lo * p[2] <= p[1] /\ p[1] <= hi * p[2]

\* Comparables with prices between two numbers.
Priced(cs, lo, hi) ==
    /\ IsList(cs) /\ cs # <<>> /\ lo \in Int /\ hi \in Int
    /\ \A i \in DOMAIN cs : /\ cs[i].price \in Int /\ lo <= cs[i].price /\ cs[i].price <= hi
                            /\ cs[i].similarity \in Int

\* Their prices, in any order and in their own.
LEMMA PricesSorted ==
    ASSUME NEW cs, NEW lo, NEW hi, Priced(cs, lo, hi)
    PROVE  LET s == Prices(cs)
               r == SortedUp(s)
               n == Len(cs)
           IN  /\ n \in Nat \ {0} /\ DOMAIN cs = 1..n
               /\ IsList(s) /\ Len(s) = n /\ DOMAIN s = 1..n
               /\ IsList(r) /\ Len(r) = n /\ DOMAIN r = 1..n
               /\ \A i \in 1..n : s[i] = cs[i].price /\ s[i] \in Int /\ lo <= s[i] /\ s[i] <= hi
               /\ \A i \in 1..n : r[i] \in Int /\ lo <= r[i] /\ r[i] <= hi
               /\ \A i, j \in 1..n : i <= j => r[i] <= r[j]
  <1> DEFINE s == Prices(cs)
             r == SortedUp(s)
             n == Len(cs)
  <1>1. DOMAIN s = DOMAIN cs /\ s = [i \in DOMAIN cs |-> s[i]] /\ \A i \in DOMAIN cs : s[i] = cs[i].price
    BY DEF Prices, Mapped
  <1> HIDE DEF s
  <1>2. IsList(s) /\ Len(s) = n /\ DOMAIN s = 1..n /\ DOMAIN cs = 1..n /\ n \in Nat
    BY <1>1, MappedElements DEF Priced
  <1>3. n # 0
    BY DEF Priced, IsList
  <1>4. \A i \in 1..n : s[i] = cs[i].price /\ s[i] \in Int /\ lo <= s[i] /\ s[i] <= hi
    BY <1>1, <1>2 DEF Priced
  <1>5. /\ IsList(r) /\ Len(r) = Len(s)
        /\ \A i, j \in 1..Len(s) : i <= j => r[i] <= r[j]
        /\ \E at \in [1..Len(s) -> 1..Len(s)] :
               /\ \A i \in 1..Len(s) : r[i] = s[at[i]]
               /\ \A i \in 1..Len(s) : \E j \in 1..Len(s) : at[j] = i
               /\ \A i, j \in 1..Len(s) : i # j => at[i] # at[j]
    <2>1. \A i \in DOMAIN s : s[i] \in Int
      BY <1>2, <1>4
    <2> HIDE DEF n
    <2> QED BY ZenonT(30), <1>2, <2>1, AscendingElements
  <1> HIDE DEF r
  <1>6. DOMAIN r = 1..n
    BY <1>2, <1>5, ListParts
  <1> HIDE DEF n
  <1>7. PICK at \in [1..n -> 1..n] : \A i \in 1..n : r[i] = s[at[i]]
    BY <1>2, <1>5
  <1>8. \A i \in 1..n : r[i] \in Int /\ lo <= r[i] /\ r[i] <= hi
    <2> TAKE i \in 1..n
    <2>1. at[i] \in 1..n /\ r[i] = s[at[i]]
      BY <1>7
    <2> QED BY <1>4, <2>1
  <1>9. \A i, j \in 1..n : i <= j => r[i] <= r[j]
    BY <1>2, <1>5
  <1> QED BY <1>2, <1>3, <1>4, <1>5, <1>6, <1>8, <1>9 DEF s, r, n

\* Each place of the sorted prices has the price of one comparable.
LEMMA PricesPlaced ==
    ASSUME NEW cs, NEW lo, NEW hi, Priced(cs, lo, hi)
    PROVE  \E at \in [1..Len(cs) -> 1..Len(cs)] :
               /\ \A i \in 1..Len(cs) : SortedUp(Prices(cs))[i] = cs[at[i]].price
               /\ \A i \in 1..Len(cs) : \E j \in 1..Len(cs) : at[j] = i
               /\ \A i, j \in 1..Len(cs) : i # j => at[i] # at[j]
  <1> DEFINE s == Prices(cs)
             r == SortedUp(s)
             n == Len(cs)
  <1>1. /\ IsList(s) /\ Len(s) = n /\ DOMAIN s = 1..n
        /\ \A i \in 1..n : s[i] = cs[i].price /\ s[i] \in Int
    BY PricesSorted
  <1>2. \A i \in DOMAIN s : s[i] \in Int
    BY <1>1
  <1> HIDE DEF s, n
  <1>3. /\ IsList(r) /\ Len(r) = Len(s)
        /\ \A i, j \in 1..Len(s) : i <= j => r[i] <= r[j]
        /\ \E at \in [1..Len(s) -> 1..Len(s)] :
               /\ \A i \in 1..Len(s) : r[i] = s[at[i]]
               /\ \A i \in 1..Len(s) : \E j \in 1..Len(s) : at[j] = i
               /\ \A i, j \in 1..Len(s) : i # j => at[i] # at[j]
    <2>1. IsList(s)
      BY <1>1
    <2> QED BY ZenonT(30), <1>2, <2>1, AscendingElements
  <1> HIDE DEF r
  <1>4. \E at \in [1..n -> 1..n] :
               /\ \A i \in 1..n : r[i] = s[at[i]]
               /\ \A i \in 1..n : \E j \in 1..n : at[j] = i
               /\ \A i, j \in 1..n : i # j => at[i] # at[j]
    BY ZenonT(30), <1>1, <1>3
  <1>5. PICK at \in [1..n -> 1..n] :
               /\ \A i \in 1..n : r[i] = s[at[i]]
               /\ \A i \in 1..n : \E j \in 1..n : at[j] = i
               /\ \A i, j \in 1..n : i # j => at[i] # at[j]
    BY <1>4
  <1>6. \A i \in 1..n : r[i] = cs[at[i]].price
    <2> TAKE i \in 1..n
    <2>1. at[i] \in 1..n /\ r[i] = s[at[i]]
      BY <1>5
    <2> QED BY <1>1, <2>1
  <1> QED BY <1>5, <1>6 DEF r, s, n

\* The median is between bounds of the prices.
LEMMA MedianWithin ==
    ASSUME NEW cs, NEW lo, NEW hi, Priced(cs, lo, hi)
    PROVE  Within(Median(Prices(cs)), lo, hi)
  <1> DEFINE s == Prices(cs)
             r == SortedUp(s)
             n == Len(cs)
             half == n \div 2
  <1>1. /\ n \in Nat \ {0} /\ Len(r) = n /\ lo \in Int /\ hi \in Int
        /\ \A i \in 1..n : r[i] \in Int /\ lo <= r[i] /\ r[i] <= hi
    BY PricesSorted DEF Priced
  <1>2. Median(s) = IF n % 2 = 1 THEN <<r[half + 1], 1>> ELSE <<r[half] + r[half + 1], 2>>
    BY <1>1 DEF Median
  <1> HIDE DEF s, r, n
  <1>3. CASE n % 2 = 1
    <2>1. half + 1 \in 1..n
      BY <1>1, <1>3
    <2>2. r[half + 1] \in Int /\ lo <= r[half + 1] /\ r[half + 1] <= hi
      BY <1>1, <2>1
    <2> DEFINE x == r[half + 1]
    <2>3. Median(s)[1] = x /\ Median(s)[2] = 1
      BY <1>2, <1>3
    <2> HIDE DEF x
    <2> QED BY <1>1, <2>2, <2>3 DEF Within, x, s
  <1>4. CASE n % 2 # 1
    <2>1. half \in 1..n /\ half + 1 \in 1..n
      BY <1>1, <1>4
    <2> DEFINE x == r[half]
               y == r[half + 1]
    <2>2. x \in Int /\ lo <= x /\ x <= hi /\ y \in Int /\ lo <= y /\ y <= hi
      BY <1>1, <2>1
    <2>3. Median(s)[1] = x + y /\ Median(s)[2] = 2
      BY <1>2, <1>4
    <2> HIDE DEF x, y
    <2> QED BY <1>1, <2>2, <2>3 DEF Within, s
  <1> QED BY <1>3, <1>4

\* So is the weighted average, whatever the similarities.
LEMMA AverageWithin ==
    ASSUME NEW cs, NEW lo, NEW hi, Priced(cs, lo, hi)
    PROVE  Within(WeightedAverage(cs), lo, hi)
  <1> DEFINE n == Len(cs)
             w == Mapped(cs, LAMBDA c : Larger(c.similarity, 0))
             v == Mapped(cs, LAMBDA c : c.price * Larger(c.similarity, 0))
  <1>1. WeightedAverage(cs) = IF Total(w) <= 0 THEN <<Total(Prices(cs)), n>> ELSE <<Total(v), Total(w)>>
    BY DEF WeightedAverage
  <1>2. /\ DOMAIN w = DOMAIN cs /\ w = [i \in DOMAIN cs |-> w[i]]
        /\ \A i \in DOMAIN cs : w[i] = Larger(cs[i].similarity, 0)
    BY DEF Mapped
  <1>3. /\ DOMAIN v = DOMAIN cs /\ v = [i \in DOMAIN cs |-> v[i]]
        /\ \A i \in DOMAIN cs : v[i] = cs[i].price * w[i]
    BY DEF Mapped
  <1> HIDE DEF w, v
  <1>4. IsList(cs) /\ lo \in Int /\ hi \in Int
    BY DEF Priced
  <1>5. IsList(w) /\ Len(w) = n /\ IsList(v) /\ Len(v) = n /\ DOMAIN cs = 1..n /\ n \in Nat
    BY <1>2, <1>3, <1>4, MappedElements
  <1>6. ASSUME NEW i \in 1..n
        PROVE  v[i] \in Int /\ w[i] \in Int /\ lo * w[i] <= v[i] /\ v[i] <= hi * w[i]
    <2> DEFINE p == cs[i].price
               x == w[i]
    <2>1. p \in Int /\ lo <= p /\ p <= hi /\ cs[i].similarity \in Int
      BY <1>5 DEF Priced
    <2>2. x \in Nat
      BY <1>2, <1>5, <2>1 DEF Larger
    <2>3. v[i] = p * x
      BY <1>3, <1>5
    <2> HIDE DEF p, x
    <2>4. lo * x <= p * x /\ p * x <= hi * x /\ p * x \in Int
      BY <1>4, <2>1, <2>2, Weighed
    <2> QED BY <2>2, <2>3, <2>4 DEF x
  <1>7. Total(v) \in Int /\ Total(w) \in Int /\ lo * Total(w) <= Total(v) /\ Total(v) <= hi * Total(w)
    <2>1. \A i \in 1..Len(v) : v[i] \in Int /\ w[i] \in Int /\ lo * w[i] <= v[i] /\ v[i] <= hi * w[i]
      BY <1>5, <1>6
    <2> QED BY <1>4, <1>5, <2>1, TotalsBetween
  <1>8. CASE Total(w) <= 0
    <2> DEFINE s == Prices(cs)
    <2>1. /\ n \in Nat \ {0} /\ IsList(s) /\ Len(s) = n
          /\ \A i \in 1..n : s[i] \in Int /\ lo <= s[i] /\ s[i] <= hi
      BY PricesSorted
    <2>2. Total(s) \in Int /\ lo * Len(s) <= Total(s) /\ Total(s) <= hi * Len(s)
      <3> HIDE DEF s
      <3> QED BY <1>4, <2>1, MeanBetween
    <2>3. WeightedAverage(cs)[1] = Total(s) /\ WeightedAverage(cs)[2] = n
      BY <1>1, <1>8
    <2> HIDE DEF s
    <2> QED BY <2>1, <2>2, <2>3 DEF Within
  <1>9. CASE ~(Total(w) <= 0)
    <2>1. WeightedAverage(cs)[1] = Total(v) /\ WeightedAverage(cs)[2] = Total(w) /\ Total(w) \in Nat \ {0}
      BY <1>1, <1>7, <1>9
    <2> QED BY <1>7, <2>1 DEF Within
  <1> QED BY <1>8, <1>9

\* So is the trimmed mean, whatever share is cut.
LEMMA TrimmedWithin ==
    ASSUME NEW cs, NEW lo, NEW hi, Priced(cs, lo, hi)
    PROVE  Within(TrimmedMean(Prices(cs)), lo, hi)
  <1> DEFINE s == Prices(cs)
             r == SortedUp(s)
             n == Len(cs)
             share == n * TrimPercent
             cut == share \div 100
             kept == SubSeq(r, cut + 1, n - cut)
  <1>1. /\ n \in Nat \ {0} /\ IsList(r) /\ Len(r) = n /\ lo \in Int /\ hi \in Int
        /\ \A i \in 1..n : r[i] \in Int /\ lo <= r[i] /\ r[i] <= hi
    BY PricesSorted DEF Priced
  <1>2. TrimmedMean(s) = IF kept = <<>> THEN <<Total(r), n>> ELSE <<Total(kept), Len(kept)>>
    BY <1>1 DEF TrimmedMean
  <1>3. share \in Nat /\ share <= 49 * n
    <2>1. TrimPercent \in Nat /\ TrimPercent <= 49
      BY PricingAssumption DEF PricingSettings
    <2> HIDE DEF n
    <2>2. n * 49 >= n * TrimPercent
      BY <1>1, <2>1, MoreTimes
    <2>3. n * TrimPercent \in Nat
      BY <1>1, <2>1
    <2> QED BY <1>1, <2>2, <2>3
  <1> HIDE DEF s, r, n, share
  <1>4. cut \in Nat /\ 2 * cut < n
    BY <1>1, <1>3
  <1> HIDE DEF cut
  <1> DEFINE k == n - 2 * cut
  <1>5. k \in Nat \ {0}
    BY <1>1, <1>4
  <1>6. /\ kept \in Seq(Int) /\ Len(kept) = k /\ \A i \in 1..k : kept[i] = r[cut + i]
    <2>1. \A i \in (cut + 1)..(n - cut) : r[i] \in Int
      BY <1>1, <1>4
    <2>2. cut + 1 \in Int /\ n - cut \in Int /\ cut + 1 <= n - cut /\ (n - cut) - (cut + 1) + 1 = k
      BY <1>1, <1>4
    <2> HIDE DEF k
    <2>3. /\ kept \in Seq(Int) /\ Len(kept) = (n - cut) - (cut + 1) + 1
          /\ \A i \in 1..(n - cut) - (cut + 1) + 1 : kept[i] = r[(cut + 1) + i - 1]
      BY <2>1, <2>2, SubSeqProperties
    <2>4. \A i \in 1..k : (cut + 1) + i - 1 = cut + i
      BY <1>4
    <2> QED BY <2>2, <2>3, <2>4
  <1> HIDE DEF kept
  <1>7. IsList(kept) /\ kept # <<>>
    <2>1. DOMAIN kept = 1..k /\ kept = [i \in 1..k |-> kept[i]]
      BY <1>6
    <2> HIDE DEF k
    <2> QED BY <1>5, <1>6, <2>1, MakesList
  <1>8. \A i \in 1..Len(kept) : kept[i] \in Int /\ lo <= kept[i] /\ kept[i] <= hi
    <2> SUFFICES ASSUME NEW i \in 1..k PROVE kept[i] \in Int /\ lo <= kept[i] /\ kept[i] <= hi
      BY <1>6
    <2>1. cut + i \in 1..n
      BY <1>1, <1>4
    <2> QED BY <1>1, <1>6, <2>1
  <1>9. Total(kept) \in Int /\ lo * Len(kept) <= Total(kept) /\ Total(kept) <= hi * Len(kept)
    BY <1>1, <1>7, <1>8, MeanBetween
  <1>10. TrimmedMean(s)[1] = Total(kept) /\ TrimmedMean(s)[2] = Len(kept)
    BY <1>2, <1>7
  <1>11. Len(kept) \in Nat \ {0}
    BY <1>5, <1>6
  <1> HIDE DEF k
  <1> QED BY <1>9, <1>10, <1>11 DEF Within, s

\* Whatever the strategy, an estimate is between the prices it is made from.
LEMMA AggregateWithin ==
    ASSUME NEW cs, NEW lo, NEW hi, Priced(cs, lo, hi), NEW strategy \in Strategies
    PROVE  Within(Aggregate(cs, strategy), lo, hi)
  <1>1. CASE strategy = "median"
    BY <1>1, MedianWithin DEF Aggregate
  <1>2. CASE strategy = "weighted_average"
    BY <1>2, AverageWithin DEF Aggregate
  <1>3. CASE strategy = "trimmed_mean"
    BY <1>3, TrimmedWithin DEF Aggregate
  <1> QED BY <1>1, <1>2, <1>3 DEF Strategies

\* A quartile lies between its two neighbours; its unit is a fourth.
LEMMA BetweenNeighbours ==
    ASSUME NEW a \in Int, NEW b \in Int, a <= b, NEW d \in 0..3
    PROVE  /\ a * (4 - d) + b * d \in Int
           /\ 4 * a <= a * (4 - d) + b * d /\ a * (4 - d) + b * d <= 4 * b
  <1>1. CASE d = 0
    BY <1>1
  <1>2. CASE d = 1
    BY <1>2
  <1>3. CASE d = 2
    BY <1>3
  <1>4. CASE d = 3
    BY <1>4
  <1> QED BY <1>1, <1>2, <1>3, <1>4

\* The quartiles of n sorted numbers: after which of them, and how far.
First4(n) == (n + 1) \div 4
Third4(n) == (3 * (n + 1)) \div 4

\* The quartiles of at least four sorted numbers are between neighbours.
LEMMA QuartilesOf ==
    ASSUME NEW n \in Nat, n >= 4, NEW r, Len(r) = n
    PROVE  LET a == First4(n)
               c == Third4(n)
               d == n + 1 - 4 * a
               e == 3 * (n + 1) - 4 * c
           IN  /\ a \in 1..n - 1 /\ c \in 1..n - 1 /\ a + 1 <= c /\ d \in 0..3 /\ e \in 0..3
               /\ Quartile(r, 1) = r[a] * (4 - d) + r[a + 1] * d
               /\ Quartile(r, 3) = r[c] * (4 - e) + r[c + 1] * e
  <1> DEFINE a == First4(n)
             c == Third4(n)
             d == n + 1 - 4 * a
             e == 3 * (n + 1) - 4 * c
  <1>1. a \in 1..n - 1 /\ c \in 1..n - 1 /\ a + 1 <= c /\ d \in 0..3 /\ e \in 0..3
    BY DEF First4, Third4
  <1>2. (1 * (n + 1)) \div 4 = a /\ (3 * (n + 1)) \div 4 = c
    BY DEF First4, Third4
  <1>3. Smaller(Larger(a, 1), n - 1) = a /\ Smaller(Larger(c, 1), n - 1) = c
    <2> HIDE DEF a, c
    <2> QED BY <1>1 DEF Smaller, Larger
  <1>4. 1 * (n + 1) - 4 * a = d
    <2> HIDE DEF a
    <2> QED BY <1>1
  <1>5. Quartile(r, 1) = r[a] * (4 - d) + r[a + 1] * d
    BY <1>2, <1>3, <1>4, Zenon DEF Quartile
  <1>6. Quartile(r, 3) = r[c] * (4 - e) + r[c + 1] * e
    BY <1>2, <1>3, Zenon DEF Quartile
  <1> QED BY <1>1, <1>5, <1>6

\* The comparables whose prices are inside Tukey's fence.
Inside(cs, q1, q3) ==
    {i \in DOMAIN cs : /\ 2 * q1 - TwiceMultiplier * (q3 - q1) <= 8 * cs[i].price
                       /\ 8 * cs[i].price <= 2 * q3 + TwiceMultiplier * (q3 - q1)}

\* From four comparables on, those inside the fence are kept.
LEMMA FencedIn ==
    ASSUME NEW cs, Len(cs) \in Nat, Len(cs) >= 4, TwiceMultiplier > 0
    PROVE  LET r == SortedUp(Prices(cs))
           IN  RemoveOutliers(cs) = Picked(cs, Inside(cs, Quartile(r, 1), Quartile(r, 3)))
  <1>1. TwiceMultiplier \in Nat
    BY PricingAssumption DEF PricingSettings
  <1>2. ~(Len(cs) < 4 \/ TwiceMultiplier <= 0)
    BY <1>1
  <1> QED BY <1>2 DEF RemoveOutliers, Where, Inside

\* Some comparable is always kept, and none is made up.
LEMMA OutliersLeaveSome ==
    ASSUME NEW cs, NEW lo, NEW hi, Priced(cs, lo, hi)
    PROVE  LET kept == RemoveOutliers(cs)
           IN  Priced(kept, lo, hi) /\ ToSet(kept) \subseteq ToSet(cs)
  <1> DEFINE s == Prices(cs)
             r == SortedUp(s)
             n == Len(cs)
             kept == RemoveOutliers(cs)
  <1>1. /\ n \in Nat \ {0} /\ DOMAIN cs = 1..n /\ Len(r) = n
        /\ \A i \in 1..n : s[i] = cs[i].price
        /\ \A i \in 1..n : r[i] \in Int
        /\ \A i, j \in 1..n : i <= j => r[i] <= r[j]
        /\ \A i \in 1..n : \E j \in 1..n : r[i] = s[j]
    <2>1. /\ n \in Nat \ {0} /\ DOMAIN cs = 1..n /\ Len(r) = n
          /\ \A i \in 1..n : s[i] = cs[i].price
          /\ \A i \in 1..n : r[i] \in Int
          /\ \A i, j \in 1..n : i <= j => r[i] <= r[j]
      BY PricesSorted
    <2>2. PICK at \in [1..Len(cs) -> 1..Len(cs)] :
              \A i \in 1..Len(cs) : SortedUp(Prices(cs))[i] = cs[at[i]].price
      BY PricesPlaced
    <2> HIDE DEF s, r, n
    <2>3. \A i \in 1..n : at[i] \in 1..n /\ r[i] = cs[at[i]].price
      BY <2>2 DEF r, s, n
    <2> QED BY ZenonT(30), <2>1, <2>3
  <1>2. TwiceMultiplier \in Nat
    BY PricingAssumption DEF PricingSettings
  <1>3. CASE n < 4 \/ TwiceMultiplier <= 0
    <2>1. kept = cs
      BY <1>3 DEF RemoveOutliers
    <2> QED BY <2>1
  <1>4. CASE ~(n < 4 \/ TwiceMultiplier <= 0)
    <2>1. n >= 4 /\ TwiceMultiplier > 0
      BY <1>1, <1>2, <1>4
    <2> DEFINE q1 == Quartile(r, 1)
               q3 == Quartile(r, 3)
               I == Inside(cs, q1, q3)
    <2>2. kept = Picked(cs, I)
      BY <1>1, <2>1, FencedIn
    <2> DEFINE a == First4(n)
               c == Third4(n)
               d == n + 1 - 4 * a
               e == 3 * (n + 1) - 4 * c
    <2>3. /\ a \in 1..n - 1 /\ c \in 1..n - 1 /\ a + 1 <= c /\ d \in 0..3 /\ e \in 0..3
          /\ q1 = r[a] * (4 - d) + r[a + 1] * d /\ q3 = r[c] * (4 - e) + r[c + 1] * e
      BY <1>1, <2>1, QuartilesOf
    <2> HIDE DEF a, c, d, e, kept, r, s, n, q1, q3
    <2>4. a \in 1..n /\ a + 1 \in 1..n /\ c \in 1..n /\ c + 1 \in 1..n
      <3>1. n \in Nat /\ a \in 1..n - 1 /\ c \in 1..n - 1
        BY <1>1, <2>3
      <3> QED BY <3>1
    <2> DEFINE v == r[a + 1]
    <2>5. /\ r[a] \in Int /\ r[c] \in Int /\ r[c + 1] \in Int /\ v \in Int
          /\ r[a] <= v /\ v <= r[c] /\ r[c] <= r[c + 1]
      <3>1. a \in Int /\ c \in Int
        BY <2>3
      <3>2. a <= a + 1 /\ c <= c + 1
        BY <3>1
      <3> QED BY <1>1, <2>3, <2>4, <3>2
    <2>6. q1 \in Int /\ q1 <= 4 * v
      BY <2>3, <2>5, BetweenNeighbours
    <2>7. q3 \in Int /\ 4 * v <= q3
      <3>1. q3 \in Int /\ 4 * r[c] <= q3
        BY <2>3, <2>5, BetweenNeighbours
      <3> QED BY <2>5, <3>1
    <2> HIDE DEF v
    <2> DEFINE reach == TwiceMultiplier * (q3 - q1)
    <2>8. reach \in Nat
      <3>1. q3 - q1 \in Nat
        BY <2>5, <2>6, <2>7
      <3> QED BY <1>2, <3>1
    <2>9. PICK i \in 1..n : cs[i].price = v
      <3>1. PICK j \in 1..n : r[a + 1] = s[j]
        BY <1>1, <2>4
      <3> QED BY <1>1, <3>1 DEF v
    <2>10. i \in I
      <3>1. i \in I <=> 2 * q1 - reach <= 8 * cs[i].price /\ 8 * cs[i].price <= 2 * q3 + reach
        BY <1>1 DEF Inside
      <3> HIDE DEF reach, I
      <3> QED BY <2>5, <2>6, <2>7, <2>8, <2>9, <3>1
    <2>11. IsList(cs) /\ I \in SUBSET DOMAIN cs
      BY DEF Inside, Priced
    <2> HIDE DEF I
    <2>12. /\ IsList(kept) /\ ToSet(kept) = {cs[j] : j \in I}
           /\ \E at \in [1..Len(kept) -> I] : \A j \in 1..Len(kept) : kept[j] = cs[at[j]]
      BY <2>2, <2>11, PickedElements
    <2>13. DOMAIN kept = 1..Len(kept)
      BY <2>12, ListParts
    <2>14. cs[i] \in ToSet(kept)
      BY <2>10, <2>12
    <2>15. kept # <<>>
      BY <2>14 DEF ToSet
    <2>16. ToSet(kept) \subseteq ToSet(cs)
      BY <2>11, <2>12 DEF ToSet
    <2>17. \A j \in DOMAIN kept : \E h \in DOMAIN cs : kept[j] = cs[h]
      BY <2>11, <2>12, <2>13
    <2>18. Priced(kept, lo, hi)
      BY <2>12, <2>15, <2>17 DEF Priced
    <2> QED BY <2>16, <2>18 DEF kept
  <1> QED BY <1>3, <1>4

\* At least half of the comparables are kept, those between the quartiles.
LEMMA OutliersKeepHalf ==
    ASSUME NEW cs, NEW lo, NEW hi, Priced(cs, lo, hi)
    PROVE  2 * Len(RemoveOutliers(cs)) >= Len(cs)
  <1> DEFINE r == SortedUp(Prices(cs))
             n == Len(cs)
  <1>1. n \in Nat /\ DOMAIN cs = 1..n /\ \A i, j \in 1..n : i <= j => r[i] <= r[j]
    BY PricesSorted
  <1>2. TwiceMultiplier \in Nat
    BY PricingAssumption DEF PricingSettings
  <1>3. CASE n < 4 \/ TwiceMultiplier <= 0
    <2>1. RemoveOutliers(cs) = cs
      BY <1>3 DEF RemoveOutliers
    <2> QED BY <1>1, <2>1
  <1>4. CASE ~(n < 4 \/ TwiceMultiplier <= 0)
    <2>1. n >= 4 /\ TwiceMultiplier > 0
      BY <1>1, <1>2, <1>4
    <2> DEFINE q1 == Quartile(r, 1)
               q3 == Quartile(r, 3)
               I == Inside(cs, q1, q3)
               a == First4(n)
               c == Third4(n)
               d == n + 1 - 4 * a
               e == 3 * (n + 1) - 4 * c
    <2>2. RemoveOutliers(cs) = Picked(cs, I)
      BY <1>1, <2>1, FencedIn
    <2>3. /\ a \in 1..n - 1 /\ c \in 1..n - 1 /\ a + 1 <= c /\ d \in 0..3 /\ e \in 0..3
          /\ q1 = r[a] * (4 - d) + r[a + 1] * d /\ q3 = r[c] * (4 - e) + r[c + 1] * e
      <3>1. Len(r) = n
        BY PricesSorted
      <3> QED BY <1>1, <2>1, <3>1, QuartilesOf
    <2>4. 2 * (c - a) >= n
      BY <1>1 DEF First4, Third4
    <2>5. PICK at \in [1..Len(cs) -> 1..Len(cs)] :
              /\ \A i \in 1..Len(cs) : SortedUp(Prices(cs))[i] = cs[at[i]].price
              /\ \A i, j \in 1..Len(cs) : i # j => at[i] # at[j]
      BY PricesPlaced
    <2>6. \A i \in 1..n : at[i] \in 1..n /\ r[i] = cs[at[i]].price /\ r[i] \in Int
      BY <1>1, <2>5 DEF Priced
    <2>7. \A i, j \in 1..n : i # j => at[i] # at[j]
      BY <2>5
    <2> HIDE DEF a, c, d, e, r, n, q1, q3
    <2>8. a \in 1..n /\ a + 1 \in 1..n /\ c \in 1..n /\ c + 1 \in 1..n /\ a + 1..c \subseteq 1..n
      <3>1. n \in Nat /\ a \in 1..n - 1 /\ c \in 1..n - 1
        BY <1>1, <2>3
      <3> QED BY <3>1
    <2>9. /\ r[a] \in Int /\ r[a + 1] \in Int /\ r[c] \in Int /\ r[c + 1] \in Int
          /\ r[a] <= r[a + 1] /\ r[a + 1] <= r[c] /\ r[c] <= r[c + 1]
      <3>1. a \in Int /\ c \in Int /\ a <= a + 1 /\ c <= c + 1
        BY <2>3
      <3> QED BY <1>1, <2>3, <2>6, <2>8, <3>1
    <2>10. q1 \in Int /\ q1 <= 4 * r[a + 1]
      BY <2>3, <2>9, BetweenNeighbours
    <2>11. q3 \in Int /\ 4 * r[c] <= q3
      BY <2>3, <2>9, BetweenNeighbours
    <2> DEFINE reach == TwiceMultiplier * (q3 - q1)
    <2>12. reach \in Nat
      <3>1. q3 - q1 \in Nat
        BY <2>9, <2>10, <2>11
      <3> QED BY <1>2, <3>1
    <2> DEFINE T == {at[i] : i \in a + 1..c}
    <2>13. T \subseteq I
      <3> SUFFICES ASSUME NEW i \in a + 1..c PROVE at[i] \in I
        OBVIOUS
      <3>1. i \in 1..n /\ a + 1 <= i /\ i <= c
        BY <2>3, <2>8
      <3>2. r[a + 1] <= r[i] /\ r[i] <= r[c]
        BY <1>1, <2>8, <3>1
      <3>3. at[i] \in DOMAIN cs /\ cs[at[i]].price = r[i] /\ r[i] \in Int
        BY <1>1, <2>6, <3>1
      <3>4. at[i] \in I <=> 2 * q1 - reach <= 8 * r[i] /\ 8 * r[i] <= 2 * q3 + reach
        BY <3>3 DEF Inside
      <3>5. 2 * q1 <= 8 * r[i] /\ 8 * r[i] <= 2 * q3
        <4> DEFINE v == r[a + 1]
                   w == r[c]
                   z == r[i]
        <4>1. /\ v \in Int /\ w \in Int /\ z \in Int /\ q1 \in Int /\ q3 \in Int
              /\ q1 <= 4 * v /\ v <= z /\ z <= w /\ 4 * w <= q3
          BY <2>9, <2>10, <2>11, <3>2, <3>3
        <4> HIDE DEF v, w, z
        <4>2. 2 * q1 <= 8 * z /\ 8 * z <= 2 * q3
          BY <4>1
        <4> QED BY <4>2 DEF z
      <3> HIDE DEF reach, I
      <3>6. 2 * q1 - reach <= 8 * r[i] /\ 8 * r[i] <= 2 * q3 + reach
        <4> DEFINE z == r[i]
        <4>1. z \in Int /\ 2 * q1 <= 8 * z /\ 8 * z <= 2 * q3
          BY <3>3, <3>5
        <4> HIDE DEF z
        <4>2. 2 * q1 - reach <= 8 * z /\ 8 * z <= 2 * q3 + reach
          BY <2>10, <2>11, <2>12, <4>1
        <4> QED BY <4>2 DEF z
      <3> QED BY <3>4, <3>6
    <2>14. IsFiniteSet(a + 1..c) /\ Cardinality(a + 1..c) = c - a
      <3>1. a + 1 \in Int /\ c \in Int /\ ~(a + 1 > c) /\ c - (a + 1) + 1 = c - a
        BY <2>3
      <3> QED BY <3>1, FS_Interval
    <2>15. IsFiniteSet(T) /\ Cardinality(T) = c - a
      <3>1. \A i, j \in a + 1..c : i # j => at[i] # at[j]
        BY <2>7, <2>8
      <3>2. IsFiniteSet({at[i] : i \in a + 1..c})
            /\ Cardinality({at[i] : i \in a + 1..c}) = Cardinality(a + 1..c)
        BY <2>14, <3>1, OneToOne
      <3> QED BY <2>14, <3>2
    <2>16. IsList(cs) /\ I \in SUBSET DOMAIN cs /\ IsFiniteSet(I)
      <3>1. IsList(cs) /\ IsFiniteSet(DOMAIN cs)
        BY ListParts DEF Priced
      <3>2. I \subseteq DOMAIN cs
        BY DEF Inside
      <3> QED BY <3>1, <3>2, FS_Subset
    <2> HIDE DEF I, T
    <2>17. Cardinality(T) <= Cardinality(I)
      BY <2>13, <2>16, FS_Subset
    <2>18. Len(RemoveOutliers(cs)) = Cardinality(I) /\ Cardinality(I) \in Nat
      BY <2>2, <2>16, PickedElements, FS_CardinalityType
    <2>19. c - a \in Int /\ c - a <= Cardinality(I)
      BY <2>3, <2>15, <2>17
    <2>20. 2 * Cardinality(I) >= n
      <3> DEFINE x == c - a
                 y == Cardinality(I)
      <3>1. x \in Int /\ y \in Nat /\ n \in Nat /\ x <= y /\ 2 * x >= n
        BY <1>1, <2>4, <2>18, <2>19
      <3> HIDE DEF x, y
      <3>2. 2 * y >= n
        BY <3>1
      <3> QED BY <3>2 DEF y
    <2> QED BY <2>18, <2>20 DEF n
  <1> QED BY <1>3, <1>4

\* With one price off the others, sorting puts it first or last.
LEMMA StrayPlaced ==
    ASSUME NEW cs, NEW lo, NEW hi, Priced(cs, lo, hi), NEW x \in DOMAIN cs, NEW v \in Int,
           \A i \in DOMAIN cs : cs[i].price # v <=> i = x
    PROVE  \E z \in 1..Len(cs) :
               /\ SortedUp(Prices(cs))[z] = cs[x].price
               /\ \A j \in 1..Len(cs) : j # z => SortedUp(Prices(cs))[j] = v
               /\ Len(cs) >= 2 => (cs[x].price < v => z = 1) /\ (cs[x].price > v => z = Len(cs))
  <1> DEFINE n == Len(cs)
             r == SortedUp(Prices(cs))
             u == cs[x].price
  <1>1. /\ n \in Nat \ {0} /\ DOMAIN cs = 1..n
        /\ \A i \in 1..n : r[i] \in Int
        /\ \A i, j \in 1..n : i <= j => r[i] <= r[j]
    BY PricesSorted
  <1>2. PICK at \in [1..Len(cs) -> 1..Len(cs)] :
               /\ \A i \in 1..Len(cs) : SortedUp(Prices(cs))[i] = cs[at[i]].price
               /\ \A i \in 1..Len(cs) : \E j \in 1..Len(cs) : at[j] = i
               /\ \A i, j \in 1..Len(cs) : i # j => at[i] # at[j]
    BY PricesPlaced
  <1> HIDE DEF r, n
  <1>3. PICK z \in 1..n : at[z] = x
    BY <1>1, <1>2 DEF n
  <1>4. r[z] = u /\ u \in Int
    BY <1>1, <1>2, <1>3 DEF r, n
  <1>5. ASSUME NEW j \in 1..n, j # z PROVE r[j] = v
    <2>1. at[j] \in 1..n /\ at[j] # x
      BY <1>2, <1>3, <1>5 DEF n
    <2>2. r[j] = cs[at[j]].price
      BY <1>2 DEF r, n
    <2> QED BY <1>1, <2>1, <2>2
  <1>6. ASSUME n >= 2, u < v PROVE z = 1
    <2> SUFFICES ASSUME z # 1 PROVE FALSE
      OBVIOUS
    <2>1. 1 \in 1..n /\ 1 <= z
      BY <1>1
    <2>2. r[1] = v /\ r[1] <= r[z]
      BY <1>1, <1>5, <2>1
    <2> HIDE DEF u
    <2> QED BY <1>4, <1>6, <2>2
  <1>7. ASSUME n >= 2, u > v PROVE z = n
    <2> SUFFICES ASSUME z # n PROVE FALSE
      OBVIOUS
    <2>1. n \in 1..n /\ z <= n
      BY <1>1
    <2>2. r[n] = v /\ r[z] <= r[n]
      BY <1>1, <1>5, <2>1
    <2> HIDE DEF u
    <2> QED BY <1>4, <1>7, <2>2
  <1> QED BY <1>4, <1>5, <1>6, <1>7 DEF r, n

\* From seven numbers on, the quartiles are away from the ends.
LEMMA QuartilesInside ==
    ASSUME NEW n \in Nat, n >= 7
    PROVE  /\ First4(n) >= 2
           /\ Third4(n) + 1 < n \/ (3 * (n + 1) - 4 * Third4(n) = 0 /\ Third4(n) < n)
  <1>1. CASE n = 7
    BY <1>1 DEF First4, Third4
  <1>2. CASE n >= 8
    BY <1>2 DEF First4, Third4
  <1> QED BY <1>1, <1>2

\* From six comparables on, Tukey's fence leaves out a lone stray price, if
\* the multiplier is not three or more.
LEMMA StrayOutside ==
    ASSUME NEW cs, NEW lo, NEW hi, Priced(cs, lo, hi), NEW x \in DOMAIN cs, NEW v \in Int,
           \A i \in DOMAIN cs : cs[i].price # v <=> i = x,
           Len(cs) >= 6, TwiceMultiplier \in 1..5
    PROVE  x \notin Inside(cs, Quartile(SortedUp(Prices(cs)), 1), Quartile(SortedUp(Prices(cs)), 3))
  <1> DEFINE n == Len(cs)
             r == SortedUp(Prices(cs))
             u == cs[x].price
             q1 == Quartile(r, 1)
             q3 == Quartile(r, 3)
             a == First4(n)
             c == Third4(n)
             d == n + 1 - 4 * a
             e == 3 * (n + 1) - 4 * c
             reach == TwiceMultiplier * (q3 - q1)
  <1>1. /\ n \in Nat \ {0} /\ DOMAIN cs = 1..n /\ Len(r) = n
        /\ \A i \in 1..n : r[i] \in Int
    BY PricesSorted
  <1>2. PICK z \in 1..Len(cs) :
               /\ SortedUp(Prices(cs))[z] = cs[x].price
               /\ \A j \in 1..Len(cs) : j # z => SortedUp(Prices(cs))[j] = v
               /\ Len(cs) >= 2 => (cs[x].price < v => z = 1) /\ (cs[x].price > v => z = Len(cs))
    BY StrayPlaced
  <1>3. x \in Inside(cs, q1, q3) <=> 2 * q1 - reach <= 8 * u /\ 8 * u <= 2 * q3 + reach
    BY DEF Inside
  <1>4. n >= 6
    OBVIOUS
  <1> SUFFICES x \notin Inside(cs, q1, q3)
    OBVIOUS
  <1>5. u # v
    OBVIOUS
  <1> HIDE DEF n, r
  <1>6. /\ a \in 1..n - 1 /\ c \in 1..n - 1 /\ a + 1 <= c /\ d \in 0..3 /\ e \in 0..3
        /\ q1 = r[a] * (4 - d) + r[a + 1] * d /\ q3 = r[c] * (4 - e) + r[c + 1] * e
    <2>1. n \in Nat /\ n >= 4
      BY <1>1, <1>4
    <2> QED BY <1>1, <2>1, QuartilesOf
  <1>7. /\ z \in 1..n /\ r[z] = u /\ \A j \in 1..n : j # z => r[j] = v
        /\ (u < v => z = 1) /\ (u > v => z = n)
    BY <1>2, <1>4 DEF n, r
  <1>8. u \in Int
    BY <1>1, <1>7
  <1> HIDE DEF u, q1, q3
  <1>9. CASE n = 6
    <2>1. a = 1 /\ c = 5 /\ d = 3 /\ e = 1
      BY <1>9 DEF First4, Third4
    <2>2. q1 = r[1] * 1 + r[2] * 3 /\ q3 = r[5] * 3 + r[6] * 1
      BY <1>6, <2>1
    <2>3. r[2] = v /\ r[5] = v
      BY <1>5, <1>7, <1>8, <1>9
    <2>4. r[1] \in Int /\ r[6] \in Int
      BY <1>1, <1>9
    <2>5. CASE u < v
      <3>1. r[1] = u /\ r[6] = v
        BY <1>7, <1>9, <2>5
      <3>2. q1 = u + 3 * v /\ q3 = 4 * v
        BY <1>8, <2>2, <2>3, <3>1
      <3> DEFINE g == v - u
      <3>3. g \in Nat \ {0} /\ q3 - q1 = g /\ u = v - g
        BY <1>8, <2>5, <3>2
      <3> HIDE DEF g
      <3>4. reach \in {g, 2 * g, 3 * g, 4 * g, 5 * g}
        BY <3>3
      <3> HIDE DEF reach
      <3>5. reach \in Int /\ reach <= 5 * g
        BY <3>3, <3>4
      <3> QED BY <1>3, <3>2, <3>3, <3>5
    <2>6. CASE u > v
      <3>1. r[1] = v /\ r[6] = u
        BY <1>7, <1>9, <2>6
      <3>2. q1 = 4 * v /\ q3 = 3 * v + u
        BY <1>8, <2>2, <2>3, <3>1
      <3> DEFINE g == u - v
      <3>3. g \in Nat \ {0} /\ q3 - q1 = g /\ u = v + g
        BY <1>8, <2>6, <3>2
      <3> HIDE DEF g
      <3>4. reach \in {g, 2 * g, 3 * g, 4 * g, 5 * g}
        BY <3>3
      <3> HIDE DEF reach
      <3>5. reach \in Int /\ reach <= 5 * g
        BY <3>3, <3>4
      <3> QED BY <1>3, <3>2, <3>3, <3>5
    <2> QED BY <1>5, <1>8, <2>5, <2>6
  <1>10. CASE n >= 7
    <2>1. a >= 2 /\ (c + 1 < n \/ (e = 0 /\ c < n))
      BY <1>1, <1>10, QuartilesInside
    <2> HIDE DEF a, c, d, e
    <2>2. z = 1 \/ z = n
      BY <1>5, <1>7, <1>8
    <2>3. a \in 2..n - 1 /\ a + 1 \in 2..n - 1 /\ c \in 2..n - 1
      BY <1>1, <1>6, <2>1
    <2>4. r[a] = v /\ r[a + 1] = v /\ r[c] = v
      BY SMTT(30), <1>1, <1>7, <2>2, <2>3
    <2>5. q1 = 4 * v
      <3>1. q1 = v * (4 - d) + v * d
        BY <1>6, <2>4
      <3>2. v * (4 - d) + v * d \in Int /\ 4 * v <= v * (4 - d) + v * d /\ v * (4 - d) + v * d <= 4 * v
        BY <1>6, BetweenNeighbours
      <3> QED BY <3>1, <3>2
    <2>6. q3 = 4 * v
      <3>1. CASE e = 0
        <4>1. r[c + 1] \in Int
          <5>1. c + 1 \in 1..n
            BY <1>1, <2>3
          <5> QED BY <1>1, <5>1
        <4> DEFINE y == r[c + 1]
        <4>2. q3 = v * 4 + y * 0 /\ y \in Int
          BY <1>6, <2>4, <3>1, <4>1
        <4> HIDE DEF y
        <4> QED BY <4>2
      <3>2. CASE c + 1 < n
        <4>1. c + 1 \in 1..n /\ c + 1 # z
          BY <1>1, <2>2, <2>3, <3>2
        <4>2. q3 = v * (4 - e) + v * e
          BY <1>6, <1>7, <2>4, <4>1
        <4>3. v * (4 - e) + v * e \in Int /\ 4 * v <= v * (4 - e) + v * e /\ v * (4 - e) + v * e <= 4 * v
          BY <1>6, BetweenNeighbours
        <4> QED BY <4>2, <4>3
      <3> QED BY <2>1, <3>1, <3>2
    <2>7. reach = 0
      BY <2>5, <2>6
    <2> HIDE DEF reach
    <2>8. x \in Inside(cs, q1, q3) => 8 * v <= 8 * u /\ 8 * u <= 8 * v
      BY <1>3, <2>5, <2>6, <2>7
    <2> QED BY <1>5, <1>8, <2>8
  <1> QED BY <1>1, <1>4, <1>9, <1>10

\* The lowest and the highest price.
LEMMA PriceRange ==
    ASSUME NEW cs, NEW lo, NEW hi, Priced(cs, lo, hi)
    PROVE  Priced(cs, Min(PricesIn(cs)), Max(PricesIn(cs)))
  <1> DEFINE n == Len(cs)
             r == SortedUp(Prices(cs))
             S == PricesIn(cs)
             a == Min(S)
             b == Max(S)
  <1>1. /\ n \in Nat \ {0} /\ DOMAIN cs = 1..n
        /\ \A i, j \in 1..n : i <= j => r[i] <= r[j]
    BY PricesSorted
  <1>2. PICK at \in [1..Len(cs) -> 1..Len(cs)] :
               /\ \A i \in 1..Len(cs) : SortedUp(Prices(cs))[i] = cs[at[i]].price
               /\ \A i \in 1..Len(cs) : \E j \in 1..Len(cs) : at[j] = i
               /\ \A i, j \in 1..Len(cs) : i # j => at[i] # at[j]
    BY PricesPlaced
  <1> HIDE DEF r, n
  <1>3. 1 \in 1..n /\ n \in 1..n
    BY <1>1
  <1>4. ASSUME NEW j \in 1..n PROVE r[j] \in S
    BY <1>1, <1>2 DEF n, r, PricesIn
  <1>5. ASSUME NEW y \in S PROVE r[1] <= y /\ y <= r[n]
    <2>1. PICK i \in 1..n : y = cs[i].price
      BY <1>1 DEF PricesIn
    <2>2. PICK j \in 1..n : at[j] = i
      BY <1>2 DEF n
    <2>3. y = r[j]
      BY <1>2, <2>1, <2>2 DEF n, r
    <2>4. 1 <= j /\ j <= n
      BY <1>1
    <2> QED BY <1>1, <1>3, <2>3, <2>4
  <1>6. a \in S /\ \A y \in S : a <= y
    <2>1. \E m \in S : \A y \in S : m <= y
      BY <1>3, <1>4, <1>5
    <2> HIDE DEF S
    <2> QED BY <2>1 DEF Min
  <1>7. b \in S /\ \A y \in S : b >= y
    <2>1. r[n] \in S
      BY <1>3, <1>4
    <2>2. ASSUME NEW y \in S PROVE r[n] >= y
      <3>1. y \in Int /\ r[n] \in Int
        BY <2>1 DEF PricesIn, Priced
      <3> QED BY <1>5, <3>1
    <2> HIDE DEF S
    <2> QED BY <2>1, <2>2 DEF Max
  <1>8. S \subseteq Int /\ \A i \in DOMAIN cs : cs[i].price \in S
    BY DEF PricesIn, Priced
  <1>9. \A i \in DOMAIN cs : a <= cs[i].price /\ cs[i].price <= b
    <2> HIDE DEF a, b, S
    <2> TAKE i \in DOMAIN cs
    <2>1. cs[i].price \in S /\ cs[i].price \in Int /\ b \in Int
      BY <1>7, <1>8
    <2> QED BY <1>6, <1>7, <2>1
  <1> HIDE DEF a, b, S
  <1> QED BY <1>6, <1>7, <1>8, <1>9 DEF Priced, a, b, S

\* Without it, the kept prices are all alike.
LEMMA StrayIgnored ==
    ASSUME NEW cs, NEW lo, NEW hi, Priced(cs, lo, hi), NEW v \in PricesIn(cs),
           Cardinality(Others(cs, v)) = 1, Len(cs) >= 6, TwiceMultiplier \in 1..5
    PROVE  Priced(RemoveOutliers(cs), v, v)
  <1> DEFINE r == SortedUp(Prices(cs))
             I == Inside(cs, Quartile(r, 1), Quartile(r, 3))
             kept == RemoveOutliers(cs)
  <1>1. PICK x : Others(cs, v) = {x}
    <2>1. IsFiniteSet(DOMAIN cs)
      BY ListParts DEF Priced
    <2>2. IsFiniteSet(Others(cs, v))
      BY <2>1, FS_Subset DEF Others
    <2> QED BY <2>2, FS_Singleton
  <1>2. v \in Int
    BY DEF PricesIn, Priced
  <1>3. x \in DOMAIN cs /\ \A i \in DOMAIN cs : cs[i].price # v <=> i = x
    BY <1>1 DEF Others
  <1>4. x \notin I
    BY <1>2, <1>3, StrayOutside
  <1>5. Len(cs) \in Nat /\ Len(cs) >= 4 /\ TwiceMultiplier > 0
    <2>1. Len(cs) \in Nat
      BY ListParts DEF Priced
    <2> QED BY <2>1
  <1>6. kept = Picked(cs, I)
    BY <1>5, FencedIn
  <1>7. IsList(cs) /\ I \in SUBSET DOMAIN cs
    BY DEF Inside, Priced
  <1>8. Priced(kept, lo, hi)
    BY OutliersLeaveSome
  <1> HIDE DEF I, kept
  <1>9. /\ IsList(kept)
        /\ \E at \in [1..Len(kept) -> I] : \A j \in 1..Len(kept) : kept[j] = cs[at[j]]
    BY <1>6, <1>7, PickedElements
  <1>10. DOMAIN kept = 1..Len(kept)
    BY <1>9, ListParts
  <1>11. \A j \in DOMAIN kept : \E i \in I : kept[j] = cs[i]
    BY <1>9, <1>10
  <1>12. \A i \in I : cs[i].price = v
    BY <1>3, <1>4, <1>7
  <1>13. \A j \in DOMAIN kept : kept[j].price = v
    BY <1>11, <1>12
  <1>14. v <= v
    BY <1>2
  <1> QED BY <1>2, <1>8, <1>13, <1>14 DEF Priced, kept

\* Factors keep an order.
LEMMA OrderTimes ==
    ASSUME NEW w \in Nat, NEW a \in Int, NEW b \in Int, a <= b
    PROVE  w * a <= w * b
  <1> DEFINE d == b - a
  <1>1. d \in Nat /\ b = a + d
    OBVIOUS
  <1> HIDE DEF d
  <1>2. w * b = w * a + w * d /\ w * d \in Nat /\ w * a \in Int
    BY <1>1
  <1> QED BY <1>2

\* What a quotient is.
LEMMA Quotient ==
    ASSUME NEW y \in Int, NEW m \in Nat \ {0}
    PROVE  LET c == y \div m IN c \in Int /\ m * c <= y /\ y < m * (c + 1)
  <1>1. y \div m \in Int /\ y = m * (y \div m) + (y % m) /\ (y % m) \in 0..m - 1
    OBVIOUS
  <1> DEFINE c == y \div m
             p == m * c
  <1>2. p \in Int /\ m * (c + 1) = p + m
    BY <1>1
  <1> HIDE DEF c, p
  <1>3. y = p + (y % m)
    BY <1>1 DEF c, p
  <1> QED BY <1>1, <1>2, <1>3 DEF c, p

\* Rounding does not leave bounds that are whole cents.
LEMMA CentsWithin ==
    ASSUME NEW f, NEW lo \in Int, NEW hi \in Int, Within(f, lo, hi)
    PROVE  InCents(f) \in Int /\ lo <= InCents(f) /\ InCents(f) <= hi
  <1> DEFINE x == f[1]
             d == f[2]
             c == InCents(f)
             m == 2 * d
             y == 2 * x + d
  <1>1. x \in Int /\ d \in Nat \ {0} /\ lo * d <= x /\ x <= hi * d
    BY DEF Within
  <1>2. c = y \div m
    BY DEF InCents
  <1> HIDE DEF x, d, c
  <1>3. y \in Int /\ m \in Nat \ {0}
    BY <1>1
  <1>4. c \in Int /\ m * c <= y /\ y < m * (c + 1)
    <2> HIDE DEF y, m
    <2> QED BY <1>2, <1>3, Quotient
  <1>5. lo <= c
    <2> SUFFICES ASSUME c + 1 <= lo PROVE FALSE
      BY <1>4
    <2>1. m * (c + 1) <= m * lo
      BY <1>3, <1>4, OrderTimes
    <2>2. m * lo = 2 * (lo * d)
      BY <1>1
    <2>3. lo * d \in Int /\ m * (c + 1) \in Int
      BY <1>1, <1>3, <1>4
    <2> QED BY <1>1, <1>4, <2>1, <2>2, <2>3
  <1>6. c <= hi
    <2> SUFFICES ASSUME hi + 1 <= c PROVE FALSE
      BY <1>4
    <2>1. m * (hi + 1) <= m * c
      BY <1>3, <1>4, OrderTimes
    <2>2. m * (hi + 1) = 2 * (hi * d) + 2 * d
      BY <1>1
    <2>3. hi * d \in Int /\ m * c \in Int
      BY <1>1, <1>3, <1>4
    <2> QED BY <1>1, <1>4, <2>1, <2>2, <2>3
  <1> QED BY <1>4, <1>5, <1>6 DEF c

\* Comparables with prices and similarities.
Comparables(cs) ==
    /\ IsList(cs) /\ cs # <<>>
    /\ \A i \in DOMAIN cs : cs[i].price \in Int /\ cs[i].similarity \in Int

\* They have their prices between some two numbers.
LEMMA SomeRange ==
    ASSUME NEW cs, Comparables(cs)
    PROVE  Priced(cs, Min(PricesIn(cs)), Max(PricesIn(cs)))
  <1> DEFINE s == Prices(cs)
             r == SortedUp(s)
             n == Len(cs)
  <1>1. DOMAIN s = DOMAIN cs /\ s = [i \in DOMAIN cs |-> s[i]] /\ \A i \in DOMAIN cs : s[i] = cs[i].price
    BY DEF Prices, Mapped
  <1> HIDE DEF s
  <1>2. IsList(s) /\ Len(s) = n /\ DOMAIN s = 1..n /\ DOMAIN cs = 1..n /\ n \in Nat
    BY <1>1, MappedElements DEF Comparables
  <1>3. n # 0
    BY DEF Comparables, IsList
  <1>4. \A i \in DOMAIN s : s[i] = cs[i].price /\ s[i] \in Int
    BY <1>1 DEF Comparables
  <1>5. /\ IsList(r) /\ Len(r) = Len(s)
        /\ \A i, j \in 1..Len(s) : i <= j => r[i] <= r[j]
        /\ \E at \in [1..Len(s) -> 1..Len(s)] :
               /\ \A i \in 1..Len(s) : r[i] = s[at[i]]
               /\ \A i \in 1..Len(s) : \E j \in 1..Len(s) : at[j] = i
               /\ \A i, j \in 1..Len(s) : i # j => at[i] # at[j]
    <2>1. IsList(s) /\ \A i \in DOMAIN s : s[i] \in Int
      BY <1>2, <1>4
    <2> HIDE DEF n
    <2> QED BY ZenonT(30), <2>1, AscendingElements
  <1> HIDE DEF r, n
  <1>6. PICK at \in [1..n -> 1..n] :
               /\ \A i \in 1..n : r[i] = s[at[i]]
               /\ \A i \in 1..n : \E j \in 1..n : at[j] = i
    <2>1. PICK at \in [1..Len(s) -> 1..Len(s)] :
               /\ \A i \in 1..Len(s) : r[i] = s[at[i]]
               /\ \A i \in 1..Len(s) : \E j \in 1..Len(s) : at[j] = i
      BY <1>5
    <2>2. Len(s) = n
      BY <1>2
    <2>3. /\ at \in [1..n -> 1..n]
          /\ \A i \in 1..n : r[i] = s[at[i]]
          /\ \A i \in 1..n : \E j \in 1..n : at[j] = i
      BY <2>1, <2>2
    <2> QED BY <2>3
  <1>7. ASSUME NEW i \in 1..n PROVE r[i] \in Int
    <2>1. at[i] \in 1..n
      BY <1>6
    <2> QED BY <1>2, <1>4, <1>6, <2>1
  <1>8. 1 \in 1..n /\ n \in 1..n
    BY <1>2, <1>3
  <1>9. ASSUME NEW i \in 1..n PROVE r[1] <= cs[i].price /\ cs[i].price <= r[n]
    <2>1. PICK j \in 1..n : at[j] = i
      BY <1>6
    <2>2. cs[i].price = r[j]
      BY <1>2, <1>4, <1>6, <2>1
    <2>3. 1 <= j /\ j <= n
      BY <1>2
    <2> QED BY <1>2, <1>5, <1>8, <2>2, <2>3
  <1>10. Priced(cs, r[1], r[n])
    BY <1>2, <1>7, <1>8, <1>9 DEF Priced, Comparables
  <1> QED BY <1>10, PriceRange

\* Whatever the strategy and the settings, an estimate is made from at least
\* half of the comparables and lies, in cents, between the lowest and the
\* highest of their prices (PriceEstimator.estimate).
THEOREM EstimateIsWithin ==
    ASSUME NEW cs, Comparables(cs), NEW strategy \in Strategies
    PROVE  LET estimate == EstimateFrom(cs, strategy)
           IN  /\ estimate.status = "ESTIMATED"
               /\ 2 * Len(estimate.kept) >= Len(cs) /\ ToSet(estimate.kept) \subseteq ToSet(cs)
               /\ Min(PricesIn(cs)) <= estimate.price /\ estimate.price <= Max(PricesIn(cs))
  <1> DEFINE kept == RemoveOutliers(cs)
             lo == Min(PricesIn(cs))
             hi == Max(PricesIn(cs))
             estimate == EstimateFrom(cs, strategy)
  <1>1. /\ estimate.status = "ESTIMATED" /\ estimate.kept = kept
        /\ estimate.price = InCents(Aggregate(kept, strategy))
    BY DEF EstimateFrom, Comparables
  <1>2. Priced(cs, lo, hi)
    BY SomeRange
  <1> HIDE DEF lo, hi, estimate
  <1>3. /\ Priced(kept, lo, hi) /\ ToSet(kept) \subseteq ToSet(cs)
        /\ 2 * Len(kept) >= Len(cs)
    BY <1>2, OutliersLeaveSome, OutliersKeepHalf
  <1> HIDE DEF kept
  <1>4. Within(Aggregate(kept, strategy), lo, hi)
    BY <1>3, AggregateWithin
  <1>5. lo \in Int /\ hi \in Int
    BY <1>2 DEF Priced
  <1>6. lo <= estimate.price /\ estimate.price <= hi
    BY <1>1, <1>4, <1>5, CentsWithin
  <1> QED BY <1>1, <1>3, <1>6 DEF lo, hi, estimate

\* With the multiplier of Tukey's fence below three (its default is 1.5), from
\* six comparables on a lone stray price does not move the estimate.
THEOREM EstimateIsGrounded ==
    ASSUME NEW cs, Comparables(cs), NEW strategy \in Strategies, TwiceMultiplier \in 1..5
    PROVE  Grounded(cs, EstimateFrom(cs, strategy))
  <1> DEFINE kept == RemoveOutliers(cs)
             estimate == EstimateFrom(cs, strategy)
  <1>1. /\ 2 * Len(estimate.kept) >= Len(cs)
        /\ Min(PricesIn(cs)) <= estimate.price /\ estimate.price <= Max(PricesIn(cs))
    BY EstimateIsWithin
  <1>2. estimate.price = InCents(Aggregate(kept, strategy))
    BY DEF EstimateFrom, Comparables
  <1>3. Priced(cs, Min(PricesIn(cs)), Max(PricesIn(cs)))
    BY SomeRange
  <1> HIDE DEF estimate, kept
  <1>4. ASSUME Len(cs) >= 6, NEW v \in PricesIn(cs), Cardinality(Others(cs, v)) = 1
        PROVE  estimate.price = v
    <2>1. Priced(kept, v, v)
      BY <1>3, <1>4, StrayIgnored DEF kept
    <2>2. Within(Aggregate(kept, strategy), v, v)
      BY <2>1, AggregateWithin
    <2>3. v \in Int
      BY <2>1 DEF Priced
    <2>4. estimate.price \in Int /\ v <= estimate.price /\ estimate.price <= v
      BY <1>2, <2>2, <2>3, CentsWithin
    <2> QED BY <2>3, <2>4
  <1> QED BY <1>1, <1>4 DEF Grounded, estimate

\* A list picked from another has elements of it only.
LEMMA PickedOnly ==
    ASSUME NEW s, IsList(s), NEW I \in SUBSET DOMAIN s
    PROVE  IsList(Picked(s, I)) /\ \A e \in ToSet(Picked(s, I)) : \E i \in I : e = s[i]
  <1>1. IsList(Picked(s, I)) /\ ToSet(Picked(s, I)) = {s[i] : i \in I}
    BY PickedElements
  <1> QED BY <1>1

\* The score of a fused result is at most what its product has in full: a list
\* that was cut before the product counts nothing for it.
LEMMA FusedAtMost ==
    ASSUME NEW q, IsCollection(q.image), IsCollection(q.text),
           NEW image, Rightly(image, q.image), NEW text, Rightly(text, q.text)
    PROVE  \A e \in ToSet(Fuse(image, text)) : e.score \in Int /\ e.score <= Fused(q, e.id)
  <1> DEFINE ids == Ids(image) \o Where(Ids(text), LAMBDA p : p \notin ToSet(Ids(image)))
             f == Fuse(image, text)
  <1>1. /\ DOMAIN f = DOMAIN ids
        /\ \A i \in DOMAIN ids :
               /\ f[i].id = ids[i]
               /\ f[i].score = HybridWeights.image * ScoreIn(image, ids[i])
                                + HybridWeights.text * ScoreIn(text, ids[i])
    BY DEF Fuse, Mapped, ScoreIn
  <1> HIDE DEF f, ids
  <1>2. HybridWeights.image \in Nat /\ HybridWeights.text \in Nat
    BY SearchAssumption DEF HybridSettings
  <1>3. ASSUME NEW near, IsCollection(near), NEW list, Rightly(list, near), NEW p
        PROVE  ScoreIn(list, p) \in Nat /\ Sim(near, p) \in Nat /\ ScoreIn(list, p) <= Sim(near, p)
    <2>1. ScoreIn(list, p) \in Nat
      BY <1>3, ScoreFound
    <2>2. Sim(near, p) \in Nat
      BY <1>3 DEF Sim, IsCollection
    <2>3. CASE p \in ToSet(Ids(list))
      <3>1. p \in DOMAIN near /\ ScoreIn(list, p) = near[p]
        BY <1>3, <2>3, ScoreFound
      <3> QED BY <2>1, <2>2, <3>1 DEF Sim
    <2>4. CASE p \notin ToSet(Ids(list))
      BY <2>2, <2>4 DEF ScoreIn
    <2> QED BY <2>1, <2>2, <2>3, <2>4
  <1> SUFFICES ASSUME NEW e \in ToSet(f) PROVE e.score \in Int /\ e.score <= Fused(q, e.id)
    BY DEF f
  <1>4. PICK i \in DOMAIN f : e = f[i]
    BY DEF ToSet
  <1> DEFINE p == e.id
             x == ScoreIn(image, p)
             y == ScoreIn(text, p)
             u == Sim(q.image, p)
             v == Sim(q.text, p)
             wx == HybridWeights.image * x
             wy == HybridWeights.text * y
             wu == HybridWeights.image * u
             wv == HybridWeights.text * v
  <1>5. e.score = wx + wy /\ Fused(q, p) = wu + wv
    BY <1>1, <1>4 DEF Fused
  <1>6. x \in Nat /\ u \in Nat /\ x <= u /\ y \in Nat /\ v \in Nat /\ y <= v
    BY <1>3
  <1> HIDE DEF p, x, y, u, v
  <1>7. wx <= wu /\ wy <= wv
    BY <1>2, <1>6, OrderTimes
  <1>8. wx \in Int /\ wy \in Int /\ wu \in Int /\ wv \in Int
    BY <1>2, <1>6
  <1> HIDE DEF wx, wy, wu, wv
  <1> QED BY <1>5, <1>7, <1>8 DEF p

\* The search for what is like a product finds other ones, each with a score
\* no better than its image and its text together are worth.
LEMMA OthersFused ==
    ASSUME NEW q, q.has = Modalities, IsCollection(q.image), IsCollection(q.text),
           NEW target, NEW k \in Nat
    PROVE  LET r == SearchByProductId(q, target, k)
           IN  /\ IsList(r)
               /\ \A e \in ToSet(r) : /\ e.id \in (DOMAIN q.image \cup DOMAIN q.text) \ {target}
                                     /\ e.score \in Int /\ e.score <= Fused(q, e.id)
  <1> DEFINE image == Nearest(q.image, k + 1)
             text == Nearest(q.text, k + 1)
             f == Fuse(image, text)
             key == [i \in DOMAIN f |-> f[i].score]
             sorted == Rearranged(f, Ordered(DOMAIN f, key))
             I == {i \in DOMAIN sorted : sorted[i].id # target}
             others == Picked(sorted, I)
             r == SearchByProductId(q, target, k)
  <1>1. r = Take(others, k)
    BY DEF SearchByProductId, SortedDown, Where
  <1> HIDE DEF r
  <1>2. Rightly(image, q.image) /\ Rightly(text, q.text)
    <2>1. k + 1 \in Nat
      OBVIOUS
    <2> QED BY <2>1, NearestRightly
  <1> HIDE DEF image, text
  <1>3. /\ IsList(f) /\ \A j \in DOMAIN f : f[j].score \in Int
        /\ \A j \in DOMAIN f : f[j].id \in DOMAIN q.image \cup DOMAIN q.text
        /\ \A e \in ToSet(f) : e.score \in Int /\ e.score <= Fused(q, e.id)
    BY <1>2, FusedRightly, FusedIds, FusedAtMost
  <1> HIDE DEF f
  <1>4. \A i \in DOMAIN f : key[i] \in Int
    BY <1>3
  <1> HIDE DEF key
  <1>5. IsList(sorted) /\ ToSet(sorted) = ToSet(f)
    BY <1>3, <1>4, SortedElements
  <1> HIDE DEF sorted
  <1>6. IsList(others) /\ \A e \in ToSet(others) : \E i \in I : e = sorted[i]
    <2>1. I \in SUBSET DOMAIN sorted
      OBVIOUS
    <2> HIDE DEF I
    <2> QED BY <1>5, <2>1, PickedOnly
  <1>7. \A e \in ToSet(others) : e \in ToSet(f) /\ e.id # target
    BY <1>5, <1>6 DEF ToSet
  <1> HIDE DEF others, I
  <1>8. IsList(r) /\ \A i \in 1..Len(r) : r[i] = others[i]
    BY <1>1, <1>6, TakenElements
  <1>9. Len(r) <= Len(others) /\ Len(others) \in Nat
    <2>1. Len(r) = Smaller(k, Len(others)) /\ Len(others) \in Nat
      BY <1>1, <1>6, TakenElements, ListParts
    <2> QED BY <2>1 DEF Smaller
  <1>10. \A e \in ToSet(r) : e \in ToSet(others)
    <2> TAKE e \in ToSet(r)
    <2>1. PICK i \in 1..Len(r) : r[i] = e
      BY <1>8, ListParts
    <2>2. i \in 1..Len(others)
      BY <1>9, <2>1
    <2> QED BY <1>6, <1>8, <2>1, <2>2, ListParts
  <1>11. \A e \in ToSet(f) : e.id \in DOMAIN q.image \cup DOMAIN q.text
    BY <1>3 DEF ToSet
  <1> QED BY <1>3, <1>7, <1>8, <1>10, <1>11 DEF r

\* What prices are made from was found, has a price, is of the category, if
\* that counts and is known, and is similar enough.
LEMMA RelevantOnly ==
    ASSUME NEW results, IsList(results), NEW catalog, NEW category,
           \A r \in ToSet(results) : r.score \in Int /\ catalog[r.id].price \in Int
    PROVE  LET cs == Relevant(ToComparables(results, catalog), category)
           IN  /\ IsList(cs)
               /\ \A c \in ToSet(cs) :
                      /\ c.price \in Int /\ c.similarity \in Int
                      /\ \E r \in ToSet(results) : /\ c.id = r.id /\ c.similarity = r.score
                                                   /\ c.category = catalog[r.id].category
                      /\ c.similarity >= SimilarityFloor
                      /\ RestrictCategory => category = Absent \/ Fold(c.category) = Fold(category)
  <1> DEFINE all == Mapped(results, LAMBDA r : [id |-> r.id, similarity |-> r.score,
                                                price |-> catalog[r.id].price,
                                                category |-> catalog[r.id].category])
             priced == {i \in DOMAIN all : all[i].price > 0}
             found == Picked(all, priced)
             I == {i \in DOMAIN found :
                       /\ ~(/\ RestrictCategory /\ category # Absent
                            /\ Fold(found[i].category) # Fold(category))
                       /\ found[i].similarity >= SimilarityFloor}
             cs == Relevant(ToComparables(results, catalog), category)
  <1>1. ToComparables(results, catalog) = found
    BY DEF ToComparables, Where
  <1>2. cs = Picked(found, I)
    <2> HIDE DEF found
    <2> QED BY <1>1 DEF Relevant, Where
  <1> HIDE DEF cs
  <1>3. /\ DOMAIN all = DOMAIN results /\ all = [i \in DOMAIN results |-> all[i]]
        /\ \A i \in DOMAIN results :
               /\ all[i].id = results[i].id /\ all[i].similarity = results[i].score
               /\ all[i].price = catalog[results[i].id].price
               /\ all[i].category = catalog[results[i].id].category
    BY DEF Mapped
  <1> HIDE DEF all
  <1>4. IsList(all)
    BY <1>3, MappedElements
  <1>5. IsList(found) /\ \A e \in ToSet(found) : \E i \in priced : e = all[i]
    <2>1. priced \in SUBSET DOMAIN all
      OBVIOUS
    <2> HIDE DEF priced
    <2> QED BY <1>4, <2>1, PickedOnly
  <1> HIDE DEF found
  <1>6. IsList(cs) /\ \A e \in ToSet(cs) : \E i \in I : e = found[i]
    <2>1. I \in SUBSET DOMAIN found
      OBVIOUS
    <2> HIDE DEF I
    <2> QED BY <1>2, <1>5, <2>1, PickedOnly
  <1>7. ASSUME NEW c \in ToSet(cs)
        PROVE  /\ c.price \in Int /\ c.similarity \in Int
               /\ \E r \in ToSet(results) : /\ c.id = r.id /\ c.similarity = r.score
                                            /\ c.category = catalog[r.id].category
               /\ c.similarity >= SimilarityFloor
               /\ RestrictCategory => category = Absent \/ Fold(c.category) = Fold(category)
    <2>1. PICK i \in I : c = found[i]
      BY <1>6
    <2>2. /\ c.similarity >= SimilarityFloor
          /\ RestrictCategory => category = Absent \/ Fold(c.category) = Fold(category)
      BY <2>1
    <2>3. c \in ToSet(found)
      BY <2>1 DEF ToSet
    <2>4. PICK j \in DOMAIN all : c = all[j]
      BY <1>5, <2>3
    <2>5. j \in DOMAIN results /\ results[j] \in ToSet(results)
      BY <1>3, <2>4 DEF ToSet
    <2>6. /\ c.id = results[j].id /\ c.similarity = results[j].score
          /\ c.price = catalog[results[j].id].price /\ c.category = catalog[results[j].id].category
      BY <1>3, <2>4, <2>5
    <2> HIDE DEF I
    <2> QED BY <2>2, <2>5, <2>6
  <1> QED BY <1>6, <1>7 DEF cs

\* The price of a stored product is made from other products of its category,
\* where that is asked for, whose image and text together are similar enough,
\* however few results the search asks for (estimate_for_product).
THEOREM OwnPriceIsRelevant ==
    ASSUME NEW q, q.has = Modalities, IsCollection(q.image), IsCollection(q.text),
           NEW target, NEW k \in Nat, NEW strategy \in Strategies, RestrictCategory,
           NEW catalog, \A p \in DOMAIN q.image \cup DOMAIN q.text \cup {target} :
                            catalog[p].price \in Int /\ Fold(catalog[p].category) = catalog[p].category
    PROVE  \A c \in ToSet(EstimateForProduct(q, target, catalog, k, strategy).kept) :
               /\ c.id \in (DOMAIN q.image \cup DOMAIN q.text) \ {target}
               /\ Fused(q, c.id) >= SimilarityFloor
               /\ catalog[target].category \in {Absent, catalog[c.id].category}
  <1> DEFINE found == SearchByProductId(q, target, k)
             own == catalog[target].category
             cs == Relevant(ToComparables(found, catalog), own)
             estimate == EstimateForProduct(q, target, catalog, k, strategy)
  <1>1. estimate = EstimateFrom(cs, strategy)
    BY DEF EstimateForProduct, Estimate
  <1>2. /\ IsList(found)
        /\ \A e \in ToSet(found) : /\ e.id \in (DOMAIN q.image \cup DOMAIN q.text) \ {target}
                                  /\ e.score \in Int /\ e.score <= Fused(q, e.id)
    BY OthersFused
  <1> HIDE DEF found, estimate
  <1>3. \A r \in ToSet(found) : r.score \in Int /\ catalog[r.id].price \in Int
    BY <1>2
  <1>4. /\ IsList(cs)
        /\ \A c \in ToSet(cs) :
               /\ c.price \in Int /\ c.similarity \in Int
               /\ \E r \in ToSet(found) : /\ c.id = r.id /\ c.similarity = r.score
                                          /\ c.category = catalog[r.id].category
               /\ c.similarity >= SimilarityFloor
               /\ RestrictCategory => own = Absent \/ Fold(c.category) = Fold(own)
    <2> HIDE DEF own
    <2> QED BY <1>2, <1>3, RelevantOnly
  <1> HIDE DEF cs
  <1>5. ToSet(estimate.kept) \subseteq ToSet(cs)
    <2>1. CASE cs = <<>>
      <3>1. estimate.kept = <<>>
        BY <1>1, <2>1 DEF EstimateFrom
      <3> QED BY <3>1 DEF ToSet
    <2>2. CASE cs # <<>>
      <3>1. Comparables(cs)
        BY <1>4, <2>2 DEF Comparables, ToSet
      <3>2. ToSet(EstimateFrom(cs, strategy).kept) \subseteq ToSet(cs)
        BY <3>1, EstimateIsWithin
      <3> QED BY <1>1, <3>2
    <2> QED BY <2>1, <2>2
  <1>6. ASSUME NEW c \in ToSet(cs)
        PROVE  /\ c.id \in (DOMAIN q.image \cup DOMAIN q.text) \ {target}
               /\ Fused(q, c.id) >= SimilarityFloor
               /\ own \in {Absent, catalog[c.id].category}
    <2>1. PICK r \in ToSet(found) : /\ c.id = r.id /\ c.similarity = r.score
                                    /\ c.category = catalog[r.id].category
      BY <1>4
    <2>2. /\ c.id \in (DOMAIN q.image \cup DOMAIN q.text) \ {target}
          /\ c.similarity \in Int /\ c.similarity <= Fused(q, c.id)
      BY <1>2, <2>1
    <2>3. own = Absent \/ Fold(c.category) = Fold(own)
      BY <1>4
    <2>4. Fold(own) = own /\ Fold(c.category) = c.category /\ c.category = catalog[c.id].category
      BY <2>1, <2>2
    <2>5. c.similarity >= SimilarityFloor
      BY <1>4
    <2>6. Fused(q, c.id) >= SimilarityFloor
      <3>1. SimilarityFloor \in Int /\ Fused(q, c.id) \in Int
        BY PricingAssumption, SearchAssumption DEF PricingSettings, HybridSettings, Fused, Sim, IsCollection
      <3> QED BY <2>2, <2>5, <3>1
    <2> QED BY <2>2, <2>3, <2>4, <2>6
  <1> QED BY <1>5, <1>6 DEF estimate, own

\* What is stored has a category that comparing leaves alone, and its price.
LEMMA StoredFolded ==
    ASSUME NEW d \in Typed
    PROVE  Stored(d).price \in Int /\ Fold(Stored(d).category) = Stored(d).category
  <1>1. {"brand", "category", "price"} \subseteq DOMAIN d /\ d.category \in MaybeTexts /\ d.price \in Nat
    BY TypedTexts
  <1>2. Stored(d).price = d.price /\ Stored(d).category = NormalizeFacet(d.category)
    BY <1>1 DEF Stored
  <1>3. CASE d.category = Absent
    BY <1>1, <1>2, <1>3 DEF NormalizeFacet, Fold
  <1>4. CASE d.category # Absent
    <2>1. Stored(d).category = Text(d.category.key, IF d.category.key \in SeveralWords THEN "slug" ELSE "folded")
      BY <1>2, <1>4 DEF NormalizeFacet
    <2>2. Stored(d).category.form # "typed"
      BY <2>1 DEF Text
    <2> QED BY <1>1, <1>2, <2>2 DEF Fold
  <1> QED BY <1>3, <1>4

\* What is near p4, and what the catalog of a case holds.
LEMMA NearCollected ==
    ASSUME NEW near \in [Shop -> {40, 90}]
    PROVE  IsCollection(With(p4, 100, near)) /\ DOMAIN With(p4, 100, near) = Shop \cup {p4}
  <1> DEFINE f == With(p4, 100, near)
  <1>1. DOMAIN f = Shop \cup {p4} /\ \A p \in Shop \cup {p4} : f[p] \in Nat
    BY DEF With
  <1>2. IsFiniteSet(Shop \cup {p4})
    <2>1. IsFiniteSet({p1}) /\ IsFiniteSet({p2}) /\ IsFiniteSet({p3}) /\ IsFiniteSet({p4})
      BY FS_Singleton
    <2>2. IsFiniteSet({p1} \cup {p2})
      BY <2>1, FS_Union
    <2>3. IsFiniteSet(({p1} \cup {p2}) \cup {p3})
      BY <2>1, <2>2, FS_Union
    <2>4. IsFiniteSet((({p1} \cup {p2}) \cup {p3}) \cup {p4})
      BY <2>1, <2>3, FS_Union
    <2>5. (({p1} \cup {p2}) \cup {p3}) \cup {p4} = Shop \cup {p4}
      BY DEF Shop
    <2> QED BY <2>4, <2>5
  <1> QED BY <1>1, <1>2 DEF IsCollection

\* Every product a price can be made from was stored by an ingestion.
LEMMA CatalogStored ==
    ASSUME NEW stored \in Typed, NEW stored1 \in Typed, NEW stored2 \in Typed
    PROVE  LET catalog == With(p4, Stored(stored), Catalog(stored1, stored2))
           IN  \A p \in Shop \cup {p4} : \E d \in Typed : catalog[p] = Stored(d)
  <1> DEFINE lamp == Data("lamp", Absent, Word("home decor"), Absent, 100)
  <1>1. lamp \in Typed
    BY Zenon DEF Typed
  <1> HIDE DEF lamp
  <1>2. /\ DOMAIN Catalog(stored1, stored2) = Shop
        /\ \A p \in Shop : \E d \in Typed : Catalog(stored1, stored2)[p] = Stored(d)
    BY <1>1, Zenon DEF Catalog, Shop, lamp
  <1> QED BY <1>2 DEF With

\* Of the answers of the model, where the category is to be the same and the
\* multiplier of Tukey's fence is below three, all prices are grounded.
THEOREM PricesAreGrounded ==
    ASSUME RestrictCategory, TwiceMultiplier \in 1..5
    PROVE  Spec => []PriceGrounded
  <1>1. Init => PriceGrounded
    BY DEF Init, PriceGrounded, Answer
  <1>2. PriceGrounded /\ [Next]_vars => PriceGrounded'
    <2> SUFFICES ASSUME PriceGrounded, [Next]_vars PROVE PriceGrounded'
      OBVIOUS
    <2>1. CASE UNCHANGED vars
      BY <2>1 DEF vars, PriceGrounded, Answer
    <2>2. CASE Next
      <3>1. ASSUME Answer("estimate")', case'.cs # <<>> PROVE Grounded(case'.cs, out')
        <4>1. DoEstimate
          BY <2>2, <3>1, StepOfTask DEF Answer
        <4>2. PICK n \in 0..6 : \E prices \in [1..n -> {4, 5, 40}], strategy \in Strategies :
                  Answered([cs |-> Offers(prices)], EstimateFrom(Offers(prices), strategy))
          BY <4>1, Zenon DEF DoEstimate
        <4>3. PICK prices \in [1..n -> {4, 5, 40}], strategy \in Strategies :
                  Answered([cs |-> Offers(prices)], EstimateFrom(Offers(prices), strategy))
          BY <4>2
        <4> DEFINE cs == Offers(prices)
        <4>4. case'.cs = cs /\ out' = EstimateFrom(cs, strategy)
          BY <4>3 DEF Answered
        <4>5. /\ DOMAIN cs = 1..n /\ cs = [i \in 1..n |-> cs[i]]
              /\ \A i \in 1..n : cs[i].price = prices[i] /\ cs[i].similarity = 6000 + 1000 * (i % 2)
          BY DEF Offers
        <4> HIDE DEF cs
        <4>6. \A i \in 1..n : prices[i] \in Int /\ i % 2 \in Int
          <5>1. \A i \in 1..n : i % 2 \in Int
            BY <4>2
          <5>2. \A i \in 1..n : prices[i] \in {4, 5, 40}
            BY <4>3
          <5>3. \A i \in 1..n : prices[i] \in Int
            BY <5>2
          <5> QED BY <5>1, <5>3
        <4>7. IsList(cs)
          <5>1. n \in Nat
            BY <4>2
          <5> QED BY <4>5, <5>1, MakesList
        <4>8. \A i \in DOMAIN cs : cs[i].price \in Int /\ cs[i].similarity \in Int
          BY <4>5, <4>6
        <4>9. Comparables(cs)
          BY <3>1, <4>4, <4>7, <4>8 DEF Comparables
        <4> QED BY <4>4, <4>9, EstimateIsGrounded
      <3>2. ASSUME Answer("priceOwn")'
            PROVE  \A c \in ToSet(out'.kept) :
                       /\ c.id # p4 /\ Fused(case'.q, c.id) >= SimilarityFloor
                       /\ case'.catalog[p4].category \in {Absent, case'.catalog[c.id].category}
        <4>1. DoPriceOwn
          BY <2>2, <3>2, StepOfTask DEF Answer
        <4>2. PICK stored \in Typed, stored1 \in Typed, stored2 \in Typed,
                   image \in [Shop -> {40, 90}], text \in [Shop -> {40, 90}], k \in 1..2 :
                 LET q == [has |-> Modalities, image |-> With(p4, 100, image), text |-> With(p4, 100, text)]
                     catalog == With(p4, Stored(stored), Catalog(stored1, stored2))
                 IN  Answered([q |-> q, catalog |-> catalog],
                              EstimateForProduct(q, p4, catalog, k, "weighted_average"))
          BY <4>1 DEF DoPriceOwn
        <4> DEFINE catalog == With(p4, Stored(stored), Catalog(stored1, stored2))
                   q == [has |-> Modalities, image |-> With(p4, 100, image), text |-> With(p4, 100, text)]
                   estimate == EstimateForProduct(q, p4, catalog, k, "weighted_average")
        <4>3. case'.q = q /\ case'.catalog = catalog /\ out' = estimate
          BY <4>2 DEF Answered
        <4>4. ASSUME NEW near \in [Shop -> {40, 90}]
              PROVE  IsCollection(With(p4, 100, near)) /\ DOMAIN With(p4, 100, near) = Shop \cup {p4}
          BY NearCollected
        <4>5. /\ q.has = Modalities /\ IsCollection(q.image) /\ IsCollection(q.text)
              /\ DOMAIN q.image \cup DOMAIN q.text \cup {p4} = Shop \cup {p4}
          BY <4>4
        <4>6. \A p \in Shop \cup {p4} : \E d \in Typed : catalog[p] = Stored(d)
          BY CatalogStored
        <4>7. \A p \in Shop \cup {p4} :
                  catalog[p].price \in Int /\ Fold(catalog[p].category) = catalog[p].category
          BY <4>6, StoredFolded
        <4>8. k \in Nat /\ "weighted_average" \in Strategies
          BY DEF Strategies
        <4> HIDE DEF q, catalog
        <4>9. \A c \in ToSet(estimate.kept) :
                   /\ c.id \in (DOMAIN q.image \cup DOMAIN q.text) \ {p4}
                   /\ Fused(q, c.id) >= SimilarityFloor
                   /\ catalog[p4].category \in {Absent, catalog[c.id].category}
          <5>1. \A p \in DOMAIN q.image \cup DOMAIN q.text \cup {p4} :
                    catalog[p].price \in Int /\ Fold(catalog[p].category) = catalog[p].category
            BY <4>5, <4>7
          <5> QED BY <4>5, <4>8, <5>1, OwnPriceIsRelevant
        <4> HIDE DEF estimate
        <4> QED BY <4>3, <4>9
      <3> QED BY <3>1, <3>2 DEF PriceGrounded, Answer
    <2> QED BY <2>1, <2>2
  <1> QED BY <1>1, <1>2, PTL DEF Spec

=============================================================================
