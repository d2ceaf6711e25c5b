------------------------------ MODULE ViewProofs ------------------------------
(***************************************************************************)
(* What the views of the client say, for every input: the gates, the two   *)
(* lifecycles of the commands, the displays, the pipelines of the frames,  *)
(* the exports and the timeline agree, each with the state it is a view of *)
(* and with the others.                                                    *)
(***************************************************************************)
EXTENDS MCClients, SequenceTheorems, FunctionTheorems, FiniteSetTheorems, WellFoundedInduction, TLAPS

-----------------------------------------------------------------------------
(* Selections: the filter and the sort                                      *)

\* A set of natural numbers has a least one.
LEMMA LeastOfNats ==
  ASSUME NEW S, S \subseteq Nat, S # {}
  PROVE  \E m \in S : \A n \in S : m <= n
<1> DEFINE lt == OpToRel(<, Nat)
<1>1. IsWellFoundedOn(lt, Nat) BY NatLessThanWellFounded
<1> HIDE DEF lt
<1>2. PICK m \in S : \A n \in S : <<n, m>> \notin lt BY <1>1, WFMin
<1> USE DEF lt
<1>3. ASSUME NEW n \in S PROVE m <= n
  <2>1. ~(n < m) BY <1>2 DEF OpToRel
  <2> QED BY <2>1
<1> QED BY <1>3

\* What is before each member of I says for each how many are: every number below
\* that of the members is said of exactly one.
Chain(I, below) ==
  /\ IsFiniteSet(I) /\ below \in [I -> SUBSET I]
  /\ \A i \in I : i \notin below[i]
  /\ \A i, j \in I : i # j => i \in below[j] \/ j \in below[i]
  /\ \A i, j \in I : i \in below[j] => below[i] \subseteq below[j]

LEMMA RanksGrow ==
  ASSUME NEW I, NEW below, Chain(I, below)
  PROVE  /\ Cardinality(I) \in Nat
         /\ \A i \in I : Cardinality(below[i]) \in 0..Cardinality(I) - 1
         /\ \A i, j \in I : i \in below[j] => Cardinality(below[i]) < Cardinality(below[j])
<1>1. IsFiniteSet(I) /\ Cardinality(I) \in Nat BY FS_CardinalityType DEF Chain
<1>2. \A T \in SUBSET I : IsFiniteSet(T) /\ Cardinality(T) \in Nat
  BY <1>1, FS_Subset, FS_CardinalityType
<1>3. ASSUME NEW A \in SUBSET I, NEW B \in SUBSET I, A \subseteq B, A # B
      PROVE  Cardinality(A) < Cardinality(B)
  <2>1. IsFiniteSet(B) /\ A \in SUBSET B BY <1>2, <1>3
  <2>2. Cardinality(A) <= Cardinality(B) /\ (Cardinality(B) = Cardinality(A) => B = A)
    BY <2>1, FS_Subset
  <2> QED BY <1>2, <1>3, <2>2
<1>4. ASSUME NEW i \in I PROVE Cardinality(below[i]) \in 0..Cardinality(I) - 1
  <2>1. below[i] \in SUBSET I /\ below[i] # I BY DEF Chain
  <2>2. Cardinality(below[i]) < Cardinality(I) BY <1>3, <2>1
  <2> QED BY <1>1, <1>2, <2>1, <2>2
<1>5. ASSUME NEW i \in I, NEW j \in I, i \in below[j]
      PROVE  Cardinality(below[i]) < Cardinality(below[j])
  <2>1. /\ below[i] \in SUBSET I /\ below[j] \in SUBSET I /\ below[i] \subseteq below[j]
        /\ below[i] # below[j]
    BY <1>5 DEF Chain
  <2> QED BY <1>3, <2>1
<1> QED BY <1>1, <1>4, <1>5

LEMMA RanksAreOnto ==
  ASSUME NEW I, NEW below, Chain(I, below)
  PROVE  \A k \in 1..Cardinality(I) :
           \E i \in I : /\ Cardinality(below[i]) = k - 1
                       /\ \A j \in I : Cardinality(below[j]) = k - 1 => j = i
<1> SUFFICES ASSUME NEW k \in 1..Cardinality(I)
             PROVE  \E i \in I : /\ Cardinality(below[i]) = k - 1
                                 /\ \A j \in I : Cardinality(below[j]) = k - 1 => j = i
  OBVIOUS
<1> DEFINE n == Cardinality(I)
           rank == [i \in I |-> Cardinality(below[i])]
<1>1. IsFiniteSet(I) /\ n \in Nat BY RanksGrow DEF Chain
<1>2. rank \in [I -> 0..n - 1] BY RanksGrow
<1>3. \A i, j \in I : rank[i] = rank[j] => i = j
  <2> SUFFICES ASSUME NEW i \in I, NEW j \in I, rank[i] = rank[j], i # j PROVE FALSE OBVIOUS
  <2>1. i \in below[j] \/ j \in below[i] BY DEF Chain
  <2>2. Cardinality(below[i]) \in Int /\ Cardinality(below[j]) \in Int BY RanksGrow
  <2>3. Cardinality(below[i]) = Cardinality(below[j]) OBVIOUS
  <2> QED BY <2>1, <2>2, <2>3, RanksGrow
<1>4. IsFiniteSet(0..n - 1) /\ Cardinality(0..n - 1) = n
  <2>1. 0 \in Int /\ n - 1 \in Int BY <1>1
  <2> HIDE DEF n
  <2> QED BY <1>1, <2>1, FS_Interval
<1> HIDE DEF n
<1>5. rank \in Injection(I, 0..n - 1)
  <2> HIDE DEF rank
  <2> QED BY <1>2, <1>3, Fun_IsInj
<1>6. rank \in Surjection(I, 0..n - 1)
  <2> HIDE DEF rank
  <2> QED BY <1>1, <1>4, <1>5, FS_Injection DEF n
<1>7. \A x \in 0..n - 1 : \E i \in I : rank[i] = x
  <2> HIDE DEF rank
  <2> QED BY ONLY <1>6, Zenon DEF Surjection
<1>8. k - 1 \in 0..n - 1 BY <1>1 DEF n
<1>9. PICK i \in I : rank[i] = k - 1 BY <1>7, <1>8
<1> QED BY <1>3, <1>9

\* The members, from the one nothing is before.
Ordered(I, below) == [k \in 1..Cardinality(I) |-> CHOOSE i \in I : Cardinality(below[i]) = k - 1]

LEMMA OrderedFacts ==
  ASSUME NEW I, NEW below, Chain(I, below), NEW at, at = Ordered(I, below), NEW n, n = Cardinality(I)
  PROVE  /\ n \in Nat /\ at \in [1..n -> I]
         /\ \A k \in 1..n : Cardinality(below[at[k]]) = k - 1
         /\ \A i \in I : \E k \in 1..n : at[k] = i
         /\ \A k, l \in 1..n : k < l => at[k] \in below[at[l]]
<1>1. n \in Nat BY RanksGrow
<1>2. ASSUME NEW k \in 1..n
      PROVE  /\ at[k] \in I /\ Cardinality(below[at[k]]) = k - 1
             /\ \A j \in I : Cardinality(below[j]) = k - 1 => j = at[k]
  <2>1. PICK i \in I : /\ Cardinality(below[i]) = k - 1
                       /\ \A j \in I : Cardinality(below[j]) = k - 1 => j = i
    BY RanksAreOnto
  <2>2. at[k] = CHOOSE j \in I : Cardinality(below[j]) = k - 1 BY DEF Ordered
  <2> QED BY <2>1, <2>2
<1>3. at \in [1..n -> I] BY <1>2 DEF Ordered
<1>4. ASSUME NEW i \in I PROVE \E k \in 1..n : at[k] = i
  <2> DEFINE k == Cardinality(below[i]) + 1
  <2>1. k \in 1..n /\ Cardinality(below[i]) = k - 1 BY <1>1, RanksGrow
  <2> QED BY <1>2, <2>1
<1>5. ASSUME NEW k \in 1..n, NEW l \in 1..n, k < l PROVE at[k] \in below[at[l]]
  <2>1. at[k] \in I /\ at[l] \in I /\ Cardinality(below[at[k]]) = k - 1 /\ Cardinality(below[at[l]]) = l - 1
    BY <1>2
  <2>2. at[k] # at[l] BY <1>1, <1>5, <2>1
  <2>3. at[k] \in below[at[l]] \/ at[l] \in below[at[k]] BY <2>1, <2>2 DEF Chain
  <2>4. at[l] \in below[at[k]] => l - 1 < k - 1 BY <2>1, RanksGrow
  <2> QED BY <1>1, <1>5, <2>3, <2>4
<1> QED BY <1>1, <1>2, <1>3, <1>4, <1>5

IsRanked(I, below, at, n) ==
  /\ \A k \in 1..n : Cardinality(below[at[k]]) = k - 1
  /\ \A i \in I : \E k \in 1..n : at[k] = i

LEMMA OrderedRanks ==
  ASSUME NEW I, NEW below, Chain(I, below), NEW at, at = Ordered(I, below), NEW n, n = Cardinality(I)
  PROVE  IsRanked(I, below, at, n)
BY OrderedFacts DEF IsRanked

\* The places of a selection, from the first to the last.
Places(I) == InOrder(I, LAMBDA j, i : j < i)
Lower(I) == [i \in I |-> {j \in I : j < i}]

LEMMA LowerIsChain ==
  ASSUME NEW I, IsFiniteSet(I), I \subseteq Int
  PROVE  Chain(I, Lower(I)) /\ Places(I) = Ordered(I, Lower(I))
<1>1. Lower(I) \in [I -> SUBSET I] BY DEF Lower
<1>2. \A i \in I : Lower(I)[i] = {j \in I : j < i} BY DEF Lower
<1>3. \A i \in I : i \notin Lower(I)[i] BY <1>2
<1>4. \A i, j \in I : i # j => i \in Lower(I)[j] \/ j \in Lower(I)[i] BY <1>2
<1>5. ASSUME NEW i \in I, NEW j \in I, i \in Lower(I)[j] PROVE Lower(I)[i] \subseteq Lower(I)[j]
  <2>1. i < j BY <1>2, <1>5
  <2>2. \A x \in I : x < i => x < j BY <2>1
  <2> QED BY <1>2, <2>2
<1>6. Chain(I, Lower(I)) BY <1>1, <1>3, <1>4, <1>5 DEF Chain
<1>7. Places(I) = Ordered(I, Lower(I))
  <2>1. Places(I) = [k \in 1..Cardinality(I) |-> CHOOSE i \in I : Cardinality({j \in I : j < i}) = k - 1]
    BY DEF Places, InOrder
  <2>2. \A k \in 1..Cardinality(I) : (CHOOSE i \in I : Cardinality({j \in I : j < i}) = k - 1)
                                      = (CHOOSE i \in I : Cardinality(Lower(I)[i]) = k - 1)
    BY <1>2
  <2> QED BY <2>1, <2>2 DEF Ordered
<1> QED BY <1>6, <1>7

\* An increasing list of all members.
Enumerates(f, m, I) ==
  /\ m \in Nat /\ I \subseteq Int
  /\ f \in [1..m -> I]
  /\ \A i \in I : \E k \in 1..m : f[k] = i
  /\ \A k, l \in 1..m : k < l => f[k] < f[l]

LEMMA PlacesFacts ==
  ASSUME NEW I, IsFiniteSet(I), I \subseteq Int
  PROVE  Cardinality(I) \in Nat /\ Enumerates(Places(I), Cardinality(I), I)
<1> DEFINE at == Places(I)
           n == Cardinality(I)
<1>1. Chain(I, Lower(I)) /\ at = Ordered(I, Lower(I)) BY LowerIsChain
<1> HIDE DEF at
<1>2. /\ n \in Nat /\ at \in [1..n -> I]
      /\ \A i \in I : \E k \in 1..n : at[k] = i
      /\ \A k, l \in 1..n : k < l => at[k] \in Lower(I)[at[l]]
  BY <1>1, OrderedFacts
<1>3. \A i, j \in I : i \in Lower(I)[j] => i < j BY DEF Lower
<1>4. \A k, l \in 1..n : k < l => at[k] < at[l] BY <1>2, <1>3
<1> QED BY <1>2, <1>4 DEF at, Enumerates

\* There is no other.
LEMMA ListsUnique ==
  ASSUME NEW I, NEW m, NEW f, Enumerates(f, m, I)
  PROVE  IsFiniteSet(I) /\ Cardinality(I) = m /\ Places(I) = f
<1>0. m \in Nat /\ I \subseteq Int BY DEF Enumerates
<1> USE <1>0
<1>1. f \in [1..m -> I] /\ (\A i \in I : \E k \in 1..m : f[k] = i)
      /\ \A k, l \in 1..m : f[k] = f[l] => k = l
  <2>1. \A k, l \in 1..m : f[k] \in Int /\ (k < l => f[k] < f[l]) BY DEF Enumerates
  <2>2. \A k, l \in 1..m : f[k] = f[l] => k = l BY <2>1
  <2> QED BY <2>2 DEF Enumerates
<1>2. ASSUME NEW n \in 0..m, NEW J, J = {f[k] : k \in 1..n}
      PROVE  IsFiniteSet(J) /\ Cardinality(J) = n
  <2> DEFINE g == [k \in 1..n |-> f[k]]
  <2>1. g \in [1..n -> J] BY <1>2
  <2>2. \A j \in J : \E k \in 1..n : g[k] = j BY <1>2
  <2>3. \A k, l \in 1..n : g[k] = g[l] => k = l BY <1>1
  <2> HIDE DEF g
  <2>4. g \in Bijection(1..n, J) BY <2>1, <2>2, <2>3, Fun_IsBij
  <2>5. ExistsBijection(1..n, J) BY <2>4 DEF ExistsBijection
  <2>6. IsFiniteSet(1..n) /\ Cardinality(1..n) = n
    <3>1. 1 \in Int /\ n \in Int OBVIOUS
    <3> QED BY <3>1, FS_Interval
  <2> QED BY <2>5, <2>6, FS_Bijection
<1>3. IsFiniteSet(I) /\ Cardinality(I) = m
  <2>1. \A i \in I : i \in {f[k] : k \in 1..m} BY <1>1
  <2>2. \A k \in 1..m : f[k] \in I BY <1>1
  <2>3. I = {f[k] : k \in 1..m} BY <2>1, <2>2
  <2>4. m \in 0..m OBVIOUS
  <2> QED BY <1>2, <2>3, <2>4
<1> DEFINE at == Places(I)
<1>4. Chain(I, Lower(I)) /\ at = Ordered(I, Lower(I)) BY <1>3, LowerIsChain
<1>5. ASSUME NEW k \in 1..m PROVE at[k] = f[k]
  <2>1. Lower(I)[f[k]] = {f[l] : l \in 1..k - 1}
    <3>1. Lower(I)[f[k]] = {j \in I : j < f[k]} BY <1>1 DEF Lower
    <3>2. \A l \in 1..k - 1 : l \in 1..m /\ f[l] \in I /\ f[l] < f[k] BY <1>1 DEF Enumerates
    <3>3. ASSUME NEW j \in I, j < f[k] PROVE j \in {f[l] : l \in 1..k - 1}
      <4>1. PICK l \in 1..m : f[l] = j BY <1>1
      <4>2. k < l => f[k] < f[l] BY DEF Enumerates
      <4>3. f[k] \in Int /\ j \in Int BY <1>1
      <4>4. l # k /\ ~(k < l) BY <3>3, <4>1, <4>2, <4>3
      <4>5. l \in 1..k - 1 BY <4>4
      <4> QED BY <4>1, <4>5
    <3> QED BY <3>1, <3>2, <3>3
  <2>2. Cardinality(Lower(I)[f[k]]) = k - 1
    <3>1. k - 1 \in 0..m OBVIOUS
    <3> QED BY <1>2, <2>1, <3>1
  <2> DEFINE below == Lower(I)
             n == Cardinality(I)
  <2>3. Chain(I, below) /\ at = Ordered(I, below) /\ n = Cardinality(I) BY <1>3, <1>4
  <2>8. m = n BY <1>3
  <2> HIDE DEF at, below, n
  <2>6. IsRanked(I, below, at, n) BY ONLY <2>3, OrderedRanks
  <2>7. \A i \in I : \E l \in 1..m : at[l] = i BY <2>6, <2>8 DEF IsRanked
  <2>4. PICK l \in 1..m : at[l] = f[k] BY <1>1, <2>7
  <2>5. l - 1 = k - 1 BY <2>2, <2>4, <2>6, <2>8 DEF IsRanked, below
  <2> QED BY <2>4, <2>5
<1>6. at \in [1..m -> I] BY <1>3, <1>4, OrderedFacts
<1>7. at = f BY <1>1, <1>5, <1>6
<1> QED BY <1>3, <1>7

IsListing(r, s, f, m) ==
  /\ DOMAIN r = 1..m /\ r = [k \in 1..m |-> r[k]]
  /\ \A k \in 1..m : r[k] = s[f[k]]

LEMMA PlacesListed ==
  ASSUME NEW s, NEW I, NEW m, NEW f, Enumerates(f, m, I)
  PROVE  IsListing(AtPlaces(s, I), s, f, m)
<1>1. Places(I) = f BY ListsUnique
<1>2. DOMAIN f = 1..m BY DEF Enumerates
<1>3. AtPlaces(s, I) = [k \in DOMAIN Places(I) |-> s[Places(I)[k]]] BY DEF AtPlaces, Places
<1>4. AtPlaces(s, I) = [k \in 1..m |-> s[f[k]]] BY <1>1, <1>2, <1>3
<1> QED BY <1>4 DEF IsListing

LEMMA SameListing ==
  ASSUME NEW r, NEW s, NEW f, NEW m, NEW q, NEW t, NEW g,
         IsListing(r, s, f, m), IsListing(q, t, g, m), \A k \in 1..m : s[f[k]] = t[g[k]]
  PROVE  r = q
<1>1. \A k \in 1..m : r[k] = q[k] BY DEF IsListing
<1>2. [k \in 1..m |-> r[k]] = [k \in 1..m |-> q[k]] BY <1>1
<1> QED BY <1>2 DEF IsListing

Within(I, n) == I \subseteq 1..n

\* A selection has an element for each place, and no other elements.
LEMMA SelectionFacts ==
  ASSUME NEW S, NEW s \in Seq(S), NEW I, Within(I, Len(s))
  PROVE  /\ IsFiniteSet(I) /\ Cardinality(I) \in Nat
         /\ Enumerates(Places(I), Cardinality(I), I)
         /\ IsListing(AtPlaces(s, I), s, Places(I), Cardinality(I))
         /\ AtPlaces(s, I) \in Seq(S) /\ Len(AtPlaces(s, I)) = Cardinality(I)
<1>1. Len(s) \in Nat /\ \A i \in 1..Len(s) : s[i] \in S BY LenProperties, ElementOfSeq
<1>2. IsFiniteSet(I) /\ I \subseteq Int
  <2>1. 1 \in Int /\ Len(s) \in Int BY <1>1
  <2>2. IsFiniteSet(1..Len(s)) BY <2>1, FS_Interval
  <2>3. I \in SUBSET (1..Len(s)) BY DEF Within
  <2>4. IsFiniteSet(I) BY <2>2, <2>3, FS_Subset
  <2> QED BY <1>1, <2>3, <2>4
<1>3. Cardinality(I) \in Nat /\ Enumerates(Places(I), Cardinality(I), I) BY <1>2, PlacesFacts
<1> DEFINE n == Cardinality(I)
           f == Places(I)
<1>4. AtPlaces(s, I) = [k \in 1..n |-> s[f[k]]]
  <2>1. DOMAIN f = 1..n BY <1>3 DEF Enumerates
  <2>2. AtPlaces(s, I) = [k \in DOMAIN f |-> s[f[k]]] BY DEF AtPlaces, Places
  <2> QED BY <2>1, <2>2
<1>5. \A k \in 1..n : s[f[k]] \in S
  <2>1. \A k \in 1..n : f[k] \in I BY <1>3 DEF Enumerates
  <2> QED BY <1>1, <2>1 DEF Within
<1> HIDE DEF n, f
<1>6. AtPlaces(s, I) \in [1..n -> S] BY <1>4, <1>5
<1>7. n \in Nat BY <1>3 DEF n
<1>8. AtPlaces(s, I) \in Seq(S) /\ Len(AtPlaces(s, I)) = n
  <2> DEFINE r == AtPlaces(s, I)
  <2>1. r \in [1..n -> S] BY <1>6
  <2> HIDE DEF r
  <2>2. r \in Seq(S) BY <1>7, <2>1
  <2>3. Len(r) = n
    <3>1. DOMAIN r = 1..n BY <2>1
    <3>2. DOMAIN r = 1..Len(r) /\ Len(r) \in Nat BY <2>2, LenProperties
    <3> QED BY <1>7, <3>1, <3>2
  <2> QED BY <2>2, <2>3 DEF r
<1>9. IsListing(AtPlaces(s, I), s, f, n) BY <1>4 DEF IsListing
<1> QED BY <1>2, <1>3, <1>8, <1>9 DEF n, f

\* The first places.
LEMMA FirstPlaces ==
  ASSUME NEW S, NEW s \in Seq(S), NEW n \in Nat, n <= Len(s)
  PROVE  AtPlaces(s, 1..n) = SubSeq(s, 1, n)
<1> DEFINE f == [k \in 1..n |-> k]
<1>1. Enumerates(f, n, 1..n) BY DEF Enumerates
<1>2. \A k \in 1..n : f[k] = k OBVIOUS
<1> HIDE DEF f
<1>3. IsListing(AtPlaces(s, 1..n), s, f, n)
  BY <1>1, PlacesListed
<1>4. AtPlaces(s, 1..n) = [k \in 1..n |-> s[k]] BY <1>2, <1>3 DEF IsListing
<1>5. SubSeq(s, 1, n) = [k \in 1..n |-> s[k]]
  <2>1. SubSeq(s, 1, n) = [k \in 1..(1 + n - 1) |-> s[k + 1 - 1]] BY DEF SubSeq
  <2>2. 1 + n - 1 = n /\ \A k \in 1..n : k + 1 - 1 = k OBVIOUS
  <2> QED BY <2>1, <2>2
<1> QED BY <1>4, <1>5

LEMMA AllPlaces ==
  ASSUME NEW S, NEW s \in Seq(S)
  PROVE  AtPlaces(s, 1..Len(s)) = s
<1>1. Len(s) \in Nat BY LenProperties
<1>2. AtPlaces(s, 1..Len(s)) = SubSeq(s, 1, Len(s)) BY <1>1, FirstPlaces
<1> QED BY <1>2, SubSeqFull

\* Selecting from a selection.
Among(f, K) == {f[k] : k \in K}

LEMMA SelectTwice ==
  ASSUME NEW s, NEW I, NEW m, NEW f, Enumerates(f, m, I), NEW K, Within(K, m)
  PROVE  AtPlaces(AtPlaces(s, I), K) = AtPlaces(s, Among(f, K))
<1> DEFINE g == Places(K)
           n == Cardinality(K)
           r == AtPlaces(s, I)
           h == [x \in 1..n |-> f[g[x]]]
           J == Among(f, K)
<1>0. m \in Nat /\ I \subseteq Int /\ K \subseteq 1..m BY DEF Enumerates, Within
<1> USE <1>0
<1>1. n \in Nat /\ Enumerates(g, n, K)
  <2> DEFINE M == 1..m
  <2>1. IsFiniteSet(M)
    <3>1. 1 \in Int /\ m \in Int OBVIOUS
    <3> QED BY <3>1, FS_Interval
  <2>2. K \in SUBSET M /\ K \subseteq Int OBVIOUS
  <2> HIDE DEF M
  <2>3. IsFiniteSet(K) BY <2>1, <2>2, FS_Subset
  <2> QED BY <2>2, <2>3, PlacesFacts
<1>2. IsListing(r, s, f, m) BY PlacesListed
<1>3. K \subseteq Int /\ J \subseteq Int
  <2>1. \A k \in K : f[k] \in Int BY DEF Enumerates
  <2>2. \A j \in J : j \in Int BY <2>1 DEF Among
  <2> HIDE DEF J
  <2> QED BY <2>2
<1> HIDE DEF g, n, r
<1>4. \A x \in 1..n : g[x] \in K /\ g[x] \in 1..m BY <1>1 DEF Enumerates
<1>5. Enumerates(h, n, J)
  <2>1. h \in [1..n -> J] BY <1>4 DEF Among
  <2>2. ASSUME NEW j \in J PROVE \E x \in 1..n : h[x] = j
    <3>1. PICK k \in K : f[k] = j BY DEF Among
    <3>2. PICK x \in 1..n : g[x] = k BY <1>1 DEF Enumerates
    <3> QED BY <3>1, <3>2
  <2>3. ASSUME NEW x \in 1..n, NEW y \in 1..n, x < y PROVE h[x] < h[y]
    <3>1. g[x] < g[y] BY <1>1, <2>3 DEF Enumerates
    <3>2. f[g[x]] < f[g[y]] BY <1>4, <3>1 DEF Enumerates
    <3> QED BY <3>2
  <2> HIDE DEF h, J
  <2> QED BY <1>1, <1>3, <2>1, <2>2, <2>3 DEF Enumerates
<1>6. IsListing(AtPlaces(r, K), r, g, n) BY <1>1, PlacesListed
<1>7. IsListing(AtPlaces(s, J), s, h, n)
  <2> HIDE DEF h, J
  <2> QED BY <1>5, PlacesListed
<1>8. \A x \in 1..n : r[g[x]] = s[h[x]]
  <2>1. \A x \in 1..n : r[g[x]] = s[f[g[x]]] BY <1>2, <1>4 DEF IsListing
  <2> QED BY <2>1
<1>9. AtPlaces(r, K) = AtPlaces(s, J)
  <2> HIDE DEF h, J
  <2> QED BY <1>6, <1>7, <1>8, SameListing
<1> QED BY <1>9 DEF r

\* A selection of a list that something was put in front of.
Behind(I) == {1} \cup {i + 1 : i \in I}

LEMMA SelectedBefore ==
  ASSUME NEW S, NEW s \in Seq(S), NEW e \in S, NEW I, Within(I, Len(s))
  PROVE  AtPlaces(<<e>> \o s, Behind(I)) = <<e>> \o AtPlaces(s, I)
<1> DEFINE n == Cardinality(I)
           f == Places(I)
           J == Behind(I)
           h == [k \in 1..n + 1 |-> IF k = 1 THEN 1 ELSE f[k - 1] + 1]
           q == <<e>> \o s
           r == AtPlaces(s, I)
<1>1. /\ n \in Nat /\ Enumerates(f, n, I)
      /\ IsListing(r, s, f, n) /\ r \in Seq(S) /\ Len(r) = n
  BY SelectionFacts
<1>2. Len(s) \in Nat BY LenProperties
<1> HIDE DEF f, n, r
<1>3. \A k \in 1..n : f[k] \in I /\ f[k] \in 1..Len(s) BY <1>1 DEF Enumerates, Within
<1>5. J \subseteq Int BY <1>2 DEF Behind, Within
<1>4. Enumerates(h, n + 1, J)
  <2>1. \A k \in 1..n + 1 : k # 1 => k - 1 \in 1..n BY <1>1
  <2>2. h \in [1..n + 1 -> J] BY <1>3, <2>1 DEF Behind
  <2>3. ASSUME NEW j \in J PROVE \E k \in 1..n + 1 : h[k] = j
    <3>1. CASE j = 1 BY <1>1, <3>1
    <3>2. CASE \E i \in I : j = i + 1
      <4>1. PICK i \in I : j = i + 1 BY <3>2
      <4>2. PICK k \in 1..n : f[k] = i BY <1>1 DEF Enumerates
      <4>3. k + 1 \in 1..n + 1 /\ k + 1 # 1 /\ k + 1 - 1 = k BY <1>1, <4>2
      <4> QED BY <4>1, <4>2, <4>3
    <3> QED BY <3>1, <3>2 DEF Behind
  <2>4. ASSUME NEW k \in 1..n + 1, NEW l \in 1..n + 1, k < l PROVE h[k] < h[l]
    <3>1. l # 1 /\ l - 1 \in 1..n BY <1>1, <2>4
    <3>2. f[l - 1] \in 1..Len(s) BY <1>3, <3>1
    <3>3. CASE k = 1 BY <1>2, <3>1, <3>2, <3>3
    <3>4. CASE k # 1
      <4>1. k - 1 \in 1..n /\ k - 1 < l - 1 BY <1>1, <2>4, <3>4
      <4>2. f[k - 1] < f[l - 1] /\ f[k - 1] \in 1..Len(s) BY <1>1, <1>3, <3>1, <4>1 DEF Enumerates
      <4> QED BY <1>2, <3>1, <3>2, <3>4, <4>2
    <3> QED BY <3>3, <3>4
  <2> HIDE DEF h, J
  <2> QED BY <1>1, <1>5, <2>2, <2>3, <2>4 DEF Enumerates
<1>6. IsListing(AtPlaces(q, J), q, h, n + 1)
  <2> HIDE DEF h, J, q
  <2> QED BY <1>4, PlacesListed
<1>7. /\ q \in Seq(S) /\ Len(q) = Len(s) + 1 /\ q[1] = e
      /\ \A i \in 1..Len(s) : q[i + 1] = s[i]
  OBVIOUS
<1>8. /\ <<e>> \o r \in Seq(S) /\ Len(<<e>> \o r) = n + 1 /\ (<<e>> \o r)[1] = e
      /\ \A i \in 1..n : (<<e>> \o r)[i + 1] = r[i]
  BY <1>1
<1>9. ASSUME NEW k \in 1..n + 1 PROVE q[h[k]] = (<<e>> \o r)[k]
  <2> HIDE DEF q
  <2>1. CASE k = 1 BY <1>7, <1>8, <2>1
  <2>2. CASE k # 1
    <3>1. k - 1 \in 1..n /\ k - 1 + 1 = k BY <1>1, <2>2
    <3>2. h[k] = f[k - 1] + 1 BY <2>2
    <3>3. q[f[k - 1] + 1] = s[f[k - 1]] BY <1>3, <1>7, <3>1
    <3>4. (<<e>> \o r)[k] = r[k - 1] BY <1>8, <3>1
    <3>5. r[k - 1] = s[f[k - 1]] BY <1>1, <3>1 DEF IsListing
    <3> HIDE DEF h
    <3> QED BY <3>2, <3>3, <3>4, <3>5
  <2> QED BY <2>1, <2>2
<1>10. <<e>> \o r = [k \in 1..n + 1 |-> (<<e>> \o r)[k]]
  <2> DEFINE x == <<e>> \o r
  <2>1. x \in Seq(S) /\ Len(x) = n + 1 BY <1>8
  <2> HIDE DEF x
  <2>2. DOMAIN x = 1..n + 1 /\ x = [i \in DOMAIN x |-> x[i]] BY <2>1, LenProperties
  <2>3. x = [k \in 1..n + 1 |-> x[k]] BY <2>2
  <2> QED BY <2>3 DEF x
<1>11. AtPlaces(q, J) = <<e>> \o r
  <2> HIDE DEF q, J, h
  <2>1. \A k \in 1..n + 1 : AtPlaces(q, J)[k] = (<<e>> \o r)[k] BY <1>6, <1>9 DEF IsListing
  <2> QED BY <1>6, <1>10, <2>1 DEF IsListing
<1> QED BY <1>11 DEF r

\* The first elements of a list.
LEMMA Beginning ==
  ASSUME NEW S, NEW s \in Seq(S), NEW n \in Nat, n <= Len(s), NEW r, r = SubSeq(s, 1, n)
  PROVE  /\ r \in Seq(S) /\ Len(r) = n /\ DOMAIN r = 1..n
         /\ \A k \in 1..n : r[k] = s[k] /\ k \in 1..Len(s)
<1>1. r = [k \in 1..n |-> s[k]]
  <2>1. SubSeq(s, 1, n) = [k \in 1..(1 + n - 1) |-> s[k + 1 - 1]] BY DEF SubSeq
  <2>2. 1 + n - 1 = n /\ \A k \in 1..n : k + 1 - 1 = k OBVIOUS
  <2> QED BY <2>1, <2>2
<1>2. \A k \in 1..n : k \in 1..Len(s) /\ s[k] \in S
  <2>1. Len(s) \in Nat BY LenProperties
  <2>2. \A k \in 1..n : k \in 1..Len(s) BY <2>1
  <2> QED BY <2>2, ElementOfSeq
<1>3. r \in [1..n -> S] BY <1>1, <1>2
<1>4. r \in Seq(S) BY <1>3
<1>5. Len(r) = n
  <2> DEFINE m == Len(r)
  <2>1. m \in Nat /\ DOMAIN r = 1..m BY <1>4, LenProperties
  <2>2. 1..m = 1..n BY <1>3, <2>1
  <2> HIDE DEF m
  <2>3. m = n BY <2>1, <2>2
  <2> QED BY <2>3 DEF m
<1> QED BY <1>1, <1>2, <1>3, <1>4, <1>5

\* A list of as many elements.
LEMMA AsLong ==
  ASSUME NEW S, NEW n \in Nat, NEW r \in [1..n -> S]
  PROVE  r \in Seq(S) /\ Len(r) = n
<1> DEFINE m == Len(r)
<1>1. r \in Seq(S) OBVIOUS
<1>2. m \in Nat /\ DOMAIN r = 1..m BY <1>1, LenProperties
<1>3. 1..m = 1..n BY <1>2
<1> HIDE DEF m
<1>4. m = n BY <1>2, <1>3
<1> QED BY <1>1, <1>4 DEF m

LEMMA OneAfter ==
  ASSUME NEW S, NEW s \in Seq(S), NEW e \in S, NEW r, r = s \o <<e>>
  PROVE  /\ r \in Seq(S) /\ Len(r) = Len(s) + 1 /\ r[Len(s) + 1] = e
         /\ \A i \in 1..Len(s) : r[i] = s[i]
<1>1. r = Append(s, e) BY AppendIsConcat
<1> QED BY <1>1, AppendProperties

-----------------------------------------------------------------------------
(* The lifecycles of the commands                                           *)

LifecycleEntry == [id : Ids, status : {"pending", "acked", "failed"}]
IdsOf(entries) == [i \in DOMAIN entries |-> entries[i].id]
PendingAt(entries) == {i \in DOMAIN entries : isPending(entries[i])}
PendingIds(entries) == AtPlaces(IdsOf(entries), PendingAt(entries))
Distinct(entries) == \A i, j \in DOMAIN entries : entries[i].id = entries[j].id => i = j
Tells(t, e) == \E j \in DOMAIN t : t[j] = e

\* After any calls the entries are of different commands that were pended, and the
\* protocol's pending ids are those of the pending entries, in their order.
Follows(t) ==
  LET client   == Dispatched(initialCommandBusState, t)
      protocol == FoldLeft(Told, initialTransportLifecycleState, t)
  IN /\ client \in [entries : Seq(LifecycleEntry), totalDispatched : Nat, totalAcked : Nat, totalFailed : Nat]
     /\ Distinct(client.entries)
     /\ \A i \in DOMAIN client.entries : Tells(t, Pending(client.entries[i].id))
     /\ protocol \in [connected : BOOLEAN, active : {"none"}, pending : Seq(Ids)]
     /\ protocol.pending = PendingIds(client.entries)
LifecycleHolds(t) == PendsOnce(t) => Follows(t)

BusFold == INSTANCE SeqInduction WITH P <- LifecycleHolds, Op <- commandBusReducer
ToldFold == INSTANCE SeqInduction WITH P <- LifecycleHolds, Op <- Told

LEMMA Dispatches ==
  ASSUME NEW base
  PROVE  /\ Dispatched(base, <<>>) = base
         /\ \A S : \A s \in Seq(S), e \in S :
              Dispatched(base, Append(s, e)) = commandBusReducer(Dispatched(base, s), e)
<1>1. \A s : BusFold!FoldLeft(commandBusReducer, base, s) = Dispatched(base, s)
  BY DEF Dispatched, FoldLeft, BusFold!FoldLeft, MapThenFoldSet, BusFold!MapThenFoldSet, Max, BusFold!Max
<1>2. /\ BusFold!FoldLeft(commandBusReducer, base, <<>>) = base
      /\ \A S : \A s \in Seq(S), e \in S :
           BusFold!FoldLeft(commandBusReducer, base, Append(s, e))
             = commandBusReducer(BusFold!FoldLeft(commandBusReducer, base, s), e)
  BY BusFold!FoldEquations
<1> QED BY <1>1, <1>2

LEMMA Tellings ==
  ASSUME NEW base
  PROVE  /\ FoldLeft(Told, base, <<>>) = base
         /\ \A S : \A s \in Seq(S), e \in S :
              FoldLeft(Told, base, Append(s, e)) = Told(FoldLeft(Told, base, s), e)
<1>1. \A s : ToldFold!FoldLeft(Told, base, s) = FoldLeft(Told, base, s)
  BY DEF FoldLeft, ToldFold!FoldLeft, MapThenFoldSet, ToldFold!MapThenFoldSet, Max, ToldFold!Max
<1>2. /\ ToldFold!FoldLeft(Told, base, <<>>) = base
      /\ \A S : \A s \in Seq(S), e \in S :
           ToldFold!FoldLeft(Told, base, Append(s, e)) = Told(ToldFold!FoldLeft(Told, base, s), e)
  BY ToldFold!FoldEquations
<1> QED BY <1>1, <1>2

LEMMA EntryFacts ==
  ASSUME NEW es \in Seq(LifecycleEntry)
  PROVE  /\ Len(es) \in Nat /\ DOMAIN es = 1..Len(es)
         /\ \A i \in 1..Len(es) : es[i] \in LifecycleEntry /\ es[i].id \in Ids
         /\ IdsOf(es) \in Seq(Ids) /\ Len(IdsOf(es)) = Len(es) /\ DOMAIN IdsOf(es) = 1..Len(es)
         /\ \A i \in 1..Len(es) : IdsOf(es)[i] = es[i].id
         /\ PendingAt(es) \subseteq 1..Len(es)
<1>1. Len(es) \in Nat /\ DOMAIN es = 1..Len(es) BY LenProperties
<1>2. \A i \in 1..Len(es) : es[i] \in LifecycleEntry /\ es[i].id \in Ids
  <2>1. \A i \in 1..Len(es) : es[i] \in LifecycleEntry BY ElementOfSeq
  <2> QED BY <2>1 DEF LifecycleEntry
<1>3. IdsOf(es) \in [1..Len(es) -> Ids] BY <1>1, <1>2 DEF IdsOf
<1>4. IdsOf(es) \in Seq(Ids) /\ Len(IdsOf(es)) = Len(es) /\ DOMAIN IdsOf(es) = 1..Len(es)
  <2> DEFINE q == IdsOf(es)
  <2>1. q \in [1..Len(es) -> Ids] BY <1>3
  <2> HIDE DEF q
  <2>2. q \in Seq(Ids) BY <1>1, <2>1
  <2>3. DOMAIN q = 1..Len(q) /\ Len(q) \in Nat /\ DOMAIN q = 1..Len(es) BY <2>1, <2>2, LenProperties
  <2>4. Len(q) = Len(es)
    <3> DEFINE a == Len(q)
               b == Len(es)
    <3>1. a \in Nat /\ b \in Nat /\ 1..a = 1..b BY <1>1, <2>3
    <3> HIDE DEF a, b
    <3>2. a = b BY <3>1
    <3> QED BY <3>2 DEF a, b
  <2> QED BY <2>2, <2>3, <2>4 DEF q
<1> QED BY <1>1, <1>2, <1>4 DEF IdsOf, PendingAt

\* A command that was not there yet finds room: there are no more entries than ids.
LEMMA RoomForAnother ==
  ASSUME NEW es \in Seq(LifecycleEntry), Distinct(es), NEW id \in Ids, \A i \in 1..Len(es) : es[i].id # id
  PROVE  Len(es) + 1 <= BusCap
<1> DEFINE n == Len(es)
           f == [i \in 1..n |-> es[i].id]
           T == Ids \ {id}
<1>1. n \in Nat /\ DOMAIN es = 1..n /\ \A i \in 1..n : es[i].id \in Ids BY EntryFacts
<1>2. IsFiniteSet(T) /\ Cardinality(T) = BusCap - 1
  <2>1. 1 \in Int /\ BusCap \in Int /\ BusCap \in Nat BY BusCapAssumption
  <2>2. IsFiniteSet(1..BusCap) /\ Cardinality(1..BusCap) = IF 1 > BusCap THEN 0 ELSE BusCap - 1 + 1
    BY <2>1, FS_Interval
  <2>3. BusCap >= 1 BY <2>1 DEF Ids
  <2>4. IsFiniteSet(Ids) /\ Cardinality(Ids) = BusCap BY <2>1, <2>2, <2>3 DEF Ids
  <2> QED BY <2>4, FS_RemoveElement
<1>3. f \in [1..n -> T] BY <1>1
<1>4. \A i, j \in 1..n : f[i] = f[j] => i = j BY <1>1 DEF Distinct
<1> HIDE DEF f, T, n
<1>5. f \in Injection(1..n, T) BY <1>3, <1>4, Fun_IsInj
<1>6. Cardinality(1..n) <= Cardinality(T) BY <1>2, <1>5, FS_Injection
<1>7. Cardinality(1..n) = n
  <2>1. 1 \in Int /\ n \in Int BY <1>1
  <2>2. Cardinality(1..n) = IF 1 > n THEN 0 ELSE n - 1 + 1 BY <2>1, FS_Interval
  <2> QED BY <1>1, <2>2
<1>8. BusCap \in Nat BY BusCapAssumption
<1>9. n <= BusCap - 1 BY <1>2, <1>6, <1>7
<1> QED BY <1>1, <1>8, <1>9 DEF n

\* A command is pended.
LEMMA NewEntry ==
  ASSUME NEW es \in Seq(LifecycleEntry), Distinct(es), NEW id \in Ids, \A i \in 1..Len(es) : es[i].id # id,
         NEW e, e = [id |-> id, status |-> "pending"], NEW ns, ns = Newest(e, es, BusCap)
  PROVE  /\ ns = <<e>> \o es /\ ns \in Seq(LifecycleEntry) /\ Distinct(ns)
         /\ PendingIds(ns) = <<id>> \o PendingIds(es)
<1> DEFINE n == Len(es)
           q == IdsOf(es)
           I == PendingAt(es)
<1>1. /\ n \in Nat /\ DOMAIN es = 1..n /\ \A i \in 1..n : es[i] \in LifecycleEntry
      /\ q \in Seq(Ids) /\ Len(q) = n /\ (\A i \in 1..n : q[i] = es[i].id) /\ I \subseteq 1..n
  BY EntryFacts
<1>2. e \in LifecycleEntry BY DEF LifecycleEntry
<1>3. ns = <<e>> \o es
  <2>1. n + 1 <= BusCap /\ BusCap \in Nat BY RoomForAnother, BusCapAssumption
  <2>2. Min({BusCap, n + 1}) = n + 1 BY <1>1, <2>1 DEF Min
  <2>3. <<e>> \o es \in Seq(LifecycleEntry) /\ Len(<<e>> \o es) = n + 1 BY <1>2
  <2>4. SubSeq(<<e>> \o es, 1, n + 1) = <<e>> \o es
    <3> DEFINE x == <<e>> \o es
    <3>1. x \in Seq(LifecycleEntry) /\ Len(x) = n + 1 BY <2>3
    <3> HIDE DEF x
    <3>2. SubSeq(x, 1, Len(x)) = x BY <3>1, SubSeqFull
    <3> QED BY <3>1, <3>2 DEF x
  <2> QED BY <2>2, <2>4 DEF Newest
<1>4. /\ ns \in Seq(LifecycleEntry) /\ Len(ns) = n + 1 /\ ns[1] = e
      /\ (\A i \in 1..n : ns[i + 1] = es[i]) /\ DOMAIN ns = 1..n + 1
  <2>1. ns \in Seq(LifecycleEntry) /\ Len(ns) = n + 1
    <3>1. <<e>> \in Seq(LifecycleEntry) /\ Len(<<e>>) = 1 BY <1>2
    <3>2. /\ <<e>> \o es \in Seq(LifecycleEntry)
          /\ Len(<<e>> \o es) = Len(<<e>>) + Len(es)
      BY <3>1, ConcatProperties
    <3>3. ns \in Seq(LifecycleEntry) /\ Len(ns) = Len(<<e>>) + n BY <1>3, <3>2
    <3>4. n \in Nat BY <1>1
    <3> HIDE DEF n, q, I
    <3> QED BY <3>1, <3>3, <3>4
  <2>2. ns[1] = e BY <1>3
  <2>3. \A i \in 1..n : ns[i + 1] = es[i] BY <1>1, <1>3
  <2>4. DOMAIN ns = 1..n + 1 BY <2>1, LenProperties
  <2> QED BY <2>1, <2>2, <2>3, <2>4
<1>5. \A i \in 1..n + 1 : i = 1 \/ (i - 1 \in 1..n /\ ns[i] = es[i - 1])
  <2> SUFFICES ASSUME NEW i \in 1..n + 1, i # 1 PROVE i - 1 \in 1..n /\ ns[i] = es[i - 1] OBVIOUS
  <2>1. i - 1 \in 1..n /\ i - 1 + 1 = i BY <1>1
  <2> QED BY <1>4, <2>1
<1>6. Distinct(ns)
  <2> SUFFICES ASSUME NEW i \in 1..n + 1, NEW j \in 1..n + 1, ns[i].id = ns[j].id PROVE i = j
    BY <1>4 DEF Distinct
  <2>1. ns[1].id = id BY <1>4
  <2>2. \A k \in 1..n + 1 : k # 1 => ns[k].id # id BY <1>5
  <2>3. CASE i = 1 \/ j = 1 BY <2>1, <2>2, <2>3
  <2>4. CASE i # 1 /\ j # 1
    <3>1. i - 1 \in 1..n /\ j - 1 \in 1..n /\ es[i - 1].id = es[j - 1].id BY <1>5, <2>4
    <3>2. i - 1 = j - 1 BY <1>1, <3>1 DEF Distinct
    <3> QED BY <3>2
  <2> QED BY <2>3, <2>4
<1>7. PendingAt(ns) = Behind(I)
  <2>1. 1 \in PendingAt(ns) BY <1>1, <1>4 DEF PendingAt, isPending
  <2>2. \A i \in 1..n : i + 1 \in PendingAt(ns) <=> i \in I
    <3>1. \A i \in 1..n : i + 1 \in 1..n + 1 BY <1>1
    <3> QED BY <1>1, <1>4, <3>1 DEF PendingAt, isPending
  <2>3. ASSUME NEW k \in PendingAt(ns), k # 1 PROVE \E i \in I : k = i + 1
    <3>1. k \in 1..n + 1 BY <1>4 DEF PendingAt
    <3>2. k - 1 \in 1..n /\ k = k - 1 + 1 BY <1>1, <2>3, <3>1
    <3>3. k - 1 \in I BY <2>2, <3>2
    <3> QED BY <3>2, <3>3
  <2>4. \A i \in I : i + 1 \in PendingAt(ns) BY <1>1, <2>2
  <2> QED BY <2>1, <2>3, <2>4 DEF Behind
<1>8. IdsOf(ns) = <<id>> \o q
  <2> DEFINE x == IdsOf(ns)
             y == <<id>> \o q
  <2>1. x \in Seq(Ids) /\ Len(x) = n + 1 /\ \A i \in 1..n + 1 : x[i] = ns[i].id
    BY <1>4, EntryFacts
  <2>2. y \in Seq(Ids) /\ Len(y) = n + 1 /\ y[1] = id /\ \A i \in 1..n : y[i + 1] = q[i]
    <3> HIDE DEF q
    <3> QED BY <1>1
  <2>3. ASSUME NEW i \in 1..n + 1 PROVE x[i] = y[i]
    <3> HIDE DEF x, y, q
    <3>1. CASE i = 1 BY <1>4, <2>1, <2>2, <3>1
    <3>2. CASE i # 1
      <4>1. i - 1 \in 1..n /\ i - 1 + 1 = i BY <1>1, <3>2
      <4>2. x[i] = es[i - 1].id BY <1>5, <2>1, <3>2
      <4>3. y[i] = q[i - 1] BY <2>2, <4>1
      <4> QED BY <1>1, <4>1, <4>2, <4>3
    <3> QED BY <3>1, <3>2
  <2> HIDE DEF x, y
  <2>4. x = y BY <2>1, <2>2, <2>3, SeqEqual
  <2> QED BY <2>4 DEF x, y
<1>9. AtPlaces(<<id>> \o q, Behind(I)) = <<id>> \o AtPlaces(q, I)
  <2> HIDE DEF q, I
  <2>1. Within(I, Len(q)) BY <1>1 DEF Within
  <2> QED BY <1>1, <2>1, SelectedBefore
<1> QED BY <1>3, <1>4, <1>6, <1>7, <1>8, <1>9 DEF PendingIds

\* A command is answered, for the first time or again.
LEMMA SettledEntry ==
  ASSUME NEW es \in Seq(LifecycleEntry), Distinct(es), NEW id \in Ids, NEW st \in {"acked", "failed"},
         NEW ns, ns = Settled(es, id, st)
  PROVE  /\ ns \in Seq(LifecycleEntry) /\ Distinct(ns) /\ DOMAIN ns = DOMAIN es /\ IdsOf(ns) = IdsOf(es)
         /\ PendingIds(ns) = Where(PendingIds(es), LAMBDA x : x # id)
<1> DEFINE n == Len(es)
           q == IdsOf(es)
           I == PendingAt(es)
           m == Cardinality(I)
           f == Places(I)
           p == AtPlaces(q, I)
           K == {k \in 1..m : p[k] # id}
<1>1. /\ n \in Nat /\ DOMAIN es = 1..n /\ (\A i \in 1..n : es[i] \in LifecycleEntry)
      /\ q \in Seq(Ids) /\ Len(q) = n /\ (\A i \in 1..n : q[i] = es[i].id) /\ I \subseteq 1..n
  BY EntryFacts
<1>2. /\ ns = [i \in 1..n |-> IF es[i].id = id THEN [id |-> id, status |-> st] ELSE es[i]]
  BY <1>1 DEF Settled
<1>3. \A i \in 1..n : ns[i] \in LifecycleEntry /\ ns[i].id = es[i].id
  BY <1>1, <1>2 DEF LifecycleEntry
<1>4. DOMAIN ns = 1..n /\ ns \in Seq(LifecycleEntry)
  <2>1. ns \in [1..n -> LifecycleEntry] BY <1>2, <1>3
  <2> HIDE DEF n
  <2> QED BY <1>1, <2>1
<1>5. IdsOf(ns) = q BY <1>1, <1>3, <1>4 DEF IdsOf
<1>6. Distinct(ns) BY <1>1, <1>3, <1>4 DEF Distinct
<1>7. \A i \in 1..n : isPending(ns[i]) <=> isPending(es[i]) /\ q[i] # id
  <2> SUFFICES ASSUME NEW i \in 1..n PROVE isPending(ns[i]) <=> isPending(es[i]) /\ q[i] # id OBVIOUS
  <2>1. CASE es[i].id = id
    <3>1. ns[i].status = st /\ st # "pending" BY <1>2, <2>1
    <3> QED BY <1>1, <2>1, <3>1 DEF isPending
  <2>2. CASE es[i].id # id
    <3>1. ns[i] = es[i] BY <1>2, <2>2
    <3> QED BY <1>1, <2>2, <3>1
  <2> QED BY <2>1, <2>2
<1> HIDE DEF n, q
<1>8. /\ m \in Nat /\ Enumerates(f, m, I) /\ IsListing(p, q, f, m)
  <2>1. Within(I, Len(q)) BY <1>1 DEF Within
  <2> HIDE DEF I
  <2> QED BY <1>1, <2>1, SelectionFacts
<1> HIDE DEF f, m, I, p
<1>9. \A k \in 1..m : p[k] = q[f[k]] /\ f[k] \in I BY <1>8 DEF IsListing, Enumerates
<1>10. PendingAt(ns) = Among(f, K)
  <2>1. \A k \in K : f[k] \in PendingAt(ns)
    <3> SUFFICES ASSUME NEW k \in K PROVE f[k] \in PendingAt(ns) OBVIOUS
    <3>1. f[k] \in I /\ q[f[k]] # id BY <1>9
    <3>2. f[k] \in 1..n /\ isPending(es[f[k]]) BY <1>1, <3>1 DEF I, PendingAt
    <3> QED BY <1>4, <1>7, <3>1, <3>2 DEF PendingAt
  <2>2. ASSUME NEW i \in PendingAt(ns) PROVE \E k \in K : f[k] = i
    <3>1. i \in 1..n /\ isPending(es[i]) /\ q[i] # id BY <1>4, <1>7 DEF PendingAt
    <3>2. i \in I BY <1>1, <3>1 DEF I, PendingAt
    <3>3. PICK k \in 1..m : f[k] = i BY <1>8, <3>2 DEF Enumerates
    <3>4. p[k] # id BY <1>9, <3>1, <3>3
    <3> QED BY <3>3, <3>4
  <2> HIDE DEF K
  <2> QED BY <2>1, <2>2 DEF Among
<1>11. AtPlaces(p, K) = AtPlaces(q, Among(f, K))
  <2>1. Within(K, m) BY DEF Within
  <2> HIDE DEF K
  <2> QED BY <1>8, <2>1, SelectTwice DEF p
<1>12. Where(p, LAMBDA x : x # id) = AtPlaces(p, K)
  <2>1. DOMAIN p = 1..m BY <1>8 DEF IsListing
  <2> QED BY <2>1 DEF Where
<1> QED BY <1>1, <1>4, <1>5, <1>6, <1>10, <1>11, <1>12 DEF PendingIds, p, q, I

\* What is settled is purged.
LEMMA PurgedEntries ==
  ASSUME NEW es \in Seq(LifecycleEntry), Distinct(es), NEW ns, ns = Where(es, isPending)
  PROVE  /\ ns \in Seq(LifecycleEntry) /\ Distinct(ns) /\ PendingIds(ns) = PendingIds(es)
         /\ \A i \in DOMAIN ns : \E j \in DOMAIN es : ns[i] = es[j]
<1> DEFINE n == Len(es)
           q == IdsOf(es)
           I == PendingAt(es)
           m == Cardinality(I)
           f == Places(I)
           p == AtPlaces(q, I)
<1>1. /\ n \in Nat /\ DOMAIN es = 1..n /\ (\A i \in 1..n : es[i] \in LifecycleEntry)
      /\ q \in Seq(Ids) /\ Len(q) = n /\ (\A i \in 1..n : q[i] = es[i].id) /\ I \subseteq 1..n
  BY EntryFacts
<1>2. ns = AtPlaces(es, I) BY DEF Where, PendingAt
<1> HIDE DEF n, q, f, m, I, p
<1>3. /\ m \in Nat /\ Enumerates(f, m, I) /\ IsListing(ns, es, f, m)
      /\ ns \in Seq(LifecycleEntry) /\ Len(ns) = m
  <2>1. Within(I, Len(es)) BY <1>1 DEF n, Within
  <2> QED BY <1>2, <2>1, SelectionFacts DEF f, m
<1>4. IsListing(p, q, f, m) /\ p \in Seq(Ids) /\ Len(p) = m
  <2>1. Within(I, Len(q)) BY <1>1 DEF Within
  <2> QED BY <1>1, <2>1, SelectionFacts DEF f, m, p
<1>5. \A k \in 1..m : f[k] \in I /\ f[k] \in 1..n /\ ns[k] = es[f[k]] /\ p[k] = q[f[k]]
  BY <1>1, <1>3, <1>4 DEF IsListing, Enumerates
<1>6. DOMAIN ns = 1..m BY <1>3 DEF IsListing
<1>7. Distinct(ns)
  <2> SUFFICES ASSUME NEW k \in 1..m, NEW l \in 1..m, ns[k].id = ns[l].id PROVE k = l
    BY <1>6 DEF Distinct
  <2>1. f[k] = f[l] BY <1>1, <1>5 DEF Distinct
  <2>2. \A x, y \in 1..m : x < y => f[x] < f[y] BY <1>3 DEF Enumerates
  <2>3. f[k] \in Int /\ f[l] \in Int BY <1>5
  <2> QED BY <2>1, <2>2, <2>3
<1>8. IdsOf(ns) = p
  <2>1. \A k \in 1..m : ns[k].id = p[k] BY <1>1, <1>5
  <2>2. IdsOf(ns) = [k \in 1..m |-> ns[k].id] BY <1>6 DEF IdsOf
  <2>3. p = [k \in 1..m |-> p[k]] BY <1>4 DEF IsListing
  <2> QED BY <2>1, <2>2, <2>3
<1>9. PendingAt(ns) = 1..m
  <2>1. \A k \in 1..m : isPending(ns[k])
    <3>1. \A k \in 1..m : isPending(es[f[k]]) BY <1>5 DEF I, PendingAt
    <3> QED BY <1>5, <3>1
  <2> QED BY <1>6, <2>1 DEF PendingAt
<1>10. AtPlaces(p, 1..m) = p BY <1>4, AllPlaces
<1>11. PendingIds(ns) = p BY <1>8, <1>9, <1>10 DEF PendingIds
<1>12. PendingIds(es) = p BY DEF PendingIds, p, q, I
<1>13. \A i \in DOMAIN ns : \E j \in DOMAIN es : ns[i] = es[j] BY <1>1, <1>5, <1>6
<1> QED BY <1>3, <1>7, <1>11, <1>12, <1>13

\* What it says of the two views.
LEMMA FollowersAgree ==
  ASSUME NEW t, Follows(t)
  PROVE  LifecycleAgrees(t)
<1> DEFINE client == Dispatched(initialCommandBusState, t)
           es == client.entries
           n == Len(es)
           q == IdsOf(es)
           I == PendingAt(es)
           m == Cardinality(I)
           f == Places(I)
           pending == selectPendingCommands(client)
           J == {i \in DOMAIN es : ~isPending(es[i])}
<1>1. es \in Seq(LifecycleEntry)
      /\ FoldLeft(Told, initialTransportLifecycleState, t).pending = PendingIds(es)
  BY DEF Follows
<1> HIDE DEF client
<1>2. pending = AtPlaces(es, I) /\ selectSettledCommands(client) = AtPlaces(es, J)
  BY DEF selectPendingCommands, selectSettledCommands, Where, PendingAt
<1> HIDE DEF es
<1>3. /\ n \in Nat /\ DOMAIN es = 1..n /\ (\A i \in 1..n : es[i] \in LifecycleEntry)
      /\ q \in Seq(Ids) /\ Len(q) = n /\ (\A i \in 1..n : q[i] = es[i].id) /\ I \subseteq 1..n
  BY <1>1, EntryFacts
<1>4. J \subseteq 1..n /\ I \cup J = 1..n /\ I \cap J = {} BY <1>3 DEF PendingAt
<1> HIDE DEF n, q, f, m, I, J, pending
<1>5. /\ m \in Nat /\ IsFiniteSet(I) /\ Enumerates(f, m, I) /\ IsListing(pending, es, f, m) /\ Len(pending) = m
  <2>1. Within(I, Len(es)) BY <1>3 DEF n, Within
  <2> QED BY <1>1, <1>2, <2>1, SelectionFacts DEF f, m
<1>6. IsListing(PendingIds(es), q, f, m)
  <2>1. Within(I, Len(q)) BY <1>3 DEF Within
  <2>2. IsListing(AtPlaces(q, I), q, f, m) BY <1>3, <2>1, SelectionFacts DEF f, m
  <2> QED BY <2>2 DEF PendingIds, q, I
<1>7. IsFiniteSet(J) /\ Cardinality(J) \in Nat /\ Len(selectSettledCommands(client)) = Cardinality(J)
  <2>1. Within(J, Len(es)) BY <1>4 DEF n, Within
  <2> QED BY <1>1, <1>2, <2>1, SelectionFacts
<1>8. n = m + Cardinality(J)
  <2>1. Cardinality(I \cup J) = Cardinality(I) + Cardinality(J) - Cardinality(I \cap J)
    BY <1>5, <1>7, FS_Union
  <2>2. Cardinality({}) = 0 BY FS_EmptySet
  <2>3. Cardinality(1..n) = n
    <3>1. 1 \in Int /\ n \in Int BY <1>3
    <3>2. Cardinality(1..n) = IF 1 > n THEN 0 ELSE n - 1 + 1 BY <3>1, FS_Interval
    <3> QED BY <1>3, <3>2
  <2>4. n = m + Cardinality(J) - 0 BY <1>4, <2>1, <2>2, <2>3 DEF m
  <2> QED BY <1>5, <1>7, <2>4
<1>9. [i \in DOMAIN pending |-> pending[i].id] = PendingIds(es)
  <2>1. \A k \in 1..m : f[k] \in 1..n BY <1>3, <1>5 DEF Enumerates
  <2>2. \A k \in 1..m : pending[k].id = PendingIds(es)[k]
    <3> SUFFICES ASSUME NEW k \in 1..m PROVE pending[k].id = PendingIds(es)[k] OBVIOUS
    <3>1. pending[k] = es[f[k]] BY <1>5 DEF IsListing
    <3>2. PendingIds(es)[k] = q[f[k]] BY <1>6 DEF IsListing
    <3> QED BY <1>3, <2>1, <3>1, <3>2
  <2>3. DOMAIN pending = 1..m BY <1>5 DEF IsListing
  <2>4. PendingIds(es) = [k \in 1..m |-> PendingIds(es)[k]] BY <1>6 DEF IsListing
  <2> QED BY <2>2, <2>3, <2>4
<1>10. Len(es) = Len(pending) + Len(selectSettledCommands(client)) BY <1>5, <1>7, <1>8 DEF n
<1> QED BY <1>1, <1>9, <1>10 DEF LifecycleAgrees, client, es, pending

LEMMA FollowersStart == Follows(<<>>)
<1> DEFINE client == Dispatched(initialCommandBusState, <<>>)
<1>1. client = initialCommandBusState BY Dispatches
<1>2. FoldLeft(Told, initialTransportLifecycleState, <<>>) = initialTransportLifecycleState BY Tellings
<1>3. PendingIds(<<>>) = <<>>
  <2>1. <<>> \in Seq(LifecycleEntry) /\ DOMAIN <<>> = {} BY EmptySeq
  <2>2. PendingAt(<<>>) = {} BY <2>1 DEF PendingAt
  <2>3. IdsOf(<<>>) = <<>> BY <2>1 DEF IdsOf
  <2>4. <<>> \in Seq(Ids) /\ Len(<<>>) = 0 /\ 0 \in Nat /\ 0 <= Len(<<>>) BY EmptySeq
  <2>5. AtPlaces(<<>>, 1..0) = SubSeq(<<>>, 1, 0) BY <2>4, FirstPlaces
  <2>6. SubSeq(<<>>, 1, 0) = <<>> BY <2>4, SubSeqEmpty
  <2>7. 1..0 = {} OBVIOUS
  <2> QED BY <2>2, <2>3, <2>5, <2>6, <2>7 DEF PendingIds
<1>4. client.entries = <<>> BY <1>1 DEF initialCommandBusState
<1>5. <<>> \in Seq(LifecycleEntry) /\ DOMAIN <<>> = {} BY EmptySeq
<1>6. client \in [entries : Seq(LifecycleEntry), totalDispatched : Nat, totalAcked : Nat, totalFailed : Nat]
  <2> DEFINE x == <<>>
  <2>1. x \in Seq(LifecycleEntry) BY <1>5
  <2>2. client = [entries |-> x, totalDispatched |-> 0, totalAcked |-> 0, totalFailed |-> 0]
    BY <1>1 DEF initialCommandBusState
  <2> HIDE DEF x, client
  <2> QED BY <2>1, <2>2
<1>7. Distinct(client.entries) /\ \A i \in DOMAIN client.entries : FALSE BY <1>4, <1>5 DEF Distinct
<1>8. initialTransportLifecycleState \in [connected : BOOLEAN, active : {"none"}, pending : Seq(Ids)]
  <2> DEFINE x == <<>>
  <2>1. x \in Seq(Ids) BY EmptySeq
  <2>2. initialTransportLifecycleState = [connected |-> FALSE, active |-> "none", pending |-> x]
    BY DEF initialTransportLifecycleState
  <2> HIDE DEF x
  <2> QED BY <2>1, <2>2
<1>9. initialTransportLifecycleState.pending = <<>> BY DEF initialTransportLifecycleState
<1> HIDE DEF client
<1> QED BY <1>2, <1>3, <1>4, <1>6, <1>7, <1>8, <1>9 DEF Follows, client

\* What is told once more.
LEMMA ToldBefore ==
  ASSUME NEW t \in Seq(Events), NEW e \in Events, PendsOnce(Append(t, e))
  PROVE  /\ PendsOnce(t) /\ (e.type = "COMMAND_PENDING" => ~Tells(t, e))
         /\ \A x : Tells(t, x) => Tells(Append(t, e), x)
         /\ Tells(Append(t, e), e)
<1> DEFINE s == Append(t, e)
           n == Len(t)
<1>1. /\ n \in Nat /\ DOMAIN t = 1..n /\ DOMAIN s = 1..n + 1 /\ s[n + 1] = e
      /\ \A i \in 1..n : s[i] = t[i]
  BY AppendProperties, LenProperties
<1>2. \A i, j \in DOMAIN s : (s[i] = s[j] /\ s[i].type = "COMMAND_PENDING") => i = j BY DEF PendsOnce
<1> HIDE DEF s, n
<1>3. 1..n \subseteq 1..n + 1 /\ n + 1 \in 1..n + 1 /\ n + 1 \notin 1..n BY <1>1
<1>4. PendsOnce(t) BY <1>1, <1>2, <1>3 DEF PendsOnce
<1>5. e.type = "COMMAND_PENDING" => ~Tells(t, e) BY <1>1, <1>2, <1>3 DEF Tells
<1>6. (\A x : Tells(t, x) => Tells(s, x)) /\ Tells(s, e) BY <1>1, <1>3 DEF Tells
<1> QED BY <1>4, <1>5, <1>6 DEF s

\* A step of the two lifecycles.
LEMMA FollowersStep ==
  ASSUME NEW t \in Seq(Events), NEW e \in Events, PendsOnce(Append(t, e)), Follows(t)
  PROVE  Follows(Append(t, e))
<1> DEFINE s == Append(t, e)
           client == Dispatched(initialCommandBusState, t)
           protocol == FoldLeft(Told, initialTransportLifecycleState, t)
           es == client.entries
           after == commandBusReducer(client, e)
           told == Told(protocol, e)
<1>1. Dispatched(initialCommandBusState, s) = after
  <2>1. \A S : \A q \in Seq(S), x \in S :
          Dispatched(initialCommandBusState, Append(q, x))
            = commandBusReducer(Dispatched(initialCommandBusState, q), x)
    BY Dispatches
  <2> QED BY ONLY <2>1, t \in Seq(Events), e \in Events
<1>2. FoldLeft(Told, initialTransportLifecycleState, s) = told
  <2>1. \A S : \A q \in Seq(S), x \in S :
          FoldLeft(Told, initialTransportLifecycleState, Append(q, x))
            = Told(FoldLeft(Told, initialTransportLifecycleState, q), x)
    BY Tellings
  <2> QED BY ONLY <2>1, t \in Seq(Events), e \in Events
<1>3. /\ client \in [entries : Seq(LifecycleEntry), totalDispatched : Nat, totalAcked : Nat, totalFailed : Nat]
      /\ Distinct(es)
      /\ \A i \in DOMAIN es : Tells(t, Pending(es[i].id))
      /\ protocol \in [connected : BOOLEAN, active : {"none"}, pending : Seq(Ids)]
      /\ protocol.pending = PendingIds(es)
  BY DEF Follows
<1>4. (e.type = "COMMAND_PENDING" => ~Tells(t, e)) /\ (\A x : Tells(t, x) => Tells(s, x)) /\ Tells(s, e)
  BY ToldBefore
<1> SUFFICES
     /\ after \in [entries : Seq(LifecycleEntry), totalDispatched : Nat, totalAcked : Nat, totalFailed : Nat]
     /\ Distinct(after.entries)
     /\ \A i \in DOMAIN after.entries : Tells(s, Pending(after.entries[i].id))
     /\ told \in [connected : BOOLEAN, active : {"none"}, pending : Seq(Ids)]
     /\ told.pending = PendingIds(after.entries)
  BY <1>1, <1>2 DEF Follows
<1> HIDE DEF s, client, protocol
<1>5. es \in Seq(LifecycleEntry) BY <1>3
<1>6. /\ DOMAIN es = 1..Len(es) /\ Len(es) \in Nat /\ (\A i \in 1..Len(es) : es[i].id \in Ids)
      /\ \A i \in DOMAIN es : Tells(s, Pending(es[i].id))
  BY <1>3, <1>4, <1>5, EntryFacts
<1>7. ASSUME NEW id \in Ids, e = Pending(id)
      PROVE  /\ after \in [entries : Seq(LifecycleEntry), totalDispatched : Nat, totalAcked : Nat, totalFailed : Nat]
             /\ Distinct(after.entries)
             /\ \A i \in DOMAIN after.entries : Tells(s, Pending(after.entries[i].id))
             /\ told \in [connected : BOOLEAN, active : {"none"}, pending : Seq(Ids)]
             /\ told.pending = PendingIds(after.entries)
  <2> DEFINE x == [id |-> id, status |-> "pending"]
             ns == Newest(x, es, BusCap)
  <2>1. e.type = "COMMAND_PENDING" /\ e.id = id BY <1>7 DEF Pending
  <2>2. \A i \in 1..Len(es) : es[i].id # id BY <1>3, <1>4, <1>6, <1>7, <2>1
  <2> HIDE DEF es
  <2>3. /\ ns = <<x>> \o es /\ ns \in Seq(LifecycleEntry) /\ Distinct(ns)
        /\ PendingIds(ns) = <<id>> \o PendingIds(es)
    <3>1. x = [id |-> id, status |-> "pending"] /\ ns = Newest(x, es, BusCap) OBVIOUS
    <3> HIDE DEF x, ns
    <3>2. es \in Seq(LifecycleEntry) /\ Distinct(es) /\ id \in Ids BY <1>3, <1>5
    <3>3. ns = <<x>> \o es /\ ns \in Seq(LifecycleEntry) BY ONLY <2>2, <3>1, <3>2, NewEntry
    <3>4. Distinct(ns) BY ONLY <2>2, <3>1, <3>2, NewEntry
    <3>5. PendingIds(ns) = <<id>> \o PendingIds(es) BY ONLY <2>2, <3>1, <3>2, NewEntry
    <3> QED BY <3>3, <3>4, <3>5
  <2>4. ~Contains(protocol.pending, id)
    <3> DEFINE q == IdsOf(es)
               I == PendingAt(es)
               p == AtPlaces(q, I)
    <3>1. /\ q \in Seq(Ids) /\ Len(q) = Len(es) /\ I \subseteq 1..Len(es)
          /\ \A i \in 1..Len(es) : q[i] = es[i].id
      BY <1>5, EntryFacts
    <3> HIDE DEF q, I
    <3>2. Within(I, Len(q)) BY <3>1 DEF Within
    <3>3. /\ Enumerates(Places(I), Cardinality(I), I) /\ IsListing(p, q, Places(I), Cardinality(I))
          /\ Len(p) = Cardinality(I)
      BY <3>1, <3>2, SelectionFacts
    <3>4. \A k \in 1..Len(p) : p[k] # id
      <4> SUFFICES ASSUME NEW k \in 1..Len(p) PROVE p[k] # id OBVIOUS
      <4>1. Places(I)[k] \in I BY <3>3 DEF Enumerates
      <4>2. p[k] = q[Places(I)[k]] BY <3>3 DEF IsListing
      <4> QED BY <2>2, <3>1, <4>1, <4>2
    <3>5. protocol.pending = p BY <1>3 DEF PendingIds, q, I
    <3> HIDE DEF p
    <3> QED BY <3>4, <3>5 DEF Contains
  <2> DEFINE d == client.totalDispatched + 1
  <2>5. after = [client EXCEPT !.entries = ns, !.totalDispatched = d] /\ d \in Nat
    BY <1>3, <2>1 DEF commandBusReducer, es
  <2>6. told = [protocol EXCEPT !.pending = <<id>> \o @]
    BY <2>1, <2>4 DEF Told, reduceTransportLifecycle
  <2> HIDE DEF ns, x, d, after, told
  <2>7. after.entries = ns
        /\ after \in [entries : Seq(LifecycleEntry), totalDispatched : Nat, totalAcked : Nat, totalFailed : Nat]
    BY <1>3, <2>3, <2>5
  <2>8. \A i \in DOMAIN ns : Tells(s, Pending(ns[i].id))
    <3>1. Len(ns) = Len(es) + 1 /\ DOMAIN ns = 1..Len(es) + 1 /\ ns[1] = x /\ \A i \in 1..Len(es) : ns[i + 1] = es[i]
      <4>1. x \in LifecycleEntry BY DEF x, LifecycleEntry
      <4> HIDE DEF x
      <4> QED BY <1>5, <2>3, <4>1
    <3>2. Tells(s, Pending(x.id)) BY <1>4, <1>7 DEF x
    <3> SUFFICES ASSUME NEW i \in 1..Len(es) + 1, i # 1 PROVE Tells(s, Pending(ns[i].id)) BY <3>1, <3>2
    <3>3. i - 1 \in 1..Len(es) /\ i - 1 + 1 = i BY <1>6
    <3>4. ns[i] = es[i - 1] BY <3>1, <3>3
    <3> QED BY <1>6, <3>3, <3>4
  <2>9. told.pending = <<id>> \o protocol.pending
        /\ told \in [connected : BOOLEAN, active : {"none"}, pending : Seq(Ids)]
    <3>1. <<id>> \o protocol.pending \in Seq(Ids) BY <1>3
    <3> DEFINE p == <<id>> \o protocol.pending
    <3>2. told = [protocol EXCEPT !.pending = p] BY <2>6
    <3> HIDE DEF p
    <3> QED BY <1>3, <3>1, <3>2 DEF p
  <2> QED BY <1>3, <2>3, <2>7, <2>8, <2>9
<1>8. ASSUME NEW id \in Ids, NEW st \in {"acked", "failed"}, NEW a, NEW f,
             after = [client EXCEPT !.entries = Settled(@, id, st), !.totalAcked = a, !.totalFailed = f],
             a \in Nat, f \in Nat,
             told = [protocol EXCEPT !.pending = Where(@, LAMBDA x : x # id)]
      PROVE  /\ after \in [entries : Seq(LifecycleEntry), totalDispatched : Nat, totalAcked : Nat, totalFailed : Nat]
             /\ Distinct(after.entries)
             /\ \A i \in DOMAIN after.entries : Tells(s, Pending(after.entries[i].id))
             /\ told \in [connected : BOOLEAN, active : {"none"}, pending : Seq(Ids)]
             /\ told.pending = PendingIds(after.entries)
  <2> DEFINE ns == Settled(es, id, st)
             p == Where(protocol.pending, LAMBDA x : x # id)
  <2>1. after = [client EXCEPT !.entries = ns, !.totalAcked = a, !.totalFailed = f] /\ told = [protocol EXCEPT !.pending = p]
    BY <1>8 DEF es
  <2> HIDE DEF es
  <2>2. /\ ns \in Seq(LifecycleEntry) /\ Distinct(ns) /\ DOMAIN ns = DOMAIN es /\ IdsOf(ns) = IdsOf(es)
        /\ PendingIds(ns) = Where(PendingIds(es), LAMBDA x : x # id)
    BY <1>3, <1>5, SettledEntry
  <2>3. p = PendingIds(ns) BY <1>3, <2>2
  <2>4. PendingIds(ns) \in Seq(Ids)
    <3>1. IdsOf(ns) \in Seq(Ids) /\ Len(IdsOf(ns)) = Len(ns) /\ PendingAt(ns) \subseteq 1..Len(ns)
      <4> HIDE DEF ns
      <4> QED BY <2>2, EntryFacts
    <3>2. Within(PendingAt(ns), Len(IdsOf(ns))) BY <3>1 DEF Within
    <3> QED BY <3>1, <3>2, SelectionFacts DEF PendingIds
  <2> HIDE DEF ns, p, after, told
  <2>5. after.entries = ns
        /\ after \in [entries : Seq(LifecycleEntry), totalDispatched : Nat, totalAcked : Nat, totalFailed : Nat]
    BY <1>3, <1>8, <2>1, <2>2
  <2>6. told.pending = p /\ told \in [connected : BOOLEAN, active : {"none"}, pending : Seq(Ids)]
    BY <1>3, <2>1, <2>3, <2>4
  <2>7. \A i \in DOMAIN ns : ns[i].id = es[i].id
    <3>1. \A i \in DOMAIN ns : IdsOf(ns)[i] = ns[i].id /\ IdsOf(es)[i] = es[i].id BY <2>2 DEF IdsOf
    <3> QED BY <2>2, <3>1
  <2> QED BY <1>6, <2>2, <2>3, <2>5, <2>6, <2>7
<1>9. ASSUME NEW id \in Ids, e = Acked(id)
      PROVE  /\ after \in [entries : Seq(LifecycleEntry), totalDispatched : Nat, totalAcked : Nat, totalFailed : Nat]
             /\ Distinct(after.entries)
             /\ \A i \in DOMAIN after.entries : Tells(s, Pending(after.entries[i].id))
             /\ told \in [connected : BOOLEAN, active : {"none"}, pending : Seq(Ids)]
             /\ told.pending = PendingIds(after.entries)
  <2>1. e.type = "COMMAND_ACKED" /\ e.id = id BY <1>9 DEF Acked
  <2>2. after = [client EXCEPT !.entries = Settled(@, id, "acked"), !.totalAcked = client.totalAcked + 1,
                               !.totalFailed = client.totalFailed]
    BY <1>3, <2>1 DEF commandBusReducer
  <2>3. told = [protocol EXCEPT !.pending = Where(@, LAMBDA x : x # id)]
    BY <2>1 DEF Told, reduceTransportLifecycle
  <2>4. client.totalAcked + 1 \in Nat /\ client.totalFailed \in Nat BY <1>3
  <2> HIDE DEF after, told, es
  <2> QED BY <1>8, <2>2, <2>3, <2>4
<1>10. ASSUME NEW id \in Ids, e = Failed(id)
       PROVE  /\ after \in [entries : Seq(LifecycleEntry), totalDispatched : Nat, totalAcked : Nat, totalFailed : Nat]
              /\ Distinct(after.entries)
              /\ \A i \in DOMAIN after.entries : Tells(s, Pending(after.entries[i].id))
              /\ told \in [connected : BOOLEAN, active : {"none"}, pending : Seq(Ids)]
              /\ told.pending = PendingIds(after.entries)
  <2>1. e.type = "COMMAND_FAILED" /\ e.id = id BY <1>10 DEF Failed
  <2>2. after = [client EXCEPT !.entries = Settled(@, id, "failed"), !.totalAcked = client.totalAcked,
                               !.totalFailed = client.totalFailed + 1]
    BY <1>3, <2>1 DEF commandBusReducer
  <2>3. told = [protocol EXCEPT !.pending = Where(@, LAMBDA x : x # id)]
    BY <2>1 DEF Told, reduceTransportLifecycle
  <2>4. client.totalAcked \in Nat /\ client.totalFailed + 1 \in Nat BY <1>3
  <2> HIDE DEF after, told, es
  <2> QED BY <1>8, <2>2, <2>3, <2>4
<1>11. ASSUME e = Purge
       PROVE  /\ after \in [entries : Seq(LifecycleEntry), totalDispatched : Nat, totalAcked : Nat, totalFailed : Nat]
              /\ Distinct(after.entries)
              /\ \A i \in DOMAIN after.entries : Tells(s, Pending(after.entries[i].id))
              /\ told \in [connected : BOOLEAN, active : {"none"}, pending : Seq(Ids)]
              /\ told.pending = PendingIds(after.entries)
  <2> DEFINE ns == Where(es, isPending)
  <2>1. e.type = "PURGE_SETTLED" BY <1>11 DEF Purge
  <2>2. after = [client EXCEPT !.entries = ns] /\ told = protocol
    BY <2>1 DEF commandBusReducer, Told, es
  <2> HIDE DEF es
  <2>3. /\ ns \in Seq(LifecycleEntry) /\ Distinct(ns) /\ PendingIds(ns) = PendingIds(es)
        /\ \A i \in DOMAIN ns : \E j \in DOMAIN es : ns[i] = es[j]
    BY <1>3, <1>5, PurgedEntries
  <2> HIDE DEF ns, after, told
  <2>4. after.entries = ns
        /\ after \in [entries : Seq(LifecycleEntry), totalDispatched : Nat, totalAcked : Nat, totalFailed : Nat]
    BY <1>3, <2>2, <2>3
  <2>5. \A i \in DOMAIN ns : Tells(s, Pending(ns[i].id)) BY <1>6, <2>3
  <2> QED BY <1>3, <2>2, <2>3, <2>4, <2>5
<1>12. (\E id \in Ids : e = Pending(id) \/ e = Acked(id) \/ e = Failed(id)) \/ e = Purge BY DEF Events
<1> HIDE DEF after, told, es
<1> QED BY <1>7, <1>9, <1>10, <1>11, <1>12

\* The client's lifecycle of the commands and the protocol's have the same commands
\* pending after any calls, in any order, for as many commands as the client keeps: an
\* answer that is late, is given twice or is for a command never sent, and a purge at
\* any time, included.
THEOREM LifecyclesAlwaysAgree == \A t \in Seq(Events) : PendsOnce(t) => LifecycleAgrees(t)
<1>1. LifecycleHolds(<<>>) BY FollowersStart DEF LifecycleHolds
<1>2. ASSUME NEW t \in Seq(Events), NEW e \in Events, LifecycleHolds(t) PROVE LifecycleHolds(Append(t, e))
  <2> SUFFICES ASSUME PendsOnce(Append(t, e)) PROVE Follows(Append(t, e)) BY DEF LifecycleHolds
  <2>1. PendsOnce(t) BY ToldBefore
  <2>2. Follows(t) BY <1>2, <2>1 DEF LifecycleHolds
  <2> QED BY <2>2, FollowersStep
<1>3. \A t \in Seq(Events) : LifecycleHolds(t) BY <1>1, <1>2, BusFold!SequenceInduction
<1> QED BY <1>3, FollowersAgree DEF LifecycleHolds

LEMMA LifecyclesAgreeHere == LifecyclesAgree
<1> SUFFICES ASSUME NEW t \in Traces(4) PROVE LifecycleAgrees(t) BY DEF LifecyclesAgree
<1>1. PICK k \in 0..4 : t \in [1..k -> Events] BY DEF Traces
<1>2. t \in Seq(Events) BY <1>1
<1>3. PendsOnce(t) BY DEF Traces
<1> QED BY <1>2, <1>3, LifecyclesAlwaysAgree

-----------------------------------------------------------------------------
(* The gates and the displays                                               *)

\* The same of one state of the controls, with the transport's readiness given.
LEMMA ControlsAgree ==
  ASSUME NEW can \in BOOLEAN, NEW available \in BOOLEAN,
         NEW panel, panel = buildMonitorControlState(available, buildMonitorTransportGateSnapshot(can))
  PROVE  /\ panel.canRunSelectedCommand <=> resolveQuickActionBlockReason(can, available) = "none"
         /\ panel.canRunSelectedCommand <=> resolveCommandExecutionReadiness(can, available) = "canExecute"
         /\ getAutoPollPolicy(TRUE, can, 1) = "start" <=> "poll" \notin panel.warnings
<1>1. /\ panel.canRunSelectedCommand = (available /\ can)
      /\ panel.warnings = (IF available THEN {} ELSE {"gate"})
                               \cup (IF can THEN {} ELSE {"transport"})
                               \cup (IF can THEN {} ELSE {"poll"})
  BY DEF buildMonitorControlState, buildMonitorTransportGateSnapshot
<1>2. panel.canRunSelectedCommand <=> resolveQuickActionBlockReason(can, available) = "none"
  BY <1>1 DEF resolveQuickActionBlockReason
<1>3. panel.canRunSelectedCommand <=> resolveCommandExecutionReadiness(can, available) = "canExecute"
  BY <1>1 DEF resolveCommandExecutionReadiness
<1>4. getAutoPollPolicy(TRUE, can, 1) = "start" <=> "poll" \notin panel.warnings
  <2>1. "poll" \notin panel.warnings <=> can BY <1>1
  <2>2. getAutoPollPolicy(TRUE, can, 1) = "start" <=> can BY DEF getAutoPollPolicy
  <2> QED BY <2>1, <2>2
<1> QED BY <1>2, <1>3, <1>4

\* The button that offers a command, the state behind it and the function that
\* sends it agree on whether it may be sent, for every pair of transports.
THEOREM GatesAlwaysAgree == GatesAgree
<1> SUFFICES ASSUME NEW sel \in MonitorTransportType, NEW act \in TransportType, NEW available \in BOOLEAN
             PROVE  LET able    == isMonitorTransportReady(sel, act)
                        panel == buildMonitorControlState(available, buildMonitorTransportGateSnapshot(able))
                    IN /\ panel.canRunSelectedCommand <=> resolveQuickActionBlockReason(able, available) = "none"
                       /\ panel.canRunSelectedCommand <=> resolveCommandExecutionReadiness(able, available) = "canExecute"
                       /\ getAutoPollPolicy(TRUE, able, 1) = "start" <=> "poll" \notin panel.warnings
                       /\ buildMonitorTransportStatus(sel, act) = "ready" => able
                       /\ matchesSelectedTransport(sel, act) => able
  BY DEF GatesAgree
<1> DEFINE can == isMonitorTransportReady(sel, act)
           panel == buildMonitorControlState(available, buildMonitorTransportGateSnapshot(can))
<1>1. can \in BOOLEAN BY DEF isMonitorTransportReady, isSerialFamily
<1>2. buildMonitorTransportStatus(sel, act) = "ready" => can
  BY DEF buildMonitorTransportStatus, isMonitorTransportReady
<1>3. matchesSelectedTransport(sel, act) => can
  BY DEF matchesSelectedTransport, isMonitorTransportReady, isSerialFamily
<1>4. /\ panel.canRunSelectedCommand <=> resolveQuickActionBlockReason(can, available) = "none"
      /\ panel.canRunSelectedCommand <=> resolveCommandExecutionReadiness(can, available) = "canExecute"
      /\ getAutoPollPolicy(TRUE, can, 1) = "start" <=> "poll" \notin panel.warnings
  <2> DEFINE c == panel
             k == can
  <2>1. k \in BOOLEAN /\ c = buildMonitorControlState(available, buildMonitorTransportGateSnapshot(k)) BY <1>1
  <2> HIDE DEF can, panel, c, k
  <2>2. /\ c.canRunSelectedCommand <=> resolveQuickActionBlockReason(k, available) = "none"
        /\ c.canRunSelectedCommand <=> resolveCommandExecutionReadiness(k, available) = "canExecute"
        /\ getAutoPollPolicy(TRUE, k, 1) = "start" <=> "poll" \notin c.warnings
    BY <2>1, ControlsAgree, Zenon
  <2> QED BY <2>2, Zenon DEF c, k
<1> QED BY <1>2, <1>3, <1>4, Zenon

\* The peaks are of powers that were seen, or zero, and none seen is beyond them.
Captured(seen) == FoldLeft(captured, NoPeaks, seen)
PeaksHold(seen) ==
  /\ Captured(seen) \in [drive : Nat, regen : Nat]
  /\ Captured(seen).drive = 0 \/ Tells(seen, Captured(seen).drive)
  /\ Captured(seen).regen = 0 \/ Tells(seen, -Captured(seen).regen)
  /\ \A j \in DOMAIN seen : seen[j] <= Captured(seen).drive /\ -seen[j] <= Captured(seen).regen

PeakFold == INSTANCE SeqInduction WITH P <- PeaksHold, Op <- captured

LEMMA Captures ==
  /\ Captured(<<>>) = NoPeaks
  /\ \A s \in Seq(Int), e \in Int : Captured(Append(s, e)) = captured(Captured(s), e)
<1>1. \A s : PeakFold!FoldLeft(captured, NoPeaks, s) = Captured(s)
  BY DEF Captured, FoldLeft, PeakFold!FoldLeft, MapThenFoldSet, PeakFold!MapThenFoldSet, Max, PeakFold!Max
<1>2. /\ PeakFold!FoldLeft(captured, NoPeaks, <<>>) = NoPeaks
      /\ \A S : \A s \in Seq(S), e \in S :
           PeakFold!FoldLeft(captured, NoPeaks, Append(s, e))
             = captured(PeakFold!FoldLeft(captured, NoPeaks, s), e)
  BY PeakFold!FoldEquations
<1> QED BY <1>1, <1>2

\* The peaks of the powers seen are the largest of them in each direction, in
\* whatever order they came and however many.
THEOREM PeaksAreThePeaks == \A seen \in Seq(Int) : FoldLeft(captured, NoPeaks, seen) = PeaksOf(seen)
<1>1. PeaksHold(<<>>)
  <2>1. DOMAIN <<>> = {} OBVIOUS
  <2>2. Captured(<<>>) = [drive |-> 0, regen |-> 0] BY Captures DEF NoPeaks
  <2> QED BY <2>1, <2>2 DEF PeaksHold
<1>2. ASSUME NEW s \in Seq(Int), NEW e \in Int, PeaksHold(s) PROVE PeaksHold(Append(s, e))
  <2> DEFINE p == Captured(s)
             a == Append(s, e)
             q == Captured(a)
             n == Len(s)
  <2>1. q = captured(p, e) BY Captures
  <2>2. /\ p \in [drive : Nat, regen : Nat]
        /\ p.drive = 0 \/ Tells(s, p.drive)
        /\ p.regen = 0 \/ Tells(s, -p.regen)
        /\ \A j \in DOMAIN s : s[j] <= p.drive /\ -s[j] <= p.regen
    BY <1>2 DEF PeaksHold
  <2>3. /\ n \in Nat /\ DOMAIN s = 1..n /\ DOMAIN a = 1..n + 1 /\ a[n + 1] = e
        /\ \A i \in 1..n : a[i] = s[i] /\ s[i] \in Int
    BY AppendProperties, LenProperties, ElementOfSeq
  <2>4. Tells(a, e) /\ \A x : Tells(s, x) => Tells(a, x)
    <3> HIDE DEF a, n
    <3>1. 1..n \subseteq 1..n + 1 /\ n + 1 \in 1..n + 1 BY <2>3
    <3> QED BY <2>3, <3>1 DEF Tells
  <2> HIDE DEF p, a, q, n
  <2>5. /\ q \in [drive : Nat, regen : Nat] /\ p.drive <= q.drive /\ p.regen <= q.regen
        /\ e <= q.drive /\ -e <= q.regen
        /\ q.drive = p.drive \/ q.drive = e
        /\ q.regen = p.regen \/ -q.regen = e
    <3>1. CASE e > p.drive
      <4>1. q = [p EXCEPT !.drive = e]
        <5> DEFINE d == p.drive
        <5>1. e > d BY <3>1
        <5> HIDE DEF d
        <5> QED BY <2>1, <2>2, <5>1 DEF captured, d
      <4> QED BY <2>2, <3>1, <4>1
    <3>2. CASE ~(e > p.drive) /\ e < 0 /\ -e > p.regen
      <4> DEFINE m == -e
      <4>1. q = [p EXCEPT !.regen = m] BY <2>1, <3>2 DEF captured
      <4>2. m \in Nat /\ m > p.regen /\ -m = e BY <2>2, <3>2
      <4>3. -e = m OBVIOUS
      <4> HIDE DEF m
      <4> QED BY <2>2, <3>2, <4>1, <4>2, <4>3
    <3>3. CASE ~(e > p.drive) /\ ~(e < 0 /\ -e > p.regen)
      <4>1. q = p BY <2>1, <3>3 DEF captured
      <4> QED BY <2>2, <3>3, <4>1
    <3> QED BY <3>1, <3>2, <3>3
  <2>6. \A j \in 1..n + 1 : a[j] <= q.drive /\ -a[j] <= q.regen
    <3> SUFFICES ASSUME NEW j \in 1..n + 1 PROVE a[j] <= q.drive /\ -a[j] <= q.regen OBVIOUS
    <3>1. CASE j = n + 1 BY <2>3, <2>5, <3>1
    <3>2. CASE j # n + 1
      <4>1. j \in 1..n BY <2>3, <3>2
      <4>2. s[j] <= p.drive /\ -s[j] <= p.regen /\ s[j] \in Int /\ a[j] = s[j] BY <2>2, <2>3, <4>1
      <4> QED BY <2>2, <2>5, <4>2
    <3> QED BY <3>1, <3>2
  <2>7. q.drive = 0 \/ Tells(a, q.drive) BY <2>2, <2>4, <2>5
  <2>8. q.regen = 0 \/ Tells(a, -q.regen) BY <2>2, <2>4, <2>5
  <2>9. PeaksHold(a) BY <2>3, <2>5, <2>6, <2>7, <2>8 DEF PeaksHold, q
  <2> QED BY <2>9 DEF a
<1>3. \A seen \in Seq(Int) : PeaksHold(seen) BY <1>1, <1>2, PeakFold!SequenceInduction
<1> SUFFICES ASSUME NEW seen \in Seq(Int) PROVE Captured(seen) = PeaksOf(seen) BY DEF Captured
<1> DEFINE p == Captured(seen)
           R == {0} \cup Range(seen)
<1>4. /\ p \in [drive : Nat, regen : Nat]
      /\ p.drive = 0 \/ Tells(seen, p.drive)
      /\ p.regen = 0 \/ Tells(seen, -p.regen)
      /\ \A j \in DOMAIN seen : seen[j] <= p.drive /\ -seen[j] <= p.regen
  BY <1>3 DEF PeaksHold
<1> HIDE DEF p
<1>5. DOMAIN seen = 1..Len(seen) /\ \A j \in 1..Len(seen) : seen[j] \in Int BY LenProperties, ElementOfSeq
<1>6. R \subseteq Int BY <1>5 DEF Range
<1>7. p.drive \in R /\ -p.regen \in R
  <2>1. \A x : Tells(seen, x) => x \in R BY DEF Tells, Range
  <2> HIDE DEF R
  <2>2. 0 \in R BY DEF R
  <2>3. \A r \in Int : r = 0 => -r = 0
    <3>1. \A r \in Int : -r \in Int /\ (r = 0 => -r <= 0 /\ 0 <= -r) OBVIOUS
    <3>2. \A a \in Int : a <= 0 /\ 0 <= a => a = 0 OBVIOUS
    <3> QED BY <3>1, <3>2
  <2>4. p.regen \in Int BY <1>4
  <2> QED BY <1>4, <2>1, <2>2, <2>3, <2>4
<1>8. \A x \in R : x <= p.drive /\ -x <= p.regen
  <2>1. \A x \in Range(seen) : \E j \in DOMAIN seen : x = seen[j] BY DEF Range
  <2>2. \A x \in Range(seen) : x <= p.drive /\ -x <= p.regen BY <1>4, <2>1
  <2>3. 0 <= p.drive /\ -0 <= p.regen BY <1>4
  <2> QED BY <2>2, <2>3
<1>9. Max(R) = p.drive
  <2> DEFINE m == p.drive
  <2>1. m \in R /\ m \in Int /\ \A x \in R : m >= x BY <1>4, <1>6, <1>7, <1>8
  <2> HIDE DEF R, m
  <2>2. \A x \in R : (\A y \in R : x >= y) => x = m BY <1>6, <2>1
  <2>3. Max(R) = m BY <2>1, <2>2 DEF Max
  <2> QED BY <2>3 DEF m
<1>10. Min(R) = -p.regen
  <2> DEFINE m == -p.regen
  <2>1. m \in R /\ m \in Int /\ \A x \in R : m <= x BY <1>4, <1>6, <1>7, <1>8
  <2> HIDE DEF R, m
  <2>2. \A x \in R : (\A y \in R : x <= y) => x = m BY <1>6, <2>1
  <2>3. Min(R) = m BY <2>1, <2>2 DEF Min
  <2> QED BY <2>3 DEF m
<1>11. PeaksOf(seen) = [drive |-> Max(R), regen |-> -Min(R)] BY DEF PeaksOf
<1>12. -(-p.regen) = p.regen BY <1>4
<1>13. p = [drive |-> p.drive, regen |-> p.regen] BY <1>4
<1> HIDE DEF R
<1> QED BY <1>9, <1>10, <1>11, <1>12, <1>13 DEF p

\* A tap shows something the car reported, if anything was; the peaks are those of
\* the powers seen; the indicators of a side agree, and so do the two widths.
THEOREM DisplaysAlwaysAgree == DisplaysAgree
<1>1. \A mode \in SocDisplayMode, hasBms, hasRange \in BOOLEAN :
        (hasRange => hasBms) => (isUnavailable(cycleSoc(mode, hasRange), hasBms, hasRange) => ~hasBms)
  <2> SUFFICES ASSUME NEW mode \in SocDisplayMode, NEW hasBms \in BOOLEAN, NEW hasRange \in BOOLEAN,
                      hasRange => hasBms, isUnavailable(cycleSoc(mode, hasRange), hasBms, hasRange)
               PROVE  ~hasBms
    OBVIOUS
  <2>1. CASE hasRange
    <3>1. ~isUnavailable(cycleSoc(mode, hasRange), hasBms, hasRange) BY <2>1 DEF isUnavailable
    <3> QED BY <3>1
  <2>2. CASE ~hasRange
    <3>1. cycleSoc(mode, hasRange) = "soc" BY <2>2 DEF cycleSoc
    <3> QED BY <3>1 DEF isUnavailable
  <2> QED BY <2>1, <2>2
<1>2. \A seen \in [1..4 -> -2..2] : FoldLeft(captured, NoPeaks, seen) = PeaksOf(seen)
  <2> SUFFICES ASSUME NEW seen \in [1..4 -> -2..2] PROVE FoldLeft(captured, NoPeaks, seen) = PeaksOf(seen) OBVIOUS
  <2>1. \A j \in 1..4 : seen[j] \in Int
    <3>1. \A x \in -2..2 : x \in Int OBVIOUS
    <3> QED BY <3>1
  <2> DEFINE n == 4
  <2>2. seen \in [1..n -> Int] /\ n \in Nat BY <2>1
  <2> HIDE DEF n
  <2>3. seen \in Seq(Int) BY <2>2
  <2> QED BY <2>3, PeaksAreThePeaks
<1>3. \A bsm \in 0..3, turn \in BOOLEAN : sideTone(bsm, turn) = "idle" <=> sideLabel(bsm, turn) = ""
  BY DEF sideTone, sideLabel
<1>4. \A override \in Overrides : toggleTheme(toggleTheme(toggleTheme(override))) = override
  BY DEF Overrides, toggleTheme
<1>5. \A width \in 0..1100 : isPhone(width) <=> Breakpoint(width) \in {"phone", "cluster", "phoneLandscape"}
  <2> SUFFICES ASSUME NEW width \in 0..1100
               PROVE  isPhone(width) <=> Breakpoint(width) \in {"phone", "cluster", "phoneLandscape"}
    OBVIOUS
  <2>1. /\ breakpoints.cluster = 480 /\ breakpoints.phoneLS = 568
        /\ breakpoints.tablet = 768 /\ breakpoints.desktop = 980
    BY DEF breakpoints
  <2>2. CASE width >= 768
    <3>1. Breakpoint(width) \in {"desktop", "tablet"} /\ ~isPhone(width) BY <2>1, <2>2 DEF Breakpoint, isPhone
    <3> QED BY <3>1
  <2>3. CASE ~(width >= 768)
    <3>1. Breakpoint(width) \in {"phone", "cluster", "phoneLandscape"} /\ isPhone(width)
      BY <2>1, <2>3 DEF Breakpoint, isPhone
    <3> QED BY <3>1
  <2> QED BY <2>2, <2>3
<1> QED BY <1>1, <1>2, <1>3, <1>4, <1>5 DEF DisplaysAgree

-----------------------------------------------------------------------------
(* The timeline                                                             *)

\* The places of a list by its times, the newest first and else as they were.
Ahead(s) ==
  [i \in DOMAIN s |-> {j \in DOMAIN s : Newer(s[j], s[i]) \/ (~Newer(s[i], s[j]) /\ j < i)}]

LEMMA AheadIsChain ==
  ASSUME NEW S, NEW s \in Seq(S), \A e \in S : e.ts \in Int
  PROVE  /\ Chain(DOMAIN s, Ahead(s))
         /\ SortedBy(s, Newer) = [k \in DOMAIN Ordered(DOMAIN s, Ahead(s)) |-> s[Ordered(DOMAIN s, Ahead(s))[k]]]
<1> DEFINE n == Len(s)
           I == 1..n
           ts == [i \in I |-> s[i].ts]
           below == Ahead(s)
<1>1. n \in Nat /\ DOMAIN s = I BY LenProperties
<1>2. \A i \in I : s[i].ts \in Int BY ElementOfSeq
<1>3. ts \in [I -> Int] BY <1>2
<1> HIDE DEF n
<1>4. IsFiniteSet(I)
  <2>1. 1 \in Int /\ n \in Int BY <1>1
  <2> QED BY <2>1, FS_Interval
<1>5. below = [i \in I |-> {j \in I : ts[j] > ts[i] \/ (~(ts[i] > ts[j]) /\ j < i)}]
  BY <1>1 DEF Ahead, Newer
<1> HIDE DEF ts, below
<1>6. \A i, j \in I : j \in below[i] <=> ts[j] > ts[i] \/ (~(ts[i] > ts[j]) /\ j < i) BY <1>5
<1>7. below \in [I -> SUBSET I] BY <1>5
<1>8. \A i \in I : ts[i] \in Int /\ i \in Int BY <1>1, <1>3
<1>9. \A i \in I : i \notin below[i] BY <1>6, <1>8
<1>10. \A i, j \in I : i # j => i \in below[j] \/ j \in below[i] BY <1>6, <1>8
<1>11. \A i, j \in I : i \in below[j] => below[i] \subseteq below[j]
  <2> SUFFICES ASSUME NEW i \in I, NEW j \in I, i \in below[j], NEW k \in below[i] PROVE k \in below[j] OBVIOUS
  <2>1. k \in I BY <1>7
  <2>2. ts[i] > ts[j] \/ (~(ts[j] > ts[i]) /\ i < j) BY <1>6
  <2>3. ts[k] > ts[i] \/ (~(ts[i] > ts[k]) /\ k < i) BY <1>6, <2>1
  <2>4. ts[k] > ts[j] \/ (~(ts[j] > ts[k]) /\ k < j) BY <1>8, <2>1, <2>2, <2>3
  <2> QED BY <1>6, <2>1, <2>4
<1>12. Chain(I, below) BY <1>4, <1>7, <1>9, <1>10, <1>11 DEF Chain
<1>13. InOrder(DOMAIN s, LAMBDA j, i : Newer(s[j], s[i]) \/ (~Newer(s[i], s[j]) /\ j < i)) = Ordered(DOMAIN s, below)
  <2>1. \A i \in DOMAIN s :
          below[i] = {j \in DOMAIN s : Newer(s[j], s[i]) \/ (~Newer(s[i], s[j]) /\ j < i)}
    BY DEF below, Ahead
  <2>2. InOrder(DOMAIN s, LAMBDA j, i : Newer(s[j], s[i]) \/ (~Newer(s[i], s[j]) /\ j < i))
          = [k \in 1..Cardinality(DOMAIN s) |-> CHOOSE i \in DOMAIN s :
               Cardinality({j \in DOMAIN s : Newer(s[j], s[i]) \/ (~Newer(s[i], s[j]) /\ j < i)}) = k - 1]
    BY DEF InOrder
  <2> HIDE DEF below, n, I
  <2>3. \A k \in 1..Cardinality(DOMAIN s) :
          (CHOOSE i \in DOMAIN s :
             Cardinality({j \in DOMAIN s : Newer(s[j], s[i]) \/ (~Newer(s[i], s[j]) /\ j < i)}) = k - 1)
          = (CHOOSE i \in DOMAIN s : Cardinality(below[i]) = k - 1)
    BY <2>1
  <2> QED BY <2>2, <2>3 DEF Ordered
<1> QED BY <1>1, <1>12, <1>13 DEF SortedBy, below

\* A sort by the times keeps every element, and has the newest first.
LEMMA SortedFacts ==
  ASSUME NEW S, NEW s \in Seq(S), \A e \in S : e.ts \in Int, NEW r, r = SortedBy(s, Newer)
  PROVE  /\ r \in Seq(S) /\ Len(r) = Len(s)
         /\ \A i \in 1..Len(s) : \E k \in 1..Len(s) : r[k] = s[i]
         /\ \A k, l \in 1..Len(s) : k < l => r[k].ts >= r[l].ts
<1> DEFINE n == Len(s)
           I == 1..n
           below == Ahead(s)
           at == Ordered(I, below)
<1>1. n \in Nat /\ DOMAIN s = I BY LenProperties
<1>2. \A i \in I : s[i] \in S /\ s[i].ts \in Int BY ElementOfSeq
<1>3. Chain(I, below) /\ r = [k \in DOMAIN at |-> s[at[k]]] BY <1>1, AheadIsChain
<1>4. \A i, j \in I : j \in below[i] => s[j].ts >= s[i].ts
  <2> SUFFICES ASSUME NEW i \in I, NEW j \in I, j \in below[i] PROVE s[j].ts >= s[i].ts OBVIOUS
  <2>1. Newer(s[j], s[i]) \/ ~Newer(s[i], s[j]) BY <1>1 DEF Ahead
  <2>2. s[i].ts \in Int /\ s[j].ts \in Int BY <1>2
  <2>3. s[j].ts > s[i].ts \/ ~(s[i].ts > s[j].ts) BY <2>1 DEF Newer
  <2> QED BY <2>2, <2>3
<1>5. Cardinality(I) = n
  <2> HIDE DEF n
  <2>1. 1 \in Int /\ n \in Int BY <1>1
  <2>2. Cardinality(1..n) = IF 1 > n THEN 0 ELSE n - 1 + 1 BY <2>1, FS_Interval
  <2> QED BY <1>1, <2>2
<1> HIDE DEF n, I, below, at
<1>6. /\ at \in [1..n -> I]
      /\ \A i \in I : \E k \in 1..n : at[k] = i
      /\ \A k, l \in 1..n : k < l => at[k] \in below[at[l]]
  <2>1. at = Ordered(I, below) /\ n = Cardinality(I) BY <1>5 DEF at
  <2> QED BY <1>3, <2>1, OrderedFacts
<1>7. r = [k \in 1..n |-> s[at[k]]] BY <1>3, <1>6
<1>8. \A k \in 1..n : r[k] = s[at[k]] /\ at[k] \in I BY <1>6, <1>7
<1>9. r \in Seq(S) /\ Len(r) = n
  <2>1. r \in [1..n -> S] BY <1>2, <1>7, <1>8
  <2> QED BY <1>1, <2>1, AsLong
<1>10. \A i \in 1..n : \E k \in 1..n : r[k] = s[i]
  <2> SUFFICES ASSUME NEW i \in 1..n PROVE \E k \in 1..n : r[k] = s[i] OBVIOUS
  <2>1. i \in I BY DEF I
  <2>2. PICK k \in 1..n : at[k] = i BY <1>6, <2>1
  <2> QED BY <1>8, <2>2
<1>11. \A k, l \in 1..n : k < l => r[k].ts >= r[l].ts
  <2> SUFFICES ASSUME NEW k \in 1..n, NEW l \in 1..n, k < l PROVE r[k].ts >= r[l].ts OBVIOUS
  <2>1. at[k] \in below[at[l]] /\ at[k] \in I /\ at[l] \in I BY <1>6
  <2>2. s[at[k]].ts >= s[at[l]].ts BY <1>4, <2>1
  <2> QED BY <1>8, <2>2
<1> QED BY <1>9, <1>10, <1>11 DEF n

\* What a timeline is built of, in any number and of any times.
Categories == {"command", "board", "snapshot", "system"}
TimelineEvents(Texts) == [ts : Int, category : Categories, text : Texts, ok : BOOLEAN]

\* The timeline keeps the newest of its events, the newest of them first.
LEMMA NewestKept ==
  ASSUME NEW S, NEW all \in Seq(S), \A e \in S : e.ts \in Int,
         NEW built, built = SubSeq(SortedBy(all, Newer), 1, Min({MaxEvents, Len(SortedBy(all, Newer))}))
  PROVE  built \in Seq(S) /\ KeepsNewest(built, all)
<1> DEFINE n == Len(all)
           sorted == SortedBy(all, Newer)
           m == Min({MaxEvents, n})
<1>1. n \in Nat /\ DOMAIN all = 1..n /\ \A i \in 1..n : all[i] \in S BY LenProperties, ElementOfSeq
<1>2. /\ sorted \in Seq(S) /\ Len(sorted) = n
      /\ \A i \in 1..n : \E k \in 1..n : sorted[k] = all[i]
      /\ \A k, l \in 1..n : k < l => sorted[k].ts >= sorted[l].ts
  BY SortedFacts
<1>3. built = SubSeq(sorted, 1, m) BY <1>2
<1> HIDE DEF n, sorted
<1>4. m \in Nat /\ m <= n
  <2>1. m = IF MaxEvents <= n THEN MaxEvents ELSE n BY <1>1, MaxEventsAssumption DEF Min
  <2> HIDE DEF m
  <2> QED BY <1>1, <2>1, MaxEventsAssumption
<1> HIDE DEF m
<1>5. /\ built \in Seq(S) /\ Len(built) = m /\ DOMAIN built = 1..m
      /\ \A k \in 1..m : built[k] = sorted[k] /\ k \in 1..n
  <2>1. sorted \in Seq(S) /\ m \in Nat /\ m <= Len(sorted) BY <1>2, <1>4
  <2>2. /\ built \in Seq(S) /\ Len(built) = m /\ DOMAIN built = 1..m
        /\ \A k \in 1..m : built[k] = sorted[k] /\ k \in 1..Len(sorted)
    BY ONLY <1>3, <2>1, Beginning
  <2> QED BY <1>2, <2>2
<1>6. ASSUME NEW e \in ToSet(all) \ ToSet(built), NEW b \in ToSet(built) PROVE b.ts >= e.ts
  <2>1. PICK i \in 1..n : e = all[i] BY <1>1 DEF ToSet
  <2>2. PICK k \in 1..n : sorted[k] = e BY <1>2, <2>1
  <2>3. k > m
    <3>1. k \in 1..m => e \in ToSet(built) BY <1>5, <2>2 DEF ToSet
    <3> QED BY <1>1, <1>4, <3>1
  <2>4. PICK l \in 1..m : b = built[l] BY <1>5 DEF ToSet
  <2>5. l \in 1..n /\ b = sorted[l] BY <1>5, <2>4
  <2>6. l < k BY <1>4, <2>3
  <2> QED BY <1>2, <2>2, <2>5, <2>6
<1>7. ASSUME NEW i \in DOMAIN built, NEW j \in DOMAIN built, i < j PROVE built[i].ts >= built[j].ts
  BY <1>2, <1>5, <1>7
<1> QED BY <1>5, <1>6, <1>7 DEF KeepsNewest

\* The timeline, built of lists of any lengths: what it leaves out is no newer than
\* anything it keeps, and it is in the order of the times.
THEOREM TimelineKeepsTheNewest ==
  ASSUME NEW Texts, NEW Sorts, NEW now \in Int, NEW lifecycle \in Seq(TimelineEvents(Texts)),
         NEW past \in Seq(TimelineEvents(Texts)), NEW shots \in Seq(TimelineEvents(Texts)),
         NEW messages \in Seq([type : Sorts, text : Texts])
  PROVE  KeepsNewest(buildDiagnosticsEvents(lifecycle, past, messages, shots, now),
                     lifecycle \o past \o BoardEvents(messages, now) \o shots)
<1> DEFINE Known == TimelineEvents(Texts)
           told == BoardEvents(messages, now)
           all == lifecycle \o past \o told \o shots
<1>1. told \in Seq(Known)
  <2> DEFINE n == Len(messages)
             event(i) == [ts |-> now - (i - 1), category |-> "board", text |-> messages[i].text,
                          ok |-> messages[i].type # "error"]
  <2>1. n \in Nat /\ DOMAIN messages = 1..n /\ \A i \in 1..n : messages[i] \in [type : Sorts, text : Texts]
    BY LenProperties, ElementOfSeq
  <2>2. told = [i \in 1..n |-> event(i)] BY <2>1 DEF BoardEvents
  <2> HIDE DEF n, told
  <2>3. \A i \in 1..n : event(i) \in Known
    <3> SUFFICES ASSUME NEW i \in 1..n PROVE event(i) \in Known OBVIOUS
    <3>1. now - (i - 1) \in Int BY <2>1
    <3>2. messages[i].text \in Texts BY <2>1
    <3>3. (messages[i].type # "error") \in BOOLEAN OBVIOUS
    <3>4. "board" \in Categories BY DEF Categories
    <3> QED BY <3>1, <3>2, <3>3, <3>4, Zenon DEF TimelineEvents
  <2> HIDE DEF event, Known
  <2>4. told \in [1..n -> Known] BY <2>2, <2>3
  <2> QED BY <2>1, <2>4, AsLong
<1>2. lifecycle \in Seq(Known) /\ past \in Seq(Known) /\ shots \in Seq(Known) OBVIOUS
<1>3. \A e \in Known : e.ts \in Int BY DEF TimelineEvents
<1> HIDE DEF told, Known
<1>4. all \in Seq(Known) BY <1>1, <1>2
<1> HIDE DEF all
<1>5. buildDiagnosticsEvents(lifecycle, past, messages, shots, now)
        = SubSeq(SortedBy(all, Newer), 1, Min({MaxEvents, Len(SortedBy(all, Newer))}))
  BY DEF buildDiagnosticsEvents, all, told
<1>6. KeepsNewest(buildDiagnosticsEvents(lifecycle, past, messages, shots, now), all)
  BY <1>3, <1>4, <1>5, NewestKept
<1> QED BY <1>6 DEF all, told

\* Without a category and a text the filter hides nothing.
LEMMA NothingHidden ==
  ASSUME NEW S, NEW built \in Seq(S), NEW old \in Seq(S)
  PROVE  visibleDiagnostics(built, old, "", "all") = built \o old
<1> DEFINE s == built \o old
           I == {i \in DOMAIN s : ("all" = "all" \/ s[i].category = "all") /\ ("" = "" \/ s[i].text = "")}
<1>1. s \in Seq(S) OBVIOUS
<1> HIDE DEF s
<1>2. I = 1..Len(s)
  <2>1. DOMAIN s = 1..Len(s) BY <1>1, LenProperties
  <2> QED BY <2>1
<1>3. filterDiagnosticsEvents(s, "", "all") = AtPlaces(s, I) BY DEF filterDiagnosticsEvents, Where
<1>4. AtPlaces(s, 1..Len(s)) = s BY <1>1, AllPlaces
<1> QED BY <1>2, <1>3, <1>4 DEF visibleDiagnostics, s

LEMMA Divided ==
  ASSUME NEW a \in Nat, NEW b \in Nat \ {0}, NEW q \in Int, q = a \div b
  PROVE  q \in Nat /\ b * q <= a /\ a < b * q + b
OBVIOUS

LEMMA Multiples == \A b, q, c \in Nat : q >= c => b * q >= b * c
OBVIOUS

\* What is rounded to a hundred percent of fewer than two hundred is all of them.
Percent(oks, n) == (200 * oks + n) \div (2 * n)

LEMMA RateFacts ==
  ASSUME NEW n \in 1..199, NEW oks \in 0..n, NEW q \in Int, q = Percent(oks, n)
  PROVE  q \in 0..100 /\ (q = 100 <=> n - oks = 0)
<1> DEFINE a == 200 * oks + n
           b == 2 * n
<1>1. a \in Nat /\ b \in Nat \ {0} /\ a <= 201 * n OBVIOUS
<1>2. q = a \div b BY DEF Percent
<1>3. b * 101 = 202 * n /\ b * 100 = 200 * n /\ b * 99 = 198 * n OBVIOUS
<1> HIDE DEF a, b
<1>4. q \in Nat /\ b * q <= a /\ a < b * q + b BY <1>1, <1>2, Divided
<1>5. q <= 100
  <2> SUFFICES ASSUME q >= 101 PROVE FALSE BY <1>4
  <2>1. b * q >= b * 101 BY <1>1, <1>4, Multiples
  <2> DEFINE p == b * q
  <2>2. p \in Nat /\ p <= a /\ p >= 202 * n BY <1>1, <1>3, <1>4, <2>1
  <2> HIDE DEF p
  <2> QED BY <1>1, <2>2
<1>6. ASSUME q = 100 PROVE oks = n
  <2>1. b * 100 <= a BY <1>4, <1>6
  <2>2. 200 * n <= 200 * oks + n BY <1>3, <2>1 DEF a
  <2> QED BY <2>2
<1>7. ASSUME oks = n PROVE q = 100
  <2> SUFFICES ASSUME q <= 99 PROVE FALSE BY <1>4, <1>5
  <2>1. b * 99 >= b * q BY <1>1, <1>4, Multiples
  <2> DEFINE p == b * q
  <2>2. p \in Nat /\ p <= 198 * n /\ a < p + b BY <1>1, <1>3, <1>4, <2>1
  <2>3. a = 201 * n BY <1>7 DEF a
  <2>4. b = 2 * n BY DEF b
  <2> HIDE DEF p
  <2> QED BY <2>2, <2>3, <2>4
<1> QED BY <1>4, <1>5, <1>6, <1>7

\* Of the commands of a history, which keeps fewer than two hundred, each succeeded or
\* failed, and the rate is a hundred percent only when none failed.
THEOREM StatsAlwaysAgree ==
  ASSUME NEW S, NEW past \in Seq(S), Len(past) \in 1..199
  PROVE  StatsAgree(past)
<1> DEFINE n == Len(past)
           I == {i \in DOMAIN past : past[i].ok}
           oks == Cardinality(I)
           q == (200 * oks + n) \div (2 * n)
<1>1. n \in 1..199 /\ DOMAIN past = 1..n BY LenProperties
<1>2. Within(I, n) BY <1>1, Zenon DEF Within
<1>3. Oks(past) = Len(AtPlaces(past, I)) BY DEF Oks, Where
<1>4. past # <<>>
  <2> SUFFICES ASSUME past = <<>> PROVE FALSE OBVIOUS
  <2>1. Len(<<>>) = 0 OBVIOUS
  <2> QED BY <1>1, <2>1
<1> HIDE DEF I
<1>5. IsFiniteSet(I) /\ oks \in Nat /\ Oks(past) = oks BY <1>2, <1>3, SelectionFacts
<1> HIDE DEF n
<1>6. oks <= n
  <2> DEFINE J == 1..n
  <2>1. 1 \in Int /\ n \in Int BY <1>1
  <2>2. IsFiniteSet(J) /\ Cardinality(J) = n
    <3>1. Cardinality(J) = (IF 1 > n THEN 0 ELSE n - 1 + 1) /\ IsFiniteSet(J) BY <2>1, FS_Interval
    <3> QED BY <1>1, <3>1
  <2>3. I \in SUBSET J BY <1>2 DEF Within
  <2> HIDE DEF J
  <2>4. Cardinality(I) <= Cardinality(J) BY <2>2, <2>3, FS_Subset
  <2> QED BY <2>2, <2>4
<1> HIDE DEF oks
<1>7. oks \in 0..n BY <1>1, <1>5, <1>6
<1>8. q \in Int
  <2>1. 200 * oks + n \in Nat /\ 2 * n \in Nat \ {0} BY <1>1, <1>7
  <2> QED BY <2>1
<1>9. q \in 0..100 /\ (q = 100 <=> n - oks = 0)
  <2> DEFINE r == q
  <2>1. r = Percent(oks, n) BY DEF Percent
  <2>2. r \in Int BY <1>8
  <2> HIDE DEF r, q
  <2>3. /\ n \in 1..199 /\ oks \in 0..n
        /\ r \in Int /\ r = Percent(oks, n) BY <1>1, <1>7, <2>1, <2>2
  <2>4. r \in 0..100 /\ (r = 100 <=> n - oks = 0) BY ONLY <2>3, RateFacts, Zenon
  <2> QED BY <2>4 DEF r
<1>10. getHistorySuccessRate(past) = q BY <1>4, <1>5 DEF getHistorySuccessRate, n
<1> HIDE DEF q
<1>11. getHistoryStats(past) = [total |-> n, successful |-> oks, failed |-> n - oks, successRate |-> q]
  BY <1>5, <1>10 DEF getHistoryStats, n
<1>12. oks + (n - oks) = n BY <1>1, <1>7
<1> QED BY <1>9, <1>11, <1>12 DEF StatsAgree

LEMMA TimelinesAgreeHere == TimelineAgrees
<1> SUFFICES ASSUME NEW times \in [1..3 -> 0..2], NEW oks \in [1..3 -> BOOLEAN]
             PROVE  LET events == [i \in 1..3 |-> [ts |-> times[i], category |-> "command", text |-> "t", ok |-> oks[i]]]
                        built  == buildDiagnosticsEvents(<<events[1]>>, <<events[2]>>, <<>>, <<events[3]>>, 0)
                    IN /\ KeepsNewest(built, events)
                       /\ visibleDiagnostics(built, events, "", "all") = built \o events
                       /\ StatsAgree(events)
  BY DEF TimelineAgrees
<1> DEFINE S == [ts : 0..2, category : {"command"}, text : {"t"}, ok : BOOLEAN]
           e(i) == [ts |-> times[i], category |-> "command", text |-> "t", ok |-> oks[i]]
           events == [i \in 1..3 |-> e(i)]
           built == buildDiagnosticsEvents(<<events[1]>>, <<events[2]>>, <<>>, <<events[3]>>, 0)
<1>1. \A i \in 1..3 : e(i) \in S OBVIOUS
<1>2. \A x \in S : x.ts \in Int OBVIOUS
<1> HIDE DEF S, e
<1>3. events \in Seq(S) /\ Len(events) = 3
  <2> DEFINE n == 3
  <2>1. events = [i \in 1..n |-> e(i)] /\ n \in Nat OBVIOUS
  <2> HIDE DEF n, events
  <2>2. events \in [1..n -> S] BY <1>1, <2>1 DEF n
  <2>3. events \in Seq(S) /\ Len(events) = n BY <2>1, <2>2, AsLong
  <2> QED BY <2>3 DEF n
<1>4. events[1] = e(1) /\ events[2] = e(2) /\ events[3] = e(3) OBVIOUS
<1>5. e(1) \in S /\ e(2) \in S /\ e(3) \in S BY <1>1
<1> HIDE DEF events
<1>6. <<events[1]>> \o <<events[2]>> \o BoardEvents(<<>>, 0) \o <<events[3]>> = events
  <2>1. BoardEvents(<<>>, 0) = <<>> BY DEF BoardEvents
  <2> DEFINE a == events[1]
             b == events[2]
             c == events[3]
  <2>2. a \in S /\ b \in S /\ c \in S BY <1>4, <1>5
  <2> HIDE DEF a, b, c
  <2> DEFINE u == <<a>> \o <<b>>
             v == u \o <<>>
             w == v \o <<c>>
  <2>3. u \in Seq(S) /\ Len(u) = 2 /\ u[1] = a /\ u[2] = b BY <2>2
  <2> HIDE DEF u
  <2>4. v \in Seq(S) /\ Len(v) = 2 /\ v[1] = a /\ v[2] = b BY <2>3
  <2> HIDE DEF v
  <2>5. w \in Seq(S) /\ Len(w) = 3 /\ w[1] = a /\ w[2] = b /\ w[3] = c
    <3>1. w = v \o <<c>> /\ v \in Seq(S) /\ c \in S BY <2>2, <2>4 DEF w
    <3> HIDE DEF w
    <3>2. /\ w \in Seq(S) /\ Len(w) = Len(v) + 1 /\ w[Len(v) + 1] = c
          /\ \A i \in 1..Len(v) : w[i] = v[i]
      BY ONLY <3>1, OneAfter
    <3>3. 2 + 1 = 3 /\ 1 \in 1..2 /\ 2 \in 1..2 OBVIOUS
    <3> QED BY <2>4, <3>2, <3>3
  <2>6. \A i \in 1..3 : events[i] = w[i]
    <3>1. events[1] = a /\ events[2] = b /\ events[3] = c BY DEF a, b, c
    <3>2. \A i \in 1..3 : i = 1 \/ i = 2 \/ i = 3 OBVIOUS
    <3> QED BY <2>5, <3>1, <3>2
  <2>7. events = w BY <1>3, <2>5, <2>6, SeqEqual
  <2> QED BY <2>1, <2>7 DEF a, b, c, u, v, w
<1>7. built = SubSeq(SortedBy(events, Newer), 1, Min({MaxEvents, Len(SortedBy(events, Newer))}))
  BY <1>6 DEF buildDiagnosticsEvents
<1> HIDE DEF built
<1>8. built \in Seq(S) /\ KeepsNewest(built, events) BY <1>2, <1>3, <1>7, NewestKept
<1>9. visibleDiagnostics(built, events, "", "all") = built \o events BY <1>3, <1>8, NothingHidden
<1>10. StatsAgree(events) BY <1>3, StatsAlwaysAgree
<1> QED BY <1>8, <1>9, <1>10 DEF built, events, e

-----------------------------------------------------------------------------
(* The viewing pipeline                                                     *)

\* Every step-th place of the first w, from the first one.
OnStep(w, step) == {k \in 1..w : (k - 1) % step = 0}
Stepped(c, step) == [i \in 1..c |-> (i - 1) * step + 1]

LEMMA StepMultiple ==
  ASSUME NEW step \in Nat \ {0}, NEW x \in Nat
  PROVE  /\ x % step \in 0..step - 1
         /\ \E q \in Nat : x = (step * q) + (x % step)
<1> DEFINE q == x \div step
           r == x % step
<1>1. r \in 0..step - 1 OBVIOUS
<1>2. q \in Nat OBVIOUS
<1>3. x = step * q + r OBVIOUS
<1> QED BY <1>1, <1>2, <1>3

LEMMA MultipleMod ==
  ASSUME NEW step \in Nat \ {0}, NEW i \in Nat
  PROVE  (step * i) % step = 0
<1> DEFINE x == step * i
           r == x % step
<1>1. x \in Nat OBVIOUS
<1> HIDE DEF x
<1>2. r \in 0..step - 1 BY <1>1, StepMultiple
<1>3. PICK q \in Nat : x = step * q + r BY <1>1, StepMultiple
<1> HIDE DEF r
<1>4. r = step * (i - q)
  <2>1. step * (i - q) = step * i - step * q OBVIOUS
  <2>2. step * i = step * q + r BY <1>3 DEF x
  <2> DEFINE a == step * i
             b == step * q
             d == step * (i - q)
  <2>3. a \in Int /\ b \in Int /\ r \in Int /\ a = b + r /\ d = a - b BY <1>2, <2>1, <2>2
  <2> HIDE DEF a, b, d
  <2>4. r = d BY <2>3
  <2> QED BY <2>4 DEF d
<1>5. i - q = 0
  <2> DEFINE d == i - q
  <2>1. d \in Int /\ r = step * d BY <1>4
  <2> HIDE DEF d
  <2>2. d >= 1 => step * d >= step BY <2>1
  <2>3. d <= -1 => step * d <= -step BY <2>1
  <2>4. d = 0 BY <1>2, <2>1, <2>2, <2>3
  <2> QED BY <2>4 DEF d
<1>6. r = 0
  <2>1. step * 0 = 0 OBVIOUS
  <2> QED BY <1>4, <1>5, <2>1
<1> QED BY <1>6 DEF r, x

\* There are as many as the quotient that is rounded up.
LEMMA SteppedFacts ==
  ASSUME NEW w \in Nat, NEW step \in Nat \ {0}, NEW c, c = (w + step - 1) \div step,
         NEW g, g = Stepped(c, step)
  PROVE  Enumerates(g, c, OnStep(w, step))
<1>1. c \in Nat /\ step * c <= w + step - 1 /\ w + step - 1 < step * c + step
  <2> DEFINE a == w + step - 1
  <2>1. a \in Nat /\ c = a \div step OBVIOUS
  <2> HIDE DEF a
  <2>2. c \in Int BY <2>1
  <2>3. c \in Nat /\ step * c <= a /\ a < step * c + step BY <2>1, <2>2, Divided
  <2> QED BY <2>3 DEF a
<1>2. \A i \in 1..c : g[i] = step * (i - 1) + 1
  <2>1. \A i \in 1..c : g[i] = (i - 1) * step + 1 BY DEF Stepped
  <2>2. \A i \in 1..c : (i - 1) * step = step * (i - 1) BY <1>1
  <2> QED BY <2>1, <2>2
<1>3. \A i \in 1..c : g[i] \in OnStep(w, step)
  <2> SUFFICES ASSUME NEW i \in 1..c PROVE g[i] \in OnStep(w, step) OBVIOUS
  <2> DEFINE j == i - 1
             x == step * j
  <2>1. j \in Nat /\ j + 1 <= c BY <1>1
  <2> HIDE DEF j
  <2>2. x \in Nat BY <2>1
  <2>3. x + step <= step * c
    <3>1. step * (j + 1) <= step * c BY <1>1, <2>1, Multiples
    <3>2. step * (j + 1) = step * j + step BY <2>1
    <3> QED BY <3>1, <3>2
  <2>4. x % step = 0 BY <2>1, MultipleMod
  <2> DEFINE s == step * c
  <2>5. s \in Nat /\ s <= w + step - 1 /\ x + step <= s BY <1>1, <2>3
  <2> HIDE DEF x, s
  <2>6. x + 1 \in 1..w /\ x + 1 - 1 = x BY <2>2, <2>5
  <2>7. g[i] = x + 1 BY <1>2 DEF x, j
  <2> DEFINE k == x + 1
  <2>8. k \in 1..w /\ k - 1 = x /\ g[i] = k BY <2>2, <2>6, <2>7
  <2> HIDE DEF k
  <2> QED BY <2>4, <2>8 DEF OnStep
<1>4. \A k \in OnStep(w, step) : \E i \in 1..c : g[i] = k
  <2> SUFFICES ASSUME NEW k \in OnStep(w, step) PROVE \E i \in 1..c : g[i] = k OBVIOUS
  <2> DEFINE x == k - 1
  <2>1. k \in 1..w /\ x \in Nat /\ x % step = 0 BY DEF OnStep
  <2> HIDE DEF x
  <2>2. PICK q \in Nat : x = (step * q) + (x % step) BY <2>1, StepMultiple
  <2> DEFINE y == step * q
             z == step * c
  <2>3. x = y
    <3>1. y \in Nat /\ x % step = 0 /\ x = y + (x % step) BY <1>1, <2>1, <2>2
    <3> HIDE DEF y
    <3> QED BY <3>1
  <2>4. q + 1 <= c
    <3> SUFFICES ASSUME q >= c PROVE FALSE BY <1>1
    <3>1. y >= z BY <1>1, <3>1, Multiples
    <3>2. z \in Nat /\ w + step - 1 < z + step /\ y \in Nat BY <1>1
    <3>3. x <= w - 1 BY <2>1 DEF x
    <3> HIDE DEF y, z
    <3> QED BY <2>1, <2>3, <3>1, <3>2, <3>3
  <2> DEFINE i == q + 1
  <2>5. i \in 1..c /\ i - 1 = q BY <1>1, <2>4
  <2>6. g[i] = y + 1
    <3> HIDE DEF i
    <3> QED BY <1>2, <2>5
  <2>7. y + 1 = k BY <2>1, <2>3 DEF x
  <2> QED BY <2>5, <2>6, <2>7
<1>5. \A k, l \in 1..c : k < l => g[k] < g[l]
  <2> SUFFICES ASSUME NEW k \in 1..c, NEW l \in 1..c, k < l PROVE g[k] < g[l] OBVIOUS
  <2> DEFINE a == k - 1
             b == l - 1
  <2>1. a \in Nat /\ b \in Nat /\ b >= a + 1 BY <1>1
  <2>2. g[k] = step * a + 1 /\ g[l] = step * b + 1 BY <1>2
  <2> HIDE DEF a, b
  <2>3. step * b >= step * (a + 1) BY <2>1, Multiples
  <2>4. step * (a + 1) = step * a + step BY <2>1
  <2>5. step * a \in Nat /\ step * b \in Nat BY <2>1
  <2> DEFINE p == step * a
             q == step * b
  <2>6. p \in Nat /\ q \in Nat /\ q >= p + step BY <2>3, <2>4, <2>5
  <2> HIDE DEF p, q
  <2>7. p + 1 < q + 1 BY <2>6
  <2> QED BY <2>2, <2>7 DEF p, q
<1>6. OnStep(w, step) \subseteq Int BY DEF OnStep
<1>7. g \in [1..c -> OnStep(w, step)]
  <2>1. g = [i \in 1..c |-> g[i]] BY DEF Stepped
  <2> QED BY <1>3, <2>1
<1> QED BY <1>1, <1>4, <1>5, <1>6, <1>7 DEF Enumerates

\* The window and the step select places of a list.
Sampled(w, step) == {k \in 1..w : step > 1 => (k - 1) % step = 0}

LEMMA WindowedPlaces ==
  ASSUME NEW S, NEW p \in Seq(S), NEW size \in Nat, NEW step \in Nat,
         NEW w, w = Min({size, Len(p)})
  PROVE  /\ w \in Nat /\ w <= Len(p) /\ w <= size /\ (w = size \/ w = Len(p))
         /\ selectVisibleFrames(p, size, step) = AtPlaces(p, Sampled(w, step))
<1> DEFINE n == Len(p)
           windowed == SubSeq(p, 1, w)
           K == Sampled(w, step)
<1>1. n \in Nat BY LenProperties
<1> HIDE DEF n
<1>2. w = IF size <= n THEN size ELSE n BY <1>1 DEF n, Min
<1>3. w \in Nat /\ w <= n /\ w <= size /\ (w = size \/ w = n) BY <1>1, <1>2
<1>4. /\ windowed \in Seq(S) /\ Len(windowed) = w /\ DOMAIN windowed = 1..w
      /\ \A k \in 1..w : windowed[k] = p[k]
  <2> DEFINE x == windowed
  <2>1. x = SubSeq(p, 1, w) /\ w \in Nat /\ w <= Len(p) BY <1>3 DEF n
  <2> HIDE DEF x
  <2>2. /\ x \in Seq(S) /\ Len(x) = w /\ DOMAIN x = 1..w
        /\ \A k \in 1..w : x[k] = p[k] /\ k \in 1..Len(p)
    BY ONLY <2>1, p \in Seq(S), Beginning
  <2> QED BY <2>2 DEF x
<1>5. CASE step <= 1
  <2>1. K = 1..w BY <1>5 DEF Sampled
  <2>2. AtPlaces(p, 1..w) = windowed BY <1>3, FirstPlaces DEF n
  <2>3. selectVisibleFrames(p, size, step) = windowed BY <1>5 DEF selectVisibleFrames
  <2> HIDE DEF windowed, K
  <2> QED BY <1>3, <2>1, <2>2, <2>3 DEF n, K
<1>6. CASE step > 1
  <2> DEFINE c == (w + step - 1) \div step
             g == Stepped(c, step)
             seen == [i \in 1..c |-> windowed[(i - 1) * step + 1]]
  <2>1. K = OnStep(w, step) BY <1>6 DEF Sampled, OnStep
  <2>2. step \in Nat \ {0} BY <1>6
  <2>3. Enumerates(g, c, K)
    <3> DEFINE d == c
               h == g
    <3>1. d = (w + step - 1) \div step /\ h = Stepped(d, step) OBVIOUS
    <3> HIDE DEF d, h, c, g, K
    <3>2. Enumerates(h, d, OnStep(w, step)) BY <1>3, <2>2, <3>1, SteppedFacts
    <3> QED BY <2>1, <3>2 DEF d, h
  <2>4. selectVisibleFrames(p, size, step) = seen
    <3>1. ~(step <= 1) BY <1>6
    <3>2. Len(windowed) = w BY <1>4
    <3>3. selectVisibleFrames(p, size, step)
            = [i \in 1..(Len(windowed) + step - 1) \div step |-> windowed[(i - 1) * step + 1]]
      BY <3>1 DEF selectVisibleFrames
    <3> QED BY <3>2, <3>3
  <2> HIDE DEF windowed, K
  <2>5. \A i \in 1..c : g[i] \in 1..w /\ seen[i] = p[g[i]]
    <3> SUFFICES ASSUME NEW i \in 1..c PROVE g[i] \in 1..w /\ seen[i] = p[g[i]] OBVIOUS
    <3>1. g[i] = (i - 1) * step + 1 BY DEF Stepped
    <3>2. g[i] \in K BY <2>3 DEF Enumerates
    <3>3. g[i] \in 1..w BY <2>1, <3>2 DEF OnStep
    <3>4. seen[i] = windowed[g[i]] BY <3>1
    <3> QED BY <1>4, <3>3, <3>4
  <2> HIDE DEF c, g
  <2>6. IsListing(seen, p, g, c) BY <2>5 DEF IsListing
  <2> HIDE DEF seen
  <2>7. IsListing(AtPlaces(p, K), p, g, c) BY <2>3, PlacesListed
  <2>8. seen = AtPlaces(p, K) BY <2>6, <2>7, SameListing
  <2> QED BY <1>3, <2>4, <2>8 DEF n, K
<1> QED BY <1>5, <1>6

\* The rank of a frame that passes is one less than its place among those.
Passing(feed_, view) == {i \in DOMAIN feed_ : Wanted(feed_[i], view)}

LEMMA RankFacts ==
  ASSUME NEW F, NEW feed_ \in Seq(F), NEW view, NEW W, W = Passing(feed_, view)
  PROVE  /\ Within(W, Len(feed_))
         /\ \A k \in 1..Cardinality(W) : Rank(feed_, Places(W)[k], view) = k - 1
<1> DEFINE n == Len(feed_)
           f == Places(W)
           m == Cardinality(W)
<1>1. n \in Nat /\ DOMAIN feed_ = 1..n BY LenProperties
<1>0. W = {i \in DOMAIN feed_ : Wanted(feed_[i], view)} BY DEF Passing
<1>2. Within(W, n) BY <1>0, <1>1 DEF Within
<1>3. IsFiniteSet(W) /\ W \subseteq Int
  <2>1. IsFiniteSet(W) BY <1>2, SelectionFacts DEF n
  <2>2. \A i \in 1..n : i \in Int OBVIOUS
  <2> QED BY <1>2, <2>1, <2>2 DEF Within
<1>4. Chain(W, Lower(W)) /\ Places(W) = Ordered(W, Lower(W)) BY <1>3, LowerIsChain
<1>5. f \in [1..m -> W] /\ \A k \in 1..m : Cardinality(Lower(W)[f[k]]) = k - 1
  <2> DEFINE below == Lower(W)
  <2>1. f = Ordered(W, below) /\ m = Cardinality(W) /\ Chain(W, below) BY <1>4
  <2> HIDE DEF f, m, below
  <2>2. f \in [1..m -> W] /\ \A k \in 1..m : Cardinality(below[f[k]]) = k - 1
    BY ONLY <2>1, OrderedFacts
  <2> QED BY <2>2 DEF below
<1>6. \A i \in W : Lower(W)[i] = {j \in 1..i - 1 : Wanted(feed_[j], view)}
  <2> SUFFICES ASSUME NEW i \in W PROVE Lower(W)[i] = {j \in 1..i - 1 : Wanted(feed_[j], view)} OBVIOUS
  <2>1. Lower(W)[i] = {j \in W : j < i} BY DEF Lower
  <2>2. i \in 1..n BY <1>0, <1>1
  <2>3. \A j : j \in W /\ j < i <=> j \in 1..i - 1 /\ Wanted(feed_[j], view)
    <3>1. \A j \in 1..n : j < i <=> j \in 1..i - 1 BY <1>1, <2>2
    <3>2. \A j \in 1..i - 1 : j \in 1..n BY <1>1, <2>2
    <3> QED BY <1>0, <1>1, <3>1, <3>2
  <2> QED BY <2>1, <2>3
<1> HIDE DEF f, m
<1>7. \A k \in 1..m : Rank(feed_, f[k], view) = k - 1
  <2> SUFFICES ASSUME NEW k \in 1..m PROVE Rank(feed_, f[k], view) = k - 1 OBVIOUS
  <2>1. f[k] \in W BY <1>5
  <2> QED BY <1>5, <1>6, <2>1 DEF Rank
<1> QED BY <1>2, <1>7 DEF f, m, n

\* What the pipeline shows of a feed, of any length, with any window and step: the
\* frames that pass the filter and whose rank among those is in the window and on a
\* step.
THEOREM PipelineShows ==
  ASSUME NEW F, NEW feed_ \in Seq(F), NEW view, view.windowSize \in Nat, view.sampleStep \in Nat
  PROVE  applyFrameViewingPipeline(feed_, view) = Shown(feed_, view)
<1> DEFINE W == {i \in DOMAIN feed_ : Wanted(feed_[i], view)}
           f == Places(W)
           m == Cardinality(W)
           p == AtPlaces(feed_, W)
           size == view.windowSize
           step == view.sampleStep
           w == Min({size, m})
           K == Sampled(w, step)
           rank(i) == Rank(feed_, i, view)
           V == {i \in DOMAIN feed_ : Wanted(feed_[i], view) /\ rank(i) < size /\ (step > 1 => rank(i) % step = 0)}
<1>1. filterFrames(feed_, view.bus, view.text) = p BY DEF filterFrames, Where, Wanted
<1>2. Shown(feed_, view) = AtPlaces(feed_, V) BY DEF Shown
<1>3. Within(W, Len(feed_)) /\ \A k \in 1..m : rank(f[k]) = k - 1
  <2>1. W = Passing(feed_, view) BY DEF Passing
  <2> HIDE DEF W, p, size, step, w, K, V
  <2>2. /\ Within(W, Len(feed_))
        /\ \A k \in 1..Cardinality(W) : Rank(feed_, Places(W)[k], view) = k - 1
    BY ONLY <2>1, feed_ \in Seq(F), RankFacts, Zenon
  <2> QED BY <2>2
<1>4. applyFrameViewingPipeline(feed_, view) = selectVisibleFrames(p, size, step)
  BY <1>1 DEF applyFrameViewingPipeline
<1>5. \A i : i \in V <=> i \in W /\ rank(i) < size /\ (step > 1 => rank(i) % step = 0) OBVIOUS
<1> HIDE DEF W, p, rank, V
<1>6. m \in Nat /\ Enumerates(f, m, W) /\ p \in Seq(F) /\ Len(p) = m
  BY <1>3, SelectionFacts DEF p
<1> HIDE DEF f, m
<1>7. size \in Nat /\ step \in Nat OBVIOUS
<1> HIDE DEF size, step
<1>8. /\ w \in Nat /\ w <= m /\ w <= size /\ (w = size \/ w = m)
      /\ selectVisibleFrames(p, size, step) = AtPlaces(p, K)
  <2> DEFINE x == w
  <2>1. x = Min({size, Len(p)}) BY <1>6
  <2> HIDE DEF x, w
  <2>2. /\ x \in Nat /\ x <= Len(p) /\ x <= size /\ (x = size \/ x = Len(p))
        /\ selectVisibleFrames(p, size, step) = AtPlaces(p, Sampled(x, step))
    BY <1>6, <1>7, <2>1, WindowedPlaces
  <2> QED BY <1>6, <2>2 DEF x
<1> HIDE DEF w
<1>9. \A k : k \in K <=> k \in 1..m /\ k - 1 < size /\ (step > 1 => (k - 1) % step = 0)
  <2>1. \A k \in 1..m : k \in 1..w <=> k - 1 < size BY <1>6, <1>7, <1>8
  <2>2. \A k \in 1..w : k \in 1..m BY <1>6, <1>8
  <2> QED BY <2>1, <2>2 DEF Sampled
<1>10. Within(K, m) BY <1>9 DEF Within
<1> HIDE DEF K
<1>11. V = Among(f, K)
  <2>1. \A k \in 1..m : f[k] \in V <=> k \in K
    <3> SUFFICES ASSUME NEW k \in 1..m PROVE f[k] \in V <=> k \in K OBVIOUS
    <3>1. f[k] \in W BY <1>6 DEF Enumerates
    <3>2. rank(f[k]) = k - 1 BY <1>3
    <3> QED BY <1>5, <1>9, <3>1, <3>2
  <2>2. \A i \in V : \E k \in 1..m : f[k] = i BY <1>5, <1>6 DEF Enumerates
  <2>3. \A k \in K : k \in 1..m BY <1>9
  <2> QED BY <2>1, <2>2, <2>3 DEF Among
<1>12. AtPlaces(p, K) = AtPlaces(feed_, Among(f, K)) BY <1>6, <1>10, SelectTwice DEF p
<1> QED BY <1>2, <1>4, <1>8, <1>11, <1>12

-----------------------------------------------------------------------------
(* The ingestion                                                            *)

Intake(b, ingested, evicted, config) ==
  [buffer |-> b, totalIngested |-> ingested, totalEvicted |-> evicted, config |-> config]
Viewing(cap, size, step, paused_, bus_, text) ==
  [maxBuffer |-> cap, windowSize |-> size, sampleStep |-> step, paused |-> paused_, bus |-> bus_, text |-> text]
AtFirst(cap, paused_) == Viewing(cap, 50, 1, paused_, "all", "")
Running(cap) == AtFirst(cap, FALSE)
Halted(cap) == AtFirst(cap, TRUE)

IsJoined(r, s, t) ==
  /\ Len(r) = Len(s) + Len(t)
  /\ \A i \in 1..Len(s) + Len(t) : r[i] = IF i <= Len(s) THEN s[i] ELSE t[i - Len(s)]

LEMMA Joined ==
  ASSUME NEW S, NEW s \in Seq(S), NEW t \in Seq(S)
  PROVE  (s \o t) \in Seq(S) /\ IsJoined(s \o t, s, t)
<1>1. /\ s \o t \in Seq(S) /\ Len(s \o t) = Len(s) + Len(t)
      /\ \A i \in 1..Len(s) + Len(t) : (s \o t)[i] = IF i <= Len(s) THEN s[i] ELSE t[i - Len(s)]
  BY ConcatProperties
<1> QED BY <1>1 DEF IsJoined

LEMMA NothingTaken ==
  ASSUME NEW cap
  PROVE  initialFrameIngestionState(cap) = Intake(<<>>, 0, 0, Running(cap))
BY DEF initialFrameIngestionState, Intake, Running, Halted, AtFirst, Viewing

LEMMA Pausing ==
  ASSUME NEW b, NEW x, NEW y, NEW cap
  PROVE  /\ Does(Intake(b, x, y, Running(cap)), "PAUSE") = Intake(b, x, y, Halted(cap))
         /\ Does(Intake(b, x, y, Halted(cap)), "RESUME") = Intake(b, x, y, Running(cap))
<1>1. Does(Intake(b, x, y, Running(cap)), "PAUSE") = Intake(b, x, y, Halted(cap))
  BY DEF Does, frameIngestionReducer, Intake, Running, Halted, AtFirst, Viewing
<1>2. Does(Intake(b, x, y, Halted(cap)), "RESUME") = Intake(b, x, y, Running(cap))
  BY DEF Does, frameIngestionReducer, Intake, Running, Halted, AtFirst, Viewing
<1> QED BY <1>1, <1>2

\* A batch of frames is put before the others, and the oldest are evicted.
Kept(cap, merged) == SubSeq(merged, 1, Min({cap, Len(merged)}))
Less(cap, merged) == Max({0, Len(merged) - cap})

LEMMA IngestedFrames ==
  ASSUME NEW b, NEW x, NEW y, NEW cap, NEW frames, NEW c, c \in {Running(cap), Halted(cap)}
  PROVE  Ingested(Intake(b, x, y, c), frames)
           = Intake(Kept(cap, frames \o b), x + Len(frames), y + Less(cap, frames \o b), c)
<1> DEFINE state == Intake(b, x, y, c)
           action == [type |-> "INGEST_FRAMES", frames |-> frames]
           held == Kept(cap, frames \o b)
           less == Less(cap, frames \o b)
           more == Len(frames)
<1>0. c.maxBuffer = cap
  <2>1. Running(cap).maxBuffer = cap BY DEF Running, AtFirst, Viewing
  <2>2. Halted(cap).maxBuffer = cap BY DEF Halted, AtFirst, Viewing
  <2> QED BY <2>1, <2>2
<1>1. /\ state.buffer = b /\ state.totalIngested = x /\ state.totalEvicted = y
      /\ state.config = c
  BY DEF Intake
<1>2. action.type = "INGEST_FRAMES" /\ action.frames = frames OBVIOUS
<1>3. frameIngestionReducer(state, action)
        = [state EXCEPT !.buffer = held, !.totalIngested = state.totalIngested + more,
                        !.totalEvicted = state.totalEvicted + less]
  <2> HIDE DEF state, action
  <2> QED BY <1>0, <1>1, <1>2 DEF frameIngestionReducer, Kept, Less
<1> HIDE DEF held, more, less
<1>4. [state EXCEPT !.buffer = held, !.totalIngested = x + more, !.totalEvicted = y + less]
        = Intake(held, x + more, y + less, c)
  <2> DEFINE u == x + more
             v == y + less
  <2> HIDE DEF u, v
  <2>1. [state EXCEPT !.buffer = held, !.totalIngested = u, !.totalEvicted = v] = Intake(held, u, v, c)
    <3>1. [state EXCEPT !.buffer = held] = Intake(held, x, y, c) BY DEF Intake
    <3>2. [Intake(held, x, y, c) EXCEPT !.totalIngested = u] = Intake(held, u, y, c) BY DEF Intake
    <3>3. [Intake(held, u, y, c) EXCEPT !.totalEvicted = v] = Intake(held, u, v, c) BY DEF Intake
    <3> HIDE DEF state
    <3> QED BY <3>1, <3>2, <3>3
  <2> QED BY <2>1 DEF u, v
<1> HIDE DEF state
<1>5. frameIngestionReducer(state, action) = Intake(held, x + more, y + less, c)
  BY <1>1, <1>3, <1>4
<1> QED BY <1>5 DEF Ingested, state, held, less, more

\* However a feed comes in, in two parts and paused or not meanwhile, its newest
\* frames are kept, and the others are counted as evicted.
LEMMA TakenInAll ==
  ASSUME NEW F, NEW feed_ \in Seq(F), NEW cut \in 0..Len(feed_), NEW pausedFirst \in BOOLEAN,
         NEW cap \in Nat \ {0}
  PROVE  \E held \in Nat, evicted \in Nat :
           /\ held = Min({cap, Len(feed_)}) /\ Len(feed_) = held + evicted /\ held <= Len(feed_)
           /\ TakenIn(feed_, cut, pausedFirst, cap)
                = Intake(SubSeq(feed_, 1, held), Len(feed_), evicted, Running(cap))
<1> DEFINE n == Len(feed_)
           new == SubSeq(feed_, 1, cut)
           old == SubSeq(feed_, cut + 1, n)
           k == Min({cap, n - cut})
           b == SubSeq(old, 1, k)
           e == Max({0, n - cut - cap})
           merged == new \o b
           m == Min({cap, cut + k})
           d == Max({0, cut + k - cap})
<1>1. n \in Nat /\ cut \in Nat /\ cut <= n BY LenProperties
<1>2. \A i \in 1..n : feed_[i] \in F BY ElementOfSeq
<1> HIDE DEF n
<1>3. k = (IF cap <= n - cut THEN cap ELSE n - cut) /\ e = (IF n - cut - cap >= 0 THEN n - cut - cap ELSE 0)
  <2>1. k = IF cap <= n - cut THEN cap ELSE n - cut BY <1>1 DEF Min
  <2> DEFINE z == n - cut - cap
  <2>2. z \in Int BY <1>1
  <2> HIDE DEF z
  <2>3. Max({0, z}) = IF z >= 0 THEN z ELSE 0 BY <2>2 DEF Max
  <2> QED BY <2>1, <2>3 DEF z
<1> HIDE DEF k, e
<1>4. k \in Nat /\ k <= n - cut /\ k <= cap /\ e \in Nat /\ n - cut = k + e BY <1>1, <1>3
<1>5. m = (IF cap <= cut + k THEN cap ELSE cut + k) /\ d = (IF cut + k - cap >= 0 THEN cut + k - cap ELSE 0)
  <2>1. m = IF cap <= cut + k THEN cap ELSE cut + k BY <1>1, <1>4 DEF Min
  <2> DEFINE z == cut + k - cap
  <2>2. z \in Int BY <1>1, <1>4
  <2> HIDE DEF z
  <2>3. Max({0, z}) = IF z >= 0 THEN z ELSE 0 BY <2>2 DEF Max
  <2> QED BY <2>1, <2>3 DEF z
<1> HIDE DEF m, d
<1>6. m \in Nat /\ d \in Nat /\ m <= cut + k /\ m <= n /\ n = m + (e + d) BY <1>1, <1>4, <1>5
<1>7. m = Min({cap, n})
  <2>1. m = IF cap <= n THEN cap ELSE n BY <1>1, <1>3, <1>4, <1>5
  <2> QED BY <1>1, <2>1 DEF Min
<1>8. new \in Seq(F) /\ Len(new) = cut /\ \A i \in 1..cut : new[i] = feed_[i]
  <2> DEFINE r == new
  <2>1. r = SubSeq(feed_, 1, cut) /\ cut \in Nat /\ cut <= Len(feed_) BY <1>1 DEF n
  <2> HIDE DEF r
  <2>2. r \in Seq(F) /\ Len(r) = cut /\ \A i \in 1..cut : r[i] = feed_[i]
    BY ONLY <2>1, feed_ \in Seq(F), Beginning
  <2> QED BY <2>2 DEF r
<1>9. old \in Seq(F) /\ Len(old) = n - cut /\ \A i \in 1..n - cut : old[i] = feed_[cut + i]
  <2> DEFINE l == n - cut
  <2>1. l \in Nat /\ l = n - (cut + 1) + 1 /\ cut + 1 \in Int /\ n \in Int BY <1>1
  <2>2. old = [i \in 1..n - (cut + 1) + 1 |-> feed_[i + (cut + 1) - 1]] 
    BY <1>1 DEF SubSeq
  <2>3. \A i \in 1..l : i + (cut + 1) - 1 = cut + i /\ cut + i \in 1..n BY <1>1
  <2> HIDE DEF l, old
  <2>4. old = [i \in 1..l |-> feed_[i + (cut + 1) - 1]] BY <2>1, <2>2
  <2>5. \A i \in 1..l : old[i] = feed_[cut + i] /\ old[i] \in F BY <1>2, <2>3, <2>4
  <2>6. old \in [1..l -> F] BY <2>4, <2>5
  <2>7. old \in Seq(F) /\ Len(old) = l BY <2>1, <2>6, AsLong
  <2> QED BY <2>5, <2>7 DEF l
<1> HIDE DEF new, old
<1>10. b \in Seq(F) /\ Len(b) = k /\ \A i \in 1..k : b[i] = feed_[cut + i]
  <2> DEFINE r == b
  <2>1. r = SubSeq(old, 1, k) /\ k \in Nat /\ k <= Len(old) BY <1>4, <1>9
  <2> HIDE DEF r
  <2>2. r \in Seq(F) /\ Len(r) = k /\ \A i \in 1..k : r[i] = old[i]
    BY ONLY <2>1, <1>9, Beginning
  <2>3. \A i \in 1..k : i \in 1..n - cut BY <1>1, <1>4
  <2> QED BY <1>9, <2>2, <2>3 DEF r
<1> HIDE DEF b
<1>11. /\ merged \in Seq(F) /\ Len(merged) = cut + k
       /\ \A i \in 1..cut + k : merged[i] = feed_[i]
  <2>0. (new \o b) \in Seq(F) /\ IsJoined(new \o b, new, b) BY <1>8, <1>10, Joined
  <2>1. merged \in Seq(F) /\ Len(merged) = cut + k
    <3> HIDE DEF merged
    <3>1. merged \in Seq(F) BY <2>0 DEF merged
    <3>2. Len(merged) = Len(new) + Len(b) BY <2>0 DEF merged, IsJoined
    <3> QED BY <1>8, <1>10, <3>1, <3>2
  <2>2. \A i \in 1..cut + k : merged[i] = IF i <= cut THEN new[i] ELSE b[i - cut]
    <3> HIDE DEF merged
    <3>1. \A i \in 1..Len(new) + Len(b) : merged[i] = IF i <= Len(new) THEN new[i] ELSE b[i - Len(new)]
      BY <2>0 DEF merged, IsJoined
    <3> QED BY <1>8, <1>10, <3>1
  <2>3. ASSUME NEW i \in 1..cut + k PROVE merged[i] = feed_[i]
    <3>1. CASE i <= cut
      <4>1. i \in 1..cut BY <1>1, <3>1
      <4> HIDE DEF merged
      <4> QED BY <1>8, <2>2, <3>1, <4>1
    <3>2. CASE ~(i <= cut)
      <4>1. i - cut \in 1..k /\ cut + (i - cut) = i BY <1>1, <1>4, <3>2
      <4>2. merged[i] = b[i - cut] BY <2>2, <3>2
      <4>3. b[i - cut] = feed_[cut + (i - cut)] BY <1>10, <4>1
      <4> QED BY <4>1, <4>2, <4>3
    <3> QED BY <3>1, <3>2
  <2> QED BY <2>1, <2>3
<1> HIDE DEF merged
<1>12. SubSeq(merged, 1, m) = SubSeq(feed_, 1, m)
  <2> DEFINE r == SubSeq(merged, 1, m)
             s == SubSeq(feed_, 1, m)
  <2>1. /\ r = SubSeq(merged, 1, m) /\ s = SubSeq(feed_, 1, m) /\ m \in Nat
        /\ m <= Len(merged) /\ m <= Len(feed_)
    BY <1>6, <1>11 DEF n
  <2> HIDE DEF r, s
  <2>2. r \in Seq(F) /\ Len(r) = m /\ \A i \in 1..m : r[i] = merged[i]
    BY ONLY <2>1, <1>11, Beginning
  <2>3. s \in Seq(F) /\ Len(s) = m /\ \A i \in 1..m : s[i] = feed_[i]
    BY ONLY <2>1, feed_ \in Seq(F), Beginning
  <2>4. \A i \in 1..m : i \in 1..cut + k BY <1>1, <1>4, <1>6
  <2>5. \A i \in 1..m : r[i] = s[i] BY <1>11, <2>2, <2>3, <2>4
  <2>6. r = s BY <2>2, <2>3, <2>5, SeqEqual
  <2> QED BY <2>6 DEF r, s
<1> DEFINE empty == initialFrameIngestionState(cap)
           began == IF pausedFirst THEN Does(empty, "PAUSE") ELSE empty
           older == Ingested(began, old)
           resumed == IF pausedFirst THEN Does(older, "RESUME") ELSE older
<1> DEFINE p == Halted(cap)
           r == Running(cap)
           f == IF pausedFirst THEN p ELSE r
           none == << >>
           z == 0
<1>13. began = Intake(none, z, z, f)
  <2>1. empty = Intake(none, z, z, r) BY NothingTaken
  <2>2. Does(Intake(none, z, z, r), "PAUSE") = Intake(none, z, z, p) BY Pausing
  <2> HIDE DEF empty, p, r, none, z
  <2>4. CASE pausedFirst = TRUE BY <2>1, <2>2, <2>4
  <2>5. CASE pausedFirst = FALSE BY <2>1, <2>5
  <2> QED BY <2>4, <2>5
<1>f. /\ f \in {Running(cap), Halted(cap)}
      /\ pausedFirst = TRUE => f = p
      /\ pausedFirst = FALSE => f = r
  OBVIOUS
<1>14. older = Intake(b, n - cut, e, f)
  <2> HIDE DEF f, began, older, z, none
  <2>1. Ingested(Intake(none, z, z, f), old)
          = Intake(Kept(cap, old \o none), z + Len(old), z + Less(cap, old \o none), f)
    BY <1>f, IngestedFrames
  <2>2. old \o none = old BY <1>9 DEF none
  <2>3. Kept(cap, old) = b
    <3> DEFINE l == Len(old)
    <3>1. l = n - cut BY <1>9
    <3>2. Kept(cap, old) = SubSeq(old, 1, Min({cap, l})) BY DEF Kept
    <3> HIDE DEF l
    <3> QED BY <3>1, <3>2 DEF b, k
  <2>4. z + Less(cap, old) = e
    <3> DEFINE l == Len(old)
    <3>1. l = n - cut BY <1>9
    <3>2. Less(cap, old) = Max({0, l - cap}) BY DEF Less
    <3> HIDE DEF l
    <3>3. Less(cap, old) = e BY <3>1, <3>2 DEF e
    <3> QED BY <1>4, <3>3 DEF z
  <2>5. z + Len(old) = n - cut BY <1>1, <1>9 DEF z
  <2> HIDE DEF none
  <2> QED BY <1>13, <2>1, <2>2, <2>3, <2>4, <2>5 DEF older
<1>15. resumed = Intake(b, n - cut, e, r)
  <2> DEFINE x == n - cut
  <2>1. Does(Intake(b, x, e, p), "RESUME") = Intake(b, x, e, r) BY Pausing
  <2>2. older = Intake(b, x, e, f) BY <1>14
  <2> HIDE DEF older, p, r, x
  <2>3. CASE pausedFirst = TRUE BY <2>1, <2>2, <2>3 DEF x
  <2>4. CASE pausedFirst = FALSE BY <2>2, <2>4 DEF x
  <2> QED BY <2>3, <2>4
<1>16. TakenIn(feed_, cut, pausedFirst, cap) = Ingested(resumed, new)
  BY DEF TakenIn, new, old, n
<1> HIDE DEF resumed, older, began, empty
<1>17. Ingested(resumed, new) = Intake(SubSeq(feed_, 1, m), n, e + d, r)
  <2> DEFINE x == n - cut
  <2>1. x + Len(new) = n /\ Len(merged) = cut + k BY <1>1, <1>8, <1>11
  <2>2. merged = new \o b BY DEF merged
  <2>3. Kept(cap, merged) = SubSeq(merged, 1, m)
    <3> DEFINE l == Len(merged)
    <3>1. l = cut + k BY <2>1
    <3>2. Kept(cap, merged) = SubSeq(merged, 1, Min({cap, l})) BY DEF Kept
    <3> HIDE DEF l
    <3> QED BY <3>1, <3>2 DEF m
  <2>4. Less(cap, merged) = d
    <3> DEFINE l == Len(merged)
    <3>1. l = cut + k BY <2>1
    <3>2. Less(cap, merged) = Max({0, l - cap}) BY DEF Less
    <3> HIDE DEF l
    <3>4. l - cap = cut + k - cap BY <1>1, <1>4, <3>1
    <3> QED BY <3>4, <3>2 DEF d
  <2>5. r \in {Running(cap), Halted(cap)} OBVIOUS
  <2> HIDE DEF x, r
  <2>8. Ingested(Intake(b, x, e, r), new)
          = Intake(Kept(cap, new \o b), x + Len(new), e + Less(cap, new \o b), r)
    BY <2>5, IngestedFrames
  <2> QED BY <1>12, <1>15, <2>1, <2>2, <2>3, <2>4, <2>8 DEF x
<1>18. e + d \in Nat BY <1>4, <1>6
<1> QED BY <1>6, <1>7, <1>16, <1>17, <1>18 DEF n

LEMMA ClampedFacts ==
  ASSUME NEW size \in 1..200, NEW step \in 0..20
  PROVE  Clamped(size, 200) = size /\ Clamped(step, 20) = IF step = 0 THEN 1 ELSE step
<1>1. Min({200, size}) = size BY DEF Min
<1>2. Max({1, size}) = size BY DEF Max
<1>3. Min({20, step}) = step BY DEF Min
<1>4. Max({1, step}) = IF step = 0 THEN 1 ELSE step BY DEF Max
<1> QED BY <1>1, <1>2, <1>3, <1>4 DEF Clamped

\* A step of 0 and one of 1 show the same.
LEMMA ShownAlike ==
  ASSUME NEW feed_, NEW v, NEW w, v.bus = w.bus, v.text = w.text, v.windowSize = w.windowSize,
         v.sampleStep > 1 <=> w.sampleStep > 1, v.sampleStep > 1 => v.sampleStep = w.sampleStep
  PROVE  Shown(feed_, v) = Shown(feed_, w)
<1>1. \A f : Wanted(f, v) = Wanted(f, w) BY DEF Wanted
<1>2. \A i : Rank(feed_, i, v) = Rank(feed_, i, w)
  <2> TAKE i
  <2>1. {j \in 1..i - 1 : Wanted(feed_[j], v)} = {j \in 1..i - 1 : Wanted(feed_[j], w)} BY <1>1
  <2> QED BY <2>1 DEF Rank
<1> DEFINE In(i, x) == LET rank == Rank(feed_, i, x)
                       IN /\ Wanted(feed_[i], x) /\ rank < x.windowSize
                          /\ x.sampleStep > 1 => rank % x.sampleStep = 0
           V == {i \in DOMAIN feed_ : In(i, v)}
           W == {i \in DOMAIN feed_ : In(i, w)}
<1>3. \A i : In(i, v) <=> In(i, w) BY <1>1, <1>2
<1>4. Shown(feed_, v) = AtPlaces(feed_, V) /\ Shown(feed_, w) = AtPlaces(feed_, W) BY DEF Shown
<1> HIDE DEF In
<1>5. V = W BY <1>3
<1> QED BY <1>4, <1>5

IsViewing(c, size, step, bus_, text) ==
  /\ c.windowSize = size /\ c.sampleStep = step /\ c.paused = FALSE /\ c.bus = bus_ /\ c.text = text

Configure(taken, size, step, bus_, text) ==
  LET config == [taken.config EXCEPT !.bus = bus_, !.text = text]
  IN frameIngestionReducer([taken EXCEPT !.config = config],
       [type |-> "SET_CONFIG", windowSize |-> size, sampleStep |-> step])
Fields == {"maxBuffer", "windowSize", "sampleStep", "paused", "bus", "text"}

LEMMA Configured ==
  ASSUME NEW b, NEW x, NEW y, NEW cap, NEW size, NEW step, NEW bus_, NEW text,
         NEW taken, taken = Intake(b, x, y, Running(cap))
  PROVE  LET viewed == Configure(taken, size, step, bus_, text)
         IN viewed.buffer = b /\ IsViewing(viewed.config, Clamped(size, 200), Clamped(step, 20), bus_, text)
<1> DEFINE g == Running(cap)
           h == [g EXCEPT !.bus = bus_]
           c == [h EXCEPT !.text = text]
           s == [taken EXCEPT !.config = c]
           action == [type |-> "SET_CONFIG", windowSize |-> size, sampleStep |-> step]
           a == Clamped(size, 200)
           z == Clamped(step, 20)
           d == [c EXCEPT !.windowSize = a]
           e == [d EXCEPT !.sampleStep = z]
           t == [s EXCEPT !.config = d]
           r == [t EXCEPT !.config = e]
<1>1. action.type = "SET_CONFIG" /\ action.windowSize = size /\ action.sampleStep = step OBVIOUS
<1>2. frameIngestionReducer(s, action) = [s EXCEPT !.config.windowSize = a, !.config.sampleStep = z]
  <2> HIDE DEF action, s
  <2> QED BY <1>1 DEF frameIngestionReducer
<1>3. taken.config = g BY DEF Intake
<1>4. c = [taken.config EXCEPT !.bus = bus_, !.text = text] BY <1>3
<1>5. Configure(taken, size, step, bus_, text) = frameIngestionReducer(s, action) BY <1>4 DEF Configure
<1> HIDE DEF a, z
<1>6. g.paused = FALSE /\ DOMAIN g = Fields BY DEF Running, AtFirst, Viewing, Fields
<1> HIDE DEF g
<1>7. h.paused = FALSE /\ h.bus = bus_ /\ DOMAIN h = Fields BY <1>6 DEF Fields
<1> HIDE DEF h
<1>8. c.paused = FALSE /\ c.bus = bus_ /\ c.text = text /\ DOMAIN c = Fields BY <1>7 DEF Fields
<1>9. s.buffer = b /\ s.config = c /\ DOMAIN s = {"buffer", "totalIngested", "totalEvicted", "config"}
  <2> HIDE DEF c
  <2> QED BY DEF Intake
<1> HIDE DEF c, s
<1>10. d.windowSize = a /\ d.paused = FALSE /\ d.bus = bus_ /\ d.text = text /\ DOMAIN d = Fields
  BY <1>8 DEF Fields
<1>11. t = [s EXCEPT !.config.windowSize = a] BY <1>9
<1> HIDE DEF d
<1>12. /\ e.windowSize = a /\ e.sampleStep = z /\ e.paused = FALSE /\ e.bus = bus_ /\ e.text = text
  BY <1>10 DEF Fields
<1>13. t.buffer = b /\ t.config = d /\ DOMAIN t = {"buffer", "totalIngested", "totalEvicted", "config"}
  BY <1>9
<1> HIDE DEF t
<1>14. r = [t EXCEPT !.config.sampleStep = z] BY <1>13
<1> HIDE DEF e
<1>15. r.buffer = b /\ r.config = e BY <1>13
<1>16. r = [s EXCEPT !.config.windowSize = a, !.config.sampleStep = z] BY <1>11, <1>14
<1> HIDE DEF r
<1>17. Configure(taken, size, step, bus_, text) = r BY ONLY <1>2, <1>5, <1>16, Zenon
<1>18. IsViewing(e, a, z, bus_, text) BY ONLY <1>12, Zenon DEF IsViewing
<1> QED BY <1>15, <1>17, <1>18, Zenon DEF a, z

\* The ingestion of a fast feed (frameIngestion.ts) shows what the pipeline of the
\* snapshots shows of the frames that fit the buffer, however the feed comes in and
\* whether it is paused meanwhile; and it counts every frame once, as kept or evicted.
THEOREM IngestionShows ==
  ASSUME NEW F, NEW feed_ \in Seq(F), NEW cut \in 0..Len(feed_), NEW pausedFirst \in BOOLEAN,
         NEW cap \in Nat \ {0}, NEW view, view.windowSize \in 1..200, view.sampleStep \in 0..20
  PROVE  IngestionAgrees(feed_, view, cut, pausedFirst, cap)
<1>1. PICK held \in Nat, evicted \in Nat :
        /\ held = Min({cap, Len(feed_)}) /\ Len(feed_) = held + evicted /\ held <= Len(feed_)
        /\ TakenIn(feed_, cut, pausedFirst, cap)
             = Intake(SubSeq(feed_, 1, held), Len(feed_), evicted, Running(cap))
  BY TakenInAll
<1> DEFINE n == Len(feed_)
           b == SubSeq(feed_, 1, held)
           taken == TakenIn(feed_, cut, pausedFirst, cap)
           size == view.windowSize
           step == view.sampleStep
           viewed == Configure(taken, size, step, view.bus, view.text)
           seen == viewed.config
           f == feed_
<1>2. b \in Seq(F) /\ Len(b) = held
  <2> DEFINE r == b
  <2>1. r = SubSeq(f, 1, held) /\ held \in Nat /\ held <= Len(f) /\ f \in Seq(F) BY <1>1
  <2> HIDE DEF r, f
  <2>2. /\ r \in Seq(F) /\ Len(r) = held /\ DOMAIN r = 1..held
        /\ \A k \in 1..held : r[k] = f[k] /\ k \in 1..Len(f)
    BY ONLY <2>1, Beginning
  <2> QED BY <2>2 DEF r
<1> HIDE DEF b
<1>3. taken = Intake(b, n, evicted, Running(cap)) BY <1>1 DEF b
<1> HIDE DEF n, taken
<1>4. taken.config = Running(cap) /\ taken.buffer = b /\ taken.totalIngested = n /\ taken.totalEvicted = evicted
  BY <1>3 DEF Intake
<1>5. size \in 1..200 /\ step \in 0..20 OBVIOUS
<1>n. size \in Nat /\ step \in Nat
  <2>1. (\A x \in 1..200 : x \in Nat) /\ (\A x \in 0..20 : x \in Nat) OBVIOUS
  <2> HIDE DEF size, step
  <2> QED BY <1>5, <2>1, Zenon
<1> HIDE DEF size, step
<1>6. viewed.buffer = b /\ IsViewing(viewed.config, Clamped(size, 200), Clamped(step, 20), view.bus, view.text)
  <2> DEFINE u == view.bus
             v == view.text
  <2> HIDE DEF size, step, b, u, v
  <2>1. LET w == Configure(taken, size, step, u, v)
        IN w.buffer = b /\ IsViewing(w.config, Clamped(size, 200), Clamped(step, 20), u, v)
    BY ONLY <1>3, Configured
  <2> QED BY <2>1 DEF u, v
<1> HIDE DEF viewed
<1>7. /\ seen.windowSize = size /\ seen.sampleStep = (IF step = 0 THEN 1 ELSE step) /\ seen.paused = FALSE
      /\ seen.bus = view.bus /\ seen.text = view.text
  <2>1. Clamped(size, 200) = size /\ Clamped(step, 20) = IF step = 0 THEN 1 ELSE step
    BY <1>5, ClampedFacts
  <2> QED BY <1>6, <2>1 DEF IsViewing
<1>8. selectIngestedFrames(viewed) = applyFrameViewingPipeline(b, seen)
  <2> QED BY <1>6, <1>7 DEF selectIngestedFrames
<1> HIDE DEF seen
<1>9. applyFrameViewingPipeline(b, seen) = Shown(b, seen)
  <2> DEFINE a == seen.windowSize
             z == seen.sampleStep
  <2>1. a = size /\ z = IF step = 0 THEN 1 ELSE step BY <1>7
  <2> HIDE DEF a, z
  <2>4. 1 \in Nat OBVIOUS
  <2>3. a \in Nat /\ z \in Nat BY <1>n, <2>1, <2>4, Zenon
  <2>2. seen.windowSize \in Nat /\ seen.sampleStep \in Nat BY <2>3 DEF a, z
  <2> QED BY <1>2, <2>2, PipelineShows
<1>10. Shown(b, seen) = Shown(b, view)
  <2>1. size = view.windowSize /\ step = view.sampleStep BY DEF size, step
  <2>2. /\ seen.sampleStep > 1 <=> view.sampleStep > 1
        /\ seen.sampleStep > 1 => seen.sampleStep = view.sampleStep
    BY <1>5, <1>7, <2>1
  <2> QED BY <1>7, <2>1, <2>2, ShownAlike
<1>11. b = SubSeq(feed_, 1, Min({cap, Len(feed_)})) BY <1>1 DEF b
<1>12. taken.totalIngested = selectIngestionStats(taken).bufferSize + taken.totalEvicted
  <2>1. selectIngestionStats(taken).bufferSize = Len(taken.buffer) BY DEF selectIngestionStats
  <2> QED BY <1>1, <1>2, <1>4, <2>1 DEF n
<1>13. selectIngestedFrames(viewed) = Shown(SubSeq(feed_, 1, Min({cap, Len(feed_)})), view)
  BY <1>8, <1>9, <1>10, <1>11
<1> QED BY <1>12, <1>13 DEF IngestionAgrees, taken, viewed, Configure, size, step

-----------------------------------------------------------------------------
(* The feeds and views of the bounded inputs                                *)

\* A feed is a list of frames, the newest first.
IsFeed(feed_, F) ==
  /\ feed_ \in Seq(F)
  /\ \A i \in 1..Len(feed_) : feed_[i].ts = Len(feed_) - i

LEMMA FeedFacts ==
  ASSUME NEW x \in Feeds
  PROVE  \E F : IsFeed(x, F)
<1>0. PICK n \in 0..3 : \E frames \in [1..n -> Frame] : x = Stamped(frames) BY DEF Feeds
<1>1. PICK frames \in [1..n -> Frame] : x = Stamped(frames) BY <1>0
<1>2. n \in Nat OBVIOUS
<1> HIDE DEF Frame
<1>3. Len(frames) = n BY <1>2, AsLong
<1>4. DOMAIN frames = 1..n OBVIOUS
<1> DEFINE m == Len(frames)
           F == {x[i] : i \in 1..n}
<1> HIDE DEF m
<1>5. x = [i \in 1..n |-> [frames[i] EXCEPT !.ts = m - i]] BY <1>1, <1>4 DEF Stamped, m
<1>6. ASSUME NEW i \in 1..n PROVE x[i].ts = n - i
  <2> DEFINE f == frames[i]
             d == n - i
  <2>1. f \in Frame OBVIOUS
  <2>2. x[i] = [f EXCEPT !.ts = d] BY <1>3, <1>5 DEF m
  <2> HIDE DEF f, d
  <2>3. [f EXCEPT !.ts = d].ts = d BY <2>1 DEF Frame
  <2> QED BY <2>2, <2>3 DEF d
<1>7. x \in [1..n -> F]
  <2>1. x = [i \in 1..n |-> x[i]] BY <1>5
  <2>2. \A i \in 1..n : x[i] \in F OBVIOUS
  <2> QED BY <2>1, <2>2
<1>8. x \in Seq(F) /\ Len(x) = n
  <2> HIDE DEF F
  <2> QED BY <1>2, <1>7, AsLong
<1> HIDE DEF F
<1> QED BY <1>6, <1>8 DEF IsFeed

LEMMA ViewFacts ==
  ASSUME NEW x \in Views
  PROVE  x.windowSize \in Nat /\ x.sampleStep \in Nat /\ x.windowSize \in 1..200 /\ x.sampleStep \in 0..20
<1>1. x.windowSize \in 1..2 /\ x.sampleStep \in 0..2 BY DEF Views
<1>2. \A i \in 1..2 : i \in Nat /\ i \in 1..200 OBVIOUS
<1>3. \A i \in 0..2 : i \in Nat /\ i \in 0..20 OBVIOUS
<1>4. x.windowSize \in Nat /\ x.windowSize \in 1..200 BY ONLY <1>1, <1>2, Zenon
<1>5. x.sampleStep \in Nat /\ x.sampleStep \in 0..20 BY ONLY <1>1, <1>3, Zenon
<1> QED BY <1>4, <1>5, Zenon

\* Of the feeds and views of the bounded inputs, the pipeline of the snapshots and the
\* ingestion of a fast feed, in whatever parts and paused or not, show the same frames.
THEOREM PipelinesAgreeHere == PipelinesAgree
<1> SUFFICES ASSUME NEW x \in Feeds, NEW v \in Views
             PROVE  /\ applyFrameViewingPipeline(x, v) = Shown(x, v)
                    /\ \A cut \in 0..Len(x), pausedFirst \in BOOLEAN :
                         IngestionAgrees(x, v, cut, pausedFirst, 2)
  BY DEF PipelinesAgree
<1>1. PICK F : x \in Seq(F) BY FeedFacts DEF IsFeed
<1>2. v.windowSize \in Nat /\ v.sampleStep \in Nat /\ v.windowSize \in 1..200 /\ v.sampleStep \in 0..20
  BY ViewFacts
<1>3. applyFrameViewingPipeline(x, v) = Shown(x, v)
  <2> HIDE DEF Views
  <2> QED BY <1>1, <1>2, PipelineShows
<1>4. ASSUME NEW cut \in 0..Len(x), NEW pausedFirst \in BOOLEAN
      PROVE  IngestionAgrees(x, v, cut, pausedFirst, 2)
  <2>1. 2 \in Nat \ {0} OBVIOUS
  <2> QED BY <1>1, <1>2, <2>1, IngestionShows
<1> QED BY <1>3, <1>4

-----------------------------------------------------------------------------
(* A list of lists as one list                                              *)

Listed(s, x) == \E j \in 1..Len(s) : s[j] = x

IsFlattening(g, seqs, m) == g = [i \in 1..m |-> IF i = 1 THEN seqs[i] ELSE g[i - 1] \o seqs[i]]

LEMMA FlatteningExists ==
  ASSUME NEW seqs, NEW n \in Nat
  PROVE  \E g : IsFlattening(g, seqs, n)
<1> DEFINE Fails == {m \in 0..n : ~\E g : IsFlattening(g, seqs, m)}
<1>1. Fails = {}
  <2> SUFFICES ASSUME Fails # {} PROVE FALSE OBVIOUS
  <2>1. PICK m \in Fails : \A x \in Fails : m <= x
    <3>1. Fails \subseteq Nat OBVIOUS
    <3> HIDE DEF Fails
    <3> QED BY <3>1, LeastOfNats
  <2>2. m \in 0..n /\ ~\E g : IsFlattening(g, seqs, m) BY <2>1
  <2>3. CASE m = 0
    <3> DEFINE g == [i \in 1..0 |-> IF i = 1 THEN seqs[i] ELSE seqs[i]]
    <3>1. g = [i \in 1..0 |-> IF i = 1 THEN seqs[i] ELSE g[i - 1] \o seqs[i]] OBVIOUS
    <3> HIDE DEF g
    <3>2. IsFlattening(g, seqs, 0) BY <3>1 DEF IsFlattening
    <3> QED BY <2>2, <2>3, <3>2
  <2>4. CASE m # 0
    <3> DEFINE p == m - 1
    <3>1. p \in Nat /\ p + 1 = m /\ p \in 0..n /\ ~(m <= p) BY <2>2, <2>4
    <3>2. p \notin Fails
      <4> HIDE DEF Fails, p
      <4> QED BY <2>1, <3>1
    <3>3. PICK g : IsFlattening(g, seqs, p) BY <3>1, <3>2
    <3> HIDE DEF p
    <3> DEFINE h == [i \in 1..m |-> IF i = 1 THEN seqs[i] ELSE g[i - 1] \o seqs[i]]
    <3>4. \A i \in 1..p : g[i] = IF i = 1 THEN seqs[i] ELSE g[i - 1] \o seqs[i]
      BY <3>3 DEF IsFlattening
    <3>5. \A i \in 1..p : i \in 1..m BY <3>1
    <3>6. \A i \in 1..m : i # 1 => i - 1 \in 1..p BY <2>2, <3>1
    <3>7. \A i \in 1..p : h[i] = g[i] BY <3>4, <3>5
    <3>8. \A i \in 1..m : h[i] = IF i = 1 THEN seqs[i] ELSE g[i - 1] \o seqs[i] OBVIOUS
    <3>9. h = [i \in 1..m |-> h[i]] OBVIOUS
    <3> HIDE DEF h
    <3>10. \A i \in 1..m : h[i] = IF i = 1 THEN seqs[i] ELSE h[i - 1] \o seqs[i]
      BY <3>6, <3>7, <3>8
    <3>11. h = [i \in 1..m |-> IF i = 1 THEN seqs[i] ELSE h[i - 1] \o seqs[i]] BY <3>9, <3>10
    <3>12. IsFlattening(h, seqs, m) BY <3>11 DEF IsFlattening
    <3> QED BY <2>2, <3>12
  <2> QED BY <2>3, <2>4
<1>2. n \in 0..n OBVIOUS
<1> QED BY <1>1, <1>2

LEMMA HeldByBoth ==
  ASSUME NEW S, NEW a \in Seq(S), NEW b \in Seq(S), NEW r, IsJoined(r, a, b), NEW x
  PROVE  Listed(r, x) <=> Listed(a, x) \/ Listed(b, x)
<1> DEFINE k == Len(a)
           l == Len(b)
<1>1. k \in Nat /\ l \in Nat BY LenProperties
<1>2. Len(r) = k + l /\ \A i \in 1..k + l : r[i] = IF i <= k THEN a[i] ELSE b[i - k] BY DEF IsJoined
<1>3. \A i \in 1..k + l : i <= k => i \in 1..k BY <1>1
<1>4. \A i \in 1..k + l : ~(i <= k) => i - k \in 1..l BY <1>1
<1>5. \A i \in 1..k : i \in 1..k + l /\ i <= k BY <1>1
<1>6. \A i \in 1..l : k + i \in 1..k + l /\ ~(k + i <= k) /\ k + i - k = i BY <1>1
<1> HIDE DEF k, l
<1>7. Listed(r, x) => Listed(a, x) \/ Listed(b, x) BY <1>2, <1>3, <1>4 DEF Listed, k, l
<1>8. Listed(a, x) => Listed(r, x) BY <1>2, <1>5 DEF Listed, k
<1>9. Listed(b, x) => Listed(r, x)
  <2> SUFFICES ASSUME NEW i \in 1..l, b[i] = x PROVE Listed(r, x) BY DEF Listed, l
  <2> DEFINE j == k + i
  <2>1. j \in 1..k + l /\ ~(j <= k) /\ j - k = i BY <1>1, <1>6
  <2> HIDE DEF j
  <2>2. r[j] = x BY <1>2, <2>1
  <2> QED BY <1>2, <2>1, <2>2 DEF Listed
<1> QED BY <1>7, <1>8, <1>9

\* What is in the first lists.
Heard(seqs, i, x) == \E l \in 1..i : Listed(seqs[l], x)

LEMMA FlatteningFacts ==
  ASSUME NEW T, NEW n \in Nat, NEW seqs, \A i \in 1..n : seqs[i] \in Seq(T),
         NEW g, IsFlattening(g, seqs, n)
  PROVE  \A i \in 1..n : g[i] \in Seq(T) /\ \A x : Listed(g[i], x) <=> Heard(seqs, i, x)
<1> DEFINE Good(i) == g[i] \in Seq(T) /\ \A x : Listed(g[i], x) <=> Heard(seqs, i, x)
           Fails == {i \in 1..n : ~Good(i)}
<1>0. \A i \in 1..n : g[i] = IF i = 1 THEN seqs[i] ELSE g[i - 1] \o seqs[i] BY DEF IsFlattening
<1>1. Fails = {}
  <2> SUFFICES ASSUME Fails # {} PROVE FALSE OBVIOUS
  <2>1. PICK m \in Fails : \A x \in Fails : m <= x
    <3>1. Fails \subseteq Nat OBVIOUS
    <3> HIDE DEF Fails
    <3> QED BY <3>1, LeastOfNats
  <2>2. m \in 1..n /\ ~Good(m) BY <2>1
  <2>3. CASE m = 1
    <3>1. g[1] = seqs[1] /\ 1 \in 1..n BY <1>0, <2>2, <2>3
    <3>2. \A x : Heard(seqs, 1, x) <=> Listed(seqs[1], x)
      <4>1. \A l \in 1..1 : l = 1 OBVIOUS
      <4>2. 1 \in 1..1 OBVIOUS
      <4> QED BY <4>1, <4>2 DEF Heard
    <3> QED BY <2>2, <2>3, <3>1, <3>2
  <2>4. CASE m # 1
    <3> DEFINE p == m - 1
               a == g[p]
               b == seqs[m]
               r == a \o b
    <3>1. p \in 1..n /\ ~(m <= p) /\ p \in Int BY <2>2, <2>4
    <3>2. Good(p)
      <4>1. p \notin Fails
        <5> HIDE DEF Fails, p
        <5> QED BY <2>1, <3>1
      <4> QED BY <3>1, <4>1
    <3>3. g[m] = r BY <1>0, <2>2, <2>4
    <3>4. a \in Seq(T) /\ b \in Seq(T) BY <2>2, <3>2
    <3>5. r \in Seq(T) /\ IsJoined(r, a, b) BY <3>4, Joined
    <3>6. \A x : Heard(seqs, m, x) <=> Heard(seqs, p, x) \/ Listed(b, x)
      <4>1. \A l : l \in 1..m <=> l \in 1..p \/ l = m BY <2>2, <3>1
      <4> HIDE DEF p
      <4> QED BY <4>1 DEF Heard
    <3> HIDE DEF r
    <3>7. ASSUME NEW x PROVE Listed(r, x) <=> Listed(a, x) \/ Listed(b, x)
      <4> HIDE DEF a, b
      <4> QED BY <3>4, <3>5, HeldByBoth
    <3> HIDE DEF p, a, b
    <3>8. Good(m) BY <3>2, <3>3, <3>5, <3>6, <3>7 DEF a
    <3> QED BY <2>2, <3>8
  <2> QED BY <2>3, <2>4
<1> QED BY <1>1

\* What is in the list is in one of the lists.
LEMMA FlattenFacts ==
  ASSUME NEW T, NEW seqs \in Seq(Seq(T))
  PROVE  /\ FlattenSeq(seqs) \in Seq(T)
         /\ \A x : Listed(FlattenSeq(seqs), x) <=> Heard(seqs, Len(seqs), x)
<1> DEFINE n == Len(seqs)
           flatten == CHOOSE g : IsFlattening(g, seqs, n)
<1>1. n \in Nat /\ \A i \in 1..n : seqs[i] \in Seq(T) BY LenProperties, ElementOfSeq
<1>2. FlattenSeq(seqs) = IF n = 0 THEN seqs ELSE flatten[n] BY DEF FlattenSeq, IsFlattening
<1> HIDE DEF n
<1>3. IsFlattening(flatten, seqs, n) BY <1>1, FlatteningExists
<1> HIDE DEF flatten
<1>4. \A i \in 1..n : flatten[i] \in Seq(T) /\ \A x : Listed(flatten[i], x) <=> Heard(seqs, i, x)
  BY <1>1, <1>3, FlatteningFacts
<1>5. CASE n = 0
  <2>1. FlattenSeq(seqs) = seqs /\ Len(seqs) = 0 BY <1>2, <1>5 DEF n
  <2>2. seqs = <<>> BY <2>1, EmptySeq
  <2>3. seqs \in Seq(T) BY <2>2, EmptySeq
  <2>4. 1..0 = {} OBVIOUS
  <2>5. \A x : ~Listed(seqs, x) /\ ~Heard(seqs, n, x) BY <1>5, <2>1, <2>4 DEF Listed, Heard
  <2> QED BY <2>1, <2>3, <2>5 DEF n
<1>6. CASE n # 0
  <2>1. n \in 1..n BY <1>1, <1>6
  <2> QED BY <1>2, <1>4, <1>6, <2>1 DEF n
<1> QED BY <1>5, <1>6

-----------------------------------------------------------------------------
(* The exports                                                              *)

ImageOf(f, K) == {f[i] : i \in K}

LEMMA ImageBound ==
  ASSUME NEW K, IsFiniteSet(K), NEW f, DOMAIN f = K, f = [i \in K |-> f[i]]
  PROVE  /\ IsFiniteSet(ImageOf(f, K)) /\ Cardinality(ImageOf(f, K)) \in Nat
         /\ Cardinality(ImageOf(f, K)) <= Cardinality(K)
<1> DEFINE T == ImageOf(f, K)
<1>1. \A i \in K : f[i] \in T BY DEF ImageOf
<1>2. \A t \in T : \E i \in K : f[i] = t BY DEF ImageOf
<1> HIDE DEF T
<1>3. f \in [K -> T] BY <1>1
<1>4. f \in Surjection(K, T) BY <1>2, <1>3, Fun_IsSurj
<1>5. IsFiniteSet(T) /\ Cardinality(T) <= Cardinality(K) BY <1>4, FS_Surjection
<1>6. Cardinality(T) \in Nat BY <1>5, FS_CardinalityType
<1> QED BY <1>5, <1>6 DEF T

\* A list is as long as its domain says.
LEMMA LengthOf ==
  ASSUME NEW n \in Nat, NEW r, r = [i \in 1..n |-> r[i]]
  PROVE  Len(r) = n
<1> DEFINE S == ImageOf(r, 1..n)
<1>1. \A i \in 1..n : r[i] \in S BY DEF ImageOf
<1> HIDE DEF S
<1>2. r \in [1..n -> S] BY <1>1
<1> QED BY <1>2, AsLong

\* A line has a time and a signal.
LinesOf(Times, Signals) == Times \X (Signals \cup {""})
EntryLines(entry, t) ==
  IF entry.signals = <<>> THEN <<<<t, "">>>> ELSE [i \in DOMAIN entry.signals |-> <<t, entry.signals[i]>>]
Somewhat(s, t) == (\E x : Listed(s, x)) /\ \A x : Listed(s, x) => x[1] = t

LEMMA OneLine ==
  ASSUME NEW T, NEW x \in T, NEW r, r = <<x>>
  PROVE  r \in Seq(T) /\ \A y : Listed(r, y) <=> y = x
<1>1. r \in Seq(T) /\ Len(r) = 1 /\ r[1] = x OBVIOUS
<1>2. \A i \in 1..1 : i = 1 OBVIOUS
<1>3. 1 \in 1..1 OBVIOUS
<1> QED BY <1>1, <1>2, <1>3 DEF Listed

LEMMA EntryLinesFacts ==
  ASSUME NEW Times, NEW Signals, NEW t \in Times, NEW entry, entry.signals \in Seq(Signals)
  PROVE  EntryLines(entry, t) \in Seq(LinesOf(Times, Signals)) /\ Somewhat(EntryLines(entry, t), t)
<1> DEFINE r == EntryLines(entry, t)
           q == entry.signals
           T == LinesOf(Times, Signals)
           n == Len(q)
<1>1. CASE q = <<>>
  <2> DEFINE x == <<t, "">>
  <2>1. r = <<x>> BY <1>1 DEF EntryLines
  <2>2. x \in T /\ x[1] = t BY DEF LinesOf
  <2> HIDE DEF x, T, r
  <2>3. r \in Seq(T) /\ \A y : Listed(r, y) <=> y = x BY <2>1, <2>2, OneLine
  <2>6. Somewhat(r, t) BY <2>2, <2>3 DEF Somewhat
  <2> QED BY <2>3, <2>6 DEF r, T
<1>2. CASE q # <<>>
  <2>1. q \in Seq(Signals) OBVIOUS
  <2>2. r = [i \in DOMAIN q |-> <<t, q[i]>>] BY <1>2 DEF EntryLines
  <2> HIDE DEF q, r
  <2>3. n \in Nat /\ DOMAIN q = 1..n BY <2>1, LenProperties
  <2>4. n # 0 BY <1>2, <2>1, EmptySeq
  <2>5. \A i \in 1..n : q[i] \in Signals BY <2>1, ElementOfSeq
  <2> HIDE DEF n
  <2>6. r = [i \in 1..n |-> <<t, q[i]>>] BY <2>2, <2>3
  <2>7. \A i \in 1..n : r[i] = <<t, q[i]>> BY <2>6
  <2>8. \A i \in 1..n : r[i] \in T /\ r[i][1] = t
    <3> SUFFICES ASSUME NEW i \in 1..n PROVE r[i] \in T /\ r[i][1] = t OBVIOUS
    <3> DEFINE y == q[i]
    <3>1. r[i] = <<t, y>> /\ y \in Signals BY <2>5, <2>7
    <3> HIDE DEF y
    <3>2. <<t, y>> \in T /\ <<t, y>>[1] = t BY <3>1 DEF LinesOf
    <3> QED BY <3>1, <3>2
  <2> HIDE DEF T
  <2>9. r \in [1..n -> T] BY <2>6, <2>8
  <2>10. r \in Seq(T) /\ Len(r) = n BY <2>3, <2>9, AsLong
  <2>11. 1 \in 1..n BY <2>3, <2>4
  <2>12. Somewhat(r, t) BY <2>8, <2>10, <2>11 DEF Somewhat, Listed
  <2> QED BY <2>10, <2>12 DEF r, T
<1> QED BY <1>1, <1>2

LEMMA DecodedLinesFacts ==
  ASSUME NEW D, NEW Signals, \A d \in D : d.signals \in Seq(Signals),
         NEW Times, NEW frame, frame.ts \in Times, NEW index,
         describeDecodedFrame(index, frame.id) \in Seq(D)
  PROVE  /\ DecodedLines(frame, index) \in Seq(LinesOf(Times, Signals))
         /\ Somewhat(DecodedLines(frame, index), frame.ts)
         /\ describeDecodedFrame(index, frame.id) = <<>>
              => \A x : Listed(DecodedLines(frame, index), x) => x[2] = ""
<1> DEFINE e == describeDecodedFrame(index, frame.id)
           t == frame.ts
           r == DecodedLines(frame, index)
           T == LinesOf(Times, Signals)
           n == Len(e)
           seqs == [i \in DOMAIN e |-> EntryLines(e[i], t)]
<1>1. e \in Seq(D) /\ t \in Times OBVIOUS
<1>2. CASE e = <<>>
  <2> DEFINE x == <<t, "">>
  <2>1. r = <<x>> BY <1>2 DEF DecodedLines
  <2>2. x \in T /\ x[1] = t /\ x[2] = "" BY DEF LinesOf
  <2> HIDE DEF x, T, r
  <2>3. r \in Seq(T) /\ \A y : Listed(r, y) <=> y = x BY <2>1, <2>2, OneLine
  <2>6. Somewhat(r, t) /\ \A y : Listed(r, y) => y[2] = "" BY <2>2, <2>3 DEF Somewhat
  <2> QED BY <2>3, <2>6 DEF r, T
<1>3. CASE e # <<>>
  <2>1. r = FlattenSeq(seqs) BY <1>3 DEF DecodedLines, EntryLines
  <2> HIDE DEF e, t, r
  <2>2. n \in Nat /\ DOMAIN e = 1..n /\ \A i \in 1..n : e[i] \in D BY <1>1, LenProperties, ElementOfSeq
  <2>3. n # 0 BY <1>1, <1>3, EmptySeq
  <2> HIDE DEF n
  <2>4. seqs = [i \in 1..n |-> EntryLines(e[i], t)] BY <2>2
  <2>5. \A i \in 1..n : EntryLines(e[i], t) \in Seq(T) /\ Somewhat(EntryLines(e[i], t), t)
    <3> SUFFICES ASSUME NEW i \in 1..n PROVE EntryLines(e[i], t) \in Seq(T) /\ Somewhat(EntryLines(e[i], t), t)
      OBVIOUS
    <3>1. e[i].signals \in Seq(Signals) BY <2>2
    <3> QED BY <1>1, <3>1, EntryLinesFacts
  <2> HIDE DEF seqs, T
  <2>6. \A i \in 1..n : seqs[i] \in Seq(T) /\ Somewhat(seqs[i], t) BY <2>4, <2>5
  <2>7. seqs \in [1..n -> Seq(T)] BY <2>4, <2>5
  <2>8. seqs \in Seq(Seq(T)) /\ Len(seqs) = n BY <2>2, <2>7, AsLong
  <2>9. r \in Seq(T) /\ \A x : Listed(r, x) <=> Heard(seqs, n, x) BY <2>1, <2>8, FlattenFacts
  <2>10. 1 \in 1..n BY <2>2, <2>3
  <2>11. Somewhat(r, t) BY <2>6, <2>9, <2>10 DEF Somewhat, Heard
  <2> QED BY <1>3, <2>9, <2>11 DEF r, T, t, e
<1> QED BY <1>2, <1>3

LEMMA IndexFacts ==
  ASSUME NEW D, NEW dataset \in Seq(D), NEW id
  PROVE  describeDecodedFrame(buildDecoderIndex(dataset), id) \in Seq(D)
<1> DEFINE index == buildDecoderIndex(dataset)
           I == {i \in DOMAIN dataset : dataset[i].id = id}
<1>1. Within(I, Len(dataset))
  <2>1. DOMAIN dataset = 1..Len(dataset) BY LenProperties
  <2> QED BY <2>1 DEF Within
<1>2. AtPlaces(dataset, I) \in Seq(D)
  <2> HIDE DEF I
  <2> QED BY <1>1, SelectionFacts
<1>3. CASE id \in DOMAIN index
  <2>1. index[id] = AtPlaces(dataset, I) BY <1>3 DEF buildDecoderIndex, Where
  <2>2. describeDecodedFrame(index, id) = index[id] BY <1>3 DEF describeDecodedFrame
  <2> QED BY <1>2, <2>1, <2>2
<1>4. CASE id \notin DOMAIN index
  <2>1. describeDecodedFrame(index, id) = <<>> BY <1>4 DEF describeDecodedFrame
  <2> QED BY <2>1, EmptySeq
<1> QED BY <1>3, <1>4

TimesOf(lines_) == {lines_[i][1] : i \in DOMAIN lines_}
StampsOf(s) == {s[i].ts : i \in DOMAIN s}
SignalTimes(lines_) == {lines_[i][1] : i \in {j \in DOMAIN lines_ : lines_[j][2] # ""}}
Described(s, index) == {i \in DOMAIN s : describeDecodedFrame(index, s[i].id) # <<>>}

LEMMA LiveLength ==
  ASSUME NEW F, NEW s \in Seq(F), NEW index
  PROVE  /\ Within(Described(s, index), Len(s)) /\ IsFiniteSet(Described(s, index))
         /\ Cardinality(Described(s, index)) \in Nat
         /\ Len(liveDecodedFeed(s, index)) = Cardinality(Described(s, index))
<1> DEFINE K == Described(s, index)
           known == AtPlaces(s, K)
           n == Cardinality(K)
           r == liveDecodedFeed(s, index)
<1>1. Within(K, Len(s))
  <2>1. DOMAIN s = 1..Len(s) BY LenProperties
  <2> QED BY <2>1 DEF Within, Described
<1>2. known = Where(s, LAMBDA f : describeDecodedFrame(index, f.id) # <<>>) BY DEF Where, Described
<1> HIDE DEF K
<1>3. IsFiniteSet(K) /\ n \in Nat /\ known \in Seq(F) /\ Len(known) = n BY <1>1, SelectionFacts
<1>4. DOMAIN known = 1..n BY <1>3, LenProperties
<1> DEFINE Live(f) == [frame |-> f, signalCount |-> FoldLeft(LAMBDA m, entry : m + Len(entry.signals), 0,
                                                              describeDecodedFrame(index, f.id))]
<1>5. r = [i \in DOMAIN known |-> Live(known[i])] BY <1>2 DEF liveDecodedFeed
<1> HIDE DEF Live, r, known, n
<1>6. r = [i \in 1..n |-> Live(known[i])] BY <1>4, <1>5
<1>7. r = [i \in 1..n |-> r[i]] BY <1>6
<1>8. Len(r) = n BY <1>3, <1>7, LengthOf
<1> QED BY <1>1, <1>3, <1>8 DEF K, n, r

\* The lines of the frames that are shown.
FrameLines(s, index) == [i \in DOMAIN s |-> DecodedLines(s[i], index)]

LEMMA LinesShown ==
  ASSUME NEW F, NEW s \in Seq(F), NEW D, NEW Signals, \A d \in D : d.signals \in Seq(Signals),
         NEW index, \A id : describeDecodedFrame(index, id) \in Seq(D),
         NEW lines_, lines_ = FlattenSeq(FrameLines(s, index))
  PROVE  /\ TimesOf(lines_) = StampsOf(s)
         /\ Cardinality(SignalTimes(lines_)) <= Len(liveDecodedFeed(s, index))
<1> DEFINE n == Len(s)
           T == LinesOf(StampsOf(s), Signals)
           seqs == FrameLines(s, index)
           K == Described(s, index)
<1>1. n \in Nat /\ DOMAIN s = 1..n BY LenProperties
<1> HIDE DEF n
<1>2. ASSUME NEW i \in 1..n
      PROVE  /\ DecodedLines(s[i], index) \in Seq(T) /\ Somewhat(DecodedLines(s[i], index), s[i].ts)
             /\ i \notin K => \A x : Listed(DecodedLines(s[i], index), x) => x[2] = ""
  <2> DEFINE f == s[i]
  <2>1. f.ts \in StampsOf(s) BY <1>1 DEF StampsOf
  <2>2. describeDecodedFrame(index, f.id) \in Seq(D) OBVIOUS
  <2>3. i \notin K => describeDecodedFrame(index, f.id) = <<>> BY <1>1 DEF Described
  <2> HIDE DEF f, T, K
  <2>4. /\ DecodedLines(f, index) \in Seq(LinesOf(StampsOf(s), Signals))
        /\ Somewhat(DecodedLines(f, index), f.ts)
        /\ describeDecodedFrame(index, f.id) = <<>> => \A x : Listed(DecodedLines(f, index), x) => x[2] = ""
    BY <2>1, <2>2, DecodedLinesFacts
  <2> QED BY <2>3, <2>4 DEF f, T
<1> HIDE DEF T
<1>3. seqs = [i \in 1..n |-> DecodedLines(s[i], index)] BY <1>1 DEF FrameLines
<1> HIDE DEF seqs
<1>4. \A i \in 1..n : seqs[i] = DecodedLines(s[i], index) BY <1>3
<1>5. seqs \in [1..n -> Seq(T)] BY <1>2, <1>3
<1>6. seqs \in Seq(Seq(T)) /\ Len(seqs) = n BY <1>1, <1>5, AsLong
<1>7. lines_ \in Seq(T) /\ \A x : Listed(lines_, x) <=> Heard(seqs, n, x)
  BY <1>6, FlattenFacts DEF seqs
<1>8. DOMAIN lines_ = 1..Len(lines_) BY <1>7, LenProperties
<1>9. \A x : Listed(lines_, x) <=> \E i \in 1..n : Listed(DecodedLines(s[i], index), x)
  BY <1>4, <1>7 DEF Heard
<1>10. TimesOf(lines_) = StampsOf(s)
  <2>1. ASSUME NEW t \in TimesOf(lines_) PROVE t \in StampsOf(s)
    <3>1. PICK x : Listed(lines_, x) /\ x[1] = t BY <1>8 DEF TimesOf, Listed
    <3>2. PICK i \in 1..n : Listed(DecodedLines(s[i], index), x) BY <1>9, <3>1
    <3>3. t = s[i].ts BY <1>2, <3>1, <3>2 DEF Somewhat
    <3> QED BY <1>1, <3>3 DEF StampsOf
  <2>2. ASSUME NEW t \in StampsOf(s) PROVE t \in TimesOf(lines_)
    <3>1. PICK i \in 1..n : t = s[i].ts BY <1>1 DEF StampsOf
    <3>2. PICK x : Listed(DecodedLines(s[i], index), x) /\ x[1] = t BY <1>2, <3>1 DEF Somewhat
    <3>3. Listed(lines_, x) BY <1>9, <3>2
    <3> QED BY <1>8, <3>2, <3>3 DEF TimesOf, Listed
  <2> QED BY <2>1, <2>2
<1>11. IsFiniteSet(K) /\ Cardinality(K) \in Nat /\ Within(K, n) /\ Len(liveDecodedFeed(s, index)) = Cardinality(K)
  BY LiveLength DEF n
<1>12. Cardinality(SignalTimes(lines_)) <= Cardinality(K)
  <2> DEFINE f == [i \in K |-> s[i].ts]
             T0 == ImageOf(f, K)
             L == SignalTimes(lines_)
  <2>1. f = [i \in K |-> f[i]] /\ DOMAIN f = K OBVIOUS
  <2>2. \A i \in K : f[i] = s[i].ts OBVIOUS
  <2> HIDE DEF f, K
  <2>3. IsFiniteSet(T0) /\ Cardinality(T0) \in Nat /\ Cardinality(T0) <= Cardinality(K)
    BY <1>11, <2>1, ImageBound
  <2>4. ASSUME NEW t \in L PROVE t \in T0
    <3>1. PICK x : Listed(lines_, x) /\ x[1] = t /\ x[2] # "" BY <1>8 DEF SignalTimes, Listed
    <3>2. PICK i \in 1..n : Listed(DecodedLines(s[i], index), x) BY <1>9, <3>1
    <3>3. i \in K BY <1>2, <3>1, <3>2
    <3>4. t = s[i].ts BY <1>2, <3>1, <3>2 DEF Somewhat
    <3> QED BY <2>2, <3>3, <3>4 DEF ImageOf
  <2> HIDE DEF T0, L
  <2>5. L \in SUBSET T0 BY <2>4
  <2>6. Cardinality(L) <= Cardinality(T0) /\ Cardinality(L) \in Nat
    BY <2>3, <2>5, FS_Subset, FS_CardinalityType
  <2> QED BY <1>11, <2>3, <2>6 DEF L
<1> QED BY <1>10, <1>11, <1>12

NewestFirst(feed_) ==
  \A i, j \in DOMAIN feed_ : i < j => feed_[i].ts >= feed_[j].ts

LEMMA TimeframeFacts ==
  ASSUME NEW F, NEW feed_ \in Seq(F), \A i \in DOMAIN feed_ : feed_[i].ts \in Int, NewestFirst(feed_),
         feed_ # <<>>
  PROVE  timeframe(feed_)[1] <= timeframe(feed_)[2]
<1> DEFINE n == Len(feed_)
           a == feed_[n].ts
           b == feed_[1].ts
<1>1. n \in Nat /\ DOMAIN feed_ = 1..n /\ n # 0 BY LenProperties, EmptySeq
<1>2. Last(feed_) = feed_[n] /\ Head(feed_) = feed_[1] BY DEF Last
<1>3. timeframe(feed_) = <<a, b>> BY <1>2 DEF timeframe
<1> HIDE DEF n
<1>4. 1 \in DOMAIN feed_ /\ n \in DOMAIN feed_ BY <1>1
<1>5. CASE n = 1
  <2>1. a = b /\ a \in Int BY <1>4, <1>5
  <2> HIDE DEF a, b
  <2> QED BY <1>3, <2>1
<1>6. CASE n # 1
  <2>1. 1 < n BY <1>1, <1>6
  <2>2. b >= a BY <1>4, <2>1 DEF NewestFirst
  <2>3. a \in Int /\ b \in Int BY <1>4
  <2> HIDE DEF a, b
  <2>4. a <= b BY <2>2, <2>3
  <2> QED BY <1>3, <2>4
<1> QED BY <1>5, <1>6

\* Of every feed, newest first, and every data set, each export has what it says: a
\* row for each frame that is shown, the lines of exactly those, no more times with a
\* signal than the live feed decodes frames, and the package what its parts have.
THEOREM ExportsShow ==
  ASSUME NEW F, NEW feed_ \in Seq(F), \A i \in DOMAIN feed_ : feed_[i].ts \in Int, NewestFirst(feed_),
         NEW view, view.windowSize \in Nat, view.sampleStep \in Nat,
         NEW D, NEW Signals, \A d \in D : d.signals \in Seq(Signals), NEW dataset \in Seq(D)
  PROVE  ExportAgrees(feed_, view, dataset)
<1> DEFINE index   == buildDecoderIndex(dataset)
           shown_  == Shown(feed_, view)
           csv     == exportVisibleFrames(feed_, view)
           json    == exportDecodedSessionJson(feed_, view, index)
           lines_   == exportDecodedSessionCsv(feed_, view, index).rows
           package == exportSessionPackage(feed_, view, index)
           decoded == Decoded(shown_, index)
           n == Len(shown_)
<1>1. visibleFrames(feed_, view) = shown_ BY PipelineShows DEF visibleFrames
<1>2. shown_ \in Seq(F)
  <2> DEFINE V == {i \in DOMAIN feed_ :
                     LET rank == Rank(feed_, i, view)
                     IN /\ Wanted(feed_[i], view) /\ rank < view.windowSize
                        /\ view.sampleStep > 1 => rank % view.sampleStep = 0}
  <2>1. shown_ = AtPlaces(feed_, V) BY DEF Shown
  <2>2. Within(V, Len(feed_))
    <3>1. DOMAIN feed_ = 1..Len(feed_) BY LenProperties
    <3> QED BY <3>1 DEF Within
  <2> HIDE DEF V, shown_
  <2> QED BY <2>1, <2>2, SelectionFacts
<1>3. n \in Nat /\ DOMAIN shown_ = 1..n BY <1>2, LenProperties
<1> HIDE DEF shown_, index
<1>4. /\ csv.ok /\ csv.rows = shown_
      /\ json.rows = decoded
      /\ lines_ = FlattenSeq(FrameLines(shown_, index))
      /\ package.raw = feed_ /\ package.decoded = decoded
      /\ package.provenance.filteredFrames = n
  <2>1. csv.rows = shown_
    BY <1>1 DEF exportVisibleFrames, buildExportRows
  <2>2. csv.ok
    BY <1>1 DEF exportVisibleFrames, buildExportRows, verifyExportIntegrity
  <2>3. json.rows = decoded BY <1>1 DEF exportDecodedSessionJson
  <2>4. lines_ = FlattenSeq(FrameLines(shown_, index)) BY <1>1 DEF exportDecodedSessionCsv, FrameLines
  <2>5. package.raw = feed_ /\ package.decoded = decoded BY <1>1 DEF exportSessionPackage
  <2>6. package.provenance.filteredFrames = n
    <3>1. package.provenance = Provenance(feed_, view) BY DEF exportSessionPackage
    <3>2. Provenance(feed_, view).filteredFrames = Len(visibleFrames(feed_, view))
      BY DEF Provenance, buildExportProvenance
    <3> QED BY <1>1, <3>1, <3>2
  <2> QED BY <2>1, <2>2, <2>3, <2>4, <2>5, <2>6
<1>5. exportRawSession(feed_, view).rows = feed_ BY DEF exportRawSession
<1> HIDE DEF csv, json, lines_, package
<1>6. Len(decoded) = n
  <2>1. decoded = [i \in 1..n |-> <<shown_[i].ts, describeDecodedFrame(index, shown_[i].id)>>]
    BY <1>3 DEF Decoded
  <2> HIDE DEF n, decoded
  <2>2. decoded = [i \in 1..n |-> decoded[i]] BY <2>1
  <2> QED BY <1>3, <2>2, LengthOf
<1>7. TimesOf(lines_) = StampsOf(shown_) /\ Cardinality(SignalTimes(lines_)) <= Len(liveDecodedFeed(shown_, index))
  <2>1. \A id : describeDecodedFrame(index, id) \in Seq(D) BY IndexFacts DEF index
  <2>2. lines_ = FlattenSeq(FrameLines(shown_, index)) BY <1>4
  <2> QED BY <1>2, <2>1, <2>2, LinesShown
<1>8. feed_ # <<>> => timeframe(feed_)[1] <= timeframe(feed_)[2] BY TimeframeFacts
<1>9. /\ csv.ok /\ Len(csv.rows) = Len(shown_) /\ Len(json.rows) = Len(shown_)
      /\ TimesOf(lines_) = StampsOf(shown_)
      /\ Cardinality(SignalTimes(lines_)) <= Len(liveDecodedFeed(shown_, index))
      /\ package.raw = exportRawSession(feed_, view).rows /\ package.decoded = json.rows
      /\ package.provenance.filteredFrames = Len(package.decoded)
      /\ feed_ # <<>> => timeframe(feed_)[1] <= timeframe(feed_)[2]
  <2> HIDE DEF decoded
  <2> QED BY <1>4, <1>5, <1>6, <1>7, <1>8
<1> QED BY <1>9, Zenon DEF ExportAgrees, TimesOf, StampsOf, SignalTimes, csv, json, lines_, package, shown_, index

-----------------------------------------------------------------------------
(* The data sets of the bounded inputs                                      *)

SomeEntries == [id : {NoId, 1}, signals : {<<>>, <<"a">>, <<"a", "b">>}]

LEMMA DatasetFacts ==
  ASSUME NEW d \in Datasets
  PROVE  selectedDecoderDataset(<<d>>, 1) \in Seq(SomeEntries)
<1> DEFINE sets == <<d>>
           I == {i \in DOMAIN d : d[i].id # NoId}
           r == coerceLegacyDecoderDataset(d)
           usable == {n \in DOMAIN sets : coerceLegacyDecoderDataset(sets[n]) # <<>>}
<1>0. PICK n \in 0..2 : d \in [1..n -> SomeEntries] BY DEF Datasets, SomeEntries
<1> HIDE DEF SomeEntries
<1>1. d \in Seq(SomeEntries)
  <2>1. n \in Nat OBVIOUS
  <2> QED BY <1>0, <2>1, AsLong
<1>2. r = AtPlaces(d, I) BY DEF coerceLegacyDecoderDataset, Where
<1>3. Within(I, Len(d))
  <2>1. DOMAIN d = 1..Len(d) BY <1>1, LenProperties
  <2> QED BY <2>1 DEF Within
<1>4. r \in Seq(SomeEntries)
  <2> HIDE DEF I, r
  <2> QED BY <1>1, <1>2, <1>3, SelectionFacts
<1>5. DOMAIN sets = {1} /\ sets[1] = d OBVIOUS
<1> HIDE DEF sets
<1>6. usable \subseteq {1} BY <1>5
<1>7. selectedDecoderDataset(sets, 1)
        = CASE 1 \in usable -> coerceLegacyDecoderDataset(sets[1])
            [] 1 \notin usable /\ usable # {} -> coerceLegacyDecoderDataset(sets[Min(usable)])
            [] OTHER -> <<>>
  BY DEF selectedDecoderDataset
<1> HIDE DEF usable, r
<1>8. CASE 1 \in usable
  <2>1. selectedDecoderDataset(sets, 1) = coerceLegacyDecoderDataset(sets[1]) BY <1>7, <1>8
  <2>2. coerceLegacyDecoderDataset(sets[1]) = r BY <1>5 DEF r
  <2>3. selectedDecoderDataset(sets, 1) \in Seq(SomeEntries) BY <1>4, <2>1, <2>2
  <2> QED BY <2>3 DEF sets
<1>9. CASE 1 \notin usable
  <2>1. usable = {} BY <1>6, <1>9
  <2>2. selectedDecoderDataset(sets, 1) = <<>> BY <1>7, <2>1
  <2> QED BY <2>2, EmptySeq DEF sets
<1> QED BY <1>8, <1>9 DEF sets

LEMMA SomeSignals == \A d \in SomeEntries : d.signals \in Seq({"a", "b"})
<1> DEFINE S == {"a", "b"}
<1>1. <<>> \in Seq(S) /\ <<"a">> \in Seq(S) /\ <<"a", "b">> \in Seq(S) OBVIOUS
<1> HIDE DEF S
<1>2. \A d \in SomeEntries : d.signals \in {<<>>, <<"a">>, <<"a", "b">>} BY DEF SomeEntries
<1>3. \A d \in SomeEntries : d.signals = <<>> \/ d.signals = <<"a">> \/ d.signals = <<"a", "b">> BY <1>2
<1> QED BY <1>1, <1>3 DEF S

LEMMA FeedIsNewestFirst ==
  ASSUME NEW F, NEW x, IsFeed(x, F)
  PROVE  NewestFirst(x) /\ \A i \in DOMAIN x : x[i].ts \in Int
<1> DEFINE n == Len(x)
<1>1. n \in Nat /\ DOMAIN x = 1..n /\ \A i \in 1..n : x[i].ts = n - i BY LenProperties DEF IsFeed
<1> HIDE DEF n
<1>2. \A i \in 1..n : n - i \in Int BY <1>1
<1>3. \A i, j \in 1..n : i < j => n - i >= n - j BY <1>1
<1> QED BY <1>1, <1>2, <1>3 DEF NewestFirst

LEMMA ExportsAgreeHere == ExportsAgree
<1> DEFINE ViewsHere == [bus : {"all", "1"}, text : {""}, windowSize : {2}, sampleStep : {1}]
<1> SUFFICES ASSUME NEW x \in Feeds, NEW v \in ViewsHere, NEW d \in Datasets
             PROVE  ExportAgrees(x, v, selectedDecoderDataset(<<d>>, 1))
  <2>1. ASSUME NEW sets \in {<<d>> : d \in Datasets} PROVE \E d \in Datasets : sets = <<d>> OBVIOUS
  <2> HIDE DEF ViewsHere
  <2> QED BY <2>1 DEF ExportsAgree, ViewsHere
<1>1. PICK F : IsFeed(x, F) BY FeedFacts
<1>2. x \in Seq(F) /\ NewestFirst(x) /\ \A i \in DOMAIN x : x[i].ts \in Int
  BY <1>1, FeedIsNewestFirst DEF IsFeed
<1>3. v.windowSize \in Nat /\ v.sampleStep \in Nat
  <2>1. v.windowSize = 2 /\ v.sampleStep = 1 OBVIOUS
  <2>2. 1 \in Nat /\ 2 \in Nat OBVIOUS
  <2> QED BY <2>1, <2>2, Zenon
<1>4. selectedDecoderDataset(<<d>>, 1) \in Seq(SomeEntries) BY DatasetFacts
<1> DEFINE dataset == selectedDecoderDataset(<<d>>, 1)
<1> HIDE DEF dataset, ViewsHere
<1>5. ExportAgrees(x, v, dataset) BY <1>2, <1>3, <1>4, SomeSignals, ExportsShow DEF dataset
<1> QED BY <1>5 DEF dataset

-----------------------------------------------------------------------------
(* The views                                                                *)

\* At every moment the views, the gates, the lifecycles and the exports say the same
\* of one state.
THEOREM ViewsAlwaysAgree == ClientsSpec => []ViewsAgree
<1>1. ViewsAgree
  BY GatesAlwaysAgree, LifecyclesAgreeHere, DisplaysAlwaysAgree, PipelinesAgreeHere, ExportsAgreeHere,
     TimelinesAgreeHere DEF ViewsAgree
<1> QED BY <1>1, PTL
===============================================================================
