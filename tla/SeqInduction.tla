---------------------------- MODULE SeqInduction ----------------------------
(***************************************************************************)
(* Induction over sequences, and what FoldLeft makes of a sequence with    *)
(* one element more, for operators that are constants of the module: a     *)
(* module that has the operators instantiates it with them.  (A theorem    *)
(* with an operator among its hypotheses cannot be cited: no prover finds  *)
(* the operator.)                                                          *)
(***************************************************************************)
EXTENDS Integers, Sequences, SequencesExt, FiniteSetsExt, SequenceTheorems, WellFoundedInduction, TLAPS

CONSTANTS
  P(_),          \* what is to hold of every sequence
  Op(_, _)       \* what a fold does with its value and the next element

-----------------------------------------------------------------------------
(* Induction                                                                *)

\* A set of natural numbers has a least one.
LEMMA LeastNumber ==
  ASSUME NEW S, S \subseteq Nat, S # {}
  PROVE  \E m \in S : \A n \in S : m <= n
<1> DEFINE lt == OpToRel(<, Nat)
<1>1. IsWellFoundedOn(lt, Nat) BY NatLessThanWellFounded
<1> HIDE DEF lt
<1>2. PICK m \in S : \A n \in S : <<n, m>> \notin lt BY <1>1, WFMin
<1> USE DEF lt
<1>3. ASSUME NEW n \in S PROVE m <= n
  <2>1. ~(n < m) BY <1>2 DEF OpToRel
  <2> QED BY <2>1
<1> QED BY <1>3

\* The first n + 1 elements are the first n and one more.
LEMMA OneMore ==
  ASSUME NEW S, NEW s \in Seq(S), NEW n \in Nat, n < Len(s)
  PROVE  /\ SubSeq(s, 1, n) \in Seq(S) /\ s[n + 1] \in S
         /\ SubSeq(s, 1, n + 1) = Append(SubSeq(s, 1, n), s[n + 1])
<1>1. Len(s) \in Nat /\ n + 1 \in 1..Len(s) /\ n + 1 - 1 = n BY LenProperties
<1>2. s[n + 1] \in S BY <1>1, ElementOfSeq
<1>3. SubSeq(s, 1, n) \in Seq(S)
  <2>1. \A i \in 1..n : s[i] \in S BY <1>1, ElementOfSeq
  <2>2. 1 \in Int /\ n \in Int BY <1>1
  <2> QED BY <2>1, <2>2, SubSeqProperties
<1>4. SubSeq(s, 1, n + 1) = SubSeq(s, 1, n) \o <<s[n + 1]>>
  <2> DEFINE k == n + 1
  <2>1. 1 \in 1..Len(s) /\ k \in 1..Len(s) /\ k - 1 = n BY <1>1
  <2> HIDE DEF k
  <2>2. SubSeq(s, 1, k) = SubSeq(s, 1, k - 1) \o <<s[k]>> BY <2>1, SubSeqRecursiveSecond
  <2> QED BY <2>1, <2>2 DEF k
<1>5. SubSeq(s, 1, n) \o <<s[n + 1]>> = Append(SubSeq(s, 1, n), s[n + 1])
  BY <1>2, <1>3, AppendIsConcat
<1> QED BY <1>2, <1>3, <1>4, <1>5

\* What holds of the empty sequence, and of a sequence with one element more when
\* of the sequence, holds of every sequence.
LEMMA SequenceInduction ==
  ASSUME NEW S, P(<<>>), \A s \in Seq(S), e \in S : P(s) => P(Append(s, e))
  PROVE  \A s \in Seq(S) : P(s)
<1> SUFFICES ASSUME NEW s \in Seq(S) PROVE P(s) OBVIOUS
<1>1. Len(s) \in Nat BY LenProperties
<1> DEFINE Fails == {n \in 0..Len(s) : ~P(SubSeq(s, 1, n))}
<1>2. Fails = {}
  <2> SUFFICES ASSUME Fails # {} PROVE FALSE OBVIOUS
  <2>1. PICK m \in Fails : \A n \in Fails : m <= n
    <3>1. Fails \subseteq Nat BY <1>1
    <3> HIDE DEF Fails
    <3> QED BY <3>1, LeastNumber
  <2>2. m \in 0..Len(s) /\ ~P(SubSeq(s, 1, m)) BY <2>1
  <2>3. CASE m = 0
    <3>1. SubSeq(s, 1, 0) = <<>> BY SubSeqEmpty
    <3> QED BY <2>2, <2>3, <3>1
  <2>4. CASE m # 0
    <3> DEFINE n == m - 1
    <3>1. n \in Nat /\ n < Len(s) /\ n + 1 = m /\ n \in 0..Len(s) /\ ~(m <= n) BY <1>1, <2>2, <2>4
    <3>2. n \notin Fails
      <4> HIDE DEF Fails, n
      <4> QED BY <2>1, <3>1
    <3> HIDE DEF n
    <3>3. P(SubSeq(s, 1, n)) BY <3>1, <3>2
    <3>4. /\ SubSeq(s, 1, n) \in Seq(S) /\ s[n + 1] \in S
          /\ SubSeq(s, 1, n + 1) = Append(SubSeq(s, 1, n), s[n + 1])
      BY <3>1, OneMore
    <3>5. P(SubSeq(s, 1, n + 1)) BY <3>3, <3>4
    <3> QED BY <2>2, <3>1, <3>5
  <2> QED BY <2>3, <2>4
<1>3. P(SubSeq(s, 1, Len(s)))
  <2>1. Len(s) \in 0..Len(s) BY <1>1
  <2> QED BY <1>2, <2>1
<1>4. SubSeq(s, 1, Len(s)) = s BY SubSeqFull
<1> QED BY <1>3, <1>4

-----------------------------------------------------------------------------
(* Folds                                                                    *)

\* The function of the sets of indices that FoldLeft is defined by, on those
\* within 1..m.
IsIter(g, base, s, m) ==
  g = [I \in SUBSET (1..m) |->
         IF I = {} THEN base ELSE Op(g[I \ {Max(I)}], s[Max(I)])]

LEMMA MaxIs ==
  ASSUME NEW m \in Nat, NEW I \in SUBSET (1..m + 1), m + 1 \in I
  PROVE  Max(I) = m + 1
<1>1. \A y \in I : m + 1 >= y OBVIOUS
<1>2. \A x \in I : (\A y \in I : x >= y) => x = m + 1 OBVIOUS
<1> QED BY <1>1, <1>2 DEF Max

LEMMA IterEquations ==
  ASSUME NEW g, NEW base, NEW s, NEW m \in Nat, IsIter(g, base, s, m)
  PROVE  /\ g[{}] = base
         /\ \A I \in SUBSET (1..m) : I # {} => g[I] = Op(g[I \ {Max(I)}], s[Max(I)])
<1>1. \A I \in SUBSET (1..m) : g[I] = IF I = {} THEN base ELSE Op(g[I \ {Max(I)}], s[Max(I)])
  BY DEF IsIter
<1>2. {} \in SUBSET (1..m) OBVIOUS
<1> QED BY <1>1, <1>2

\* On the sets within 1..m it is the same for two sequences that begin alike.
LEMMA IterUnique ==
  ASSUME NEW g, NEW h, NEW base, NEW s, NEW t, NEW k \in Nat, NEW l \in Nat,
         IsIter(g, base, s, k), IsIter(h, base, t, l),
         NEW n \in Nat, n <= k, n <= l, \A i \in 1..n : s[i] = t[i]
  PROVE  \A I \in SUBSET (1..n) : g[I] = h[I]
<1> DEFINE Fails == {m \in 0..n : ~\A I \in SUBSET (1..m) : g[I] = h[I]}
<1>1. Fails = {}
  <2> SUFFICES ASSUME Fails # {} PROVE FALSE OBVIOUS
  <2>1. PICK m \in Fails : \A x \in Fails : m <= x
    <3>1. Fails \subseteq Nat OBVIOUS
    <3> HIDE DEF Fails
    <3> QED BY <3>1, LeastNumber
  <2>2. m \in 0..n BY <2>1
  <2>3. PICK I \in SUBSET (1..m) : g[I] # h[I] BY <2>1
  <2>4. I # {} /\ m # 0
    <3>1. g[{}] = h[{}] BY IterEquations
    <3>2. m = 0 => I = {} OBVIOUS
    <3> QED BY <2>3, <3>1, <3>2
  <2> DEFINE p == m - 1
  <2>5. p \in Nat /\ p + 1 = m /\ p \in 0..n /\ ~(m <= p) BY <2>2, <2>4
  <2>6. p \notin Fails
    <3> HIDE DEF Fails, p
    <3> QED BY <2>1, <2>5
  <2>7. \A J \in SUBSET (1..p) : g[J] = h[J] BY <2>5, <2>6
  <2> HIDE DEF p
  <2>8. m \in I
    <3> SUFFICES ASSUME m \notin I PROVE FALSE OBVIOUS
    <3>1. I \in SUBSET (1..p) BY <2>2, <2>5
    <3> QED BY <2>3, <2>7, <3>1
  <2>9. Max(I) = m BY <2>5, <2>8, MaxIs
  <2>10. I \ {m} \in SUBSET (1..p) BY <2>2, <2>5
  <2>11. I \in SUBSET (1..k) /\ I \in SUBSET (1..l) BY <2>2
  <2>12. g[I] = Op(g[I \ {m}], s[m]) /\ h[I] = Op(h[I \ {m}], t[m])
    <3>1. \A J \in SUBSET (1..k) : J # {} => g[J] = Op(g[J \ {Max(J)}], s[Max(J)])
      BY IterEquations
    <3>2. \A J \in SUBSET (1..l) : J # {} => h[J] = Op(h[J \ {Max(J)}], t[Max(J)])
      BY IterEquations
    <3> QED BY <2>4, <2>9, <2>11, <3>1, <3>2
  <2>13. g[I \ {m}] = h[I \ {m}] BY <2>7, <2>10
  <2>14. s[m] = t[m] BY <2>2, <2>4
  <2> QED BY <2>3, <2>12, <2>13, <2>14
<1>2. n \in 0..n OBVIOUS
<1> QED BY <1>1, <1>2

LEMMA IterExists ==
  ASSUME NEW base, NEW s, NEW n \in Nat
  PROVE  \E g : IsIter(g, base, s, n)
<1> DEFINE Fails == {m \in 0..n : ~\E g : IsIter(g, base, s, m)}
<1>1. Fails = {}
  <2> SUFFICES ASSUME Fails # {} PROVE FALSE OBVIOUS
  <2>1. PICK m \in Fails : \A x \in Fails : m <= x
    <3>1. Fails \subseteq Nat OBVIOUS
    <3> HIDE DEF Fails
    <3> QED BY <3>1, LeastNumber
  <2>2. m \in 0..n /\ ~\E g : IsIter(g, base, s, m) BY <2>1
  <2>3. CASE m = 0
    <3> DEFINE g == [I \in SUBSET (1..0) |-> base]
    <3>1. \A I \in SUBSET (1..0) : I = {} OBVIOUS
    <3>2. g = [I \in SUBSET (1..0) |-> IF I = {} THEN base ELSE Op(g[I \ {Max(I)}], s[Max(I)])]
      BY <3>1
    <3> HIDE DEF g
    <3>3. IsIter(g, base, s, 0) BY <3>2 DEF IsIter
    <3> QED BY <2>2, <2>3, <3>3
  <2>4. CASE m # 0
    <3> DEFINE p == m - 1
    <3>1. p \in Nat /\ p + 1 = m /\ p \in 0..n /\ ~(m <= p) BY <2>2, <2>4
    <3>2. p \notin Fails
      <4> HIDE DEF Fails, p
      <4> QED BY <2>1, <3>1
    <3>3. PICK g : IsIter(g, base, s, p) BY <3>1, <3>2
    <3> HIDE DEF p
    <3> DEFINE h == [I \in SUBSET (1..m) |-> IF m \in I THEN Op(g[I \ {m}], s[m]) ELSE g[I]]
               Next(I) == IF I = {} THEN base ELSE Op(h[I \ {Max(I)}], s[Max(I)])
    <3>4. \A I \in SUBSET (1..p) : I \in SUBSET (1..m) /\ m \notin I BY <2>2, <3>1
    <3>5. \A I \in SUBSET (1..p) : h[I] = g[I] BY <3>4
    <3>6. ASSUME NEW I \in SUBSET (1..m) PROVE h[I] = Next(I)
      <4>1. CASE m \in I
        <5>1. Max(I) = m BY <3>1, <4>1, MaxIs
        <5>2. I \ {m} \in SUBSET (1..p) BY <2>2, <3>1
        <5>3. h[I \ {m}] = g[I \ {m}]
          <6> HIDE DEF h
          <6> QED BY <3>5, <5>2
        <5>4. h[I] = Op(g[I \ {m}], s[m]) BY <4>1
        <5> HIDE DEF h
        <5> QED BY <4>1, <5>1, <5>3, <5>4
      <4>2. CASE m \notin I
        <5>1. I \in SUBSET (1..p) BY <2>2, <3>1, <4>2
        <5>2. h[I] = g[I] /\ h[I \ {Max(I)}] = g[I \ {Max(I)}]
          <6>1. I \ {Max(I)} \in SUBSET (1..p) BY <5>1
          <6> HIDE DEF h
          <6> QED BY <3>5, <5>1, <6>1
        <5> HIDE DEF h
        <5>3. g[{}] = base /\ \A J \in SUBSET (1..p) : J # {} => g[J] = Op(g[J \ {Max(J)}], s[Max(J)])
          BY <3>1, <3>3, IterEquations
        <5> QED BY <5>1, <5>2, <5>3
      <4> QED BY <4>1, <4>2
    <3>7. h = [I \in SUBSET (1..m) |-> h[I]] OBVIOUS
    <3>8. h = [I \in SUBSET (1..m) |-> Next(I)]
      <4> HIDE DEF h, Next
      <4> QED BY <3>6, <3>7
    <3> HIDE DEF h
    <3>9. IsIter(h, base, s, m) BY <3>8 DEF IsIter
    <3> QED BY <2>2, <3>9
  <2> QED BY <2>3, <2>4
<1>2. n \in 0..n OBVIOUS
<1> QED BY <1>1, <1>2

LEMMA FoldIsIter ==
  ASSUME NEW S, NEW base, NEW s \in Seq(S)
  PROVE  \E g : IsIter(g, base, s, Len(s)) /\ FoldLeft(Op, base, s) = g[1..Len(s)]
<1> DEFINE it == CHOOSE g : IsIter(g, base, s, Len(s))
<1>1. Len(s) \in Nat /\ DOMAIN s = 1..Len(s) BY LenProperties
<1>2. IsIter(it, base, s, Len(s)) BY <1>1, IterExists
<1>3. FoldLeft(Op, base, s) = it[1..Len(s)]
  <2>1. FoldLeft(Op, base, s) = it[DOMAIN s]
    BY <1>1 DEF FoldLeft, MapThenFoldSet, IsIter
  <2> QED BY <1>1, <2>1
<1> QED BY <1>2, <1>3

\* A fold takes the elements from the first to the last.
LEMMA FoldEquations ==
  ASSUME NEW base
  PROVE  /\ FoldLeft(Op, base, <<>>) = base
         /\ \A S : \A s \in Seq(S), e \in S :
              FoldLeft(Op, base, Append(s, e)) = Op(FoldLeft(Op, base, s), e)
<1>1. FoldLeft(Op, base, <<>>) = base
  <2> DEFINE t == <<>>
  <2>1. t \in Seq({}) /\ Len(t) = 0 BY EmptySeq
  <2> HIDE DEF t
  <2>5. \E g : IsIter(g, base, t, Len(t)) /\ FoldLeft(Op, base, t) = g[1..Len(t)]
    BY ONLY <2>1, FoldIsIter
  <2>2. PICK g : IsIter(g, base, t, 0) /\ FoldLeft(Op, base, t) = g[1..0]
    BY <2>1, <2>5
  <2>3. g[{}] = base BY <2>2, IterEquations
  <2>4. 1..0 = {} OBVIOUS
  <2> QED BY <2>2, <2>3, <2>4 DEF t
<1>2. ASSUME NEW S, NEW s \in Seq(S), NEW e \in S
      PROVE  FoldLeft(Op, base, Append(s, e)) = Op(FoldLeft(Op, base, s), e)
  <2> DEFINE n == Len(s)
             t == Append(s, e)
  <2>1. n \in Nat BY LenProperties
  <2>2. t \in Seq(S) /\ Len(t) = n + 1 /\ (\A i \in 1..n : s[i] = t[i]) /\ t[n + 1] = e
    BY AppendProperties
  <2>3. PICK g : IsIter(g, base, s, n) /\ FoldLeft(Op, base, s) = g[1..n] BY FoldIsIter
  <2> HIDE DEF t, n
  <2>4. PICK h : IsIter(h, base, t, n + 1) /\ FoldLeft(Op, base, t) = h[1..n + 1]
    <3>1. \E h : IsIter(h, base, t, Len(t)) /\ FoldLeft(Op, base, t) = h[1..Len(t)]
      BY <2>2, FoldIsIter
    <3> QED BY <2>2, <3>1
  <2>5. g[1..n] = h[1..n]
    <3>1. 1..n \in SUBSET (1..n) /\ n <= n /\ n <= n + 1 /\ n + 1 \in Nat BY <2>1
    <3>2. \A I \in SUBSET (1..n) : g[I] = h[I]
      BY <2>1, <2>2, <2>3, <2>4, <3>1, IterUnique
    <3> QED BY <3>1, <3>2
  <2>6. Max(1..n + 1) = n + 1
    <3>1. 1..n + 1 \in SUBSET (1..n + 1) /\ n + 1 \in 1..n + 1 BY <2>1
    <3> QED BY <2>1, <3>1, MaxIs
  <2>7. h[1..n + 1] = Op(h[1..n], t[n + 1])
    <3>1. 1..n + 1 # {} /\ (1..n + 1) \ {n + 1} = 1..n /\ n + 1 \in Nat
      <4>1. n + 1 \in 1..n + 1 BY <2>1
      <4>2. ASSUME NEW x \in (1..n + 1) \ {n + 1} PROVE x \in 1..n BY <2>1
      <4>3. ASSUME NEW x \in 1..n PROVE x \in (1..n + 1) \ {n + 1} BY <2>1
      <4>4. 1..n + 1 # {} BY ONLY <4>1
      <4>5. (1..n + 1) \ {n + 1} = 1..n BY ONLY <4>2, <4>3
      <4>6. n + 1 \in Nat BY <2>1
      <4> QED BY ONLY <4>4, <4>5, <4>6
    <3>2. 1..n + 1 \in SUBSET (1..n + 1) OBVIOUS
    <3> DEFINE N == 1..n + 1
    <3>3. \A J \in SUBSET N : J # {} => h[J] = Op(h[J \ {Max(J)}], t[Max(J)])
      BY <2>4, <3>1, IterEquations
    <3>4. N \in SUBSET N /\ N # {} /\ N \ {Max(N)} = 1..n /\ Max(N) = n + 1 BY <2>6, <3>1, <3>2
    <3> HIDE DEF N
    <3>5. h[N] = Op(h[N \ {Max(N)}], t[Max(N)]) BY <3>3, <3>4
    <3> QED BY <3>4, <3>5 DEF N
  <2>8. FoldLeft(Op, base, t) = Op(FoldLeft(Op, base, s), e) BY <2>2, <2>3, <2>4, <2>5, <2>7
  <2> QED BY <2>8 DEF t
<1> QED BY <1>1, <1>2
===============================================================================
