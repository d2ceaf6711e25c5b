----------------------------- MODULE Selections -----------------------------
(***************************************************************************)
(* The filter and the sort of the client's arrays.  The library's          *)
(* SelectSeq and SortSeq say the same, but the first has no definition the *)
(* provers may expand and the second none when two elements are equal.     *)
(***************************************************************************)
EXTENDS Integers, Sequences, FiniteSets

\* The members of a finite set, in a strict order that is total on it.
InOrder(I, Before(_, _)) ==
  [k \in 1..Cardinality(I) |-> CHOOSE i \in I : Cardinality({j \in I : Before(j, i)}) = k - 1]

\* The elements of a sequence at some of its positions.
AtPlaces(s, I) ==
  LET at == InOrder(I, LAMBDA j, i : j < i) IN [k \in DOMAIN at |-> s[at[k]]]
Where(s, Test(_)) == AtPlaces(s, {i \in DOMAIN s : Test(s[i])})

\* A stable sort: elements neither of which is less keep their order.
SortedBy(s, Less(_, _)) ==
  LET at == InOrder(DOMAIN s, LAMBDA j, i : Less(s[j], s[i]) \/ (~Less(s[i], s[j]) /\ j < i))
  IN [k \in DOMAIN at |-> s[at[k]]]
===============================================================================
