------------------------------- MODULE Sublists -------------------------------
(***************************************************************************)
(* Parts of a list by the places they are taken from.  Unlike SelectSeq    *)
(* and the folds, which have to be followed item by item, the places say   *)
(* at once what a part has and in which order.                             *)
(***************************************************************************)
EXTENDS Naturals, Sequences, FiniteSets

(* Which of the places I the place i is.                                   *)
Place(I, i) == Cardinality({j \in I : j <= i})

(* The items of list at the places I, in their order.                      *)
Pick(list, I) == [n \in 1..Cardinality(I) |-> list[CHOOSE i \in I : Place(I, i) = n]]

(* list without the items of S.                                            *)
Without(list, S) == Pick(list, {i \in DOMAIN list : list[i] \notin S})

(* The items of S, as many before each as are better: none of two alike.   *)
Ordered(S, better(_, _)) ==
  [n \in 1..Cardinality(S) |->
     CHOOSE x \in S : Cardinality({y \in S : better(y, x)}) = n - 1]

(* The first n, or all.                                                    *)
Take(list, n) == SubSeq(list, 1, IF Len(list) < n THEN Len(list) ELSE n)
===============================================================================
