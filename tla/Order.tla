-------------------------------- MODULE Order --------------------------------
(***************************************************************************)
(* Sequences picked from others: the numbers of a set in their order, and  *)
(* the elements at these places.  What a loop that appends keeps, a filter *)
(* or a list without repetitions, is stated by the places it keeps.        *)
(***************************************************************************)
EXTENDS Naturals, FiniteSets, Functions

\* The place of i in the order of S.
Rank(S, i) == Cardinality({j \in S : j <= i})

\* The numbers of a finite set in their order.
Ascending(S) == [k \in 1 .. Cardinality(S) |-> CHOOSE i \in S : Rank(S, i) = k]

\* The elements of s at the places of S.
Picked(s, S) == [k \in 1 .. Cardinality(S) |-> s[Ascending(S)[k]]]

\* The elements of s, each where it is first.
Distinct(s) == Picked(s, {i \in DOMAIN s : \A j \in 1 .. i - 1 : s[j] # s[i]})
=============================================================================
