------------------------------- MODULE MCTriage -------------------------------
(***************************************************************************)
(* Values for the constants of Triage, for TLC: a ticket a day, the oldest *)
(* raised before the counter's go-live day.                  *)
(***************************************************************************)
EXTENDS Triage

CONSTANTS k1, k2, k3

DayByDay == k1 :> 3 @@ k2 :> 2 @@ k3 :> 1

AllTimeAndOneDay == {[from |-> 0, to |-> 0], [from |-> 2, to |-> 2]}

Symmetry == Permutations(Clients)
=============================================================================
