------------------------------ MODULE MCReview ------------------------------
(***************************************************************************)
(* Values for the constants of Review, for TLC.  Clients, Workers and the  *)
(* typed texts are interchangeable, so their permutations are symmetries   *)
(* (used in the runs without liveness).                                    *)
(***************************************************************************)
EXTENDS Review, TLC

Symmetry == Permutations(Clients) \cup Permutations(Workers)
=============================================================================
