---------------------------- MODULE SingleFlight ----------------------------
(***************************************************************************)
(* What the docstrings of start_job and claim_running (webapp/db.py)       *)
(* promise of a slot: at any time at most one owner is working in it, the  *)
(* owner leaves once, and a restart of the process empties it.  Specified  *)
(* over the set of owners at work, with nothing of the row in it.          *)
(***************************************************************************)
CONSTANT Owners

VARIABLE flight

Init == flight = {}

Start == flight = {} /\ \E o \in Owners : flight' = {o}

End == \E o \in flight : flight' = flight \ {o}

Restart == flight' = {}

Next == Start \/ End \/ Restart

Spec == Init /\ [][Next]_flight
=============================================================================
