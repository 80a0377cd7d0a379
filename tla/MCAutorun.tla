------------------------------ MODULE MCAutorun ------------------------------
(***************************************************************************)
(* Values for the constants of Autorun, for TLC.  Tickers, panels and the  *)
(* tickets no rule singles out are interchangeable.                        *)
(***************************************************************************)
EXTENDS Autorun, TLC

Symmetry ==
    Permutations(Keys \ QaKeys) \cup Permutations(Tickers) \cup Permutations(Panels)

NoUpdate == {}

\* Switched on since the start, with the smallest caps that leave a choice.
SwitchedOn == [enabled |-> TRUE, enabled_at |-> 1, max_parallel |-> 1, daily_cap |-> 2]

OneADay == [SwitchedOn EXCEPT !.daily_cap = 1]

Update(fields, enabled, max_parallel) ==
    [fields |-> fields, enabled |-> enabled, max_parallel |-> max_parallel, daily_cap |-> 2]

\* The switch, and two numbers of slots that LIMITS refuses.
SwitchAndBadLimits ==
    {Update({"enabled"}, b, 1) : b \in BOOLEAN}
        \cup {Update({"max_parallel"}, FALSE, n) : n \in {0, 5}}
=============================================================================
