------------------------------- MODULE Meter -------------------------------
(***************************************************************************)
(* The token and cost meter of one agent run (usage.py, class RunUsage).   *)
(* The four token counters are added and replaced together, so one counter *)
(* stands for them; every API response is worth one token of it.  Turns    *)
(* and duration follow the same rules and no property reads them.          *)
(*                                                                         *)
(* A message of the SDK is [type |-> "assistant", id, model, usage] or     *)
(* [type |-> "result", usage, total, model, cost]: `usage` says whether it *)
(* has token counts, id 0 that it has no message_id; `model` is the one    *)
(* that did most of the output, NoModel without a model_usage.             *)
(***************************************************************************)
EXTENDS Integers

CONSTANTS
    Models,         \* the models a run may report
    PRICES          \* the price of a token, for the models the table knows

ASSUME MeterAssumption ==
    /\ DOMAIN PRICES \subseteq Models
    /\ \A m \in DOMAIN PRICES : PRICES[m] \in Nat

NoCost == -1        \* cost_usd is None

NoModel == "no model"

RunUsage == [model: Models \cup {NoModel}, tokens: Nat, cost: Nat \cup {NoCost},
             cost_source: {"", "sdk", "estimated"}, seen: SUBSET (Nat \ {0}),
             final: BOOLEAN]

NewUsage == [model |-> NoModel, tokens |-> 0, cost |-> NoCost, cost_source |-> "",
             seen |-> {}, final |-> FALSE]

estimate_cost(model, tokens) ==
    IF model \in DOMAIN PRICES THEN tokens * PRICES[model] ELSE NoCost

\* Mutant: every content block counted, not every response.
Counts_blocks(u, m) == m.usage

\* One response may arrive as several messages of one id: it counts once.
Counts(u, m) == m.usage /\ (m.id = 0 \/ m.id \notin u.seen)

observe_assistant(u, m) ==
    IF u.final THEN u
    ELSE [u EXCEPT !.model = m.model,
                   !.tokens = IF Counts(u, m) THEN u.tokens + 1 ELSE u.tokens,
                   !.seen = IF Counts(u, m) /\ m.id # 0 THEN u.seen \cup {m.id} ELSE u.seen]

\* The totals of the SDK replace the sum.
observe_result(u, m) ==
    [u EXCEPT !.model = IF m.model # NoModel THEN m.model ELSE u.model,
              !.tokens = IF m.usage THEN m.total ELSE u.tokens,
              !.cost = IF m.cost # NoCost THEN m.cost ELSE u.cost,
              !.cost_source = IF m.cost # NoCost THEN "sdk" ELSE u.cost_source,
              !.final = TRUE]

observe(u, m) == IF m.type = "assistant" THEN observe_assistant(u, m)
                                         ELSE observe_result(u, m)

\* What is left to fill in when the run is over.
finish(u) ==
    LET estimate == estimate_cost(u.model, u.tokens)
    IN  IF u.cost = NoCost /\ u.tokens # 0 /\ estimate # NoCost
        THEN [u EXCEPT !.cost = estimate, !.cost_source = "estimated"]
        ELSE u

observed(u) == u.cost_source # "" \/ u.tokens # 0
=============================================================================
