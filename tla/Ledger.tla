------------------------------- MODULE Ledger -------------------------------
(***************************************************************************)
(* The cost ledger: table agent_runs of webapp/db.py as the bag of its     *)
(* rows, the statistics of the Cost tab, and the row the import script     *)
(* makes of a Phoenix span (scripts/backfill_costs_from_phoenix.py).       *)
(*                                                                         *)
(* source_ref is the number of the imported span, 0 (NULL) in a live row.  *)
(* started_at is the number of the run the row describes: runs start at    *)
(* different instants.                                                     *)
(***************************************************************************)
EXTENDS Integers, FiniteSets, Bags, FiniteSetsExt

LOCAL NULL == -1        \* cost_usd

\* Mutant: a plain INSERT.
record_run_always(ledger, r) == ledger (+) SetToBag({r})

\* INSERT OR IGNORE under UNIQUE (source_ref), where NULLs are distinct.
record_run(ledger, r) ==
    IF r.source_ref # 0 /\ \E old \in BagToSet(ledger) : old.source_ref = r.source_ref
    THEN ledger
    ELSE ledger (+) SetToBag({r})

\* A span: [id, eval, fix_prompt, key, error, tokens, cost, model_cost].
\* Mutant: the prompt looked at before the trace it belongs to.
span_kind_by_prompt(s) ==
    IF s.fix_prompt THEN "fix" ELSE IF s.key THEN "rca"
    ELSE IF s.eval THEN "eval" ELSE "unattributed"

span_kind(s) ==
    IF s.eval THEN "eval" ELSE IF s.fix_prompt THEN "fix"
    ELSE IF s.key THEN "rca" ELSE "unattributed"

to_row(s) ==
    LET cost == IF s.cost # NULL THEN s.cost
                ELSE IF s.tokens # 0 THEN s.model_cost ELSE NULL
    IN  [kind |-> span_kind(s), trigger |-> "backfill",
         status |-> IF s.error THEN "failed" ELSE "ok",
         tokens |-> s.tokens, cost |-> cost,
         cost_source |-> IF cost = NULL THEN ""
                         ELSE IF s.cost # NULL THEN "phoenix" ELSE "estimated",
         ticket |-> s.key, started_at |-> s.id, source_ref |-> s.id]

-----------------------------------------------------------------------------
(* get_cost_stats *)

RowsOf(ledger, rows) == [r \in rows |-> ledger[r]]

agg(rows) ==
    LET Sum(Field(_)) == MapThenSumSet(LAMBDA r : rows[r] * Field(r), DOMAIN rows)
    IN  [runs |-> Sum(LAMBDA r : 1),
         cost |-> Sum(LAMBDA r : IF r.cost = NULL THEN 0 ELSE r.cost),
         tokens |-> Sum(LAMBDA r : r.tokens),
         no_cost |-> Sum(LAMBDA r : IF r.cost = NULL THEN 1 ELSE 0)]

\* The rows of the evaluation and the unattributed ones are no ticket's.
ticket_rows(ledger) == RowsOf(ledger, {r \in BagToSet(ledger) : r.kind \in {"rca", "fix"}})

\* All spend, the tickets' part of it, and failures; the groups by kind, trigger,
\* model and day are the same sums over the rows of one group.
get_cost_stats(ledger) ==
    [total |-> agg(ledger),
     tickets |-> agg(ticket_rows(ledger)),
     failed |-> agg(RowsOf(ledger, {r \in BagToSet(ledger) : r.status = "failed"}))]
=============================================================================
