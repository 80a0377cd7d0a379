----------------------------- MODULE ReviewStore -----------------------------
(***************************************************************************)
(* The review store (webapp/db.py): one SQLite row per ticket.  Every      *)
(* function of db.py opens a connection, runs one transaction and commits, *)
(* so each is one operator from the row before to the row after; a         *)
(* conditional UPDATE has a second operator that says when its WHERE       *)
(* clause selects the row (rowcount > 0).                                  *)
(*                                                                         *)
(* Verdicts and Jira comments are numbered from 1; 0 is SQL's NULL, and    *)
(* for comment_id also the empty string the local decisions write.  The    *)
(* columns no guard of the code reads (title, error, human_rca,            *)
(* review_note, job_result, turns_used, updated_at ...) are left out.      *)
(***************************************************************************)
EXTENDS Naturals

CONSTANT Texts                  \* the human RCAs a reviewer may type

NoText == "no text"             \* NULL / '' : no draft, nothing typed

ASSUME TextsAssumption == NoText \notin Texts

DECIDED_STATUSES == {"accepted", "rejected", "unclear"}

Statuses == {"pending", "running", "rca_ready", "failed"} \cup DECIDED_STATUSES

JobKinds == {"fix", "accept_post", "reject"}

Row == [status: Statuses,
        bot_rca: Nat,                           \* bot_rca_json: whose verdict
        bot_fix: Nat,                           \* bot_fix_json: built on which verdict
        trigger_source: {"none", "manual", "auto"},
        auto_run_at: BOOLEAN,                   \* stamped or NULL
        auto_comment_id: Nat,
        comment_id: Nat,
        human_rca_draft: Texts \cup {NoText},
        job_kind: JobKinds \cup {"none"},
        job_status: {"none", "running", "done", "failed"}]

\* The row _sync_issue inserts when it first sees the ticket.
FreshRow == [status |-> "pending", bot_rca |-> 0, bot_fix |-> 0,
             trigger_source |-> "none", auto_run_at |-> FALSE,
             auto_comment_id |-> 0, comment_id |-> 0,
             human_rca_draft |-> NoText, job_kind |-> "none", job_status |-> "none"]

-----------------------------------------------------------------------------
(* Investigations *)

claim_running_selects(r) == r.status # "running"

\* Mutant: forgets who started the run.
claim_running_keeping_trigger(r, source) == [r EXCEPT !.status = "running"]

claim_running(r, source) ==
    [r EXCEPT !.status = "running", !.trigger_source = source]

\* Mutant: the UPDATE without its conditions, trusting the row the tick read.
claim_auto_run_always_selects(r) == TRUE

claim_auto_run_selects(r) ==
    /\ r.status = "pending"
    /\ r.bot_rca = 0
    /\ ~ r.auto_run_at

claim_auto_run(r) ==
    [r EXCEPT !.status = "running", !.trigger_source = "auto", !.auto_run_at = TRUE]

save_rca(r, verdict) == [r EXCEPT !.bot_rca = verdict, !.status = "rca_ready"]

\* Mutants: the AUT-9864 clobber, and the guard without its second UPDATE.
mark_failed_always(r) == [r EXCEPT !.status = "failed"]
mark_failed_keeping_status(r) ==
    [r EXCEPT !.status = IF r.bot_rca = 0 THEN "failed" ELSE r.status]

mark_failed(r) ==
    [r EXCEPT !.status = IF r.bot_rca = 0 THEN "failed" ELSE "rca_ready"]

set_auto_comment(r, id) == [r EXCEPT !.auto_comment_id = id]

clear_auto_comment(r) == [r EXCEPT !.auto_comment_id = 0]

(* Decisions and drafts *)

mark_accepted(r, id) == [r EXCEPT !.status = "accepted", !.comment_id = id]

mark_rejected(r, id) == [r EXCEPT !.status = "rejected", !.comment_id = id]

mark_unclear(r) == [r EXCEPT !.status = "unclear"]

save_human_rca_draft(r, text) == [r EXCEPT !.human_rca_draft = text]

clear_human_rca_draft(r) == [r EXCEPT !.human_rca_draft = NoText]

(* Fix suggestions and background jobs *)

save_fix(r, fix) == [r EXCEPT !.bot_fix = fix]

clear_fix(r) == [r EXCEPT !.bot_fix = 0]

\* Mutant: the UPDATE without its job_status condition.
start_job_always_selects(r) == TRUE

start_job_selects(r) == r.job_status # "running"

start_job(r, kind) == [r EXCEPT !.job_kind = kind, !.job_status = "running"]

finish_job(r) == [r EXCEPT !.job_status = "done"]

fail_job(r) == [r EXCEPT !.job_status = "failed"]

(* The UPDATE of app.py's reset_rca, and the recovery init_db runs at every  *)
(* start of the process                                                      *)

\* Mutant: the reset forgets the automatic attempt too.
reset_row_unstamping(r) == [FreshRow EXCEPT !.human_rca_draft = r.human_rca_draft]

\* Mutant: the reset leaves the fix of the old verdict.
reset_row_keeping_fix(r) ==
    [r EXCEPT !.bot_rca = 0, !.status = "pending",
              !.job_kind = "none", !.job_status = "none", !.auto_comment_id = 0]

reset_row(r) ==
    [r EXCEPT !.bot_rca = 0, !.bot_fix = 0, !.status = "pending",
              !.job_kind = "none", !.job_status = "none", !.auto_comment_id = 0]

\* Mutants: a status of its own for an interrupted run; the jobs forgotten.
init_db_interrupted(r) ==
    [r EXCEPT !.status = IF r.status = "running" THEN "interrupted" ELSE r.status,
              !.job_status = IF r.job_status = "running" THEN "failed" ELSE r.job_status]
init_db_runs_only(r) == [r EXCEPT !.status = IF r.status = "running" THEN "failed" ELSE r.status]

init_db(r) ==
    [r EXCEPT !.status = IF r.status = "running" THEN "failed" ELSE r.status,
              !.job_status = IF r.job_status = "running" THEN "failed" ELSE r.job_status]
=============================================================================
