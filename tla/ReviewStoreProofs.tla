--------------------------- MODULE ReviewStoreProofs ---------------------------
(***************************************************************************)
(* Lemmas about the operators of ReviewStore, for the proofs of the        *)
(* modules that use it.                                                    *)
(***************************************************************************)
EXTENDS ReviewStore, TLAPS

\* Every UPDATE of the store leaves a well-formed row.
LEMMA StoreTypes ==
    ASSUME NEW r \in Row
    PROVE  /\ \A source \in {"manual", "auto"} : claim_running(r, source) \in Row
           /\ claim_auto_run(r) \in Row
           /\ mark_failed(r) \in Row
           /\ \A n \in Nat : /\ save_rca(r, n) \in Row
                             /\ set_auto_comment(r, n) \in Row
                             /\ mark_accepted(r, n) \in Row
                             /\ mark_rejected(r, n) \in Row
                             /\ save_fix(r, n) \in Row
           /\ clear_auto_comment(r) \in Row
           /\ mark_unclear(r) \in Row
           /\ \A t \in Texts \cup {NoText} : save_human_rca_draft(r, t) \in Row
           /\ clear_human_rca_draft(r) \in Row
           /\ clear_fix(r) \in Row
           /\ \A k \in JobKinds : start_job(r, k) \in Row
           /\ finish_job(r) \in Row
           /\ fail_job(r) \in Row
           /\ reset_row(r) \in Row
           /\ init_db(r) \in Row
<1> USE DEF Row, Statuses, DECIDED_STATUSES, JobKinds
<1>1. \A source \in {"manual", "auto"} : claim_running(r, source) \in Row
  BY DEF claim_running
<1>2. claim_auto_run(r) \in Row
  BY DEF claim_auto_run
<1>3. mark_failed(r) \in Row
  BY DEF mark_failed
<1>4. \A n \in Nat : save_rca(r, n) \in Row /\ set_auto_comment(r, n) \in Row
  BY DEF save_rca, set_auto_comment
<1>5. \A n \in Nat : mark_accepted(r, n) \in Row /\ mark_rejected(r, n) \in Row
  BY DEF mark_accepted, mark_rejected
<1>6. \A n \in Nat : save_fix(r, n) \in Row
  BY DEF save_fix
<1>7. clear_auto_comment(r) \in Row /\ mark_unclear(r) \in Row
  BY DEF clear_auto_comment, mark_unclear
<1>8. \A t \in Texts \cup {NoText} : save_human_rca_draft(r, t) \in Row
  BY DEF save_human_rca_draft
<1>9. clear_human_rca_draft(r) \in Row /\ clear_fix(r) \in Row
  BY DEF clear_human_rca_draft, clear_fix
<1>10. \A k \in JobKinds : start_job(r, k) \in Row
  BY DEF start_job
<1>11. finish_job(r) \in Row /\ fail_job(r) \in Row
  BY DEF finish_job, fail_job
<1>12. reset_row(r) \in Row
  BY DEF reset_row
<1>13. init_db(r) \in Row
  BY DEF init_db
<1> HIDE DEF Row, JobKinds
<1>14. QED
  BY <1>1, <1>2, <1>3, <1>4, <1>5, <1>6, <1>7, <1>8, <1>9, <1>10, <1>11, <1>12, <1>13

\* No UPDATE of the store clears auto_run_at, and claiming for the poller sets it.
LEMMA StoreKeepsStamp ==
    ASSUME NEW r \in Row
    PROVE  /\ claim_auto_run(r).auto_run_at
           /\ r.auto_run_at =>
                /\ \A source \in {"manual", "auto"} : claim_running(r, source).auto_run_at
                /\ mark_failed(r).auto_run_at
                /\ \A n \in Nat : save_rca(r, n).auto_run_at
                /\ reset_row(r).auto_run_at
                /\ init_db(r).auto_run_at
<1>1. claim_auto_run(r).auto_run_at
  BY DEF claim_auto_run, Row
<1>2. ASSUME r.auto_run_at
      PROVE  /\ \A source \in {"manual", "auto"} : claim_running(r, source).auto_run_at
             /\ mark_failed(r).auto_run_at
             /\ \A n \in Nat : save_rca(r, n).auto_run_at
             /\ reset_row(r).auto_run_at
             /\ init_db(r).auto_run_at
  BY <1>2 DEF claim_running, mark_failed, save_rca, reset_row, init_db, Row
<1>3. QED
  BY <1>1, <1>2
=============================================================================
