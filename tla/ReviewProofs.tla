---------------------------- MODULE ReviewProofs ----------------------------
(***************************************************************************)
(* What TLAPS proves of Review for every number of clients, workers,       *)
(* investigations and comments, every choice of requests and every way     *)
(* Jira may fail: of the runs, threads and jobs of a ticket first, then of *)
(* the comments on its issue.                                              *)
(***************************************************************************)
EXTENDS Review, ReviewStoreProofs, TLAPS

\* A thread that goes on to another call stays well typed.
LEMMA GoToType ==
    ASSUME TypeOK, NEW w \in Workers,
           NEW pc \in {"idle", "investigate", "read", "delete", "clear_auto", "post",
                       "work", "record", "mark", "clear_draft", "finish", "fail"},
           GoTo(w, pc)
    PROVE  thr' \in [Workers -> Thread]
BY DEF GoTo, TypeOK, Thread

\* The thread of a new investigation is well typed.
LEMMA SpawnRcaType ==
    ASSUME TypeOK, NEW w \in Workers, NEW source \in {"manual", "auto"}, SpawnRca(w, source)
    PROVE  thr' \in [Workers -> Thread] /\ runs' \in Nat
<1> DEFINE t == [NoThread EXCEPT !.kind = "rca", !.pc = "investigate", !.src = source,
                                !.rca = runs + 1]
<1>1. runs + 1 \in Nat
  BY DEF TypeOK
<1>2. t \in Thread
  BY <1>1 DEF NoThread, Thread, JobKinds
<1>3. thr' = [thr EXCEPT ![w] = t] /\ runs' = runs + 1
  BY DEF SpawnRca, Spawn
<1>4. QED
  BY <1>1, <1>2, <1>3 DEF TypeOK

\* A request that has passed its tests is well typed.
LEMMA BeginType ==
    ASSUME TypeOK, NEW c \in Clients, NEW op \in AllOps,
           NEW pc \in {"delete", "save_draft", "mark_accepted", "mark_rejected",
                       "mark_unclear", "update", "start_job", "push"},
           NEW cid \in Nat, NEW fix \in Nat, NEW text \in Texts \cup {NoText},
           Begin(c, op, pc, cid, fix, text)
    PROVE  TypeOK'
BY DEF Begin, TypeOK, Request

\* Whatever becomes of a post, the comments and the thread are well typed.
LEMMA PostType ==
    ASSUME TypeOK, NEW w \in Workers, NEW via \in {"auto", "accept", "human"},
           NEW verdict \in Nat, NEW text \in Texts \cup {NoText},
           NEW done \in {"record", "mark"}, NEW failed \in Thread,
           Post(w, via, verdict, text, done, failed)
    PROVE  /\ \A m \in jira' : m \in Comment
           /\ posts' \in Nat
           /\ thr' \in [Workers -> Thread]
<1>1. ASSUME AddComment(via, verdict, text)
      PROVE  (\A m \in jira' : m \in Comment) /\ posts' \in Nat
  BY <1>1 DEF AddComment, TypeOK, Comment
<1>2. ASSUME PostRefused
      PROVE  (\A m \in jira' : m \in Comment) /\ posts' \in Nat
  BY <1>2 DEF PostRefused, TypeOK
<1>3. thr' = [thr EXCEPT ![w] = failed] => thr' \in [Workers -> Thread]
  BY DEF TypeOK
<1>4. thr' = [thr EXCEPT ![w] = [@ EXCEPT !.pc = done, !.cid = posts + 1]]
        => thr' \in [Workers -> Thread]
  <2>1. thr[w] \in Thread /\ posts + 1 \in Nat
    BY DEF TypeOK
  <2>2. [thr[w] EXCEPT !.pc = done, !.cid = posts + 1] \in Thread
    BY <2>1 DEF Thread
  <2>3. QED
    BY <2>2 DEF TypeOK
<1>5. QED
  BY <1>1, <1>2, <1>3, <1>4 DEF Post

-----------------------------------------------------------------------------
(* Type correctness: one lemma for each kind of step *)

\* Type correctness of the tests of every handler.
LEMMA BeginsTypeOK ==
    ASSUME TypeOK, NEW c \in Clients, Request_begins(c)
    PROVE  TypeOK'
<1>1. /\ row.auto_comment_id \in Nat
      /\ row.bot_fix \in Nat
  BY DEF TypeOK, Row
<1>2. CASE suggest_fix(c)
  BY <1>2, BeginType DEF suggest_fix, AllOps
<1>3. CASE raise_mr(c)
  BY <1>1, <1>3, BeginType DEF raise_mr, AllOps
<1>4. CASE reset(c)
  BY <1>1, <1>4, BeginType DEF reset, AllOps
<1>5. CASE accept(c)
  BY <1>1, <1>5, BeginType DEF accept, AllOps
<1>6. CASE accept_and_post(c)
  BY <1>1, <1>6, BeginType DEF accept_and_post, AllOps
<1>7. CASE unclear(c)
  BY <1>7, BeginType DEF unclear, AllOps
<1>8. ASSUME NEW text \in Texts, save_human_rca(c, text) \/ reject(c, text)
      PROVE  TypeOK'
  BY <1>8, BeginType DEF save_human_rca, reject, AllOps
<1>9. ASSUME NEW text \in Texts \cup {NoText}, reject_local(c, text)
      PROVE  TypeOK'
  BY <1>1, <1>9, BeginType DEF reject_local, AfterWithdraw, AllOps
<1>10. QED
  BY <1>2, <1>3, <1>4, <1>5, <1>6, <1>7, <1>8, <1>9 DEF Request_begins

\* Type correctness of the calls of every handler.
LEMMA RequestTypeOK ==
    ASSUME TypeOK, NEW c \in Clients, RequestStep(c)
    PROVE  TypeOK'
<1>1. /\ row \in Row
      /\ req[c] \in Request
      /\ req[c].cid \in Nat
      /\ req[c].fix \in Nat
      /\ req[c].text \in Texts \cup {NoText}
  BY DEF TypeOK, Request
<1>2. Respond(c) => req' \in [Clients -> Request]
  BY DEF Respond, NoReq, TypeOK, Request
<1>3. ASSUME NEW pc \in {"clear_auto", "save_draft", "mark_rejected", "update"},
             Continue(c, pc)
      PROVE  req' \in [Clients -> Request]
  BY <1>3 DEF Continue, TypeOK, Request
<1>4. ASSUME NEW pc, NEW newRow \in Row, LastWrite(c, pc, newRow)
      PROVE  TypeOK'
  BY <1>2, <1>4 DEF LastWrite, TypeOK
<1>5. CASE ReqMarkAccepted(c)
  BY <1>1, <1>4, <1>5, StoreTypes DEF ReqMarkAccepted
<1>6. CASE ReqMarkRejected(c)
  BY <1>1, <1>4, <1>6, StoreTypes DEF ReqMarkRejected
<1>7. CASE ReqMarkUnclear(c)
  BY <1>1, <1>4, <1>7, StoreTypes DEF ReqMarkUnclear
<1>8. CASE ReqReset(c)
  BY <1>1, <1>4, <1>8, StoreTypes DEF ReqReset
<1>9. CASE ReqSaveDraft(c)
  <2>1. row' \in Row
    BY <1>1, <1>9, StoreTypes DEF ReqSaveDraft
  <2>2. req' \in [Clients -> Request]
    BY <1>2, <1>3, <1>9 DEF ReqSaveDraft
  <2>3. QED
    BY <1>9, <2>1, <2>2 DEF ReqSaveDraft, TypeOK
<1>10. CASE ReqDelete(c)
  <2>1. req' \in [Clients -> Request]
    BY <1>2, <1>3, <1>10 DEF ReqDelete
  <2>2. \A m \in jira' : m \in Comment
    BY <1>10 DEF ReqDelete, DeleteComment, TypeOK
  <2>3. QED
    BY <1>10, <2>1, <2>2 DEF ReqDelete, TypeOK
<1>11. CASE ReqClearAuto(c)
  <2>1. row' \in Row
    BY <1>1, <1>11, StoreTypes DEF ReqClearAuto
  <2>2. req' \in [Clients -> Request]
    BY <1>3, <1>11 DEF ReqClearAuto, AfterWithdraw
  <2>3. QED
    BY <1>11, <2>1, <2>2 DEF ReqClearAuto, TypeOK
<1>12. CASE ReqPush(c)
  <2>1. row' \in Row
    BY <1>1, <1>12, StoreTypes DEF ReqPush
  <2>2. QED
    BY <1>2, <1>12, <2>1 DEF ReqPush, TypeOK
<1>13. CASE ReqStartJob(c)
  <2>1. KindOf(req[c].op) \in JobKinds
    BY DEF KindOf, JobKinds
  <2>2. row' \in Row
    BY <1>1, <1>13, <2>1, StoreTypes DEF ReqStartJob
  <2>3. JobThread(KindOf(req[c].op), req[c].text) \in Thread
    BY <1>1, <2>1 DEF JobThread, NoThread, Thread, JobKinds
  <2>4. thr' \in [Workers -> Thread]
    BY <1>13, <2>3 DEF ReqStartJob, Spawn, TypeOK
  <2>5. QED
    BY <1>2, <1>13, <2>2, <2>4 DEF ReqStartJob, TypeOK
<1>14. QED
  BY <1>5, <1>6, <1>7, <1>8, <1>9, <1>10, <1>11, <1>12, <1>13 DEF RequestStep

\* Type correctness of the calls of every background thread.
LEMMA ThreadTypeOK ==
    ASSUME TypeOK, NEW w \in Workers, ThreadStep(w)
    PROVE  TypeOK'
<1>1. /\ row \in Row
      /\ row.bot_rca \in Nat
      /\ row.auto_comment_id \in Nat
      /\ thr[w] \in Thread
      /\ thr[w].rca \in Nat
      /\ thr[w].cid \in Nat
      /\ thr[w].text \in Texts \cup {NoText}
  BY DEF TypeOK, Thread, Row
<1>2. ThreadEnds(w) => thr' \in [Workers -> Thread]
  BY DEF ThreadEnds, NoThread, TypeOK, Thread
<1>3. [thr[w] EXCEPT !.pc = "fail"] \in Thread /\ NoThread \in Thread
  BY <1>1 DEF Thread, NoThread
<1>4. CASE RcaStep(w)
  <2>1. CASE RcaSaves(w)
    BY <1>1, <2>1, StoreTypes, GoToType DEF RcaSaves, TypeOK
  <2>2. CASE RcaFails(w)
    BY <1>1, <1>2, <2>2, StoreTypes DEF RcaFails, TypeOK
  <2>3. CASE RcaReadsTrigger(w)
    <3>1. thr' \in [Workers -> Thread]
      BY <1>2, <2>3, GoToType DEF RcaReadsTrigger
    <3>2. QED
      BY <2>3, <3>1 DEF RcaReadsTrigger, TypeOK
  <2>4. CASE RcaPosts(w)
    <3>1. (\A m \in jira' : m \in Comment) /\ posts' \in Nat /\ thr' \in [Workers -> Thread]
      BY <1>1, <1>3, <2>4, PostType DEF RcaPosts
    <3>2. QED
      BY <2>4, <3>1 DEF RcaPosts, TypeOK
  <2>5. CASE RcaRecords(w)
    BY <1>1, <1>2, <2>5, StoreTypes DEF RcaRecords, TypeOK
  <2>6. QED
    BY <1>4, <2>1, <2>2, <2>3, <2>4, <2>5 DEF RcaStep
<1>5. CASE RejectStep(w)
  <2>1. CASE RejectReads(w)
    <3>1. [thr[w] EXCEPT !.cid = row.auto_comment_id,
                         !.pc = IF row.auto_comment_id # 0 THEN "delete" ELSE "post"]
            \in Thread
      BY <1>1 DEF Thread
    <3>2. QED
      BY <2>1, <3>1 DEF RejectReads, TypeOK
  <2>2. CASE RejectDeletes(w)
    <3>1. thr' \in [Workers -> Thread]
      BY <2>2, GoToType DEF RejectDeletes
    <3>2. \A m \in jira' : m \in Comment
      BY <2>2 DEF RejectDeletes, DeleteComment, TypeOK
    <3>3. QED
      BY <2>2, <3>1, <3>2 DEF RejectDeletes, TypeOK
  <2>3. CASE RejectClears(w)
    BY <1>1, <2>3, StoreTypes, GoToType DEF RejectClears, TypeOK
  <2>4. CASE RejectPosts(w)
    <3>1. (\A m \in jira' : m \in Comment) /\ posts' \in Nat /\ thr' \in [Workers -> Thread]
      BY <1>1, <1>3, <2>4, PostType DEF RejectPosts
    <3>2. QED
      BY <2>4, <3>1 DEF RejectPosts, TypeOK
  <2>5. CASE RejectMarks(w)
    BY <1>1, <2>5, StoreTypes, GoToType DEF RejectMarks, TypeOK
  <2>6. CASE RejectClearsDraft(w)
    BY <1>1, <2>6, StoreTypes, GoToType DEF RejectClearsDraft, TypeOK
  <2>7. QED
    BY <1>5, <2>1, <2>2, <2>3, <2>4, <2>5, <2>6 DEF RejectStep
<1>6. CASE JobReadsVerdict(w)
  <2>1. [thr[w] EXCEPT !.rca = row.bot_rca,
                       !.pc = IF row.bot_rca = 0 THEN "fail"
                              ELSE IF thr[w].kind = "fix" THEN "work" ELSE "post"]
          \in Thread
    BY <1>1 DEF Thread
  <2>2. QED
    BY <1>6, <2>1 DEF JobReadsVerdict, TypeOK
<1>7. CASE AcceptPosts(w)
  <2>1. (\A m \in jira' : m \in Comment) /\ posts' \in Nat /\ thr' \in [Workers -> Thread]
    BY <1>1, <1>3, <1>7, PostType DEF AcceptPosts
  <2>2. QED
    BY <1>7, <2>1 DEF AcceptPosts, TypeOK
<1>8. CASE AcceptMarks(w)
  BY <1>1, <1>8, StoreTypes, GoToType DEF AcceptMarks, TypeOK
<1>9. CASE FixSaves(w)
  BY <1>1, <1>9, StoreTypes, GoToType DEF FixSaves, TypeOK
<1>10. CASE FixFails(w)
  BY <1>10, GoToType DEF FixFails, TypeOK
<1>11. CASE JobFinishes(w)
  BY <1>1, <1>2, <1>11, StoreTypes DEF JobFinishes, TypeOK
<1>12. CASE JobFails(w)
  BY <1>1, <1>2, <1>12, StoreTypes DEF JobFails, TypeOK
<1>13. QED
  BY <1>4, <1>5, <1>6, <1>7, <1>8, <1>9, <1>10, <1>11, <1>12 DEF ThreadStep

\* Every reachable state of the review service has well-typed rows, comments,
\* requests and threads.
THEOREM TypeCorrect == Spec => []TypeOK
<1>1. Init => TypeOK
  BY DEF Init, TypeOK, FreshRow, Row, Statuses, NoReq, Request, NoThread, Thread
<1>2. TypeOK /\ [Next]_vars => TypeOK'
  <2> SUFFICES ASSUME TypeOK, [Next]_vars
               PROVE  TypeOK'
    OBVIOUS
  <2>1. row \in Row
    BY DEF TypeOK
  <2>2. CASE run_rca
    BY <2>1, <2>2, StoreTypes, SpawnRcaType DEF run_rca, TypeOK
  <2>3. CASE auto_run
    BY <2>1, <2>3, StoreTypes, SpawnRcaType DEF auto_run, TypeOK
  <2>4. CASE reject_fix
    BY <2>1, <2>4, StoreTypes DEF reject_fix, TypeOK
  <2>5. CASE Restart
    <3>1. row' \in Row
      BY <2>1, <2>5, StoreTypes DEF Restart
    <3>2. req' \in [Clients -> Request] /\ thr' \in [Workers -> Thread]
      BY <2>5 DEF Restart, NoReq, Request, NoThread, Thread
    <3>3. QED
      BY <2>5, <3>1, <3>2 DEF Restart, TypeOK
  <2>6. CASE UNCHANGED vars
    BY <2>6 DEF vars, TypeOK
  <2>7. QED
    BY <2>2, <2>3, <2>4, <2>5, <2>6, BeginsTypeOK, RequestTypeOK, ThreadTypeOK DEF Next
<1>3. QED
  BY <1>1, <1>2, PTL DEF Spec

-----------------------------------------------------------------------------
(* Who moves: a thread's step changes its own slot and no request; a request *)
(* changes a thread's slot only to start a job in a free one.                *)

\* A step of a thread moves that thread only.
LEMMA ThreadMoves ==
    ASSUME TypeOK, NEW w \in Workers, ThreadStep(w)
    PROVE  /\ \A x \in Workers \ {w} : thr'[x] = thr[x]
           /\ UNCHANGED <<req, auto_runs>>
<1>1. CASE RcaStep(w)
  BY <1>1 DEF RcaStep, RcaSaves, RcaFails, RcaReadsTrigger, RcaPosts, RcaRecords, Post, GoTo,
      ThreadEnds, TypeOK
<1>2. CASE RejectStep(w)
  BY <1>2 DEF RejectStep, RejectReads, RejectDeletes, RejectClears, RejectPosts, RejectMarks,
      RejectClearsDraft, Post, GoTo, TypeOK
<1>3. CASE JobReadsVerdict(w) \/ AcceptPosts(w) \/ AcceptMarks(w)
  BY <1>3 DEF JobReadsVerdict, AcceptPosts, AcceptMarks, Post, GoTo, TypeOK
<1>4. CASE FixSaves(w) \/ FixFails(w) \/ JobFinishes(w) \/ JobFails(w)
  BY <1>4 DEF FixSaves, FixFails, JobFinishes, JobFails, GoTo, ThreadEnds, TypeOK
<1>5. QED
  BY <1>1, <1>2, <1>3, <1>4 DEF ThreadStep

\* A step of a request moves that request, and a thread only if it was free.
LEMMA RequestMoves ==
    ASSUME TypeOK, NEW c \in Clients, RequestStep(c)
    PROVE  /\ \A x \in Workers : thr'[x] = thr[x] \/ thr[x] = NoThread
           /\ \A d \in Clients \ {c} : req'[d] = req[d]
           /\ auto_runs' = auto_runs
<1>1. CASE ReqStartJob(c)
  BY <1>1 DEF ReqStartJob, Spawn, Respond, TypeOK
<1>2. CASE UNCHANGED thr /\ ~ ReqStartJob(c)
  BY <1>2 DEF RequestStep, LastWrite, ReqMarkAccepted, ReqMarkRejected, ReqMarkUnclear, ReqReset,
      ReqSaveDraft, ReqDelete, ReqClearAuto, ReqPush, Respond, Continue, TypeOK
<1>3. QED
  BY <1>1, <1>2 DEF RequestStep, LastWrite, ReqMarkAccepted, ReqMarkRejected, ReqMarkUnclear,
      ReqReset, ReqSaveDraft, ReqDelete, ReqClearAuto, ReqPush

\* The tests of a handler change nothing but the request.
LEMMA BeginMoves ==
    ASSUME TypeOK, NEW c \in Clients, Request_begins(c)
    PROVE  UNCHANGED <<row, jira, thr, runs, auto_runs, posts>>
BY DEF Request_begins, suggest_fix, raise_mr, reset, accept, accept_and_post, unclear,
       save_human_rca, reject, reject_local, Begin

-----------------------------------------------------------------------------
(* A row that shows "running" has its thread.  RunningHasThread is inductive *)
(* given the types: the claim that sets "running" starts the thread, and a   *)
(* thread that stops investigating writes another status in the same step.   *)

\* A step is harmless if it sets no run to "running" and ends no investigation.
LEMMA KeepsRunningHasThread ==
    ASSUME RunningHasThread,
           row'.status = "running" => row.status = "running",
           \A w \in Workers : Investigates(w) => Investigates(w)'
    PROVE  RunningHasThread'
BY DEF RunningHasThread

\* A request keeps RunningHasThread: none of them sets "running" or ends a thread.
LEMMA RequestKeepsRunning ==
    ASSUME TypeOK, RunningHasThread, NEW c \in Clients, RequestStep(c)
    PROVE  RunningHasThread'
<1>1. row \in Row
  BY DEF TypeOK
<1>2. \A w \in Workers : Investigates(w) => Investigates(w)'
  BY RequestMoves DEF Investigates, ThreadAt, NoThread
<1>3. row'.status = "running" => row.status = "running"
  <2>1. CASE ReqMarkAccepted(c) \/ ReqMarkRejected(c) \/ ReqMarkUnclear(c) \/ ReqReset(c)
    BY <1>1, <2>1 DEF ReqMarkAccepted, ReqMarkRejected, ReqMarkUnclear, ReqReset, LastWrite,
        mark_accepted, mark_rejected, mark_unclear, reset_row, Row
  <2>2. CASE ReqSaveDraft(c) \/ ReqClearAuto(c) \/ ReqPush(c)
    BY <1>1, <2>2 DEF ReqSaveDraft, ReqClearAuto, ReqPush, save_human_rca_draft,
        clear_auto_comment, save_fix, Row
  <2>3. CASE ReqDelete(c) \/ ReqStartJob(c)
    BY <1>1, <2>3 DEF ReqDelete, ReqStartJob, start_job, Row
  <2>4. QED
    BY <2>1, <2>2, <2>3 DEF RequestStep
<1>4. QED
  BY <1>2, <1>3, KeepsRunningHasThread

\* A thread keeps RunningHasThread: it stops investigating only by writing another status.
LEMMA ThreadKeepsRunning ==
    ASSUME TypeOK, RunningHasThread, NEW w \in Workers, ThreadStep(w)
    PROVE  RunningHasThread'
<1>1. row \in Row
  BY DEF TypeOK
<1>2. CASE RcaSaves(w)
  BY <1>1, <1>2 DEF RcaSaves, save_rca, RunningHasThread, Row
<1>3. CASE RcaFails(w)
  BY <1>1, <1>3 DEF RcaFails, mark_failed, RunningHasThread, Row
<1>4. CASE ~ (RcaSaves(w) \/ RcaFails(w))
  <2>1. ~ Investigates(w)
    BY <1>4 DEF ThreadStep, RcaStep, RejectStep, RcaReadsTrigger, RcaPosts, RcaRecords,
        RejectReads, RejectDeletes, RejectClears, RejectPosts, RejectMarks, RejectClearsDraft,
        JobReadsVerdict, AcceptPosts, AcceptMarks, FixSaves, FixFails, JobFinishes, JobFails,
        Investigates, ThreadAt
  <2>2. row'.status = "running" => row.status = "running"
    <3>1. CASE RcaStep(w)
      BY <1>1, <1>4, <3>1 DEF RcaStep, RcaReadsTrigger, RcaPosts, RcaRecords, set_auto_comment, Row
    <3>2. CASE RejectStep(w)
      BY <1>1, <3>2 DEF RejectStep, RejectReads, RejectDeletes, RejectClears, RejectPosts,
          RejectMarks, RejectClearsDraft, clear_auto_comment, mark_rejected,
          clear_human_rca_draft, Row
    <3>3. CASE JobReadsVerdict(w) \/ AcceptPosts(w) \/ AcceptMarks(w)
      BY <1>1, <3>3 DEF JobReadsVerdict, AcceptPosts, AcceptMarks, mark_accepted, Row
    <3>4. CASE FixSaves(w) \/ FixFails(w) \/ JobFinishes(w) \/ JobFails(w)
      BY <1>1, <3>4 DEF FixSaves, FixFails, JobFinishes, JobFails, save_fix, finish_job,
          fail_job, Row
    <3>5. QED
      BY <3>1, <3>2, <3>3, <3>4 DEF ThreadStep
  <2>3. \A x \in Workers : Investigates(x) => Investigates(x)'
    BY <2>1, ThreadMoves DEF Investigates, ThreadAt
  <2>4. QED
    BY <2>2, <2>3, KeepsRunningHasThread
<1>5. QED
  BY <1>2, <1>3, <1>4

\* No order of requests, launches, late threads, resets and restarts leaves a
\* ticket at "running" with no thread that will end it.
THEOREM RunningHasThreadAlways == Spec => []RunningHasThread
<1>1. Init => RunningHasThread
  BY DEF Init, RunningHasThread, FreshRow
<1>2. TypeOK /\ RunningHasThread /\ [Next]_vars => RunningHasThread'
  <2> SUFFICES ASSUME TypeOK, RunningHasThread, [Next]_vars
               PROVE  RunningHasThread'
    OBVIOUS
  <2>1. CASE run_rca \/ auto_run
    <3>1. PICK w \in Workers : SpawnRca(w, "manual") \/ SpawnRca(w, "auto")
      BY <2>1 DEF run_rca, auto_run
    <3>2. Investigates(w)'
      BY <3>1 DEF SpawnRca, Spawn, NoThread, Investigates, ThreadAt, TypeOK
    <3>3. QED
      BY <3>2 DEF RunningHasThread
  <2>2. CASE reject_fix
    BY <2>2 DEF reject_fix, clear_fix, RunningHasThread, Investigates, ThreadAt, TypeOK, Row
  <2>3. CASE Restart
    BY <2>3 DEF Restart, init_db, RunningHasThread, TypeOK, Row
  <2>4. CASE UNCHANGED vars
    BY <2>4 DEF vars, RunningHasThread, Investigates, ThreadAt
  <2>5. ASSUME NEW c \in Clients, Request_begins(c)
        PROVE  RunningHasThread'
    BY <2>5, BeginMoves DEF RunningHasThread, Investigates, ThreadAt
  <2>6. QED
    BY <2>1, <2>2, <2>3, <2>4, <2>5, RequestKeepsRunning, ThreadKeepsRunning DEF Next
<1>3. QED
  BY <1>1, <1>2, TypeCorrect, PTL DEF Spec

-----------------------------------------------------------------------------
(* The same for the job slot: only JobFinishes and JobFails end a job, and   *)
(* both write its outcome in the step that frees the thread.                 *)

\* A step is harmless if it sets no job to "running" and ends no job thread.
LEMMA KeepsJobRunningHasThread ==
    ASSUME JobRunningHasThread,
           row'.job_status = "running" => row.job_status = "running",
           \A w \in Workers : WorksOnJob(w) => WorksOnJob(w)'
    PROVE  JobRunningHasThread'
BY DEF JobRunningHasThread

\* A request keeps JobRunningHasThread: start_job starts the thread with the slot.
LEMMA RequestKeepsJobRunning ==
    ASSUME TypeOK, JobRunningHasThread, NEW c \in Clients, RequestStep(c)
    PROVE  JobRunningHasThread'
<1>1. row \in Row
  BY DEF TypeOK
<1>2. \A w \in Workers : WorksOnJob(w) => WorksOnJob(w)'
  BY RequestMoves DEF WorksOnJob, NoThread, JobKinds
<1>3. CASE ReqStartJob(c) /\ start_job_selects(row)
  <2>1. PICK w \in Workers : Spawn(w, JobThread(KindOf(req[c].op), req[c].text))
    BY <1>3 DEF ReqStartJob
  <2>2. WorksOnJob(w)'
    BY <2>1 DEF Spawn, JobThread, KindOf, NoThread, WorksOnJob, JobKinds, TypeOK
  <2>3. QED
    BY <2>2 DEF JobRunningHasThread
<1>4. CASE ~ (ReqStartJob(c) /\ start_job_selects(row))
  <2>1. row'.job_status = "running" => row.job_status = "running"
    <3>1. CASE ReqMarkAccepted(c) \/ ReqMarkRejected(c) \/ ReqMarkUnclear(c) \/ ReqReset(c)
      BY <1>1, <3>1 DEF ReqMarkAccepted, ReqMarkRejected, ReqMarkUnclear, ReqReset, LastWrite,
          mark_accepted, mark_rejected, mark_unclear, reset_row, Row
    <3>2. CASE ReqSaveDraft(c) \/ ReqClearAuto(c) \/ ReqPush(c)
      BY <1>1, <3>2 DEF ReqSaveDraft, ReqClearAuto, ReqPush, save_human_rca_draft,
          clear_auto_comment, save_fix, Row
    <3>3. CASE ReqDelete(c) \/ (ReqStartJob(c) /\ ~ start_job_selects(row))
      BY <3>3 DEF ReqDelete, ReqStartJob
    <3>4. QED
      BY <1>4, <3>1, <3>2, <3>3 DEF RequestStep
  <2>2. QED
    BY <1>2, <2>1, KeepsJobRunningHasThread
<1>5. QED
  BY <1>3, <1>4

\* A thread working on a job stays one until it has written the outcome.
LEMMA JobStepKeepsKind ==
    ASSUME TypeOK, NEW w \in Workers, ThreadStep(w), thr[w].kind \in JobKinds,
           ~ (JobFinishes(w) \/ JobFails(w))
    PROVE  thr'[w].kind = thr[w].kind
<1>1. thr[w] \in Thread
  BY DEF TypeOK
<1>2. ~ RcaStep(w)
  BY DEF RcaStep, RcaSaves, RcaFails, RcaReadsTrigger, RcaPosts, RcaRecords, ThreadAt, JobKinds
<1>3. ASSUME NEW pc, GoTo(w, pc)
      PROVE  thr'[w].kind = thr[w].kind
  BY <1>1, <1>3 DEF GoTo, TypeOK, Thread
<1>4. ASSUME NEW via, NEW verdict, NEW text, NEW done,
             Post(w, via, verdict, text, done, [thr[w] EXCEPT !.pc = "fail"])
      PROVE  thr'[w].kind = thr[w].kind
  <2>1. [thr[w] EXCEPT !.pc = "fail"].kind = thr[w].kind
    BY <1>1 DEF Thread
  <2>2. [thr[w] EXCEPT !.pc = done, !.cid = posts + 1].kind = thr[w].kind
    BY <1>1 DEF Thread
  <2>3. QED
    BY <1>4, <2>1, <2>2 DEF Post, TypeOK
<1>5. CASE RejectReads(w) \/ JobReadsVerdict(w)
  <2>1. \A n, pc : /\ [thr[w] EXCEPT !.cid = n, !.pc = pc].kind = thr[w].kind
                   /\ [thr[w] EXCEPT !.rca = n, !.pc = pc].kind = thr[w].kind
    BY <1>1 DEF Thread
  <2>2. CASE RejectReads(w)
    BY <2>1, <2>2 DEF RejectReads, TypeOK
  <2>3. CASE JobReadsVerdict(w)
    BY <2>1, <2>3 DEF JobReadsVerdict, TypeOK
  <2>4. QED
    BY <1>5, <2>2, <2>3
<1>6. CASE RejectDeletes(w) \/ RejectClears(w) \/ RejectMarks(w) \/ RejectClearsDraft(w)
           \/ AcceptMarks(w) \/ FixSaves(w) \/ FixFails(w)
  BY <1>3, <1>6 DEF RejectDeletes, RejectClears, RejectMarks, RejectClearsDraft, AcceptMarks,
      FixSaves, FixFails
<1>7. CASE RejectPosts(w) \/ AcceptPosts(w)
  BY <1>4, <1>7 DEF RejectPosts, AcceptPosts
<1>8. QED
  BY <1>2, <1>5, <1>6, <1>7 DEF ThreadStep, RejectStep

\* A thread keeps JobRunningHasThread: it leaves a job only through its outcome.
LEMMA ThreadKeepsJobRunning ==
    ASSUME TypeOK, JobRunningHasThread, NEW w \in Workers, ThreadStep(w)
    PROVE  JobRunningHasThread'
<1>1. row \in Row
  BY DEF TypeOK
<1>2. CASE JobFinishes(w) \/ JobFails(w)
  BY <1>1, <1>2 DEF JobFinishes, JobFails, finish_job, fail_job, JobRunningHasThread, Row
<1>3. CASE ~ (JobFinishes(w) \/ JobFails(w))
  <2>1. row'.job_status = row.job_status
    <3>1. CASE RcaStep(w)
      BY <1>1, <3>1 DEF RcaStep, RcaSaves, RcaFails, RcaReadsTrigger, RcaPosts, RcaRecords,
          save_rca, mark_failed, set_auto_comment, Row
    <3>2. CASE RejectStep(w)
      BY <1>1, <3>2 DEF RejectStep, RejectReads, RejectDeletes, RejectClears, RejectPosts,
          RejectMarks, RejectClearsDraft, clear_auto_comment, mark_rejected,
          clear_human_rca_draft, Row
    <3>3. CASE JobReadsVerdict(w) \/ AcceptPosts(w) \/ AcceptMarks(w) \/ FixSaves(w) \/ FixFails(w)
      BY <1>1, <3>3 DEF JobReadsVerdict, AcceptPosts, AcceptMarks, FixSaves, FixFails,
          mark_accepted, save_fix, Row
    <3>4. QED
      BY <1>3, <3>1, <3>2, <3>3 DEF ThreadStep
  <2>2. WorksOnJob(w) => WorksOnJob(w)'
    BY <1>3, JobStepKeepsKind DEF WorksOnJob
  <2>3. \A x \in Workers : WorksOnJob(x) => WorksOnJob(x)'
    BY <2>2, ThreadMoves DEF WorksOnJob
  <2>4. QED
    BY <2>1, <2>3, KeepsJobRunningHasThread
<1>4. QED
  BY <1>2, <1>3

\* No interleaving leaves the job slot at "running" with no thread that will
\* write its outcome, which would refuse every later fix and post.
THEOREM JobRunningHasThreadAlways == Spec => []JobRunningHasThread
<1>1. Init => JobRunningHasThread
  BY DEF Init, JobRunningHasThread, FreshRow
<1>2. TypeOK /\ JobRunningHasThread /\ [Next]_vars => JobRunningHasThread'
  <2> SUFFICES ASSUME TypeOK, JobRunningHasThread, [Next]_vars
               PROVE  JobRunningHasThread'
    OBVIOUS
  <2>1. CASE run_rca \/ auto_run
    <3>1. row'.job_status = row.job_status
      BY <2>1 DEF run_rca, auto_run, claim_running, claim_auto_run, TypeOK, Row
    <3>2. \A w \in Workers : WorksOnJob(w) => WorksOnJob(w)'
      BY <2>1 DEF run_rca, auto_run, SpawnRca, Spawn, NoThread, WorksOnJob, JobKinds, TypeOK
    <3>3. QED
      BY <3>1, <3>2, KeepsJobRunningHasThread
  <2>2. CASE reject_fix
    BY <2>2 DEF reject_fix, clear_fix, JobRunningHasThread, WorksOnJob, TypeOK, Row
  <2>3. CASE Restart
    BY <2>3 DEF Restart, init_db, JobRunningHasThread, TypeOK, Row
  <2>4. CASE UNCHANGED vars
    BY <2>4 DEF vars, JobRunningHasThread, WorksOnJob
  <2>5. ASSUME NEW c \in Clients, Request_begins(c)
        PROVE  JobRunningHasThread'
    BY <2>5, BeginMoves DEF JobRunningHasThread, WorksOnJob
  <2>6. QED
    BY <2>1, <2>2, <2>3, <2>4, <2>5, RequestKeepsJobRunning, ThreadKeepsJobRunning DEF Next
<1>3. QED
  BY <1>1, <1>2, TypeCorrect, PTL DEF Spec

-----------------------------------------------------------------------------
(* One automatic run per ticket.  AutoRunOnce alone is not inductive: that   *)
(* a run was started must be remembered in auto_run_at, which no UPDATE of   *)
(* the store clears.                                                         *)

AutoInv == auto_runs = 0 \/ (auto_runs = 1 /\ row.auto_run_at)

\* No step of the service clears auto_run_at.
LEMMA StampKept ==
    ASSUME TypeOK, row.auto_run_at, [Next]_vars
    PROVE  row'.auto_run_at
<1>1. row \in Row
  BY DEF TypeOK
<1>2. CASE run_rca \/ auto_run \/ reject_fix \/ Restart \/ UNCHANGED vars
  BY <1>1, <1>2 DEF run_rca, auto_run, reject_fix, Restart, vars, claim_running, claim_auto_run,
      clear_fix, init_db, Row
<1>3. ASSUME NEW c \in Clients, RequestStep(c)
      PROVE  row'.auto_run_at
  <2>1. CASE ReqMarkAccepted(c) \/ ReqMarkRejected(c) \/ ReqMarkUnclear(c) \/ ReqReset(c)
    BY <1>1, <2>1 DEF ReqMarkAccepted, ReqMarkRejected, ReqMarkUnclear, ReqReset, LastWrite,
        mark_accepted, mark_rejected, mark_unclear, reset_row, Row
  <2>2. CASE ReqSaveDraft(c) \/ ReqClearAuto(c) \/ ReqPush(c) \/ ReqDelete(c) \/ ReqStartJob(c)
    BY <1>1, <2>2 DEF ReqSaveDraft, ReqClearAuto, ReqPush, ReqDelete, ReqStartJob,
        save_human_rca_draft, clear_auto_comment, save_fix, start_job, Row
  <2>3. QED
    BY <1>3, <2>1, <2>2 DEF RequestStep
<1>4. ASSUME NEW w \in Workers, ThreadStep(w)
      PROVE  row'.auto_run_at
  <2>1. CASE RcaStep(w)
    BY <1>1, <2>1 DEF RcaStep, RcaSaves, RcaFails, RcaReadsTrigger, RcaPosts, RcaRecords,
        save_rca, mark_failed, set_auto_comment, Row
  <2>2. CASE RejectStep(w)
    BY <1>1, <2>2 DEF RejectStep, RejectReads, RejectDeletes, RejectClears, RejectPosts,
        RejectMarks, RejectClearsDraft, clear_auto_comment, mark_rejected,
        clear_human_rca_draft, Row
  <2>3. CASE JobReadsVerdict(w) \/ AcceptPosts(w) \/ AcceptMarks(w)
    BY <1>1, <2>3 DEF JobReadsVerdict, AcceptPosts, AcceptMarks, mark_accepted, Row
  <2>4. CASE FixSaves(w) \/ FixFails(w) \/ JobFinishes(w) \/ JobFails(w)
    BY <1>1, <2>4 DEF FixSaves, FixFails, JobFinishes, JobFails, save_fix, finish_job,
        fail_job, Row
  <2>5. QED
    BY <1>4, <2>1, <2>2, <2>3, <2>4 DEF ThreadStep
<1>5. ASSUME NEW c \in Clients, Request_begins(c)
      PROVE  row'.auto_run_at
  BY <1>5, BeginMoves
<1>6. QED
  BY <1>2, <1>3, <1>4, <1>5 DEF Next

\* The poller starts at most one investigation of a ticket, through resets,
\* re-runs and restarts.
THEOREM AutoRunOnceAlways == Spec => []AutoRunOnce
<1>1. Init => AutoInv
  BY DEF Init, AutoInv
<1>2. TypeOK /\ AutoInv /\ [Next]_vars => AutoInv'
  <2> SUFFICES ASSUME TypeOK, AutoInv, [Next]_vars
               PROVE  AutoInv'
    OBVIOUS
  <2>1. CASE auto_run
    BY <2>1 DEF auto_run, claim_auto_run_selects, claim_auto_run, AutoInv, TypeOK, Row
  <2>2. CASE auto_runs' = auto_runs
    BY <2>2, StampKept DEF AutoInv
  <2>3. CASE run_rca \/ reject_fix \/ Restart \/ UNCHANGED vars
    BY <2>2, <2>3 DEF run_rca, reject_fix, Restart, vars
  <2>4. QED
    BY <2>1, <2>2, <2>3, BeginMoves, RequestMoves, ThreadMoves DEF Next
<1>3. AutoInv => AutoRunOnce
  BY DEF AutoInv, AutoRunOnce
<1>4. QED
  BY <1>1, <1>2, <1>3, TypeCorrect, PTL DEF Spec
-----------------------------------------------------------------------------
(* A failing run and the verdict of the ticket.                              *)

\* No step of the service but the recovery at start-up marks a ticket failed
\* while it holds a verdict, whoever stored the verdict and when.
THEOREM FailureKeepsVerdictAlways == Spec => FailureKeepsVerdict
<1> DEFINE Kept == row.status # "failed" /\ row'.status = "failed" /\ row'.bot_rca # 0 => Restart
<1>1. TypeOK /\ [Next]_vars => [Kept]_vars
  <2> SUFFICES ASSUME TypeOK, [Next]_vars, ~ Restart,
                      row.status # "failed", row'.status = "failed"
               PROVE  row'.bot_rca = 0
    OBVIOUS
  <2>1. row \in Row
    BY DEF TypeOK
  <2>2. ~ (run_rca \/ auto_run \/ reject_fix \/ UNCHANGED vars)
    BY <2>1 DEF run_rca, auto_run, reject_fix, vars, claim_running, claim_auto_run, clear_fix,
        Row
  <2>3. ASSUME NEW c \in Clients
        PROVE  ~ Request_begins(c) /\ ~ RequestStep(c)
    <3>1. ~ Request_begins(c)
      BY BeginMoves
    <3>2. ~ (ReqMarkAccepted(c) \/ ReqMarkRejected(c) \/ ReqMarkUnclear(c) \/ ReqReset(c))
      BY <2>1 DEF ReqMarkAccepted, ReqMarkRejected, ReqMarkUnclear, ReqReset, LastWrite,
          mark_accepted, mark_rejected, mark_unclear, reset_row, Row
    <3>3. ~ (ReqSaveDraft(c) \/ ReqClearAuto(c) \/ ReqPush(c) \/ ReqDelete(c) \/ ReqStartJob(c))
      BY <2>1 DEF ReqSaveDraft, ReqClearAuto, ReqPush, ReqDelete, ReqStartJob,
          save_human_rca_draft, clear_auto_comment, save_fix, start_job, Row
    <3>4. QED
      BY <3>1, <3>2, <3>3 DEF RequestStep
  <2>4. PICK w \in Workers : ThreadStep(w)
    BY <2>2, <2>3 DEF Next
  <2>5. ~ RejectStep(w)
    BY <2>1 DEF RejectStep, RejectReads, RejectDeletes, RejectClears, RejectPosts, RejectMarks,
        RejectClearsDraft, clear_auto_comment, mark_rejected, clear_human_rca_draft, Row
  <2>6. ~ (JobReadsVerdict(w) \/ AcceptPosts(w) \/ AcceptMarks(w))
    BY <2>1 DEF JobReadsVerdict, AcceptPosts, AcceptMarks, mark_accepted, Row
  <2>7. ~ (FixSaves(w) \/ FixFails(w) \/ JobFinishes(w) \/ JobFails(w))
    BY <2>1 DEF FixSaves, FixFails, JobFinishes, JobFails, save_fix, finish_job, fail_job, Row
  <2>8. ~ (RcaSaves(w) \/ RcaReadsTrigger(w) \/ RcaPosts(w) \/ RcaRecords(w))
    BY <2>1 DEF RcaSaves, RcaReadsTrigger, RcaPosts, RcaRecords, save_rca, set_auto_comment, Row
  <2>9. RcaFails(w)
    BY <2>4, <2>5, <2>6, <2>7, <2>8 DEF ThreadStep, RcaStep
  <2>10. QED
    BY <2>1, <2>9 DEF RcaFails, mark_failed, Row
<1>2. QED
  BY <1>1, TypeCorrect, PTL DEF Spec, FailureKeepsVerdict

-----------------------------------------------------------------------------
(* Where nobody resets.  A reset writes "pending" and frees the job slot     *)
(* while the old threads are alive; without one, what a claim has written    *)
(* stays written until the claimed thread ends.                              *)

\* The environment has no Reset request: the hypothesis of what follows.
NoResets == "reset" \notin Ops

\* Where no reset may begin, no request writes one.
NoResetPending == \A c \in Clients : req[c].op # "reset" /\ ~ At(c, "update")

LEMMA NoResetsMade ==
    ASSUME NoResets
    PROVE  Spec => []NoResetPending
<1>1. Init => NoResetPending
  BY DEF Init, NoResetPending, NoReq, At
<1>2. TypeOK /\ NoResetPending /\ [Next]_vars => NoResetPending'
  <2> SUFFICES ASSUME TypeOK, NoResetPending, [Next]_vars, NEW c \in Clients
               PROVE  req'[c].op # "reset" /\ req'[c].pc # "update"
    BY DEF NoResetPending, At
  <2>1. req \in [Clients -> Request] /\ req[c].op # "reset" /\ req[c].pc # "update"
    BY DEF TypeOK, NoResetPending, At
  <2>2. NoReq.op # "reset" /\ NoReq.pc # "update"
    BY DEF NoReq
  <2>3. CASE Request_begins(c)
    BY <2>1, <2>3 DEF NoResets, Request_begins, suggest_fix, raise_mr, reset, accept,
        accept_and_post, unclear, save_human_rca, reject, reject_local, AfterWithdraw, Begin
  <2>4. CASE RequestStep(c)
    <3>1. ASSUME Respond(c)
          PROVE  req'[c].op # "reset" /\ req'[c].pc # "update"
      BY <2>1, <2>2, <3>1 DEF Respond
    <3>2. ASSUME NEW pc \in {"clear_auto", "save_draft", "mark_rejected"}, Continue(c, pc)
          PROVE  req'[c].op # "reset" /\ req'[c].pc # "update"
      BY <2>1, <3>2 DEF Continue, Request
    <3>3. CASE ReqSaveDraft(c) \/ ReqClearAuto(c) \/ ReqDelete(c)
      BY <2>1, <3>1, <3>2, <3>3 DEF ReqSaveDraft, ReqClearAuto, ReqDelete, AfterWithdraw
    <3>4. CASE ReqPush(c) \/ ReqStartJob(c)
      BY <3>1, <3>4 DEF ReqPush, ReqStartJob
    <3>5. QED
      BY <2>4, <3>1, <3>3, <3>4 DEF RequestStep, LastWrite, ReqMarkAccepted, ReqMarkRejected,
          ReqMarkUnclear, ReqReset
  <2>5. ASSUME NEW d \in Clients \ {c}, Request_begins(d) \/ RequestStep(d)
        PROVE  req'[c] = req[c]
    <3>1. CASE RequestStep(d)
      BY <3>1, RequestMoves
    <3>2. CASE Request_begins(d)
      BY <2>1, <3>2 DEF Request_begins, suggest_fix, raise_mr, reset, accept, accept_and_post,
          unclear, save_human_rca, reject, reject_local, Begin
    <3>3. QED
      BY <2>5, <3>1, <3>2
  <2>6. CASE \E w \in Workers : ThreadStep(w)
    BY <2>1, <2>6, ThreadMoves
  <2>7. CASE run_rca \/ auto_run \/ reject_fix \/ Restart \/ UNCHANGED vars
    BY <2>1, <2>2, <2>7 DEF run_rca, auto_run, reject_fix, Restart, vars
  <2>8. QED
    BY <2>1, <2>3, <2>4, <2>5, <2>6, <2>7 DEF Next
<1>3. QED
  BY <1>1, <1>2, TypeCorrect, PTL DEF Spec

-----------------------------------------------------------------------------
(* Who posts unreviewed.  While a manual run has not read its trigger, the   *)
(* row says "manual" and is not pending, so the poller cannot claim it and   *)
(* write "auto" under the run; only a reset makes it pending again.          *)

\* The thread is a manual run that has yet to read who started the last run.
ManualBefore(w) ==
    thr[w].kind = "rca" /\ thr[w].src = "manual" /\ thr[w].pc \in {"investigate", "read"}

ManualInv ==
    /\ \A w \in Workers :
          ManualBefore(w) => row.trigger_source = "manual" /\ row.status # "pending"
    /\ ManualRunsNeverPost

\* Only a claim writes the trigger, and without resets nothing writes "pending".
LEMMA TriggerMoves ==
    ASSUME TypeOK, NoResetPending, [Next]_vars, ~ run_rca, ~ auto_run
    PROVE  /\ row'.trigger_source = row.trigger_source
           /\ row'.status = "pending" => row.status = "pending"
<1>1. row \in Row
  BY DEF TypeOK
<1>2. CASE reject_fix \/ Restart \/ UNCHANGED vars
  BY <1>1, <1>2 DEF reject_fix, Restart, vars, clear_fix, init_db, Row
<1>3. ASSUME NEW c \in Clients, RequestStep(c)
      PROVE  /\ row'.trigger_source = row.trigger_source
             /\ row'.status = "pending" => row.status = "pending"
  <2>1. ~ ReqReset(c)
    BY DEF NoResetPending, ReqReset, LastWrite
  <2>2. CASE ReqMarkAccepted(c) \/ ReqMarkRejected(c) \/ ReqMarkUnclear(c)
    BY <1>1, <2>2 DEF ReqMarkAccepted, ReqMarkRejected, ReqMarkUnclear, LastWrite,
        mark_accepted, mark_rejected, mark_unclear, Row
  <2>3. CASE ReqSaveDraft(c) \/ ReqClearAuto(c) \/ ReqPush(c) \/ ReqDelete(c) \/ ReqStartJob(c)
    BY <1>1, <2>3 DEF ReqSaveDraft, ReqClearAuto, ReqPush, ReqDelete, ReqStartJob,
        save_human_rca_draft, clear_auto_comment, save_fix, start_job, Row
  <2>4. QED
    BY <1>3, <2>1, <2>2, <2>3 DEF RequestStep
<1>4. ASSUME NEW w \in Workers, ThreadStep(w)
      PROVE  /\ row'.trigger_source = row.trigger_source
             /\ row'.status = "pending" => row.status = "pending"
  <2>1. CASE RcaStep(w)
    BY <1>1, <2>1 DEF RcaStep, RcaSaves, RcaFails, RcaReadsTrigger, RcaPosts, RcaRecords,
        save_rca, mark_failed, set_auto_comment, Row
  <2>2. CASE RejectStep(w)
    BY <1>1, <2>2 DEF RejectStep, RejectReads, RejectDeletes, RejectClears, RejectPosts,
        RejectMarks, RejectClearsDraft, clear_auto_comment, mark_rejected,
        clear_human_rca_draft, Row
  <2>3. CASE JobReadsVerdict(w) \/ AcceptPosts(w) \/ AcceptMarks(w)
    BY <1>1, <2>3 DEF JobReadsVerdict, AcceptPosts, AcceptMarks, mark_accepted, Row
  <2>4. CASE FixSaves(w) \/ FixFails(w) \/ JobFinishes(w) \/ JobFails(w)
    BY <1>1, <2>4 DEF FixSaves, FixFails, JobFinishes, JobFails, save_fix, finish_job,
        fail_job, Row
  <2>5. QED
    BY <1>4, <2>1, <2>2, <2>3, <2>4 DEF ThreadStep
<1>5. ASSUME NEW c \in Clients, Request_begins(c)
      PROVE  row' = row
  BY <1>5, BeginMoves
<1>6. QED
  BY <1>2, <1>3, <1>4, <1>5 DEF Next

\* What an investigation's thread was before a step that leaves it one.
LEMMA RunMoves ==
    ASSUME TypeOK, [Next]_vars, NEW w \in Workers, thr'[w].kind = "rca"
    PROVE  \/ run_rca
           \/ auto_run /\ thr'[w].src = "auto"
           \/ thr'[w] = thr[w]
           \/ /\ thr[w].kind = "rca" /\ thr'[w].src = thr[w].src
              /\ \/ thr[w].pc = "investigate" /\ thr'[w].pc = "read"
                 \/ thr'[w].pc = "post" /\ thr[w].pc = "read" /\ row.trigger_source = "auto"
                 \/ thr'[w].pc = "record" /\ RcaPosts(w)
<1>1. thr[w] \in Thread /\ thr \in [Workers -> Thread]
  BY DEF TypeOK
<1>2. thr'[w] # NoThread
  BY DEF NoThread
<1>3. ASSUME NEW pc, GoTo(w, pc)
      PROVE  thr'[w].kind = thr[w].kind /\ thr'[w].pc = pc /\ thr'[w].src = thr[w].src
  BY <1>1, <1>3 DEF GoTo, Thread
<1>4. ~ ThreadEnds(w)
  BY <1>1, <1>2 DEF ThreadEnds
<1>5. CASE RcaStep(w)
  <2>1. CASE RcaPosts(w)
    <3>1. thr' = [thr EXCEPT ![w] = [@ EXCEPT !.pc = "record", !.cid = posts + 1]]
      BY <1>1, <1>2, <2>1 DEF RcaPosts, Post
    <3>2. thr'[w].pc = "record" /\ thr'[w].src = thr[w].src
      BY <1>1, <3>1 DEF Thread
    <3>3. QED
      BY <2>1, <3>2 DEF RcaPosts, ThreadAt
  <2>2. CASE ~ RcaPosts(w)
    BY <1>3, <1>4, <1>5, <2>2 DEF RcaStep, RcaSaves, RcaFails, RcaReadsTrigger, RcaRecords,
        ThreadAt
  <2>3. QED
    BY <2>1, <2>2
<1>6. CASE ThreadStep(w) /\ ~ RcaStep(w)
  <2>1. thr[w].kind \in JobKinds
    BY <1>6 DEF ThreadStep, RejectStep, RejectReads, RejectDeletes, RejectClears, RejectPosts,
        RejectMarks, RejectClearsDraft, JobReadsVerdict, AcceptPosts, AcceptMarks, FixSaves,
        FixFails, JobFinishes, JobFails, ThreadAt, JobKinds
  <2>2. ~ (JobFinishes(w) \/ JobFails(w))
    BY <1>4 DEF JobFinishes, JobFails
  <2>3. thr'[w].kind = thr[w].kind
    BY <1>6, <2>1, <2>2, JobStepKeepsKind
  <2>4. QED
    BY <2>1, <2>3 DEF JobKinds
<1>7. ASSUME NEW x \in Workers \ {w}, ThreadStep(x)
      PROVE  thr'[w] = thr[w]
  BY <1>7, ThreadMoves
<1>8. ASSUME NEW c \in Clients, Request_begins(c) \/ RequestStep(c)
      PROVE  thr'[w] = thr[w]
  <2>1. CASE Request_begins(c)
    BY <2>1, BeginMoves
  <2>2. CASE ReqStartJob(c)
    <3>1. KindOf(req[c].op) # "rca"
      BY DEF KindOf
    <3>2. \A kind, text : JobThread(kind, text).kind = kind
      BY DEF JobThread, NoThread
    <3>3. QED
      BY <1>1, <2>2, <3>1, <3>2 DEF ReqStartJob, Spawn
  <2>3. CASE RequestStep(c) /\ ~ ReqStartJob(c)
    BY <2>3 DEF RequestStep, LastWrite, ReqMarkAccepted, ReqMarkRejected, ReqMarkUnclear,
        ReqReset, ReqSaveDraft, ReqDelete, ReqClearAuto, ReqPush
  <2>4. QED
    BY <1>8, <2>1, <2>2, <2>3
<1>9. CASE auto_run
  BY <1>1, <1>9 DEF auto_run, SpawnRca, Spawn, NoThread
<1>10. CASE reject_fix \/ UNCHANGED vars
  BY <1>10 DEF reject_fix, vars
<1>11. ~ Restart
  BY <1>2 DEF Restart
<1>12. QED
  BY <1>5, <1>6, <1>7, <1>8, <1>9, <1>10, <1>11 DEF Next

\* Without resets, a run a reviewer started never posts its verdict to Jira
\* unreviewed, however many runs, requests, restarts and poller launches meet.
THEOREM ManualRunsNeverPostAlways ==
    ASSUME NoResets
    PROVE  Spec => []ManualRunsNeverPost
<1>1. Init => ManualInv
  BY DEF Init, ManualInv, ManualBefore, ManualRunsNeverPost, ThreadAt, NoThread
<1>2. TypeOK /\ NoResetPending /\ ManualInv /\ [Next]_vars => ManualInv'
  <2> SUFFICES ASSUME TypeOK, NoResetPending, ManualInv, [Next]_vars
               PROVE  ManualInv'
    OBVIOUS
  <2>1. row \in Row
    BY DEF TypeOK
  <2>2. ASSUME NEW w \in Workers, ManualBefore(w)'
        PROVE  row'.trigger_source = "manual" /\ row'.status # "pending"
    <3>1. thr'[w].kind = "rca" /\ thr'[w].src = "manual" /\ thr'[w].pc \in {"investigate", "read"}
      BY <2>2 DEF ManualBefore
    <3>2. CASE run_rca
      BY <2>1, <3>2 DEF run_rca, claim_running, Row
    <3>3. CASE ~ run_rca
      <4>1. ManualBefore(w)
        BY <3>1, <3>3, RunMoves DEF ManualBefore
      <4>2. row.trigger_source = "manual" /\ row.status # "pending"
        BY <4>1 DEF ManualInv
      <4>3. ~ auto_run
        BY <4>2 DEF auto_run, claim_auto_run_selects
      <4>4. QED
        BY <3>3, <4>2, <4>3, TriggerMoves
    <3>4. QED
      BY <3>2, <3>3
  <2>3. ASSUME NEW w \in Workers, ThreadAt(w, "rca", "post")'
        PROVE  thr'[w].src = "auto"
    <3>1. thr'[w].kind = "rca" /\ thr'[w].pc = "post"
      BY <2>3 DEF ThreadAt
    <3>2. thr[w] \in Thread /\ thr \in [Workers -> Thread]
      BY DEF TypeOK
    <3>3. CASE run_rca
      <4>1. thr'[w] = thr[w]
        BY <3>1, <3>2, <3>3 DEF run_rca, SpawnRca, Spawn, NoThread
      <4>2. QED
        BY <3>1, <4>1 DEF ManualInv, ManualRunsNeverPost, ThreadAt
    <3>4. CASE thr'[w] = thr[w]
      BY <3>1, <3>4 DEF ManualInv, ManualRunsNeverPost, ThreadAt
    <3>5. CASE /\ thr[w].kind = "rca" /\ thr'[w].src = thr[w].src
               /\ thr[w].pc = "read" /\ row.trigger_source = "auto"
      BY <3>2, <3>5 DEF ManualInv, ManualBefore, Thread
    <3>6. QED
      BY <3>1, <3>3, <3>4, <3>5, RunMoves
  <2>4. QED
    BY <2>2, <2>3 DEF ManualInv, ManualRunsNeverPost
<1>3. ManualInv => ManualRunsNeverPost
  BY DEF ManualInv
<1>4. QED
  BY <1>1, <1>2, <1>3, TypeCorrect, NoResetsMade, PTL DEF Spec

-----------------------------------------------------------------------------
(* The job slot.  Without resets the row shows "running", and the kind, of   *)
(* every thread that works on a job; with start_job's WHERE clause there is  *)
(* then at most one, and the slot implements SingleFlight.                   *)

SlotInv ==
    /\ \A w \in Workers :
          WorksOnJob(w) => row.job_status = "running" /\ row.job_kind = thr[w].kind
    /\ \A w, x \in Workers : WorksOnJob(w) /\ WorksOnJob(x) => w = x

\* A job starts in a free slot, with its thread.
StartsJob(w) ==
    /\ start_job_selects(row)
    /\ thr[w] = NoThread
    /\ WorksOnJob(w)'
    /\ row'.job_status = "running" /\ row'.job_kind = thr'[w].kind
    /\ \A x \in Workers \ {w} : thr'[x] = thr[x]

\* A job ends with its thread.
EndsJob(w) ==
    /\ WorksOnJob(w)
    /\ thr'[w] = NoThread
    /\ row'.job_kind = row.job_kind
    /\ \A x \in Workers \ {w} : thr'[x] = thr[x]

\* The slot and its threads are as they were.
KeepsJobs ==
    /\ row'.job_status = row.job_status /\ row'.job_kind = row.job_kind
    /\ \A w \in Workers : \/ thr'[w].kind = thr[w].kind
                          \/ ~ WorksOnJob(w) /\ ~ WorksOnJob(w)'

\* A request that starts no job leaves the slot alone, unless it is a reset.
LEMMA RequestKeepsJobs ==
    ASSUME TypeOK, NoResetPending, NEW c \in Clients, RequestStep(c),
           ~ (ReqStartJob(c) /\ start_job_selects(row))
    PROVE  KeepsJobs
<1>1. row \in Row
  BY DEF TypeOK
<1>2. ~ ReqReset(c)
  BY DEF NoResetPending, ReqReset, LastWrite
<1>3. thr' = thr
  BY <1>2 DEF RequestStep, LastWrite, ReqMarkAccepted, ReqMarkRejected, ReqMarkUnclear,
      ReqSaveDraft, ReqDelete, ReqClearAuto, ReqPush, ReqStartJob
<1>4. row'.job_status = row.job_status /\ row'.job_kind = row.job_kind
  <2>1. CASE ReqMarkAccepted(c) \/ ReqMarkRejected(c) \/ ReqMarkUnclear(c)
    BY <1>1, <2>1 DEF ReqMarkAccepted, ReqMarkRejected, ReqMarkUnclear, LastWrite,
        mark_accepted, mark_rejected, mark_unclear, Row
  <2>2. CASE ReqSaveDraft(c) \/ ReqClearAuto(c) \/ ReqPush(c)
    BY <1>1, <2>2 DEF ReqSaveDraft, ReqClearAuto, ReqPush, save_human_rca_draft,
        clear_auto_comment, save_fix, Row
  <2>3. CASE ReqDelete(c) \/ ReqStartJob(c)
    BY <2>3 DEF ReqDelete, ReqStartJob
  <2>4. QED
    BY <1>2, <2>1, <2>2, <2>3 DEF RequestStep
<1>5. QED
  BY <1>3, <1>4 DEF KeepsJobs

\* A thread leaves the slot alone but for the end of its own job.
LEMMA ThreadKeepsJobs ==
    ASSUME TypeOK, NEW w \in Workers, ThreadStep(w), ~ (JobFinishes(w) \/ JobFails(w))
    PROVE  KeepsJobs
<1>1. row \in Row /\ thr[w] \in Thread /\ thr \in [Workers -> Thread]
  BY DEF TypeOK
<1>2. row'.job_status = row.job_status /\ row'.job_kind = row.job_kind
  <2>1. CASE RcaStep(w)
    BY <1>1, <2>1 DEF RcaStep, RcaSaves, RcaFails, RcaReadsTrigger, RcaPosts, RcaRecords,
        save_rca, mark_failed, set_auto_comment, Row
  <2>2. CASE RejectStep(w)
    BY <1>1, <2>2 DEF RejectStep, RejectReads, RejectDeletes, RejectClears, RejectPosts,
        RejectMarks, RejectClearsDraft, clear_auto_comment, mark_rejected,
        clear_human_rca_draft, Row
  <2>3. CASE JobReadsVerdict(w) \/ AcceptPosts(w) \/ AcceptMarks(w) \/ FixSaves(w) \/ FixFails(w)
    BY <1>1, <2>3 DEF JobReadsVerdict, AcceptPosts, AcceptMarks, FixSaves, FixFails,
        mark_accepted, save_fix, Row
  <2>4. QED
    BY <2>1, <2>2, <2>3 DEF ThreadStep
<1>3. CASE WorksOnJob(w)
  BY <1>2, <1>3, JobStepKeepsKind, ThreadMoves DEF KeepsJobs, WorksOnJob
<1>4. CASE ~ WorksOnJob(w)
  <2>1. thr'[w].kind \in {thr[w].kind, "none"}
    <3>1. RcaStep(w)
      BY <1>4 DEF ThreadStep, RejectStep, RejectReads, RejectDeletes, RejectClears, RejectPosts,
          RejectMarks, RejectClearsDraft, JobReadsVerdict, AcceptPosts, AcceptMarks, FixSaves,
          FixFails, JobFinishes, JobFails, ThreadAt, JobKinds, WorksOnJob
    <3>2. ASSUME NEW pc, GoTo(w, pc)
          PROVE  thr'[w].kind = thr[w].kind
      BY <1>1, <3>2 DEF GoTo, Thread
    <3>3. ThreadEnds(w) => thr'[w].kind = "none"
      BY <1>1 DEF ThreadEnds, NoThread
    <3>4. CASE RcaPosts(w)
      <4>1. [thr[w] EXCEPT !.pc = "record", !.cid = posts + 1].kind = thr[w].kind
        BY <1>1 DEF Thread
      <4>2. \/ thr' = [thr EXCEPT ![w] = [thr[w] EXCEPT !.pc = "record", !.cid = posts + 1]]
            \/ thr' = [thr EXCEPT ![w] = NoThread]
        BY <1>1, <3>4 DEF RcaPosts, Post
      <4>3. \/ thr'[w] = [thr[w] EXCEPT !.pc = "record", !.cid = posts + 1]
            \/ thr'[w] = NoThread
        BY <1>1, <4>2
      <4>4. NoThread.kind = "none"
        BY DEF NoThread
      <4>5. QED
        BY <4>1, <4>3, <4>4
    <3>5. QED
      BY <3>1, <3>2, <3>3, <3>4 DEF RcaStep, RcaSaves, RcaFails, RcaReadsTrigger, RcaRecords
  <2>2. QED
    BY <1>2, <1>4, <2>1, ThreadMoves DEF KeepsJobs, WorksOnJob, JobKinds
<1>5. QED
  BY <1>3, <1>4

\* What a step may do to the job slot of a ticket nobody resets.
LEMMA SlotMoves ==
    ASSUME TypeOK, NoResetPending, [Next]_vars
    PROVE  \/ \E w \in Workers : StartsJob(w) \/ EndsJob(w)
           \/ Restart
           \/ KeepsJobs
<1>1. row \in Row /\ thr \in [Workers -> Thread]
  BY DEF TypeOK
<1>2. CASE run_rca \/ auto_run
  <2>1. row'.job_status = row.job_status /\ row'.job_kind = row.job_kind
    BY <1>1, <1>2 DEF run_rca, auto_run, claim_running, claim_auto_run, Row
  <2>2. \A w \in Workers : thr'[w] = thr[w] \/ (thr[w].kind = "none" /\ thr'[w].kind = "rca")
    <3>1. PICK w \in Workers, source \in {"manual", "auto"} : SpawnRca(w, source)
      BY <1>2 DEF run_rca, auto_run
    <3>2. thr[w].kind = "none" /\ thr'[w].kind = "rca"
      BY <1>1, <3>1 DEF SpawnRca, Spawn, NoThread
    <3>3. \A x \in Workers \ {w} : thr'[x] = thr[x]
      BY <1>1, <3>1 DEF SpawnRca, Spawn
    <3>4. QED
      BY <3>2, <3>3
  <2>3. "none" \notin JobKinds /\ "rca" \notin JobKinds
    BY DEF JobKinds
  <2>4. QED
    BY <2>1, <2>2, <2>3 DEF KeepsJobs, WorksOnJob
<1>3. CASE reject_fix \/ UNCHANGED vars
  BY <1>1, <1>3 DEF reject_fix, vars, clear_fix, KeepsJobs, Row
<1>4. ASSUME NEW c \in Clients, Request_begins(c)
      PROVE  KeepsJobs
  BY <1>4, BeginMoves DEF KeepsJobs
<1>5. ASSUME NEW c \in Clients, ReqStartJob(c), start_job_selects(row)
      PROVE  \E w \in Workers : StartsJob(w)
  <2>1. PICK w \in Workers : Spawn(w, JobThread(KindOf(req[c].op), req[c].text))
    BY <1>5 DEF ReqStartJob
  <2>2. thr'[w].kind = KindOf(req[c].op)
    BY <1>1, <2>1 DEF Spawn, JobThread, NoThread
  <2>3. row'.job_status = "running" /\ row'.job_kind = KindOf(req[c].op)
    BY <1>1, <1>5 DEF ReqStartJob, start_job, Row
  <2>4. KindOf(req[c].op) \in JobKinds
    BY DEF KindOf, JobKinds
  <2>5. thr[w] = NoThread /\ \A x \in Workers \ {w} : thr'[x] = thr[x]
    BY <1>1, <2>1 DEF Spawn
  <2>6. QED
    BY <1>5, <2>2, <2>3, <2>4, <2>5 DEF StartsJob, WorksOnJob
<1>6. ASSUME NEW w \in Workers, JobFinishes(w) \/ JobFails(w)
      PROVE  EndsJob(w)
  BY <1>1, <1>6 DEF JobFinishes, JobFails, ThreadEnds, finish_job, fail_job, EndsJob,
      WorksOnJob, Row
<1>7. QED
  BY <1>2, <1>3, <1>4, <1>5, <1>6, RequestKeepsJobs, ThreadKeepsJobs DEF Next

\* Every step keeps the invariant of the job slot.
LEMMA SlotStep ==
    ASSUME TypeOK, NoResetPending, SlotInv, [Next]_vars
    PROVE  SlotInv'
<1>1. ~ NoThread.kind \in JobKinds
  BY DEF NoThread, JobKinds
<1>2. ASSUME NEW w \in Workers, StartsJob(w)
      PROVE  SlotInv'
  <2>1. \A x \in Workers : ~ WorksOnJob(x)
    BY <1>2 DEF StartsJob, start_job_selects, SlotInv
  <2>2. \A x \in Workers : WorksOnJob(x)' => x = w
    BY <1>2, <2>1 DEF StartsJob, WorksOnJob
  <2>3. QED
    BY <1>2, <2>2 DEF StartsJob, SlotInv
<1>3. ASSUME NEW w \in Workers, EndsJob(w)
      PROVE  SlotInv'
  <2>1. \A x \in Workers : ~ WorksOnJob(x)'
    BY <1>1, <1>3 DEF EndsJob, SlotInv, WorksOnJob
  <2>2. QED
    BY <2>1 DEF SlotInv
<1>4. CASE Restart
  BY <1>1, <1>4 DEF Restart, SlotInv, WorksOnJob
<1>5. CASE KeepsJobs
  BY <1>5 DEF KeepsJobs, SlotInv, WorksOnJob
<1>6. QED
  BY <1>2, <1>3, <1>4, <1>5, SlotMoves

LEMMA SlotInvAlways ==
    ASSUME NoResets
    PROVE  Spec => []SlotInv
<1>1. Init => SlotInv
  BY DEF Init, SlotInv, WorksOnJob, NoThread, JobKinds
<1>2. TypeOK /\ NoResetPending /\ SlotInv /\ [Next]_vars => SlotInv'
  BY SlotStep
<1>3. QED
  BY <1>1, <1>2, TypeCorrect, NoResetsMade, PTL DEF Spec

\* Without resets, the job threads of a ticket implement a single-flight slot:
\* one works at a time, however requests and restarts interleave.
THEOREM JobsAlwaysSingleFlight ==
    ASSUME NoResets
    PROVE  Spec => JobsSingleFlight
<1> DEFINE flight == {w \in Workers : WorksOnJob(w)}
<1>1. Init => JobFlight!Init
  BY DEF Init, JobFlight!Init, WorksOnJob, NoThread, JobKinds
<1>2. TypeOK /\ NoResetPending /\ SlotInv /\ [Next]_vars => [JobFlight!Next]_flight
  <2> SUFFICES ASSUME TypeOK, NoResetPending, SlotInv, [Next]_vars
               PROVE  [JobFlight!Next]_flight
    OBVIOUS
  <2>1. ~ NoThread.kind \in JobKinds
    BY DEF NoThread, JobKinds
  <2>2. ASSUME NEW w \in Workers, StartsJob(w)
        PROVE  JobFlight!Start
    <3>1. \A x \in Workers : ~ WorksOnJob(x)
      BY <2>2 DEF StartsJob, start_job_selects, SlotInv
    <3>2. \A x \in Workers : WorksOnJob(x)' <=> x = w
      BY <2>2, <3>1 DEF StartsJob, WorksOnJob
    <3>3. flight = {} /\ flight' = {w}
      BY <3>1, <3>2
    <3>4. QED
      BY <3>3 DEF JobFlight!Start
  <2>3. ASSUME NEW w \in Workers, EndsJob(w)
        PROVE  JobFlight!End
    <3>1. w \in flight
      BY <2>3 DEF EndsJob
    <3>2. \A x \in Workers : WorksOnJob(x)' <=> WorksOnJob(x) /\ x # w
      BY <2>1, <2>3 DEF EndsJob, WorksOnJob
    <3>3. flight' = flight \ {w}
      BY <3>2
    <3>4. QED
      BY <3>1, <3>3 DEF JobFlight!End
  <2>4. CASE Restart
    <3>1. flight' = {}
      BY <2>1, <2>4 DEF Restart, WorksOnJob
    <3>2. QED
      BY <3>1 DEF JobFlight!Next, JobFlight!Restart
  <2>5. CASE KeepsJobs
    <3>1. \A x \in Workers : WorksOnJob(x)' <=> WorksOnJob(x)
      BY <2>5 DEF KeepsJobs, WorksOnJob
    <3>2. flight' = flight
      BY <3>1
    <3>3. QED
      BY <3>2
  <2>6. QED
    BY <2>2, <2>3, <2>4, <2>5, SlotMoves DEF JobFlight!Next
<1>3. QED
  BY <1>1, <1>2, TypeCorrect, NoResetsMade, SlotInvAlways, PTL
     DEF Spec, JobsSingleFlight, JobFlight!Spec
-----------------------------------------------------------------------------
(* What is proved about the issue on Jira: the order of a withdrawal and its *)
(* decision, which comments are ever deleted, and that the comments the row  *)
(* names are there.                                                          *)

(* Withdrawals.  WithdrawnFirst is inductive once every id the program holds *)
(* is known to be of a comment Jira has accepted: the next comment then has  *)
(* an id no request is withdrawing.                                          *)

IdsAccepted ==
    /\ row.auto_comment_id <= posts
    /\ \A c \in Clients : req[c].cid <= posts
    /\ \A w \in Workers : thr[w].cid <= posts

WithdrawInv == IdsAccepted /\ WithdrawnFirst

\* Jira's comments change in one of two ways, and new ones have new ids.
LEMMA JiraMoves ==
    ASSUME TypeOK, [Next]_vars
    PROVE  /\ posts' \in {posts, posts + 1}
           /\ \A m \in jira' : m \in jira \/ (m.id = posts + 1 /\ posts' = posts + 1)
<1>1. ASSUME NEW w \in Workers, NEW via, NEW verdict, NEW text, NEW done, NEW failed,
             Post(w, via, verdict, text, done, failed)
      PROVE  /\ posts' \in {posts, posts + 1}
             /\ \A m \in jira' : m \in jira \/ (m.id = posts + 1 /\ posts' = posts + 1)
  BY <1>1 DEF Post, AddComment, PostRefused
<1>2. CASE run_rca \/ auto_run \/ reject_fix \/ Restart \/ UNCHANGED vars
  BY <1>2 DEF run_rca, auto_run, reject_fix, Restart, vars
<1>3. ASSUME NEW c \in Clients, Request_begins(c)
      PROVE  posts' = posts /\ jira' = jira
  BY <1>3, BeginMoves
<1>4. ASSUME NEW c \in Clients, RequestStep(c)
      PROVE  posts' = posts /\ (\A m \in jira' : m \in jira)
  BY <1>4 DEF RequestStep, LastWrite, ReqMarkAccepted, ReqMarkRejected, ReqMarkUnclear, ReqReset,
      ReqSaveDraft, ReqDelete, ReqClearAuto, ReqPush, ReqStartJob, DeleteComment
<1>5. ASSUME NEW w \in Workers, ThreadStep(w)
      PROVE  /\ posts' \in {posts, posts + 1}
             /\ \A m \in jira' : m \in jira \/ (m.id = posts + 1 /\ posts' = posts + 1)
  <2>1. CASE RcaPosts(w) \/ AcceptPosts(w) \/ RejectPosts(w)
    BY <1>1, <2>1 DEF RcaPosts, AcceptPosts, RejectPosts
  <2>2. CASE RejectDeletes(w)
    BY <2>2 DEF RejectDeletes, DeleteComment
  <2>3. CASE ~ (RcaPosts(w) \/ AcceptPosts(w) \/ RejectPosts(w) \/ RejectDeletes(w))
    BY <1>5, <2>3 DEF ThreadStep, RcaStep, RejectStep, RcaSaves, RcaFails, RcaReadsTrigger,
        RcaRecords, RejectReads, RejectClears, RejectMarks, RejectClearsDraft, JobReadsVerdict,
        AcceptMarks, FixSaves, FixFails, JobFinishes, JobFails
  <2>4. QED
    BY <2>1, <2>2, <2>3
<1>6. QED
  BY <1>2, <1>3, <1>4, <1>5 DEF Next

\* The thread has posted an automatic comment and records it next, or deletes one.
HoldsAuto(w) ==
    \/ ThreadAt(w, "rca", "record")
    \/ thr[w].kind = "reject" /\ thr[w].pc \in {"delete", "clear_auto"}

\* The row names a new automatic comment only from the thread that posted it.
LEMMA AutoCommentMoves ==
    ASSUME TypeOK, [Next]_vars
    PROVE  \/ row'.auto_comment_id \in {0, row.auto_comment_id}
           \/ \E w \in Workers : RcaRecords(w) /\ row'.auto_comment_id = thr[w].cid
<1>1. row \in Row
  BY DEF TypeOK
<1>2. CASE run_rca \/ auto_run \/ reject_fix \/ Restart \/ UNCHANGED vars
  BY <1>1, <1>2 DEF run_rca, auto_run, reject_fix, Restart, vars, claim_running, claim_auto_run,
      clear_fix, init_db, Row
<1>3. ASSUME NEW c \in Clients, Request_begins(c) \/ RequestStep(c)
      PROVE  row'.auto_comment_id \in {0, row.auto_comment_id}
  <2>1. CASE Request_begins(c)
    BY <2>1, BeginMoves
  <2>2. CASE ReqMarkAccepted(c) \/ ReqMarkRejected(c) \/ ReqMarkUnclear(c) \/ ReqReset(c)
    BY <1>1, <2>2 DEF ReqMarkAccepted, ReqMarkRejected, ReqMarkUnclear, ReqReset, LastWrite,
        mark_accepted, mark_rejected, mark_unclear, reset_row, Row
  <2>3. CASE ReqSaveDraft(c) \/ ReqClearAuto(c) \/ ReqPush(c) \/ ReqDelete(c) \/ ReqStartJob(c)
    BY <1>1, <2>3 DEF ReqSaveDraft, ReqClearAuto, ReqPush, ReqDelete, ReqStartJob,
        save_human_rca_draft, clear_auto_comment, save_fix, start_job, Row
  <2>4. QED
    BY <1>3, <2>1, <2>2, <2>3 DEF RequestStep
<1>4. ASSUME NEW w \in Workers, ThreadStep(w)
      PROVE  \/ row'.auto_comment_id \in {0, row.auto_comment_id}
             \/ RcaRecords(w) /\ row'.auto_comment_id = thr[w].cid
  <2>1. CASE RcaRecords(w)
    BY <1>1, <2>1 DEF RcaRecords, set_auto_comment, Row
  <2>2. CASE RcaSaves(w) \/ RcaFails(w) \/ RcaReadsTrigger(w) \/ RcaPosts(w)
    BY <1>1, <2>2 DEF RcaSaves, RcaFails, RcaReadsTrigger, RcaPosts, save_rca, mark_failed, Row
  <2>3. CASE RejectStep(w)
    BY <1>1, <2>3 DEF RejectStep, RejectReads, RejectDeletes, RejectClears, RejectPosts,
        RejectMarks, RejectClearsDraft, clear_auto_comment, mark_rejected,
        clear_human_rca_draft, Row
  <2>4. CASE JobReadsVerdict(w) \/ AcceptPosts(w) \/ AcceptMarks(w)
    BY <1>1, <2>4 DEF JobReadsVerdict, AcceptPosts, AcceptMarks, mark_accepted, Row
  <2>5. CASE FixSaves(w) \/ FixFails(w) \/ JobFinishes(w) \/ JobFails(w)
    BY <1>1, <2>5 DEF FixSaves, FixFails, JobFinishes, JobFails, save_fix, finish_job,
        fail_job, Row
  <2>6. QED
    BY <1>4, <2>1, <2>2, <2>3, <2>4, <2>5 DEF ThreadStep, RcaStep
<1>5. QED
  BY <1>2, <1>3, <1>4 DEF Next

\* A thread learns an id from the row or from Jira's answer to its own post.
LEMMA ThreadIdMoves ==
    ASSUME TypeOK, [Next]_vars, NEW w \in Workers
    PROVE  \/ thr'[w].cid \in {0, thr[w].cid, row.auto_comment_id}
           \/ thr'[w].cid = posts + 1 /\ posts' = posts + 1
<1>1. thr[w] \in Thread /\ thr \in [Workers -> Thread]
  BY DEF TypeOK
<1>2. NoThread.cid = 0
  BY DEF NoThread
<1>3. ASSUME NEW pc, GoTo(w, pc)
      PROVE  thr'[w].cid = thr[w].cid
  BY <1>1, <1>3 DEF GoTo, Thread
<1>4. ThreadEnds(w) => thr'[w].cid = 0
  BY <1>1, <1>2 DEF ThreadEnds
<1>5. ASSUME NEW via, NEW verdict, NEW text, NEW done, NEW failed \in Thread,
             failed.cid \in {0, thr[w].cid}, Post(w, via, verdict, text, done, failed)
      PROVE  \/ thr'[w].cid \in {0, thr[w].cid}
             \/ thr'[w].cid = posts + 1 /\ posts' = posts + 1
  <2>1. [thr[w] EXCEPT !.pc = done, !.cid = posts + 1].cid = posts + 1
    BY <1>1 DEF Thread
  <2>2. QED
    BY <1>1, <1>5, <2>1 DEF Post, AddComment
<1>6. ASSUME ThreadStep(w)
      PROVE  \/ thr'[w].cid \in {0, thr[w].cid, row.auto_comment_id}
             \/ thr'[w].cid = posts + 1 /\ posts' = posts + 1
  <2>1. CASE RcaPosts(w)
    <3>1. NoThread \in Thread
      BY DEF NoThread, Thread
    <3>2. QED
      BY <1>2, <1>5, <2>1, <3>1 DEF RcaPosts
  <2>2. CASE AcceptPosts(w) \/ RejectPosts(w)
    <3>1. [thr[w] EXCEPT !.pc = "fail"] \in Thread /\ [thr[w] EXCEPT !.pc = "fail"].cid = thr[w].cid
      BY <1>1 DEF Thread
    <3>2. QED
      BY <1>5, <2>2, <3>1 DEF AcceptPosts, RejectPosts
  <2>3. CASE RejectReads(w) \/ JobReadsVerdict(w)
    <3>1. \A n, pc : /\ [thr[w] EXCEPT !.cid = n, !.pc = pc].cid = n
                     /\ [thr[w] EXCEPT !.rca = n, !.pc = pc].cid = thr[w].cid
      BY <1>1 DEF Thread
    <3>2. CASE RejectReads(w)
      BY <1>1, <3>1, <3>2 DEF RejectReads
    <3>3. CASE JobReadsVerdict(w)
      BY <1>1, <3>1, <3>3 DEF JobReadsVerdict
    <3>4. QED
      BY <2>3, <3>2, <3>3
  <2>4. CASE RcaSaves(w) \/ RcaFails(w) \/ RcaReadsTrigger(w) \/ RcaRecords(w)
    BY <1>3, <1>4, <2>4 DEF RcaSaves, RcaFails, RcaReadsTrigger, RcaRecords
  <2>5. CASE RejectDeletes(w) \/ RejectClears(w) \/ RejectMarks(w) \/ RejectClearsDraft(w)
    BY <1>3, <2>5 DEF RejectDeletes, RejectClears, RejectMarks, RejectClearsDraft
  <2>6. CASE \/ AcceptMarks(w) \/ FixSaves(w) \/ FixFails(w) \/ JobFinishes(w) \/ JobFails(w)
    BY <1>3, <1>4, <2>6 DEF AcceptMarks, FixSaves, FixFails, JobFinishes, JobFails
  <2>7. QED
    BY <1>6, <2>1, <2>2, <2>3, <2>4, <2>5, <2>6 DEF ThreadStep, RcaStep, RejectStep
<1>7. ASSUME NEW x \in Workers \ {w}, ThreadStep(x)
      PROVE  thr'[w] = thr[w]
  BY <1>7, ThreadMoves
<1>8. ASSUME NEW c \in Clients, Request_begins(c) \/ RequestStep(c)
      PROVE  thr'[w].cid \in {0, thr[w].cid}
  <2>1. CASE Request_begins(c)
    BY <2>1, BeginMoves
  <2>2. CASE ReqStartJob(c)
    BY <1>1, <1>2, <2>2 DEF ReqStartJob, Spawn, JobThread, NoThread
  <2>3. CASE RequestStep(c) /\ ~ ReqStartJob(c)
    BY <2>3 DEF RequestStep, LastWrite, ReqMarkAccepted, ReqMarkRejected, ReqMarkUnclear,
        ReqReset, ReqSaveDraft, ReqDelete, ReqClearAuto, ReqPush
  <2>4. QED
    BY <1>8, <2>1, <2>2, <2>3
<1>9. CASE run_rca \/ auto_run
  BY <1>1, <1>9 DEF run_rca, auto_run, SpawnRca, Spawn, NoThread
<1>10. CASE reject_fix \/ Restart \/ UNCHANGED vars
  BY <1>2, <1>10 DEF reject_fix, Restart, vars
<1>11. QED
  BY <1>6, <1>7, <1>8, <1>9, <1>10 DEF Next

\* A request past its withdrawal was there before the step, or has just had
\* its comment deleted.
LEMMA WithdrawalMoves ==
    ASSUME TypeOK, [Next]_vars, NEW c \in Clients,
           req'[c].op \in {"reset", "reject_local"}, req'[c].cid # 0, ~ At(c, "delete")'
    PROVE  /\ req'[c].cid = req[c].cid /\ req'[c].op = req[c].op
           /\ \/ ~ At(c, "delete")
              \/ \A m \in jira' : m.id # req[c].cid
<1>1. req[c] \in Request /\ req \in [Clients -> Request]
  BY DEF TypeOK
<1>2. CASE UNCHANGED req
  BY <1>2 DEF At
<1>3. req'[c] # NoReq
  BY DEF NoReq
<1>4. ~ Request_begins(c)
  BY <1>1 DEF Request_begins, suggest_fix, raise_mr, reset, accept, accept_and_post, unclear,
      save_human_rca, reject, reject_local, AfterWithdraw, Begin, At
<1>5. CASE RequestStep(c)
  <2>1. ~ Respond(c)
    BY <1>1, <1>3 DEF Respond
  <2>2. ASSUME NEW pc, Continue(c, pc)
        PROVE  req'[c].cid = req[c].cid /\ req'[c].op = req[c].op
    BY <1>1, <2>2 DEF Continue, Request
  <2>3. CASE ReqSaveDraft(c) \/ ReqClearAuto(c)
    BY <2>1, <2>2, <2>3 DEF ReqSaveDraft, ReqClearAuto, At
  <2>4. CASE ReqDelete(c)
    BY <2>1, <2>2, <2>4 DEF ReqDelete, DeleteComment
  <2>5. QED
    BY <1>5, <2>1, <2>3, <2>4 DEF RequestStep, LastWrite, ReqMarkAccepted, ReqMarkRejected,
        ReqMarkUnclear, ReqReset, ReqPush, ReqStartJob
<1>6. ASSUME NEW d \in Clients \ {c}, Request_begins(d) \/ RequestStep(d)
      PROVE  req'[c] = req[c]
  <2>1. CASE RequestStep(d)
    BY <2>1, RequestMoves
  <2>2. CASE Request_begins(d)
    BY <1>1, <2>2 DEF Request_begins, suggest_fix, raise_mr, reset, accept, accept_and_post,
        unclear, save_human_rca, reject, reject_local, Begin
  <2>3. QED
    BY <1>6, <2>1, <2>2
<1>7. CASE \E w \in Workers : ThreadStep(w)
  BY <1>2, <1>7, ThreadMoves
<1>8. CASE run_rca \/ auto_run \/ reject_fix \/ UNCHANGED vars
  BY <1>2, <1>8 DEF run_rca, auto_run, reject_fix, vars
<1>9. ~ Restart
  BY <1>3 DEF Restart
<1>10. QED
  BY <1>4, <1>5, <1>6, <1>7, <1>8, <1>9 DEF Next, At

\* A request learns an id from the row it has read.
LEMMA RequestIdMoves ==
    ASSUME TypeOK, [Next]_vars, NEW c \in Clients
    PROVE  req'[c].cid \in {0, req[c].cid, row.auto_comment_id}
<1>1. req[c] \in Request /\ req \in [Clients -> Request]
  BY DEF TypeOK
<1>2. NoReq.cid = 0
  BY DEF NoReq
<1>3. CASE Request_begins(c)
  BY <1>1, <1>3 DEF Request_begins, suggest_fix, raise_mr, reset, accept, accept_and_post, unclear,
      save_human_rca, reject, reject_local, Begin
<1>4. CASE RequestStep(c)
  <2>1. Respond(c) => req'[c].cid = 0
    BY <1>1, <1>2 DEF Respond
  <2>2. ASSUME NEW pc, Continue(c, pc)
        PROVE  req'[c].cid = req[c].cid
    BY <1>1, <2>2 DEF Continue, Request
  <2>3. QED
    BY <1>4, <2>1, <2>2 DEF RequestStep, LastWrite, ReqMarkAccepted, ReqMarkRejected,
        ReqMarkUnclear, ReqReset, ReqSaveDraft, ReqDelete, ReqClearAuto, ReqPush, ReqStartJob
<1>5. ASSUME NEW d \in Clients \ {c}, Request_begins(d) \/ RequestStep(d)
      PROVE  req'[c] = req[c]
  <2>1. CASE RequestStep(d)
    BY <2>1, RequestMoves
  <2>2. CASE Request_begins(d)
    BY <1>1, <2>2 DEF Request_begins, suggest_fix, raise_mr, reset, accept, accept_and_post,
        unclear, save_human_rca, reject, reject_local, Begin
  <2>3. QED
    BY <1>5, <2>1, <2>2
<1>6. CASE \E w \in Workers : ThreadStep(w)
  BY <1>6, ThreadMoves
<1>7. CASE run_rca \/ auto_run \/ reject_fix \/ Restart \/ UNCHANGED vars
  BY <1>2, <1>7 DEF run_rca, auto_run, reject_fix, Restart, vars
<1>8. QED
  BY <1>3, <1>4, <1>5, <1>6, <1>7 DEF Next

\* The invariant behind WithdrawnFirst holds in every reachable state.
LEMMA WithdrawInvAlways == Spec => []WithdrawInv
<1>1. Init => WithdrawInv
  BY DEF Init, WithdrawInv, IdsAccepted, WithdrawnFirst, FreshRow, NoReq, NoThread
<1>2. TypeOK /\ TypeOK' /\ WithdrawInv /\ [Next]_vars => WithdrawInv'
  <2> SUFFICES ASSUME TypeOK, TypeOK', WithdrawInv, [Next]_vars
               PROVE  WithdrawInv'
    OBVIOUS
  <2>1. /\ posts \in Nat
        /\ row.auto_comment_id \in Nat
        /\ \A w \in Workers : thr[w].cid \in Nat
        /\ \A c \in Clients : req[c].cid \in Nat
    BY DEF TypeOK, Row, Thread, Request
  <2>2. posts' \in {posts, posts + 1}
    BY JiraMoves
  <2>3. IdsAccepted'
    <3>1. row'.auto_comment_id <= posts'
      BY <2>1, <2>2, AutoCommentMoves DEF WithdrawInv, IdsAccepted
    <3>2. ASSUME NEW c \in Clients
          PROVE  req'[c].cid <= posts'
      BY <2>1, <2>2, RequestIdMoves DEF WithdrawInv, IdsAccepted
    <3>3. ASSUME NEW w \in Workers
          PROVE  thr'[w].cid <= posts'
      BY <2>1, <2>2, ThreadIdMoves DEF WithdrawInv, IdsAccepted
    <3>4. QED
      BY <3>1, <3>2, <3>3 DEF IdsAccepted
  <2>4. ASSUME NEW c \in Clients, NEW m \in jira',
               req'[c].op \in {"reset", "reject_local"}, req'[c].cid # 0, ~ At(c, "delete")'
        PROVE  m.id # req'[c].cid
    <3>1. /\ req'[c].cid = req[c].cid /\ req'[c].op = req[c].op
          /\ \/ ~ At(c, "delete")
             \/ \A x \in jira' : x.id # req[c].cid
      BY <2>4, WithdrawalMoves
    <3>2. CASE \A x \in jira' : x.id # req[c].cid
      BY <3>1, <3>2
    <3>3. CASE ~ At(c, "delete")
      <4>1. \A x \in jira : x.id # req[c].cid
        BY <2>4, <3>1, <3>3 DEF WithdrawInv, WithdrawnFirst
      <4>2. m \in jira \/ (m.id = posts + 1 /\ posts' = posts + 1)
        BY JiraMoves
      <4>3. req[c].cid # posts + 1
        BY <2>1 DEF WithdrawInv, IdsAccepted
      <4>4. QED
        BY <3>1, <4>1, <4>2, <4>3
    <3>4. QED
      BY <3>1, <3>2, <3>3
  <2>5. QED
    BY <2>3, <2>4 DEF WithdrawInv, WithdrawnFirst
<1>3. QED
  BY <1>1, <1>2, TypeCorrect, PTL DEF Spec

\* A reset or a local reject past its withdrawal knows the comment it saw to be
\* off Jira, whatever other requests and threads post or delete meanwhile.
THEOREM WithdrawnFirstAlways == Spec => []WithdrawnFirst
<1>1. WithdrawInv => WithdrawnFirst
  BY DEF WithdrawInv
<1>2. QED
  BY <1>1, WithdrawInvAlways, PTL

-----------------------------------------------------------------------------
(* What is deleted from Jira.  OnlyAutoPostsDeleted follows from what every  *)
(* id kept for a deletion is: of an automatic comment, if it is on Jira at   *)
(* all.  A request learns its id from the row, a reject from the row too,    *)
(* and the row from the thread that has just posted the comment.             *)

\* If the issue has comment n, it is an automatic one.
NamesAuto(n) == \A m \in jira : m.id = n => m.via = "auto"

DeleteInv ==
    /\ IdsAccepted
    /\ \A m \in jira : m.id \in 1..posts
    /\ NamesAuto(row.auto_comment_id)
    /\ \A c \in Clients : NamesAuto(req[c].cid)
    /\ \A w \in Workers : HoldsAuto(w) => NamesAuto(thr[w].cid)

\* What an accepted id names does not change: new comments have new ids.
LEMMA NamesAutoKept ==
    ASSUME TypeOK, [Next]_vars, NEW n \in Nat, n <= posts,
           \A m \in jira : m.id = n => m.via = "auto"
    PROVE  \A m \in jira' : m.id = n => m.via = "auto"
<1>1. posts \in Nat
  BY DEF TypeOK
<1>2. \A m \in jira' : m \in jira \/ m.id = posts + 1
  BY JiraMoves
<1>3. QED
  BY <1>1, <1>2

\* A thread comes to hold an automatic comment by posting it or by reading the
\* row, and keeps its id while it holds it.
LEMMA HoldsAutoSource ==
    ASSUME TypeOK, [Next]_vars, NEW w \in Workers, HoldsAuto(w)'
    PROVE  \/ HoldsAuto(w) /\ thr'[w].cid = thr[w].cid
           \/ thr'[w].cid = row.auto_comment_id
           \/ /\ thr'[w].cid = posts + 1
              /\ \E m : m.via = "auto" /\ m.id = posts + 1 /\ jira' = jira \cup {m}
<1>1. thr[w] \in Thread /\ thr \in [Workers -> Thread]
  BY DEF TypeOK
<1>2. CASE thr'[w] = thr[w]
  BY <1>2 DEF HoldsAuto, ThreadAt
<1>3. thr'[w] # NoThread
  BY DEF HoldsAuto, ThreadAt, NoThread
<1>4. ASSUME NEW pc, GoTo(w, pc)
      PROVE  thr'[w].cid = thr[w].cid /\ thr'[w].pc = pc /\ thr'[w].kind = thr[w].kind
  BY <1>1, <1>4 DEF GoTo, Thread
<1>5. ~ ThreadEnds(w)
  BY <1>1, <1>3 DEF ThreadEnds
<1>6. ASSUME ThreadStep(w)
      PROVE  \/ HoldsAuto(w) /\ thr'[w].cid = thr[w].cid
             \/ thr'[w].cid = row.auto_comment_id
             \/ /\ thr'[w].cid = posts + 1
                /\ \E m : m.via = "auto" /\ m.id = posts + 1 /\ jira' = jira \cup {m}
  <2>1. CASE RcaPosts(w)
    <3>1. /\ AddComment("auto", thr[w].rca, NoText)
          /\ thr' = [thr EXCEPT ![w] = [@ EXCEPT !.pc = "record", !.cid = posts + 1]]
      BY <1>1, <1>3, <2>1 DEF RcaPosts, Post
    <3>2. thr'[w].cid = posts + 1
      BY <1>1, <3>1 DEF Thread
    <3>3. \E m : m.via = "auto" /\ m.id = posts + 1 /\ jira' = jira \cup {m}
      BY <3>1 DEF AddComment
    <3>4. QED
      BY <3>2, <3>3
  <2>2. CASE RejectReads(w)
    <3>1. \A n, pc : [thr[w] EXCEPT !.cid = n, !.pc = pc].cid = n
      BY <1>1 DEF Thread
    <3>2. QED
      BY <1>1, <2>2, <3>1 DEF RejectReads
  <2>3. CASE RejectDeletes(w)
    BY <1>4, <2>3 DEF RejectDeletes, HoldsAuto, ThreadAt
  <2>4. ~ (RcaSaves(w) \/ RcaFails(w) \/ RcaReadsTrigger(w) \/ RcaRecords(w))
    BY <1>4, <1>5 DEF RcaSaves, RcaFails, RcaReadsTrigger, RcaRecords, HoldsAuto, ThreadAt
  <2>5. ~ (RejectClears(w) \/ RejectMarks(w) \/ RejectClearsDraft(w))
    BY <1>4 DEF RejectClears, RejectMarks, RejectClearsDraft, HoldsAuto, ThreadAt
  <2>6. ~ (AcceptMarks(w) \/ FixSaves(w) \/ FixFails(w) \/ JobFinishes(w) \/ JobFails(w))
    BY <1>4, <1>5 DEF AcceptMarks, FixSaves, FixFails, JobFinishes, JobFails, HoldsAuto, ThreadAt
  <2>7. ~ JobReadsVerdict(w)
    <3>1. SUFFICES ASSUME JobReadsVerdict(w) PROVE FALSE
      OBVIOUS
    <3>2. PICK pc \in {"fail", "work", "post"} :
             thr'[w] = [thr[w] EXCEPT !.rca = row.bot_rca, !.pc = pc]
      <4> DEFINE next == IF row.bot_rca = 0 THEN "fail"
                         ELSE IF thr[w].kind = "fix" THEN "work" ELSE "post"
      <4>1. next \in {"fail", "work", "post"}
        OBVIOUS
      <4>2. thr' = [thr EXCEPT ![w] = [thr[w] EXCEPT !.rca = row.bot_rca, !.pc = next]]
        BY <3>1 DEF JobReadsVerdict
      <4> HIDE DEF next
      <4>3. thr'[w] = [thr[w] EXCEPT !.rca = row.bot_rca, !.pc = next]
        BY <1>1, <4>2
      <4>4. QED
        BY <4>1, <4>3
    <3>3. thr[w].kind \in {"accept_post", "fix"}
      BY <3>1 DEF JobReadsVerdict, ThreadAt
    <3>4. thr'[w].kind = thr[w].kind /\ thr'[w].pc = pc
      BY <1>1, <3>2 DEF Thread
    <3>5. QED
      BY <3>2, <3>3, <3>4 DEF HoldsAuto, ThreadAt
  <2>8. ~ (AcceptPosts(w) \/ RejectPosts(w))
    <3>1. \A n, pc : /\ [thr[w] EXCEPT !.pc = pc, !.cid = n].kind = thr[w].kind
                     /\ [thr[w] EXCEPT !.pc = pc, !.cid = n].pc = pc
                     /\ [thr[w] EXCEPT !.pc = pc].kind = thr[w].kind
                     /\ [thr[w] EXCEPT !.pc = pc].pc = pc
      BY <1>1 DEF Thread
    <3>2. QED
      BY <1>1, <3>1 DEF AcceptPosts, RejectPosts, Post, HoldsAuto, ThreadAt
  <2>9. QED
    BY <1>6, <2>1, <2>2, <2>3, <2>4, <2>5, <2>6, <2>7, <2>8 DEF ThreadStep, RcaStep, RejectStep
<1>7. ASSUME NEW x \in Workers \ {w}, ThreadStep(x)
      PROVE  thr'[w] = thr[w]
  BY <1>7, ThreadMoves
<1>8. ASSUME NEW c \in Clients, Request_begins(c) \/ RequestStep(c)
      PROVE  thr'[w] = thr[w]
  <2>1. CASE Request_begins(c)
    BY <2>1, BeginMoves
  <2>2. CASE ReqStartJob(c)
    BY <1>1, <2>2 DEF ReqStartJob, Spawn, JobThread, NoThread, HoldsAuto, ThreadAt
  <2>3. CASE RequestStep(c) /\ ~ ReqStartJob(c)
    BY <2>3 DEF RequestStep, LastWrite, ReqMarkAccepted, ReqMarkRejected, ReqMarkUnclear,
        ReqReset, ReqSaveDraft, ReqDelete, ReqClearAuto, ReqPush
  <2>4. QED
    BY <1>8, <2>1, <2>2, <2>3
<1>9. CASE run_rca \/ auto_run
  <2>1. thr'[w] = thr[w]
    BY <1>1, <1>9 DEF run_rca, auto_run, SpawnRca, Spawn, NoThread, HoldsAuto, ThreadAt
  <2>2. QED
    BY <1>2, <2>1
<1>10. CASE reject_fix \/ UNCHANGED vars
  BY <1>2, <1>10 DEF reject_fix, vars
<1>11. ~ Restart
  BY <1>3 DEF Restart
<1>12. QED
  BY <1>2, <1>6, <1>7, <1>8, <1>9, <1>10, <1>11 DEF Next

\* Nothing but a withdrawal deletes a comment, and it deletes the one it names.
LEMMA DeletionSource ==
    ASSUME TypeOK, [Next]_vars, NEW m \in jira \ jira'
    PROVE  \/ \E c \in Clients : ReqDelete(c) /\ m.id = req[c].cid
           \/ \E w \in Workers : RejectDeletes(w) /\ HoldsAuto(w) /\ m.id = thr[w].cid
<1>1. ASSUME NEW w \in Workers, NEW via, NEW verdict, NEW text, NEW done, NEW failed,
             Post(w, via, verdict, text, done, failed)
      PROVE  FALSE
  BY <1>1 DEF Post, AddComment, PostRefused
<1>2. ~ (run_rca \/ auto_run \/ reject_fix \/ Restart \/ UNCHANGED vars)
  BY DEF run_rca, auto_run, reject_fix, Restart, vars
<1>3. ASSUME NEW c \in Clients
      PROVE  ~ Request_begins(c)
  BY BeginMoves
<1>4. ASSUME NEW c \in Clients, RequestStep(c)
      PROVE  ReqDelete(c) /\ m.id = req[c].cid
  BY <1>4 DEF RequestStep, LastWrite, ReqMarkAccepted, ReqMarkRejected, ReqMarkUnclear, ReqReset,
      ReqSaveDraft, ReqDelete, ReqClearAuto, ReqPush, ReqStartJob, DeleteComment
<1>5. ASSUME NEW w \in Workers, ThreadStep(w)
      PROVE  RejectDeletes(w) /\ HoldsAuto(w) /\ m.id = thr[w].cid
  <2>1. ~ (RcaPosts(w) \/ AcceptPosts(w) \/ RejectPosts(w))
    BY <1>1 DEF RcaPosts, AcceptPosts, RejectPosts
  <2>2. RejectDeletes(w)
    BY <1>5, <2>1 DEF ThreadStep, RcaStep, RejectStep, RcaSaves, RcaFails, RcaReadsTrigger,
        RcaRecords, RejectReads, RejectClears, RejectMarks, RejectClearsDraft, JobReadsVerdict,
        AcceptMarks, FixSaves, FixFails, JobFinishes, JobFails
  <2>3. QED
    BY <2>2 DEF RejectDeletes, DeleteComment, HoldsAuto, ThreadAt
<1>6. QED
  BY <1>2, <1>3, <1>4, <1>5 DEF Next

\* Every step keeps the invariant behind OnlyAutoPostsDeleted.
LEMMA DeleteStep ==
    ASSUME TypeOK, TypeOK', DeleteInv, IdsAccepted', [Next]_vars
    PROVE  DeleteInv'
<1>1. /\ posts \in Nat
      /\ row.auto_comment_id \in Nat
      /\ \A w \in Workers : thr[w].cid \in Nat
      /\ \A c \in Clients : req[c].cid \in Nat
  BY DEF TypeOK, Row, Thread, Request
<1>2. /\ posts' \in {posts, posts + 1}
      /\ \A m \in jira' : m \in jira \/ (m.id = posts + 1 /\ posts' = posts + 1)
  BY JiraMoves
<1>3. \A m \in jira' : m.id \in 1..posts'
  BY <1>1, <1>2 DEF DeleteInv
<1>4. \A m \in jira' : m.id = 0 => m.via = "auto"
  BY <1>1, <1>2, <1>3
<1>5. ASSUME NEW n \in Nat, n <= posts, NamesAuto(n)
      PROVE  \A m \in jira' : m.id = n => m.via = "auto"
  BY <1>5, NamesAutoKept DEF NamesAuto
<1>6. NamesAuto(row.auto_comment_id)'
  <2>1. CASE row'.auto_comment_id \in {0, row.auto_comment_id}
    BY <1>1, <1>4, <1>5, <2>1 DEF DeleteInv, IdsAccepted, NamesAuto
  <2>2. ASSUME NEW w \in Workers, RcaRecords(w), row'.auto_comment_id = thr[w].cid
        PROVE  NamesAuto(row.auto_comment_id)'
    <3>1. HoldsAuto(w)
      BY <2>2 DEF RcaRecords, HoldsAuto
    <3>2. QED
      BY <1>1, <1>5, <2>2, <3>1 DEF DeleteInv, IdsAccepted, NamesAuto
  <2>3. QED
    BY <2>1, <2>2, AutoCommentMoves
<1>7. ASSUME NEW c \in Clients
      PROVE  NamesAuto(req[c].cid)'
  <2>1. req'[c].cid \in {0, req[c].cid, row.auto_comment_id}
    BY RequestIdMoves
  <2>2. QED
    BY <1>1, <1>4, <1>5, <2>1 DEF DeleteInv, IdsAccepted, NamesAuto
<1>8. ASSUME NEW w \in Workers, HoldsAuto(w)'
      PROVE  NamesAuto(thr[w].cid)'
  <2>1. CASE HoldsAuto(w) /\ thr'[w].cid = thr[w].cid
    BY <1>1, <1>5, <2>1 DEF DeleteInv, IdsAccepted, NamesAuto
  <2>2. CASE thr'[w].cid = row.auto_comment_id
    BY <1>1, <1>5, <2>2 DEF DeleteInv, IdsAccepted, NamesAuto
  <2>3. ASSUME NEW m, thr'[w].cid = posts + 1, m.via = "auto", m.id = posts + 1,
               jira' = jira \cup {m}
        PROVE  NamesAuto(thr[w].cid)'
    BY <1>1, <2>3 DEF DeleteInv, NamesAuto
  <2>4. QED
    BY <1>8, <2>1, <2>2, <2>3, HoldsAutoSource
<1>9. QED
  BY <1>3, <1>6, <1>7, <1>8 DEF DeleteInv

\* The invariant behind OnlyAutoPostsDeleted holds in every reachable state.
LEMMA DeleteInvAlways == Spec => []DeleteInv
<1>1. Init => DeleteInv
  BY DEF Init, DeleteInv, IdsAccepted, NamesAuto, HoldsAuto, ThreadAt, FreshRow, NoReq, NoThread
<1>2. TypeOK /\ TypeOK' /\ WithdrawInv' /\ DeleteInv /\ [Next]_vars => DeleteInv'
  BY DeleteStep DEF WithdrawInv
<1>3. QED
  BY <1>1, <1>2, TypeCorrect, WithdrawInvAlways, PTL DEF Spec

\* The program takes off Jira only its own automatic comments, never a human's
\* RCA nor a post a human asked for, whatever requests and threads race.
THEOREM OnlyAutoPostsDeletedAlways == Spec => OnlyAutoPostsDeleted
<1>1. TypeOK /\ DeleteInv /\ [Next]_vars => [\A m \in jira \ jira' : m.via = "auto"]_vars
  BY DeletionSource DEF DeleteInv, NamesAuto
<1>2. QED
  BY <1>1, TypeCorrect, DeleteInvAlways, PTL DEF Spec, OnlyAutoPostsDeleted

-----------------------------------------------------------------------------
(* The comment the row names.  It is on Jira, or its deleter is about to     *)
(* clear the name; the deleter must neither lose Jira's answer nor be killed *)
(* in between.  The invariant knows of a thread that has posted and not yet  *)
(* recorded: its comment is on Jira, and nobody else holds its id.           *)

\* The environment kills no process and loses no answer of Jira: the
\* hypotheses of what follows.
NoRestarts == "restart" \notin Ops
NoLostAnswers == "lost" \notin JiraFaults

\* The comment thread w is about to record is known to no one else.
Unrecorded(w) ==
    /\ thr[w].cid # 0
    /\ \E m \in jira : m.id = thr[w].cid /\ m.via = "auto"
    /\ row.auto_comment_id # thr[w].cid
    /\ \A c \in Clients : req[c].cid # thr[w].cid
    /\ \A x \in Workers \ {w} : thr[x].cid # thr[w].cid

OnJiraInv ==
    /\ AutoCommentOnJira
    /\ \A w \in Workers : ThreadAt(w, "rca", "record") => Unrecorded(w)

\* A request about to clear the name stays, or clears it.
LEMMA RequestClears ==
    ASSUME NoRestarts, TypeOK, [Next]_vars, NEW c \in Clients, At(c, "clear_auto")
    PROVE  req'[c] = req[c] \/ row'.auto_comment_id = 0
<1>1. row \in Row /\ req \in [Clients -> Request] /\ req[c].pc = "clear_auto"
  BY DEF TypeOK, At
<1>2. CASE RequestStep(c)
  <2>1. ReqClearAuto(c)
    BY <1>1, <1>2 DEF RequestStep, LastWrite, ReqMarkAccepted, ReqMarkRejected, ReqMarkUnclear,
        ReqReset, ReqSaveDraft, ReqDelete, ReqPush, ReqStartJob, At
  <2>2. QED
    BY <1>1, <2>1 DEF ReqClearAuto, clear_auto_comment, Row
<1>3. ~ Request_begins(c)
  BY <1>1 DEF Request_begins, suggest_fix, raise_mr, reset, accept, accept_and_post, unclear,
      save_human_rca, reject, reject_local, Begin, NoReq
<1>4. ASSUME NEW d \in Clients \ {c}, Request_begins(d) \/ RequestStep(d)
      PROVE  req'[c] = req[c]
  <2>1. CASE RequestStep(d)
    BY <2>1, RequestMoves
  <2>2. CASE Request_begins(d)
    BY <1>1, <2>2 DEF Request_begins, suggest_fix, raise_mr, reset, accept, accept_and_post,
        unclear, save_human_rca, reject, reject_local, Begin
  <2>3. QED
    BY <1>4, <2>1, <2>2
<1>5. CASE \E w \in Workers : ThreadStep(w)
  BY <1>5, ThreadMoves
<1>6. CASE run_rca \/ auto_run \/ reject_fix \/ UNCHANGED vars
  BY <1>6 DEF run_rca, auto_run, reject_fix, vars
<1>7. ~ Restart
  BY DEF NoRestarts, Restart
<1>8. QED
  BY <1>2, <1>3, <1>4, <1>5, <1>6, <1>7 DEF Next

\* A step that is not the thread's own, and not a restart, leaves a busy thread.
LEMMA BusyThreadKept ==
    ASSUME NoRestarts, TypeOK, [Next]_vars, NEW w \in Workers, thr[w] # NoThread,
           ~ ThreadStep(w)
    PROVE  thr'[w] = thr[w]
<1>1. thr \in [Workers -> Thread]
  BY DEF TypeOK
<1>2. ASSUME NEW x \in Workers \ {w}, ThreadStep(x)
      PROVE  thr'[w] = thr[w]
  BY <1>2, ThreadMoves
<1>3. ASSUME NEW c \in Clients, Request_begins(c) \/ RequestStep(c)
      PROVE  thr'[w] = thr[w]
  BY <1>3, BeginMoves, RequestMoves
<1>4. CASE run_rca \/ auto_run
  BY <1>1, <1>4 DEF run_rca, auto_run, SpawnRca, Spawn
<1>5. CASE reject_fix \/ UNCHANGED vars
  BY <1>5 DEF reject_fix, vars
<1>6. ~ Restart
  BY DEF NoRestarts, Restart
<1>7. QED
  BY <1>2, <1>3, <1>4, <1>5, <1>6 DEF Next

\* A rejection about to clear the name stays, or clears it.
LEMMA RejectionClears ==
    ASSUME NoRestarts, TypeOK, [Next]_vars, NEW w \in Workers,
           ThreadAt(w, "reject", "clear_auto")
    PROVE  thr'[w] = thr[w] \/ row'.auto_comment_id = 0
<1>1. row \in Row /\ thr[w].kind = "reject" /\ thr[w].pc = "clear_auto" /\ thr[w] # NoThread
  BY DEF TypeOK, ThreadAt, NoThread
<1>2. CASE ThreadStep(w)
  <2>1. RejectClears(w)
    BY <1>1, <1>2 DEF ThreadStep, RcaStep, RejectStep, RcaSaves, RcaFails, RcaReadsTrigger,
        RcaPosts, RcaRecords, RejectReads, RejectDeletes, RejectPosts, RejectMarks,
        RejectClearsDraft, JobReadsVerdict, AcceptPosts, AcceptMarks, FixSaves, FixFails,
        JobFinishes, JobFails, ThreadAt
  <2>2. QED
    BY <1>1, <2>1 DEF RejectClears, clear_auto_comment, Row
<1>3. QED
  BY <1>1, <1>2, BusyThreadKept

\* A thread that has posted and not yet recorded was there before the step, or
\* has just had Jira's answer.
LEMMA RecordSource ==
    ASSUME TypeOK, [Next]_vars, NEW w \in Workers, ThreadAt(w, "rca", "record")'
    PROVE  \/ thr'[w] = thr[w]
           \/ /\ thr'[w].cid = posts + 1
              /\ \E m : m.via = "auto" /\ m.id = posts + 1 /\ jira' = jira \cup {m}
              /\ row' = row /\ req' = req
              /\ \A x \in Workers \ {w} : thr'[x] = thr[x]
<1>1. thr[w] \in Thread /\ thr \in [Workers -> Thread]
  BY DEF TypeOK
<1>2. thr'[w].kind = "rca" /\ thr'[w].pc = "record" /\ thr'[w] # NoThread
  BY DEF ThreadAt, NoThread
<1>3. CASE RcaPosts(w)
  <2>1. /\ AddComment("auto", thr[w].rca, NoText)
        /\ thr' = [thr EXCEPT ![w] = [@ EXCEPT !.pc = "record", !.cid = posts + 1]]
    BY <1>1, <1>2, <1>3 DEF RcaPosts, Post
  <2>2. thr'[w].cid = posts + 1 /\ \A x \in Workers \ {w} : thr'[x] = thr[x]
    BY <1>1, <2>1 DEF Thread
  <2>3. \E m : m.via = "auto" /\ m.id = posts + 1 /\ jira' = jira \cup {m}
    BY <2>1 DEF AddComment
  <2>4. QED
    BY <1>3, <2>2, <2>3 DEF RcaPosts
<1>4. CASE run_rca \/ auto_run
  <2>1. PICK x \in Workers, source \in {"manual", "auto"} : SpawnRca(x, source)
    BY <1>4 DEF run_rca, auto_run
  <2>2. thr'[x].pc = "investigate" /\ \A y \in Workers \ {x} : thr'[y] = thr[y]
    BY <1>1, <2>1 DEF SpawnRca, Spawn, NoThread
  <2>3. QED
    BY <1>2, <2>2
<1>5. QED
  BY <1>2, <1>3, <1>4, RunMoves

\* A deletion leaves its author about to clear the name, where no answer is lost.
LEMMA DeleterClears ==
    ASSUME NoLostAnswers, TypeOK, [Next]_vars, NEW m \in jira \ jira'
    PROVE  \/ \E c \in Clients : /\ At(c, "clear_auto")'
                                 /\ req'[c].cid = req[c].cid /\ m.id = req[c].cid
           \/ \E w \in Workers : /\ ThreadAt(w, "reject", "clear_auto")' /\ ~ RcaRecords(w)
                                 /\ thr'[w].cid = thr[w].cid /\ m.id = thr[w].cid
                                 /\ ~ ThreadAt(w, "rca", "record")
<1>1. req \in [Clients -> Request] /\ thr \in [Workers -> Thread]
  BY DEF TypeOK
<1>2. ASSUME NEW c \in Clients, ReqDelete(c)
      PROVE  At(c, "clear_auto")' /\ req'[c].cid = req[c].cid
  <2>1. Continue(c, "clear_auto")
    BY <1>2 DEF ReqDelete, NoLostAnswers
  <2>2. QED
    BY <1>1, <2>1 DEF Continue, At, Request
<1>3. ASSUME NEW w \in Workers, RejectDeletes(w)
      PROVE  /\ ThreadAt(w, "reject", "clear_auto")' /\ thr'[w].cid = thr[w].cid
             /\ ~ RcaRecords(w) /\ ~ ThreadAt(w, "rca", "record")
  <2>1. GoTo(w, "clear_auto") /\ thr[w].kind = "reject"
    BY <1>3 DEF RejectDeletes, NoLostAnswers, ThreadAt
  <2>2. QED
    BY <1>1, <2>1 DEF GoTo, ThreadAt, Thread, RcaRecords
<1>4. QED
  BY <1>2, <1>3, DeletionSource

\* A thread keeps the comment it has posted to itself until it records it.
LEMMA UnrecordedStep ==
    ASSUME NoLostAnswers, TypeOK, TypeOK', IdsAccepted, OnJiraInv, [Next]_vars,
           NEW w \in Workers, ThreadAt(w, "rca", "record")'
    PROVE  Unrecorded(w)'
<1>1. /\ posts \in Nat
      /\ row.auto_comment_id \in Nat
      /\ \A x \in Workers : thr[x].cid \in Nat
      /\ \A c \in Clients : req[c].cid \in Nat
  BY DEF TypeOK, Row, Thread, Request
<1>2. CASE thr'[w] = thr[w]
  <2>1. Unrecorded(w) /\ ThreadAt(w, "rca", "record")
    BY <1>2 DEF ThreadAt, OnJiraInv
  <2>2. thr[w].cid # 0 /\ thr[w].cid <= posts
    BY <2>1 DEF Unrecorded, IdsAccepted
  <2>3. \E m \in jira' : m.id = thr[w].cid /\ m.via = "auto"
    <3>1. PICK m \in jira : m.id = thr[w].cid /\ m.via = "auto"
      BY <2>1 DEF Unrecorded
    <3>2. m \in jira'
      BY <2>1, <3>1, DeleterClears DEF Unrecorded
    <3>3. QED
      BY <3>1, <3>2
  <2>4. row'.auto_comment_id # thr[w].cid
    <3>1. ~ RcaRecords(w)
      <4>1. NoThread.kind = "none" /\ thr \in [Workers -> Thread]
        BY DEF NoThread, TypeOK
      <4>2. QED
        BY <1>2, <2>1, <4>1 DEF RcaRecords, ThreadEnds, ThreadAt
    <3>2. QED
      BY <2>1, <2>2, <3>1, AutoCommentMoves DEF Unrecorded
  <2>5. ASSUME NEW c \in Clients
        PROVE  req'[c].cid # thr[w].cid
    BY <2>1, <2>2, RequestIdMoves DEF Unrecorded
  <2>6. ASSUME NEW x \in Workers \ {w}
        PROVE  thr'[x].cid # thr[w].cid
    BY <1>1, <2>1, <2>2, ThreadIdMoves DEF Unrecorded
  <2>7. QED
    BY <1>2, <2>2, <2>3, <2>4, <2>5, <2>6 DEF Unrecorded
<1>3. ASSUME thr'[w].cid = posts + 1,
             \E m : m.via = "auto" /\ m.id = posts + 1 /\ jira' = jira \cup {m},
             row' = row, req' = req,
             \A x \in Workers \ {w} : thr'[x] = thr[x]
      PROVE  Unrecorded(w)'
  <2>1. /\ row'.auto_comment_id # thr'[w].cid
        /\ \A c \in Clients : req'[c].cid # thr'[w].cid
        /\ \A x \in Workers \ {w} : thr'[x].cid # thr'[w].cid
    BY <1>1, <1>3 DEF IdsAccepted
  <2>2. thr'[w].cid # 0 /\ \E m \in jira' : m.id = thr'[w].cid /\ m.via = "auto"
    BY <1>1, <1>3
  <2>3. QED
    BY <2>1, <2>2 DEF Unrecorded
<1>4. QED
  BY <1>2, <1>3, RecordSource

\* Every step keeps the invariant behind AutoCommentOnJira.
LEMMA OnJiraStep ==
    ASSUME NoRestarts, NoLostAnswers, TypeOK, TypeOK', IdsAccepted, OnJiraInv, [Next]_vars
    PROVE  OnJiraInv'
<1> DEFINE n == row.auto_comment_id
<1>1. ASSUME row'.auto_comment_id # 0
      PROVE  \/ \E m \in jira' : m.id = row'.auto_comment_id /\ m.via = "auto"
             \/ \E c \in Clients : At(c, "clear_auto")' /\ req'[c].cid = row'.auto_comment_id
             \/ \E w \in Workers : /\ ThreadAt(w, "reject", "clear_auto")'
                                   /\ thr'[w].cid = row'.auto_comment_id
  <2>1. ASSUME NEW w \in Workers, RcaRecords(w), row'.auto_comment_id = thr[w].cid
        PROVE  \E m \in jira' : m.id = row'.auto_comment_id /\ m.via = "auto"
    BY <2>1 DEF RcaRecords, OnJiraInv, Unrecorded
  <2>2. CASE row'.auto_comment_id = n
    <3>1. CASE \E m \in jira : m.id = n /\ m.via = "auto"
      <4>1. PICK m \in jira : m.id = n /\ m.via = "auto"
        BY <3>1
      <4>2. CASE m \in jira'
        BY <2>2, <4>1, <4>2
      <4>3. CASE m \in jira \ jira'
        BY <2>2, <4>1, <4>3, DeleterClears
      <4>4. QED
        BY <4>2, <4>3
    <3>2. ASSUME NEW c \in Clients, At(c, "clear_auto"), req[c].cid = n
          PROVE  At(c, "clear_auto")' /\ req'[c].cid = row'.auto_comment_id
      BY <1>1, <2>2, <3>2, RequestClears DEF At
    <3>3. ASSUME NEW w \in Workers, ThreadAt(w, "reject", "clear_auto"), thr[w].cid = n
          PROVE  ThreadAt(w, "reject", "clear_auto")' /\ thr'[w].cid = row'.auto_comment_id
      BY <1>1, <2>2, <3>3, RejectionClears DEF ThreadAt
    <3>4. \/ \E m \in jira : m.id = n /\ m.via = "auto"
          \/ \E c \in Clients : At(c, "clear_auto") /\ req[c].cid = n
          \/ \E w \in Workers : ThreadAt(w, "reject", "clear_auto") /\ thr[w].cid = n
      BY <1>1, <2>2 DEF OnJiraInv, AutoCommentOnJira
    <3>5. QED
      BY <3>1, <3>2, <3>3, <3>4
  <2>3. QED
    BY <1>1, <2>1, <2>2, AutoCommentMoves
<1>2. QED
  BY <1>1, UnrecordedStep DEF OnJiraInv, AutoCommentOnJira

LEMMA OnJiraInvAlways ==
    ASSUME NoRestarts, NoLostAnswers
    PROVE  Spec => []OnJiraInv
<1>1. Init => OnJiraInv
  BY DEF Init, OnJiraInv, AutoCommentOnJira, FreshRow, ThreadAt, NoThread
<1>2. TypeOK /\ TypeOK' /\ WithdrawInv /\ OnJiraInv /\ [Next]_vars => OnJiraInv'
  BY OnJiraStep DEF WithdrawInv
<1>3. QED
  BY <1>1, <1>2, TypeCorrect, WithdrawInvAlways, PTL DEF Spec

\* With no restart and no lost answer, the automatic comment the row names is
\* on Jira, or whoever deleted it is about to clear the name: for any number of
\* requests, runs, posts, re-runs and resets at once.
THEOREM AutoCommentAlwaysOnJira ==
    ASSUME NoRestarts, NoLostAnswers
    PROVE  Spec => []AutoCommentOnJira
<1>1. OnJiraInv => AutoCommentOnJira
  BY DEF OnJiraInv
<1>2. QED
  BY <1>1, OnJiraInvAlways, PTL

-----------------------------------------------------------------------------
(* The comment of an accepted ticket.  With one reviewer, no reset, no       *)
(* restart and no lost answer it is on Jira.  An accepted ticket may be      *)
(* withdrawn from only while it names a comment no withdrawal can take off:  *)
(* the post of an accept that overtook the rejection.                        *)

OneReviewer == \A c, d \in Clients : c = d

\* A reject is under way: its request or its thread.
Rejecting ==
    \/ \E c \in Clients : req[c].op \in {"reject", "reject_local"}
    \/ \E w \in Workers : thr[w].kind = "reject"

\* The pcs of the requests that delete, start a thread or accept.
RequestPcs(c) ==
    /\ At(c, "start_job") => req[c].op \in {"suggest_fix", "accept_and_post", "reject"}
    /\ At(c, "delete") => req[c].op = "reject_local"
    /\ At(c, "mark_accepted") => req[c].op \in {"accept", "accept_and_post"}

OnJira(n) == \E m \in jira : m.id = n

AcceptPosted(n) == \E m \in jira : m.id = n /\ m.via = "accept"

\* An accept under way: nothing is being rejected, and its comment is on Jira.
Accepting(c) ==
    /\ req[c].cid # 0 => OnJira(req[c].cid)
    /\ \A w \in Workers : thr[w].kind # "reject"

AcceptInv ==
    /\ AcceptedOnJira
    /\ \A c \in Clients : RequestPcs(c)
    /\ \A c \in Clients : At(c, "mark_accepted") => Accepting(c)
    /\ \A w \in Workers : ThreadAt(w, "accept_post", "mark") => AcceptPosted(thr[w].cid)
    /\ Rejecting /\ row.status = "accepted" /\ row.comment_id # 0
          => AcceptPosted(row.comment_id)

\* Where a request comes from.
LEMMA RequestSource ==
    ASSUME TypeOK, [Next]_vars, NEW c \in Clients
    PROVE  \/ req'[c] = req[c]
           \/ req'[c] = NoReq
           \/ Request_begins(c)
           \/ /\ req'[c].op = req[c].op /\ req'[c].cid = req[c].cid
              /\ req'[c].pc \in {"clear_auto", "save_draft", "mark_rejected", "update"}
<1>1. req \in [Clients -> Request]
  BY DEF TypeOK
<1>2. CASE RequestStep(c)
  <2>1. Respond(c) => req'[c] = NoReq
    BY <1>1 DEF Respond
  <2>2. ASSUME NEW pc \in {"clear_auto", "save_draft", "mark_rejected", "update"},
               Continue(c, pc)
        PROVE  /\ req'[c].op = req[c].op /\ req'[c].cid = req[c].cid
               /\ req'[c].pc = pc
    BY <1>1, <2>2 DEF Continue, Request
  <2>3. CASE ReqSaveDraft(c) \/ ReqClearAuto(c) \/ ReqDelete(c)
    BY <2>1, <2>2, <2>3 DEF ReqSaveDraft, ReqClearAuto, ReqDelete, AfterWithdraw
  <2>4. CASE ~ (ReqSaveDraft(c) \/ ReqClearAuto(c) \/ ReqDelete(c))
    BY <1>2, <2>1, <2>4 DEF RequestStep, LastWrite, ReqMarkAccepted, ReqMarkRejected,
        ReqMarkUnclear, ReqReset, ReqPush, ReqStartJob
  <2>5. QED
    BY <2>3, <2>4
<1>3. ASSUME NEW d \in Clients \ {c}, Request_begins(d) \/ RequestStep(d)
      PROVE  req'[c] = req[c]
  <2>1. CASE RequestStep(d)
    BY <2>1, RequestMoves
  <2>2. CASE Request_begins(d)
    BY <1>1, <2>2 DEF Request_begins, suggest_fix, raise_mr, reset, accept, accept_and_post,
        unclear, save_human_rca, reject, reject_local, Begin
  <2>3. QED
    BY <1>3, <2>1, <2>2
<1>4. CASE \E w \in Workers : ThreadStep(w)
  BY <1>4, ThreadMoves
<1>5. CASE run_rca \/ auto_run \/ reject_fix \/ Restart \/ UNCHANGED vars
  BY <1>1, <1>5 DEF run_rca, auto_run, reject_fix, Restart, vars
<1>6. QED
  BY <1>2, <1>3, <1>4, <1>5 DEF Next

\* What a request is once its tests have let it through.
LEMMA BeginSource ==
    ASSUME TypeOK, NEW c \in Clients, Request_begins(c), NoResets
    PROVE  /\ req[c] = NoReq /\ UNCHANGED <<row, jira, thr>>
           /\ req'[c].op \in {"reject", "reject_local"} => row.status # "accepted"
           /\ RequestPcs(c)'
           /\ At(c, "mark_accepted")' => NotPosting /\ req'[c].cid = row.auto_comment_id
<1>1. req \in [Clients -> Request]
  BY DEF TypeOK
<1> DEFINE Facts == /\ req[c] = NoReq /\ UNCHANGED <<row, jira, thr>>
                    /\ req'[c].op \in {"reject", "reject_local"} => row.status # "accepted"
                    /\ RequestPcs(c)'
                    /\ At(c, "mark_accepted")' => NotPosting /\ req'[c].cid = row.auto_comment_id
<1>2. ASSUME NEW op, NEW pc, NEW cid, NEW fix, NEW text, Begin(c, op, pc, cid, fix, text)
      PROVE  /\ req[c] = NoReq /\ UNCHANGED <<row, jira, thr>> /\ op \in Ops
             /\ req'[c].op = op /\ req'[c].pc = pc /\ req'[c].cid = cid
  BY <1>1, <1>2 DEF Begin
<1>3. CASE suggest_fix(c)
  BY <1>2, <1>3 DEF suggest_fix, RequestPcs, At
<1>4. CASE raise_mr(c)
  BY <1>2, <1>4 DEF raise_mr, RequestPcs, At
<1>5. CASE accept(c)
  BY <1>2, <1>5 DEF accept, RequestPcs, At
<1>6. CASE accept_and_post(c)
  BY <1>2, <1>6 DEF accept_and_post, RequestPcs, At
<1>7. CASE unclear(c)
  BY <1>2, <1>7 DEF unclear, RequestPcs, At
<1>8. ~ reset(c)
  BY <1>2 DEF reset, NoResets
<1>9. ASSUME NEW text, save_human_rca(c, text)
      PROVE  Facts
  BY <1>2, <1>9 DEF save_human_rca, RequestPcs, At
<1>10. ASSUME NEW text, reject(c, text)
       PROVE  Facts
  <2>1. row.status # "accepted"
    BY <1>10 DEF reject, NotDecided, DECIDED_STATUSES
  <2>2. QED
    BY <1>2, <1>10, <2>1 DEF reject, RequestPcs, At
<1>11. ASSUME NEW text, reject_local(c, text)
       PROVE  Facts
  <2>1. row.status # "accepted"
    BY <1>11 DEF reject_local, MayDecide, NotDecided, DECIDED_STATUSES
  <2>2. PICK pc \in {"delete", "mark_rejected", "save_draft"} :
           Begin(c, "reject_local", pc, row.auto_comment_id, 0, text)
    BY <1>11 DEF reject_local, AfterWithdraw
  <2>3. QED
    BY <1>2, <2>1, <2>2 DEF RequestPcs, At
<1>12. QED
  BY <1>3, <1>4, <1>5, <1>6, <1>7, <1>8, <1>9, <1>10, <1>11 DEF Request_begins

\* Who may leave a ticket accepted, with which comment.
LEMMA AcceptedMoves ==
    ASSUME TypeOK, [Next]_vars, row'.status = "accepted"
    PROVE  \/ row.status = "accepted" /\ row'.comment_id = row.comment_id
           \/ \E c \in Clients : ReqMarkAccepted(c) /\ row'.comment_id = req[c].cid
           \/ \E w \in Workers : AcceptMarks(w) /\ row'.comment_id = thr[w].cid
<1>1. row \in Row
  BY DEF TypeOK
<1>2. CASE run_rca \/ auto_run \/ reject_fix \/ Restart \/ UNCHANGED vars
  BY <1>1, <1>2 DEF run_rca, auto_run, reject_fix, Restart, vars, claim_running, claim_auto_run,
      clear_fix, init_db, Row
<1>3. ASSUME NEW c \in Clients, Request_begins(c)
      PROVE  row' = row
  BY <1>3, BeginMoves
<1>4. ASSUME NEW c \in Clients, RequestStep(c)
      PROVE  \/ row.status = "accepted" /\ row'.comment_id = row.comment_id
             \/ ReqMarkAccepted(c) /\ row'.comment_id = req[c].cid
  <2>1. CASE ReqMarkAccepted(c)
    BY <1>1, <2>1 DEF ReqMarkAccepted, LastWrite, mark_accepted, Row
  <2>2. ~ (ReqMarkRejected(c) \/ ReqMarkUnclear(c) \/ ReqReset(c))
    BY <1>1 DEF ReqMarkRejected, ReqMarkUnclear, ReqReset, LastWrite, mark_rejected,
        mark_unclear, reset_row, Row
  <2>3. CASE ReqSaveDraft(c) \/ ReqClearAuto(c) \/ ReqPush(c) \/ ReqDelete(c) \/ ReqStartJob(c)
    BY <1>1, <2>3 DEF ReqSaveDraft, ReqClearAuto, ReqPush, ReqDelete, ReqStartJob,
        save_human_rca_draft, clear_auto_comment, save_fix, start_job, Row
  <2>4. QED
    BY <1>4, <2>1, <2>2, <2>3 DEF RequestStep
<1>5. ASSUME NEW w \in Workers, ThreadStep(w)
      PROVE  \/ row.status = "accepted" /\ row'.comment_id = row.comment_id
             \/ AcceptMarks(w) /\ row'.comment_id = thr[w].cid
  <2>1. CASE RcaStep(w)
    BY <1>1, <2>1 DEF RcaStep, RcaSaves, RcaFails, RcaReadsTrigger, RcaPosts, RcaRecords,
        save_rca, mark_failed, set_auto_comment, Row
  <2>2. CASE RejectStep(w)
    BY <1>1, <2>2 DEF RejectStep, RejectReads, RejectDeletes, RejectClears, RejectPosts,
        RejectMarks, RejectClearsDraft, clear_auto_comment, mark_rejected,
        clear_human_rca_draft, Row
  <2>3. CASE AcceptMarks(w)
    BY <1>1, <2>3 DEF AcceptMarks, mark_accepted, Row
  <2>4. CASE JobReadsVerdict(w) \/ AcceptPosts(w) \/ FixSaves(w) \/ FixFails(w)
             \/ JobFinishes(w) \/ JobFails(w)
    BY <1>1, <2>4 DEF JobReadsVerdict, AcceptPosts, FixSaves, FixFails, JobFinishes, JobFails,
        save_fix, finish_job, fail_job, Row
  <2>5. QED
    BY <1>5, <2>1, <2>2, <2>3, <2>4 DEF ThreadStep
<1>6. QED
  BY <1>2, <1>3, <1>4, <1>5 DEF Next

\* A thread that rejects was rejecting, or a request starts it.
LEMMA RejectionSource ==
    ASSUME TypeOK, [Next]_vars, NEW w \in Workers, thr'[w].kind = "reject"
    PROVE  \/ thr[w].kind = "reject"
           \/ \E c \in Clients : At(c, "start_job") /\ KindOf(req[c].op) = "reject"
<1>1. thr \in [Workers -> Thread] /\ "reject" \in JobKinds
  BY DEF TypeOK, JobKinds
<1>2. NoThread.kind # "reject"
  BY DEF NoThread
<1>3. CASE ThreadStep(w)
  <2>1. CASE JobFinishes(w) \/ JobFails(w)
    BY <1>1, <1>2, <2>1 DEF JobFinishes, JobFails, ThreadEnds
  <2>2. CASE ~ (JobFinishes(w) \/ JobFails(w))
    BY <1>1, <1>3, <2>2, ThreadKeepsJobs DEF KeepsJobs, WorksOnJob
  <2>3. QED
    BY <2>1, <2>2
<1>4. ASSUME NEW x \in Workers \ {w}, ThreadStep(x)
      PROVE  thr'[w] = thr[w]
  BY <1>4, ThreadMoves
<1>5. ASSUME NEW c \in Clients, RequestStep(c)
      PROVE  thr'[w] = thr[w] \/ (At(c, "start_job") /\ KindOf(req[c].op) = "reject")
  <2>1. CASE ReqStartJob(c)
    <3>1. \A kind, text : JobThread(kind, text).kind = kind
      BY DEF JobThread, NoThread
    <3>2. QED
      BY <1>1, <2>1, <3>1 DEF ReqStartJob, Spawn
  <2>2. CASE ~ ReqStartJob(c)
    BY <1>5, <2>2 DEF RequestStep, LastWrite, ReqMarkAccepted, ReqMarkRejected, ReqMarkUnclear,
        ReqReset, ReqSaveDraft, ReqDelete, ReqClearAuto, ReqPush
  <2>3. QED
    BY <2>1, <2>2
<1>6. ASSUME NEW c \in Clients, Request_begins(c)
      PROVE  thr' = thr
  BY <1>6, BeginMoves
<1>7. CASE run_rca \/ auto_run
  <2>1. PICK x \in Workers, source \in {"manual", "auto"} : SpawnRca(x, source)
    BY <1>7 DEF run_rca, auto_run
  <2>2. thr'[x].kind = "rca" /\ \A y \in Workers \ {x} : thr'[y] = thr[y]
    BY <1>1, <2>1 DEF SpawnRca, Spawn, NoThread
  <2>3. QED
    BY <2>2
<1>8. CASE reject_fix \/ UNCHANGED vars
  BY <1>8 DEF reject_fix, vars
<1>9. ~ Restart
  BY <1>2 DEF Restart
<1>10. QED
  BY <1>3, <1>4, <1>5, <1>6, <1>7, <1>8, <1>9 DEF Next

\* A thread about to mark the ticket accepted was there before the step, or has
\* just had Jira's answer.
LEMMA AcceptMarkSource ==
    ASSUME TypeOK, [Next]_vars, NEW w \in Workers, ThreadAt(w, "accept_post", "mark")'
    PROVE  \/ thr'[w] = thr[w]
           \/ /\ thr'[w].cid = posts + 1
              /\ \E m : m.via = "accept" /\ m.id = posts + 1 /\ jira' = jira \cup {m}
<1>1. thr[w] \in Thread /\ thr \in [Workers -> Thread]
  BY DEF TypeOK
<1>2. thr'[w].kind = "accept_post" /\ thr'[w].pc = "mark" /\ thr'[w] # NoThread
  BY DEF ThreadAt, NoThread
<1>3. ASSUME NEW pc, GoTo(w, pc)
      PROVE  thr'[w].kind = thr[w].kind /\ thr'[w].pc = pc
  BY <1>1, <1>3 DEF GoTo, Thread
<1>4. ~ ThreadEnds(w)
  BY <1>1, <1>2 DEF ThreadEnds
<1>5. CASE ThreadStep(w)
  <2>1. CASE AcceptPosts(w)
    <3>1. [thr[w] EXCEPT !.pc = "fail"].pc = "fail"
      BY <1>1 DEF Thread
    <3>2. /\ AddComment("accept", thr[w].rca, NoText)
          /\ thr' = [thr EXCEPT ![w] = [@ EXCEPT !.pc = "mark", !.cid = posts + 1]]
      BY <1>1, <1>2, <2>1, <3>1 DEF AcceptPosts, Post
    <3>3. thr'[w].cid = posts + 1
      BY <1>1, <3>2 DEF Thread
    <3>4. \E m : m.via = "accept" /\ m.id = posts + 1 /\ jira' = jira \cup {m}
      BY <3>2 DEF AddComment
    <3>5. QED
      BY <3>3, <3>4
  <2>2. thr[w].kind = "accept_post"
    <3>1. CASE JobFinishes(w) \/ JobFails(w)
      BY <1>4, <3>1 DEF JobFinishes, JobFails
    <3>2. CASE ~ (JobFinishes(w) \/ JobFails(w))
      BY <1>2, <1>5, <3>2, ThreadKeepsJobs DEF KeepsJobs, WorksOnJob, JobKinds
    <3>3. QED
      BY <3>1, <3>2
  <2>3. ~ RcaStep(w) /\ ~ RejectStep(w) /\ ~ FixSaves(w) /\ ~ FixFails(w)
    BY <2>2 DEF RcaStep, RcaSaves, RcaFails, RcaReadsTrigger, RcaPosts, RcaRecords, RejectStep,
        RejectReads, RejectDeletes, RejectClears, RejectPosts, RejectMarks, RejectClearsDraft,
        FixSaves, FixFails, ThreadAt
  <2>4. ~ (JobFinishes(w) \/ JobFails(w) \/ AcceptMarks(w))
    BY <1>2, <1>3, <1>4 DEF JobFinishes, JobFails, AcceptMarks
  <2>5. ~ JobReadsVerdict(w)
    <3>1. \A n, pc : [thr[w] EXCEPT !.rca = n, !.pc = pc].pc = pc
      BY <1>1 DEF Thread
    <3>2. QED
      BY <1>1, <1>2, <3>1 DEF JobReadsVerdict
  <2>6. QED
    BY <1>5, <2>1, <2>3, <2>4, <2>5 DEF ThreadStep
<1>6. ASSUME NEW x \in Workers \ {w}, ThreadStep(x)
      PROVE  thr'[w] = thr[w]
  BY <1>6, ThreadMoves
<1>7. ASSUME NEW c \in Clients, Request_begins(c) \/ RequestStep(c)
      PROVE  thr'[w] = thr[w]
  <2>1. CASE Request_begins(c)
    BY <2>1, BeginMoves
  <2>2. CASE ReqStartJob(c)
    <3>1. \A kind, text : JobThread(kind, text).pc = "read"
      BY DEF JobThread, NoThread
    <3>2. QED
      BY <1>1, <1>2, <2>2, <3>1 DEF ReqStartJob, Spawn
  <2>3. CASE RequestStep(c) /\ ~ ReqStartJob(c)
    BY <2>3 DEF RequestStep, LastWrite, ReqMarkAccepted, ReqMarkRejected, ReqMarkUnclear,
        ReqReset, ReqSaveDraft, ReqDelete, ReqClearAuto, ReqPush
  <2>4. QED
    BY <1>7, <2>1, <2>2, <2>3
<1>8. CASE run_rca \/ auto_run
  <2>1. PICK x \in Workers, source \in {"manual", "auto"} : SpawnRca(x, source)
    BY <1>8 DEF run_rca, auto_run
  <2>2. thr'[x].kind = "rca" /\ \A y \in Workers \ {x} : thr'[y] = thr[y]
    BY <1>1, <2>1 DEF SpawnRca, Spawn, NoThread
  <2>3. QED
    BY <1>2, <2>2
<1>9. CASE reject_fix \/ UNCHANGED vars
  BY <1>9 DEF reject_fix, vars
<1>10. ~ Restart
  BY <1>2 DEF Restart
<1>11. QED
  BY <1>5, <1>6, <1>7, <1>8, <1>9, <1>10 DEF Next

\* Every step keeps the invariant behind AcceptedOnJira.
LEMMA AcceptStep ==
    ASSUME OneReviewer, NoResets, TypeOK, NoResetPending, SlotInv, DeleteInv, OnJiraInv,
           AcceptInv, [Next]_vars
    PROVE  AcceptInv'
<1>1. ASSUME NEW n, AcceptPosted(n)
      PROVE  \E m \in jira' : m.id = n /\ m.via = "accept"
  <2>1. PICK m \in jira : m.id = n /\ m.via = "accept"
    BY <1>1 DEF AcceptPosted
  <2>2. m \in jira'
    BY <2>1, DeletionSource DEF DeleteInv, NamesAuto
  <2>3. QED
    BY <2>1, <2>2
<1>2. ASSUME NEW m \in jira \ jira'
      PROVE  Rejecting /\ \A c \in Clients : ~ At(c, "mark_accepted")
  <2>1. ASSUME NEW c \in Clients, ReqDelete(c)
        PROVE  Rejecting /\ \A d \in Clients : ~ At(d, "mark_accepted")
    <3>1. At(c, "delete") /\ req[c].op = "reject_local"
      BY <2>1 DEF ReqDelete, AcceptInv, RequestPcs
    <3>2. \A d \in Clients : d = c
      BY DEF OneReviewer
    <3>3. QED
      BY <3>1, <3>2 DEF At, Rejecting
  <2>2. ASSUME NEW w \in Workers, RejectDeletes(w)
        PROVE  Rejecting /\ \A d \in Clients : ~ At(d, "mark_accepted")
    BY <2>2 DEF RejectDeletes, ThreadAt, Rejecting, AcceptInv, Accepting
  <2>3. QED
    BY <2>1, <2>2, DeletionSource
<1>3. ASSUME NEW c \in Clients
      PROVE  RequestPcs(c)'
  <2>1. CASE req'[c] = req[c]
    BY <2>1 DEF AcceptInv, RequestPcs, At
  <2>2. CASE req'[c] = NoReq
    BY <2>2 DEF RequestPcs, At, NoReq
  <2>3. CASE req'[c].pc \in {"clear_auto", "save_draft", "mark_rejected", "update"}
    BY <2>3 DEF RequestPcs, At
  <2>4. QED
    BY <2>1, <2>2, <2>3, RequestSource, BeginSource
<1>4. ASSUME NEW c \in Clients, At(c, "mark_accepted")'
      PROVE  Accepting(c)'
  <2>1. CASE req'[c] = req[c]
    <3>1. At(c, "mark_accepted") /\ Accepting(c)
      BY <1>4, <2>1 DEF At, AcceptInv
    <3>2. req'[c].cid # 0 => \E m \in jira' : m.id = req'[c].cid
      BY <1>2, <2>1, <3>1 DEF Accepting, OnJira
    <3>3. \A w \in Workers : thr'[w].kind # "reject"
      BY <3>1, RejectionSource DEF Accepting, At, OneReviewer
    <3>4. QED
      BY <3>2, <3>3 DEF Accepting, OnJira
  <2>2. CASE Request_begins(c)
    <3>1. /\ req[c] = NoReq /\ UNCHANGED <<row, jira, thr>>
          /\ NotPosting /\ req'[c].cid = row.auto_comment_id
      BY <1>4, <2>2, BeginSource
    <3>2. \A w \in Workers : thr[w].kind # "reject"
      BY <3>1 DEF NotPosting, SlotInv, WorksOnJob, JobKinds
    <3>3. row.auto_comment_id # 0 => \E m \in jira : m.id = row.auto_comment_id
      <4>1. \A d \in Clients : ~ At(d, "clear_auto")
        BY <3>1 DEF At, NoReq, OneReviewer
      <4>2. QED
        BY <3>2, <4>1 DEF OnJiraInv, AutoCommentOnJira, ThreadAt
    <3>4. QED
      BY <3>1, <3>2, <3>3 DEF Accepting, OnJira
  <2>3. QED
    BY <1>4, <2>1, <2>2, RequestSource DEF At, NoReq
<1>5. ASSUME NEW w \in Workers, ThreadAt(w, "accept_post", "mark")'
      PROVE  AcceptPosted(thr[w].cid)'
  <2>1. CASE thr'[w] = thr[w]
    BY <1>1, <1>5, <2>1 DEF ThreadAt, AcceptInv, AcceptPosted
  <2>2. CASE /\ thr'[w].cid = posts + 1
             /\ \E m : m.via = "accept" /\ m.id = posts + 1 /\ jira' = jira \cup {m}
    BY <2>2 DEF AcceptPosted
  <2>3. QED
    BY <1>5, <2>1, <2>2, AcceptMarkSource
<1>6. ASSUME row'.status = "accepted", row'.comment_id # 0
      PROVE  /\ \E m \in jira' : m.id = row'.comment_id
             /\ Rejecting' => \E m \in jira' : m.id = row'.comment_id /\ m.via = "accept"
  <2>1. ASSUME NEW c \in Clients, ReqMarkAccepted(c), row'.comment_id = req[c].cid
        PROVE  (\E m \in jira' : m.id = row'.comment_id) /\ ~ Rejecting'
    <3>1. Accepting(c) /\ jira' = jira /\ thr' = thr
      BY <2>1 DEF ReqMarkAccepted, LastWrite, AcceptInv
    <3>2. \A d \in Clients : req'[d].op = "none"
      BY <2>1 DEF ReqMarkAccepted, LastWrite, Respond, NoReq, OneReviewer, TypeOK
    <3>3. QED
      BY <1>6, <2>1, <3>1, <3>2 DEF Accepting, OnJira, Rejecting
  <2>2. ASSUME NEW w \in Workers, AcceptMarks(w), row'.comment_id = thr[w].cid
        PROVE  \E m \in jira' : m.id = row'.comment_id /\ m.via = "accept"
    BY <2>2 DEF AcceptMarks, AcceptInv, AcceptPosted
  <2>3. CASE row.status = "accepted" /\ row'.comment_id = row.comment_id
    <3>1. CASE Rejecting
      BY <1>1, <1>6, <2>3, <3>1 DEF AcceptInv
    <3>2. CASE ~ Rejecting
      <4>1. \E m \in jira' : m.id = row'.comment_id
        BY <1>2, <1>6, <2>3, <3>2 DEF AcceptInv, AcceptedOnJira
      <4>2. ~ Rejecting'
        <5>1. ASSUME NEW c \in Clients
              PROVE  req'[c].op \notin {"reject", "reject_local"}
          BY <2>3, <3>2, RequestSource, BeginSource DEF Rejecting, NoReq
        <5>2. ASSUME NEW w \in Workers
              PROVE  thr'[w].kind # "reject"
          BY <3>2, RejectionSource DEF Rejecting, AcceptInv, RequestPcs, KindOf
        <5>3. QED
          BY <5>1, <5>2 DEF Rejecting
      <4>3. QED
        BY <4>1, <4>2
    <3>3. QED
      BY <3>1, <3>2
  <2>4. QED
    BY <1>6, <2>1, <2>2, <2>3, AcceptedMoves
<1>7. QED
  BY <1>3, <1>4, <1>5, <1>6 DEF AcceptInv, AcceptedOnJira, AcceptPosted

\* With one reviewer, no reset, no restart and no lost answer, an accepted
\* ticket that names a comment names one that is on Jira, whatever its runs,
\* posts and withdrawals do in the background.
THEOREM AcceptedAlwaysOnJira ==
    ASSUME OneReviewer, NoResets, NoRestarts, NoLostAnswers
    PROVE  Spec => []AcceptedOnJira
<1>1. Init => AcceptInv
  BY DEF Init, AcceptInv, AcceptedOnJira, RequestPcs, Rejecting, FreshRow, NoReq, NoThread, At,
      ThreadAt
<1>2. TypeOK /\ NoResetPending /\ SlotInv /\ DeleteInv /\ OnJiraInv /\ AcceptInv /\ [Next]_vars
        => AcceptInv'
  BY AcceptStep
<1>3. AcceptInv => AcceptedOnJira
  BY DEF AcceptInv
<1>4. QED
  BY <1>1, <1>2, <1>3, TypeCorrect, NoResetsMade, SlotInvAlways, DeleteInvAlways,
     OnJiraInvAlways, PTL DEF Spec
=============================================================================
