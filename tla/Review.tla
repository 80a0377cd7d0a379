------------------------------- MODULE Review -------------------------------
(***************************************************************************)
(* The life of ONE ticket in the dashboard (webapp/app.py): the request    *)
(* handlers FastAPI runs in its thread pool, the background threads they   *)
(* start, the Jira issue they post to, and restarts of the process.        *)
(* Tickets share no row, so one ticket is the whole of this behaviour; the *)
(* poller, which does look at several, is module Autorun.                  *)
(*                                                                         *)
(* A handler reads the row once (get_ticket), tests its snapshot, and then *)
(* makes calls that each stand alone: a Jira request or one transaction of *)
(* ReviewStore.  Each of these is a step, so the handlers and the threads  *)
(* interleave exactly between them.  Thread.start follows the claiming     *)
(* UPDATE with nothing in between but local code, so claim and start are   *)
(* one step.                                                               *)
(***************************************************************************)
EXTENDS ReviewStore, FiniteSets

CONSTANTS
    Clients,        \* bound: the requests being handled at once
    Workers,        \* bound: the background threads alive at once
    Ops,            \* the requests and events of this environment
    AutoPostModes,  \* the values load_settings()["auto_post"] may return
    JiraFaults,     \* how Jira may fail a call, see Faults
    MaxRuns,        \* bound: investigations started
    MaxPosts        \* bound: comments Jira accepts

AllOps == {"run_rca", "auto_run", "suggest_fix", "raise_mr", "reject_fix", "reset",
           "save_human_rca", "accept", "accept_and_post", "reject_local", "unclear",
           "reject", "restart"}

(* "refused": the call raises and Jira has not done it.  "lost": Jira has    *)
(* done it and the answer did not come back within the client's 20 s.        *)
Faults == {"refused", "lost"}

ASSUME ReviewAssumption ==
    /\ Ops \subseteq AllOps
    /\ AutoPostModes \subseteq BOOLEAN
    /\ JiraFaults \subseteq Faults
    /\ MaxRuns \in Nat
    /\ MaxPosts \in Nat

VARIABLES
    row,        \* the ticket's row
    jira,       \* the comments of this program on the Jira issue
    req,        \* Clients -> the request being handled
    thr,        \* Workers -> the background thread
    runs,       \* investigations started so far; the last one's number
    auto_runs,  \* how many of them the poller started (history)
    posts       \* comments Jira has accepted so far; the last one's id

vars == <<row, jira, req, thr, runs, auto_runs, posts>>

Comment == [id: Nat, via: {"auto", "accept", "human"}, rca: Nat,
            text: Texts \cup {NoText}]

Request == [op: AllOps \cup {"none"},
            pc: {"idle", "delete", "clear_auto", "save_draft", "mark_accepted",
                 "mark_rejected", "mark_unclear", "update", "start_job", "push"},
            cid: Nat,                   \* snapshot: auto_comment_id
            fix: Nat,                   \* snapshot: bot_fix_json
            text: Texts \cup {NoText}]

Thread == [kind: JobKinds \cup {"rca", "none"},
           pc: {"idle", "investigate", "read", "delete", "clear_auto", "post", "work",
                "record", "mark", "clear_draft", "finish", "fail"},
           src: {"manual", "auto"},
           rca: Nat,                    \* the verdict it makes, or has read
           cid: Nat,                    \* the comment it deletes, or has posted
           text: Texts \cup {NoText}]

NoReq == [op |-> "none", pc |-> "idle", cid |-> 0, fix |-> 0, text |-> NoText]

NoThread == [kind |-> "none", pc |-> "idle", src |-> "manual", rca |-> 0, cid |-> 0,
             text |-> NoText]

Init ==
    /\ row = FreshRow
    /\ jira = {}
    /\ req = [c \in Clients |-> NoReq]
    /\ thr = [w \in Workers |-> NoThread]
    /\ runs = 0
    /\ auto_runs = 0
    /\ posts = 0

-----------------------------------------------------------------------------
(* Guards of the handlers, on the row they read *)

NotDecided == row.status \notin DECIDED_STATUSES

\* "No RCA found" and "Already reviewed": the tests of every decision.
MayDecide == row.bot_rca # 0 /\ NotDecided

\* _refuse_if_posting lets the request through.
\* Mutant: decisions that do not wait for a post (_refuse_if_posting dropped).
NotPosting_unchecked == TRUE

NotPosting == ~ (row.job_status = "running" /\ row.job_kind \in {"accept_post", "reject"})

-----------------------------------------------------------------------------
(* Threads start and end *)

Spawn(w, t) == thr[w] = NoThread /\ thr' = [thr EXCEPT ![w] = t]

SpawnRca(w, source) ==
    /\ runs < MaxRuns
    /\ runs' = runs + 1
    /\ Spawn(w, [NoThread EXCEPT !.kind = "rca", !.pc = "investigate", !.src = source,
                                 !.rca = runs + 1])

JobThread(kind, text) == [NoThread EXCEPT !.kind = kind, !.pc = "read", !.text = text]

ThreadAt(w, kind, pc) == thr[w].kind = kind /\ thr[w].pc = pc

GoTo(w, pc) == thr' = [thr EXCEPT ![w].pc = pc]

ThreadEnds(w) == thr' = [thr EXCEPT ![w] = NoThread]

-----------------------------------------------------------------------------
(* Jira *)

AddComment(via, verdict, text) ==
    /\ posts < MaxPosts
    /\ posts' = posts + 1
    /\ jira' = jira \cup {[id |-> posts + 1, via |-> via, rca |-> verdict, text |-> text]}

\* The answer to DELETE is a success even if the comment is already gone (404).
DeleteComment(cid) == jira' = {m \in jira : m.id # cid}

\* Jira refuses a post when it may, and always at the bound MaxPosts.
PostRefused ==
    /\ "refused" \in JiraFaults \/ posts = MaxPosts
    /\ UNCHANGED <<jira, posts>>

\* Thread w posts a comment: it goes on to pc `done` knowing the new id, or its
\* call raises and it becomes `failed`, whether or not Jira has the comment.
Post(w, via, verdict, text, done, failed) ==
    \/ /\ AddComment(via, verdict, text)
       /\ thr' = [thr EXCEPT ![w] = [@ EXCEPT !.pc = done, !.cid = posts + 1]]
    \/ /\ "lost" \in JiraFaults
       /\ AddComment(via, verdict, text)
       /\ thr' = [thr EXCEPT ![w] = failed]
    \/ /\ PostRefused
       /\ thr' = [thr EXCEPT ![w] = failed]

-----------------------------------------------------------------------------
(* Requests answered in one transaction.  get_ticket before them only tells  *)
(* whether the ticket exists, and it does.                                   *)

run_rca ==
    /\ "run_rca" \in Ops
    /\ claim_running_selects(row)
    /\ row' = claim_running(row, "manual")
    /\ \E w \in Workers : SpawnRca(w, "manual")
    /\ UNCHANGED <<jira, req, auto_runs, posts>>

\* The poller of Auto-RCA takes the ticket (TickClaims of module Autorun has the tick).
auto_run ==
    /\ "auto_run" \in Ops
    /\ claim_auto_run_selects(row)
    /\ row' = claim_auto_run(row)
    /\ \E w \in Workers : SpawnRca(w, "auto")
    /\ auto_runs' = auto_runs + 1
    /\ UNCHANGED <<jira, req, posts>>

reject_fix ==
    /\ "reject_fix" \in Ops
    /\ row' = clear_fix(row)
    /\ UNCHANGED <<jira, req, thr, runs, auto_runs, posts>>

-----------------------------------------------------------------------------
(* The other requests: read the row, test the snapshot, remember what the    *)
(* later calls use of it.  A test that fails answers 4xx and changes nothing.*)

Begin(c, op, pc, cid, fix, text) ==
    /\ op \in Ops
    /\ req[c] = NoReq
    /\ req' = [req EXCEPT ![c] = [op |-> op, pc |-> pc, cid |-> cid, fix |-> fix,
                                  text |-> text]]
    /\ UNCHANGED <<row, jira, thr, runs, auto_runs, posts>>

suggest_fix(c) ==
    row.bot_rca # 0 /\ Begin(c, "suggest_fix", "start_job", 0, 0, NoText)

raise_mr(c) ==
    row.bot_fix # 0 /\ Begin(c, "raise_mr", "push", 0, row.bot_fix, NoText)

save_human_rca(c, text) ==
    NotDecided /\ Begin(c, "save_human_rca", "save_draft", 0, 0, text)

accept(c) ==
    /\ MayDecide
    /\ NotPosting
    /\ Begin(c, "accept", "mark_accepted", row.auto_comment_id, 0, NoText)

accept_and_post(c) ==
    /\ MayDecide
    /\ \/ /\ row.auto_comment_id # 0        \* auto-posted already: adopt it
          /\ NotPosting
          /\ Begin(c, "accept_and_post", "mark_accepted", row.auto_comment_id, 0, NoText)
       \/ /\ row.auto_comment_id = 0
          /\ Begin(c, "accept_and_post", "start_job", 0, 0, NoText)

\* A reject_local after its withdrawal: the draft is saved if anything was typed.
AfterWithdraw(text) == IF text = NoText THEN "mark_rejected" ELSE "save_draft"

reject_local(c, text) ==
    /\ MayDecide
    /\ NotPosting
    /\ Begin(c, "reject_local",
             IF row.auto_comment_id # 0 THEN "delete" ELSE AfterWithdraw(text),
             row.auto_comment_id, 0, text)

unclear(c) ==
    MayDecide /\ NotPosting /\ Begin(c, "unclear", "mark_unclear", 0, 0, NoText)

reject(c, text) == NotDecided /\ Begin(c, "reject", "start_job", 0, 0, text)

reset(c) ==
    \/ /\ row.auto_comment_id # 0 /\ row.status # "accepted"
       /\ NotPosting
       /\ Begin(c, "reset", "delete", row.auto_comment_id, 0, NoText)
    \/ /\ row.auto_comment_id = 0 \/ row.status = "accepted"
       /\ Begin(c, "reset", "update", 0, 0, NoText)

Request_begins(c) ==
    \/ suggest_fix(c) \/ raise_mr(c) \/ reset(c)
    \/ accept(c) \/ accept_and_post(c) \/ unclear(c)
    \/ \E text \in Texts : save_human_rca(c, text) \/ reject(c, text)
    \/ \E text \in Texts \cup {NoText} : reject_local(c, text)

-----------------------------------------------------------------------------
(* What a handler does after its tests, one call at a time *)

At(c, pc) == req[c].pc = pc

Respond(c) == req' = [req EXCEPT ![c] = NoReq]

Continue(c, pc) == req' = [req EXCEPT ![c].pc = pc]

\* The last transaction of a handler, then its answer.
LastWrite(c, pc, newRow) ==
    /\ At(c, pc)
    /\ row' = newRow
    /\ Respond(c)
    /\ UNCHANGED <<jira, thr, runs, auto_runs, posts>>

ReqMarkAccepted(c) == LastWrite(c, "mark_accepted", mark_accepted(row, req[c].cid))

ReqMarkRejected(c) == LastWrite(c, "mark_rejected", mark_rejected(row, 0))

ReqMarkUnclear(c) == LastWrite(c, "mark_unclear", mark_unclear(row))

ReqReset(c) == LastWrite(c, "update", reset_row(row))

ReqSaveDraft(c) ==
    /\ At(c, "save_draft")
    /\ row' = save_human_rca_draft(row, req[c].text)
    /\ IF req[c].op = "reject_local" THEN Continue(c, "mark_rejected") ELSE Respond(c)
    /\ UNCHANGED <<jira, thr, runs, auto_runs, posts>>

\* Mutant: an error of the DELETE swallowed, the request going on.
ReqDelete_unchecked(c) ==
    /\ At(c, "delete")
    /\ DeleteComment(req[c].cid) \/ ("refused" \in JiraFaults /\ UNCHANGED jira)
    /\ Continue(c, "clear_auto")
    /\ UNCHANGED <<row, thr, runs, auto_runs, posts>>

\* _withdraw_auto_post: delete the comment, and only then forget it.  An error
\* of Jira is answered 502 and the request ends.
ReqDelete(c) ==
    /\ At(c, "delete")
    /\ \/ DeleteComment(req[c].cid) /\ Continue(c, "clear_auto")
       \/ "lost" \in JiraFaults /\ DeleteComment(req[c].cid) /\ Respond(c)
       \/ "refused" \in JiraFaults /\ Respond(c) /\ UNCHANGED jira
    /\ UNCHANGED <<row, thr, runs, auto_runs, posts>>

ReqClearAuto(c) ==
    /\ At(c, "clear_auto")
    /\ row' = clear_auto_comment(row)
    /\ Continue(c, IF req[c].op = "reset" THEN "update" ELSE AfterWithdraw(req[c].text))
    /\ UNCHANGED <<jira, thr, runs, auto_runs, posts>>

\* raise_mr pushes to GitLab (external) and stores the snapshot with its result;
\* an error of GitLab is answered and nothing is stored.
ReqPush(c) ==
    /\ At(c, "push")
    /\ row' \in {row, save_fix(row, req[c].fix)}
    /\ Respond(c)
    /\ UNCHANGED <<jira, thr, runs, auto_runs, posts>>

KindOf(op) == IF op = "suggest_fix" THEN "fix"
              ELSE IF op = "accept_and_post" THEN "accept_post" ELSE "reject"

ReqStartJob(c) ==
    /\ At(c, "start_job")
    /\ \/ /\ start_job_selects(row)
          /\ row' = start_job(row, KindOf(req[c].op))
          /\ \E w \in Workers : Spawn(w, JobThread(KindOf(req[c].op), req[c].text))
       \/ /\ ~ start_job_selects(row)           \* "already_running"
          /\ UNCHANGED <<row, thr>>
    /\ Respond(c)
    /\ UNCHANGED <<jira, runs, auto_runs, posts>>

RequestStep(c) ==
    \/ ReqMarkAccepted(c) \/ ReqMarkRejected(c) \/ ReqMarkUnclear(c) \/ ReqReset(c)
    \/ ReqSaveDraft(c) \/ ReqDelete(c) \/ ReqClearAuto(c) \/ ReqPush(c) \/ ReqStartJob(c)

-----------------------------------------------------------------------------
(* _run_rca_background, started by run_rca and by the poller *)

\* The agent came back with a verdict: store it, whatever became of the row.
RcaSaves(w) ==
    /\ ThreadAt(w, "rca", "investigate")
    /\ row' = save_rca(row, thr[w].rca)
    /\ GoTo(w, "read")
    /\ UNCHANGED <<jira, req, runs, auto_runs, posts>>

\* It did not (Jira fetch, time ceiling, agent error): the except clauses.
RcaFails(w) ==
    /\ ThreadAt(w, "rca", "investigate")
    /\ row' = mark_failed(row)
    /\ ThreadEnds(w)
    /\ UNCHANGED <<jira, req, runs, auto_runs, posts>>

\* _maybe_auto_post: the row's trigger and the switch, read after the save.
RcaReadsTrigger(w) ==
    /\ ThreadAt(w, "rca", "read")
    /\ \E auto_post \in AutoPostModes :
            IF row.trigger_source = "auto" /\ auto_post THEN GoTo(w, "post")
                                                        ELSE ThreadEnds(w)
    /\ UNCHANGED <<row, jira, req, runs, auto_runs, posts>>

RcaPosts(w) ==
    /\ ThreadAt(w, "rca", "post")
    /\ Post(w, "auto", thr[w].rca, NoText, "record", NoThread)
    /\ UNCHANGED <<row, req, runs, auto_runs>>

RcaRecords(w) ==
    /\ ThreadAt(w, "rca", "record")
    /\ row' = set_auto_comment(row, thr[w].cid)
    /\ ThreadEnds(w)
    /\ UNCHANGED <<jira, req, runs, auto_runs, posts>>

-----------------------------------------------------------------------------
(* _accept_and_post_background, _suggest_fix_background: both begin by      *)
(* reading the verdict, and a verdict gone since the request is an error.   *)

JobReadsVerdict(w) ==
    /\ ThreadAt(w, "accept_post", "read") \/ ThreadAt(w, "fix", "read")
    /\ thr' = [thr EXCEPT ![w] =
                  [@ EXCEPT !.rca = row.bot_rca,
                            !.pc = IF row.bot_rca = 0 THEN "fail"
                                   ELSE IF thr[w].kind = "fix" THEN "work" ELSE "post"]]
    /\ UNCHANGED <<row, jira, req, runs, auto_runs, posts>>

AcceptPosts(w) ==
    /\ ThreadAt(w, "accept_post", "post")
    /\ Post(w, "accept", thr[w].rca, NoText, "mark", [thr[w] EXCEPT !.pc = "fail"])
    /\ UNCHANGED <<row, req, runs, auto_runs>>

AcceptMarks(w) ==
    /\ ThreadAt(w, "accept_post", "mark")
    /\ row' = mark_accepted(row, thr[w].cid)
    /\ GoTo(w, "finish")
    /\ UNCHANGED <<jira, req, runs, auto_runs, posts>>

FixSaves(w) ==
    /\ ThreadAt(w, "fix", "work")
    /\ row' = save_fix(row, thr[w].rca)
    /\ GoTo(w, "finish")
    /\ UNCHANGED <<jira, req, runs, auto_runs, posts>>

FixFails(w) ==
    /\ ThreadAt(w, "fix", "work")
    /\ GoTo(w, "fail")
    /\ UNCHANGED <<row, jira, req, runs, auto_runs, posts>>

-----------------------------------------------------------------------------
(* _reject_background: the bot's comment off, the human's on, the decision *)

\* Mutant: takes the ticket's last comment for the automatic one.
RejectReads_comment_id(w) ==
    /\ ThreadAt(w, "reject", "read")
    /\ thr' = [thr EXCEPT ![w] =
                  [@ EXCEPT !.cid = row.comment_id,
                            !.pc = IF row.comment_id # 0 THEN "delete" ELSE "post"]]
    /\ UNCHANGED <<row, jira, req, runs, auto_runs, posts>>

RejectReads(w) ==
    /\ ThreadAt(w, "reject", "read")
    /\ thr' = [thr EXCEPT ![w] =
                  [@ EXCEPT !.cid = row.auto_comment_id,
                            !.pc = IF row.auto_comment_id # 0 THEN "delete" ELSE "post"]]
    /\ UNCHANGED <<row, jira, req, runs, auto_runs, posts>>

RejectDeletes(w) ==
    /\ ThreadAt(w, "reject", "delete")
    /\ \/ DeleteComment(thr[w].cid) /\ GoTo(w, "clear_auto")
       \/ "lost" \in JiraFaults /\ DeleteComment(thr[w].cid) /\ GoTo(w, "fail")
       \/ "refused" \in JiraFaults /\ GoTo(w, "fail") /\ UNCHANGED jira
    /\ UNCHANGED <<row, req, runs, auto_runs, posts>>

\* Mutant: the comment deleted, its id left on the row.
RejectClears_nothing(w) ==
    /\ ThreadAt(w, "reject", "clear_auto")
    /\ GoTo(w, "post")
    /\ UNCHANGED <<row, jira, req, runs, auto_runs, posts>>

RejectClears(w) ==
    /\ ThreadAt(w, "reject", "clear_auto")
    /\ row' = clear_auto_comment(row)
    /\ GoTo(w, "post")
    /\ UNCHANGED <<jira, req, runs, auto_runs, posts>>

RejectPosts(w) ==
    /\ ThreadAt(w, "reject", "post")
    /\ Post(w, "human", 0, thr[w].text, "mark", [thr[w] EXCEPT !.pc = "fail"])
    /\ UNCHANGED <<row, req, runs, auto_runs>>

RejectMarks(w) ==
    /\ ThreadAt(w, "reject", "mark")
    /\ row' = mark_rejected(row, thr[w].cid)
    /\ GoTo(w, "clear_draft")
    /\ UNCHANGED <<jira, req, runs, auto_runs, posts>>

RejectClearsDraft(w) ==
    /\ ThreadAt(w, "reject", "clear_draft")
    /\ row' = clear_human_rca_draft(row)
    /\ GoTo(w, "finish")
    /\ UNCHANGED <<jira, req, runs, auto_runs, posts>>

-----------------------------------------------------------------------------
(* The end of every job: the try block's finish_job, or the except clause *)

JobFinishes(w) ==
    /\ thr[w].kind \in JobKinds /\ thr[w].pc = "finish"
    /\ row' = finish_job(row)
    /\ ThreadEnds(w)
    /\ UNCHANGED <<jira, req, runs, auto_runs, posts>>

\* Mutant: the except clause logs and forgets fail_job.
JobFails_silently(w) ==
    /\ thr[w].kind \in JobKinds /\ thr[w].pc = "fail"
    /\ ThreadEnds(w)
    /\ UNCHANGED <<row, jira, req, runs, auto_runs, posts>>

JobFails(w) ==
    /\ thr[w].kind \in JobKinds /\ thr[w].pc = "fail"
    /\ row' = fail_job(row)
    /\ ThreadEnds(w)
    /\ UNCHANGED <<jira, req, runs, auto_runs, posts>>

RcaStep(w) ==
    RcaSaves(w) \/ RcaFails(w) \/ RcaReadsTrigger(w) \/ RcaPosts(w) \/ RcaRecords(w)

RejectStep(w) ==
    \/ RejectReads(w) \/ RejectDeletes(w) \/ RejectClears(w) \/ RejectPosts(w)
    \/ RejectMarks(w) \/ RejectClearsDraft(w)

ThreadStep(w) ==
    \/ RcaStep(w) \/ RejectStep(w)
    \/ JobReadsVerdict(w) \/ AcceptPosts(w) \/ AcceptMarks(w) \/ FixSaves(w) \/ FixFails(w)
    \/ JobFinishes(w) \/ JobFails(w)

-----------------------------------------------------------------------------
\* The process dies with its threads (all daemon threads) and its requests; the
\* next start runs init_db before it serves anything.
Restart ==
    /\ "restart" \in Ops
    /\ row' = init_db(row)
    /\ req' = [c \in Clients |-> NoReq]
    /\ thr' = [w \in Workers |-> NoThread]
    /\ UNCHANGED <<jira, runs, auto_runs, posts>>

Next ==
    \/ run_rca \/ auto_run \/ reject_fix
    \/ \E c \in Clients : Request_begins(c) \/ RequestStep(c)
    \/ \E w \in Workers : ThreadStep(w)
    \/ Restart

Spec == Init /\ [][Next]_vars

\* Threads run to their end: the agents under wait_for (900 s and 420 s), Jira
\* under httpx's 20 s, SQLite under its 10 s.  Nobody has to send a request.
FairSpec == Spec /\ \A w \in Workers : WF_vars(ThreadStep(w))

-----------------------------------------------------------------------------
(* Shape *)

\* Every variable keeps its type: the one shape invariant of the module.
TypeOK ==
    /\ row \in Row
    /\ \A m \in jira : m \in Comment
    /\ req \in [Clients -> Request]
    /\ thr \in [Workers -> Thread]
    /\ runs \in Nat
    /\ auto_runs \in Nat
    /\ posts \in Nat

\* Thread w will still write the outcome of an investigation.
Investigates(w) == ThreadAt(w, "rca", "investigate")

\* Thread w will still write the outcome of a job.
WorksOnJob(w) == thr[w].kind \in JobKinds

BotComments == {m \in jira : m.via # "human"}

-----------------------------------------------------------------------------
(* What the code keeps, whatever the interleaving *)

\* A ticket that shows "running" has a thread that will still end it: no order
\* of clicks, poller launches, resets, late threads and restarts leaves a
\* spinner nobody can clear (claim_running refuses while it shows).
RunningHasThread == row.status = "running" => \E w \in Workers : Investigates(w)

\* The same for the job slot: while it shows "running", start_job refuses every
\* fix and every post, so a thread must be left to write its outcome.
JobRunningHasThread == row.job_status = "running" => \E w \in Workers : WorksOnJob(w)

\* The poller starts at most one investigation of a ticket in its whole life,
\* through resets, restarts and re-runs (claim_auto_run stamps auto_run_at).
AutoRunOnce == auto_runs <= 1

\* No failing run marks a ticket "failed" over a verdict it holds, even if the
\* verdict came from another thread while it ran (mark_failed, AUT-9864); only
\* the recovery at start-up does.
FailureKeepsVerdict ==
    [][row.status # "failed" /\ row'.status = "failed" /\ row'.bot_rca # 0 => Restart]_vars

\* A reset or a local reject that has got past its withdrawal knows the comment
\* it saw to be off Jira: the decision is never recorded while the wrong RCA is
\* still visible (_withdraw_auto_post), whoever else deletes or posts.
WithdrawnFirst ==
    \A c \in Clients :
        req[c].op \in {"reset", "reject_local"} /\ req[c].cid # 0 /\ ~ At(c, "delete")
            => \A m \in jira : m.id # req[c].cid

\* Nothing the program deletes from Jira is a human's RCA or a post a human
\* asked for: the only comments it takes off are its own automatic ones.
OnlyAutoPostsDeleted == [][\A m \in jira \ jira' : m.via = "auto"]_vars

\* With answers never lost and no restart: the comment the row names is on Jira,
\* or whoever deleted it is about to clear the name.
AutoCommentOnJira ==
    row.auto_comment_id # 0 =>
        \/ \E m \in jira : m.id = row.auto_comment_id /\ m.via = "auto"
        \/ \E c \in Clients : At(c, "clear_auto") /\ req[c].cid = row.auto_comment_id
        \/ \E w \in Workers : ThreadAt(w, "reject", "clear_auto")
                                /\ thr[w].cid = row.auto_comment_id

\* Without resets the job slot is a single-flight slot: two threads never work
\* on jobs of one ticket, however the requests interleave (start_job).
JobFlight == INSTANCE SingleFlight WITH
    Owners <- Workers, flight <- {w \in Workers : WorksOnJob(w)}

JobsSingleFlight == JobFlight!Spec

\* Liveness: a run that shows "running" stops doing so, and so does a job.
RunEnds == row.status = "running" ~> row.status # "running"

JobEnds == row.job_status = "running" ~> row.job_status # "running"

-----------------------------------------------------------------------------
(* What holds only where some of the events above cannot happen: the runs    *)
(* name the environments, those that keep a property and those that break it.*)

\* At most one investigation of the ticket is under way (claim_running's
\* docstring).  A reset of a running ticket breaks it.
OneInvestigation == Cardinality({w \in Workers : Investigates(w)}) <= 1

\* A verdict the reviewer rejected is not left on Jira (_maybe_auto_post and
\* _withdraw_auto_post, docstrings).  A reject that comes while the automatic
\* post is under way breaks it.
RejectedOffJira ==
    row.status = "rejected" => \A m \in BotComments : m.rca # row.bot_rca

\* With one reviewer at a time, an accepted ticket that names a comment names
\* one that is on Jira, although posts and withdrawals run in the background:
\* what _refuse_if_posting is for.
AcceptedOnJira ==
    row.status = "accepted" /\ row.comment_id # 0 => \E m \in jira : m.id = row.comment_id

\* Without resets, only an investigation the poller started posts its verdict
\* unreviewed, although the thread reads who started the LAST run, after it has
\* freed the row for another (_maybe_auto_post).
ManualRunsNeverPost == \A w \in Workers : ThreadAt(w, "rca", "post") => thr[w].src = "auto"
=============================================================================
