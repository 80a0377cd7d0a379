# TLA+ model of the RCA review service

This directory models `rca_agent`: the review dashboard (`rca_agent/webapp/app.py`),
its SQLite store (`webapp/db.py`), the Auto-RCA poller (`webapp/autorun.py`) and the
Jira comments they write (`jira.py`); the agent run with its verdict, its checks and
its bill (`agent.py`, `schema.py`, `verify.py`, `usage.py`); the code index, its
nightly job and the trace-first investigation that reads it (`graph*.py`,
`reindex.py`, `investigation.py`, ...); and the way from a verdict to merge requests
(`fix_agent.py`, `fix_mr.py`). TLC checks the models on small instances; TLAPS proves
theorems about them for every value of the constants. `PROJECT.json` lists, for every
definition, the lines of the source it stands for.

Run TLC with `tlc -config Review_resets.cfg MCReview` (each run's module is in
`PROJECT.json`, section `runs`), the proofs with `tlapm M.tla`,
M one of the `*Proofs` modules.

## 1. The system

A ticket from Jira is investigated by a language-model agent; its verdict waits on
a dashboard for a reviewer, who accepts it, rejects it (perhaps with a human RCA),
or flags it unclear, and may have the outcome posted on the Jira issue. A second
agent can propose a fix and open draft merge requests. A poller can start
investigations of new tickets by itself and, with the `auto_post` switch, post
their verdicts unreviewed. One process, one SQLite file; FastAPI runs each handler
in a thread pool, and every investigation or job is a daemon thread of its own.

| Component | State it keeps | Operations | What is hard about it |
|---|---|---|---|
| **Review store** `webapp/db.py` | one row per ticket: status, verdict, fix, who triggered the run, `auto_run_at`, comment ids, job slot | one transaction per function; conditional UPDATEs are the only locks of the program; `init_db` recovery | which UPDATEs test the row and which trust the caller |
| **Dashboard** `webapp/app.py` | none in memory but the threads | `list_tickets`, `get_ticket_by_key`, `quality_period`, `scoreboard`, `run_rca`, `suggest_fix`, `raise_mr`, `reject_fix`, `reset`, `save_human_rca`, `accept`, `accept_and_post`, `reject_local`, `unclear`, `reject` | a handler reads the row, tests the snapshot, then makes calls that stand alone; threads outlive the state that started them; Jira fails or answers too late; the process restarts |
| **Auto-RCA poller** `webapp/autorun.py` | stored settings; the tick's local counts | `Poller.tick`, *Poll now*, settings update | a tick counts, searches, tests and claims in separate steps, and *Poll now* runs it in a second thread with no lock |
| **Jira client** `jira.py` | none | add / delete comment, search | a call may be refused, or done with the answer lost |
| **Agent run** `agent.py`, `usage.py`, `prompts.py`, `trace.py` | last text, turns, token meter | message loop with a soft time budget under a hard `wait_for` | which partial result is kept, what an interrupted run is billed |
| **Cost ledger and statistics** `webapp/db.py`, `scripts/backfill_costs_from_phoenix.py` | `agent_runs`, decided rows | `record_run`, quality / period / cost statistics | numbers that must add up, double import |
| **Verdict checks** `schema.py`, `verify.py` | none | parse, verify, downgrade | the boundary of the downgrade; services that are down while a claim is looked up |
| **Code graph** `graph.py`, `graph_store.py`, `graphify_adapter.py`, `index.py`, `reindex.py`, `summarize.py`, `frontend_index/refresh.py` | graph, summary and screen files; a per-process cache keyed by mtime | build, load, query; nightly re-index by another process | developers push while files are fetched one by one; artefacts replaced in place while a thread reads them; the job dies between two writes; people edit the summary it rewrites |
| **Trace-first investigation** `investigation.py`, `stack_trace.py`, `routing.py`, `gitlab_client.py` | none | frame, line, blame, merge request, blast radius | every answer of GitLab is of the branch as it is then, not of one commit |
| **Fix agent and merge requests** `fix_agent.py`, `fix_tools.py`, `fix_mr.py` | GitLab branches, commits, MRs | propose, re-apply on current source, branch / commit / MR per repository | one repository of several failing, a retry over what was done |
| **Tools and readers** `tools.py`, `search.py`, `screen_index.py`, `newrelic.py`, `app_db.py`, `app_mongo.py`, ... | filled-once caches | read-only lookups | I/O |
| **Daemon** `daemon.py` | a file of seen tickets | retired (`README.md:216`) | — |
| **Command line, evaluation, scripts, page** | — | batch, presentation | — |

How they interact. Handlers and threads share only the row (through the store) and
the Jira issue. The poller shares the row, the settings and `_run_rca_background`
with the dashboard. The agent is called by that thread and returns a verdict or
raises. GitLab sees only reads, except `raise_mr`.

What makes each component correct:

* *Store and dashboard*: nothing shows "running" that no thread will end; one
  investigation and one job of a ticket at a time; a decision and a Jira comment
  agree; only the program's own automatic comments are ever deleted; a failure
  never hides a verdict.
* *Poller*: each ticket at most once, ever; neither cap exceeded; a selected ticket
  the search returns does not wait for ever; a click and a tick never start two runs.
* *Agent run*: a verdict that arrived is kept; a failed run is never parsed into one;
  spent tokens are counted once.
* *Fix MRs*: edits are applied to the branch the MR merges into; a failure in one
  repository leaves the others' results.
* *Index*: no artefact claims a newer commit than it shows; a query sees one graph,
  and the cache never hides a newer one; what people wrote in a summary survives.
* *Trace-first verdict*: HIGH names the commit that wrote the line that crashed.
* *Ledger*: every run that spent anything is there once, with what it spent.
* *Triage list and counters*: a ticket once listed is never lost, a row is as fresh
  as the list claims, the numbers add up.

## 2. Modules

| Module | Models |
|---|---|
| `ReviewStore` | every UPDATE of the ticket row a guard reads, as an operator from the row before to the row after; `X_selects(r)` is the WHERE clause of a conditional UPDATE X |
| `SingleFlight` | the abstract promise of `start_job`: at most one owner in the slot |
| `Review` | one ticket: handlers (`req`), background threads (`thr`), the issue's comments (`jira`), poller launches, restarts |
| `Autorun` | several tickets: overlapping ticks, settings updates, clicks, resets, ends of runs, restarts, a clock with days |
| `Verdict` | `schema.py`, the parsing of `agent.py` and `verify.py` as functions of a verdict: what counts as one, which claims can be checked, what passes with services down, the downgrade, the label |
| `Meter` | `RunUsage`: what one run has spent, from the messages of the SDK |
| `Ledger` | the `agent_runs` table as a bag of rows: `record_run`, the import of traced runs, the totals of the Cost tab |
| `Investigation` | `_run_rca_background` and `run_agent`, message by message, over `ReviewStore`, `Verdict`, `Meter` and `Ledger` |
| `CodeGraph` | the graph as a record of nodes, edges and imports: built from sources, read from a graphify export, and its queries |
| `GitLab` | the reads of `gitlab_client.py` from a branch that is a sequence of trees |
| `RepoIndex` | the nightly job (`reindex.py`, `index.py`, `refresh.py`) step by step beside pushes and edits, and the tools that read its files through the cache |
| `TraceFirst` | the investigation from a stack trace, composed with `RepoIndex` |
| `FixPatch` | which files a suggestion fetches, how edits apply and re-apply, what of a fix can be raised |
| `FixMr` | suggestions, `raise_mr` call by call over several repositories, developers and reviewers meanwhile |
| `Triage` | `list_tickets`, `quality_period`, `get_ticket_by_key`, `get_scoreboard` beside edits in Jira and decisions |
| `Order` | the numbers of a set in their order and the elements of a sequence at them (`Picked`, `Distinct`): what a loop that appends to a list leaves, used by `GitLab`, `TraceFirst` and `FixPatch` |
| `MCReview`, `MCAutorun`, `MCInvestigation`, `MCTraceFirst`, `MCFixMr`, `MCTriage` | constant values and symmetry for TLC |
| `OrderProofs`, `ReviewStoreProofs`, `ReviewProofs`, `AutorunProofs`, `InvestigationProofs`, `IndexProofs`, `FixMrProofs`, `TriageProofs` | lemmas and theorems: of numbers and their order; of the row, of the runs, jobs and comments of a ticket, of the poller and its caps; of a run, its verdict and its bill; of the index, its cache, its stamp and its queries, and the verdict of a trace; of the fix on offer, its merge requests and the results stored of them; of the Triage list and the counters |

**How an action corresponds to code.** A handler is split where another thread can
run and see a difference: at every transaction and at every Jira request.
`get_ticket` and the tests on its result are the first step (`accept(c)`,
`reset(c)`, ...), which stores in `req[c]` exactly what later calls use of the
snapshot; each later call is a step (`ReqDelete`, `ReqClearAuto`, `ReqReset`,
...). A refused request changes nothing, so it is the disabled action.
`claim_running` is followed by `Thread.start` with only local code between, so
claim and start are one step. A background thread is a record with a `pc`; its
`except` clauses are the `fail` step or `RcaFails`. `restart` drops requests and
threads and applies `init_db`. The import of `Investigation` opens the live store with
the same `init_db` (`ImportStarts`): it fails the row of a run whose thread goes on.

The later modules are split by the same rule. In `Investigation` a step is one
message of the SDK, since only between messages is the budget looked at and can the
hard ceiling strike; in `RepoIndex` one GitLab request, one `stat`, one read or one
write, `write_text` being two (it empties the file first); in `FixMr` one GitLab call,
which may be refused, lost with its answer, or not reach GitLab at all; in `Triage` one
store call or one search. Pure functions (`parse_verdict`, `verify_verdict`,
`transitive_callers`, `_reapply`, `agg`, ...) are operators, folds or recursive
functions and keep the names of the code.

**How the modules compose.** `Investigation`, `FixMr` and `Triage` each take
`ReviewStore`'s row and its UPDATEs and refine one choice that `Review` leaves open:
which verdict a run ends with, what a fix and its merge requests hold, who reads the
row meanwhile. `TraceFirst` extends `RepoIndex`, which extends `GitLab` and
`CodeGraph`.

**Loops as definitions.** Where the code builds a list or a set in a loop whose order
matters, the definition states what the loop leaves: `_dedupe` the first frame of each
place (the numbers of those frames `Ascending`), `EdgesOfFile` the edges of the first
call from a caller to a callee, `Sources` what was fetched of each file, `BlameSpans`
the runs of lines with one author in the order of their first lines, `by_project` and
`FilesIn` the repositories and files of a fix in theirs (`Picked`). `_reapply` and
`FileFix`, where each edit works on what the one before left, are recursive functions of
the number of edits made, `transitive_callers` one of the rounds of its breadth-first
search. Nothing a theorem of section 4 is about needs a fold or a recursive operator.

**Data abstraction.** Verdicts are numbered by the investigation that made them
(`rca`), Jira comments by the order Jira accepted them, 0 is NULL. A fix is the
number of the verdict it was built on. A human RCA is a member of `Texts`. Columns
no guard reads (titles, notes, error texts) are left out. A text of the agent is a
record of what the parser can tell of it; a source file is one of a few contents with
its definitions, calls and lines; a suggested edit is a pair of snippets; of an issue
in the list only the type is kept. `comment_id` 0 stands for
NULL and for the empty string local decisions write; every reader treats the two
alike.

**Environment assumptions.** SQLite does not fail (each function of `db.py` is one
committed transaction); one uvicorn worker (app.py:29); Jira executes one call
atomically, and a call either takes effect or not, with or without its answer. A
successful answer to a post carries an id. People do not delete the program's
comments by hand. An mtime grows with every write of a file. GitLab executes one call
atomically, and a call it refuses has done nothing: an error answered after the merge
request was opened all the same is assumed away.

## 3. Runs

The exceptions a property names are the code's own windows, each kept as a history
variable: a ticket reset, or given another verdict, while a thread had its verdict
(`crossed` of `FixMr`), a verdict stored without a reset beside the fix of the one before
(`overtaken` of `FixMr`), the target or the branch of a merge request touched by somebody
else while it is prepared (`steady`), a summary edited while the job held its old human block or left torn by a
job that died (`overrun`), screens replaced between the two reads of a tool
(`overtaken` of `RepoIndex`), a row stored by another request between the two store
calls of a sync (`crossed` of `Triage`), a ticket Jira was asked for and did not answer
(`kept`). Without the exception TLC finds the window.

All configurations say `CHECK_DEADLOCK FALSE`: an idle dashboard may stay idle for
ever, and the bounds (`MaxRuns`, `MaxPosts`, `MaxTime`, `MaxEvents`, `MaxRequests` ...) make it stop.

| Run | Question | Bounds and why they are enough |
|---|---|---|
| `Review_one_reviewer` | with one request at a time, no reset and no restart: do decisions, withdrawals and posts agree with Jira (`AcceptedOnJira`, `AutoCommentOnJira`), do only automatic runs post unreviewed (`ManualRunsNeverPost`), is the job slot single-flight (`JobsSingleFlight`, a refinement of `SingleFlight`)? | 1 request, 2 threads, 2 investigations, 2 posts: an automatic post, a re-run beside it, and an accept or reject post all fit |
| `Review_resets` | two requests and two threads with resets, rejects, restarts, refused calls and lost answers: `RunningHasThread`, `JobRunningHasThread`, `WithdrawnFirst`, `OnlyAutoPostsDeleted` | two requests withdraw the same comment; two runs, so a late thread of the first meets the second |
| `Review_liveness` | under fair threads, do `running` and a running job end (`RunEnds`, `JobEnds`), and does a failing run keep a verdict (`FailureKeepsVerdict`)? | 2 runs: the older one fails after the newer one saved |
| `Review_late_auto_post` (violation) | is a rejected verdict off Jira? (`RejectedOffJira`) | 1 request, 1 thread |
| `Review_second_run` (violation) | one investigation at a time? (`OneInvestigation`) | 2 runs and a reset |
| `Autorun_caps` | one poller: `ParallelCap`, `DailyCap` | 4 tickets, one excluded, over `max_parallel` 1 and `daily_cap` 2; 2 days of 2 instants met by a clock from 1 to 3; search truncated at 2 |
| `Autorun_two_ticks` | poller and *Poll now*: `AutoRunOncePerTicket`, `OneRunPerTicket`, and with only the poller's loop and the ends of runs fair `TakenUp`: a selected ticket that the search returns and the day's cap leaves room for is taken up, or drops out of the search | 2 tickets, 1 slot, `daily_cap` 1, both ticks, one of the tickets clicked on and reset as often as one likes (`Touched`), the other left to the ticks; a search of 1 and a lookback of one instant, with a clock of two: a ticket waits behind an older one, ages out of the window while the slot is busy, or has to wait for the slot, which all happen |
| `Autorun_over_cap` (violation) | does the cap hold when ticks overlap? (`ParallelCap`) | 2 tickets, 1 slot |
| `Investigation_runs` | is the verdict that arrived kept whatever ends the run (`VerdictKept`), is a failed run never parsed into one (`InfraFailureNotSaved`), does a verdict whose checkable claims all fail lose HIGH (`NotHighOnNothing`), does the thread of every run book it once, and the import each span once (`BookedOnce`; a run booked by its thread gets a second row if its span is imported), with what it spent (`BookedSpend`), under its trigger (`BookedTriggerRight`), and do the tickets' figures leave out evaluation and unattributed spans and nothing else (`EvalsKeptApart`)? | 2 runs, the first with 2 responses, the second raising, timing out or reporting an error before any: a late record of the first meets the second; texts that are no verdict, a cut-off one, one with claims that fail; in Phoenix already (`PastSpans`) an evaluation span whose prompt looks like a fix's, a fix, and a query that names no ticket |
| `TraceFirst_index` | `CacheAgrees`, `StampNotAhead`, `HumanBlockKept`, `ScreensNotBehindStamp`, `QueriesAgree` of the index, `HighNamesTheWriter` of the verdict | 2 files in a few versions, with a cycle and an ambiguous call; 2 nights; pushes, edits, queries and investigations sharing `MaxEvents`; 2 tool threads on one cache |
| `FixMr_requests` | `MrIsTheReviewedDiff`, `FixIsCurrent`, `StoredMrTrue` | 2 repositories, 2 branches, of which one lacks a file; a suggested file that is on no branch; one request body picks the other branch for the first repository, one the fix branch for the second; suggestions and requests sharing `MaxStarts`, faults and interventions sharing `MaxEvents`; two verdicts, the second stored at any time after the first. A retry over the first request's branch happens, but `MrIsTheReviewedDiff` excepts it (`steady`): its merge request carries the earlier commits too |
| `Triage_lists` | `ListComplete`, `RowsFresh`, `CountsAgree` | 3 tickets, two of them stored, over a search of 2 and chunks of 2, of which Jira answers all, one or none, two clients, one edit, in Jira or of a row, between any of their calls; a go-live day that excludes the oldest; work only on the ticket of `Busy` |

The symmetry sets permute clients, threads, ticks, panels and the tickets no rule
singles out; runs with liveness use none.

**Fairness.** In `Review_liveness` only threads are fair, weakly, each on its own: an
investigation runs under `asyncio.wait_for` (900 s, app.py:212) and a fix under 420 s,
Jira calls under httpx's 20 s, SQLite under a 10 s busy timeout. In `Autorun_two_ticks`
only the ticks of `Poller` are, whose loop repeats as long as the process lives
(autorun.py:302-313), and the ends of investigations; *Poll now* is a person's button,
which nobody has to press. No person has to do anything. The later runs check safety
only and assume no fairness at all.

**What the violation runs show.**

1. `save_rca` opens the ticket for review one step before the same thread posts and
   records its comment. A *Reject (don't post)* in between finds no
   `auto_comment_id`, withdraws nothing, and the rejected verdict then appears on
   Jira, and no reject can take it off any more (a reset or a re-run still can): the
   docstring of `_maybe_auto_post` (app.py:297) and the comment at app.py:592 say it
   comes off first.
2. `reset_rca` frees a running ticket without ending its thread: two investigations
   of one ticket, against the docstring of `claim_running` (db.py:333).
3. *Poll now* and the poller each count the free slots before either claims, so
   `max_parallel` (README.md:203) can be exceeded by the other tick's launches. No
   ticket is launched twice, though: that is `AutoRunOncePerTicket`.

These three also say why the passing runs have the environments they have:
`ParallelCap` and `DailyCap` are checked without overlapping ticks and with fixed caps,
`AcceptedOnJira` and its companions without resets and with one reviewer. The proofs of
section 4 find the least each of them needs: `DailyCap` holds through resets,
`AutoCommentOnJira` through resets and for any number of reviewers.

A disagreement that needs no model: `README.md:205` says Auto-RCA "never posts to
Jira"; the code has the `auto_post` switch, and the models follow the code.

## 4. Proofs

Each theorem holds for any sets of clients, threads, tickets, ticks and panels, any
bounds, any choice of requests and faults. The assumptions are about constants, and TLC
evaluates them in every run:

* `TextsAssumption`, `ReviewAssumption`, `AutorunAssumption`, `TriageAssumption`,
  `VerdictAssumption`, `MeterAssumption`, `IndexAssumption`, `FixAssumption`: types of
  the constants, finiteness of the tickets. In `FixMr` that is all: `Targets` are the
  branches other than `feature/ai-fix-<key>`; a branch may lack a file another one has
  (fetching it fails, the file is skipped), and a reviewer may pick any branch the picker
  lists (app.py:444), the fix branch itself included, whose merge request GitLab refuses.
* `InvestigationAssumption`: past spans are not numbered like runs, and a text
  that is a verdict has lists where the parser accepts only lists.
* `AstAssumption`: every call inside a function has that function among the
  definitions of its file (the visitor enters it first, graph.py:237-245), and no
  symbol is named like a path, so an id read as a path and a name is unambiguous.
* `ListingAssumption`: a listing of a tree names each of its files once.
* `TraceAssumption`: what the trace patterns match are frames with a line number.

Six theorems hold only in an environment, stated as their hypotheses; the violation
runs and the sections they come from show that they are needed:

| Hypothesis | Says | Theorems |
|---|---|---|
| `OneTicker`, `FixedCaps` | nobody presses *Poll now* during a tick, no update changes a cap | `DailyCapAlways`, `ParallelCapAlways` |
| `NoResets` | nobody resets a ticket | `ParallelCapAlways`, `ManualRunsNeverPostAlways`, `JobsAlwaysSingleFlight`, `AcceptedAlwaysOnJira` |
| `NoRestarts`, `NoLostAnswers` | the process lives on, and every answer of Jira arrives | `AutoCommentAlwaysOnJira`, `AcceptedAlwaysOnJira` |
| `OneReviewer` | one request at a time | `AcceptedAlwaysOnJira` |

| Theorem | States | Argument |
|---|---|---|
| `ReviewProofs!TypeCorrect` | `Spec => []TypeOK` | one lemma per kind of step; `StoreTypes` gives the row |
| `RunningHasThreadAlways` | `[]RunningHasThread` | inductive given the types: the claim that sets `running` starts the thread in the same step; a thread stops investigating only by writing another status; no other UPDATE sets `running` |
| `JobRunningHasThreadAlways` | `[]JobRunningHasThread` | the same for the job slot, with `JobStepKeepsKind`: a thread leaves a job only through `finish_job` or `fail_job` |
| `AutoRunOnceAlways` | `[]AutoRunOnce` | `AutoInv`: a started automatic run is remembered in `auto_run_at`, which no UPDATE clears (`StampKept`); the counter alone is not inductive |
| `FailureKeepsVerdictAlways` | `FailureKeepsVerdict`, an action property | the only step but recovery that writes "failed" is `mark_failed`, and it looks at the verdict in the same transaction |
| `WithdrawnFirstAlways` | `[]WithdrawnFirst` | `WithdrawInv` adds that every id the row, a request or a thread holds is of a comment Jira has accepted (`IdsAccepted`): a later post therefore never has the id being withdrawn |
| `OnlyAutoPostsDeletedAlways` | `OnlyAutoPostsDeleted`, an action property | `DeleteInv`: the id in `auto_comment_id`, and every id a request or thread keeps for a deletion, is of an automatic comment if it is on Jira at all. The only source of a new one is the thread that has just posted it (`HoldsAutoSource`, `AutoCommentMoves`), and no later comment can take an old id |
| `ManualRunsNeverPostAlways` (`NoResets`) | `[]ManualRunsNeverPost` | `ManualInv`: while a manual run has not read its trigger the row says `manual` and is not `pending`, so no claim of the poller can rewrite it; only a reset makes a row `pending` again |
| `JobsAlwaysSingleFlight` (`NoResets`) | `JobsSingleFlight`: the job slot implements `SingleFlight` | `SlotInv`: the row shows `running` and the kind of every thread that works on a job, of which there is then one; every step starts a job in a free slot (`StartsJob`), ends it with its thread (`EndsJob`) or is a stutter (`KeepsJobs`) |
| `AutoCommentAlwaysOnJira` (`NoRestarts`, `NoLostAnswers`) | `[]AutoCommentOnJira` | `OnJiraInv`: a thread between its post and its record holds an id of a comment that is on Jira and that nobody else holds (`Unrecorded`), so no deletion can take it before the row names it |
| `AcceptedAlwaysOnJira` (also `OneReviewer`, `NoResets`) | `[]AcceptedOnJira` | `AcceptInv`: an accepted ticket that is being rejected names the comment of an accept, which no withdrawal deletes (`AcceptPosted`); an accept under way meets no rejection (`Accepting`) |
| `AutorunProofs!AutorunTypeCorrect` | `Spec => []TypeOK` | includes that stored settings, and those a tick works with, stay within `LIMITS`, whatever updates race |
| `AutoRunOncePerTicketAlways` | `[]AutoRunOncePerTicket` | `LaunchInv`: a launch is remembered by the stamp of the row (`Stamped`) |
| `OneRunPerTicketAlways` | `[]OneRunPerTicket` | `LaunchInv`: an investigation of a ticket nobody has reset shows `running` (`Claimed`), which both claims test |
| `DailyCapAlways` (`OneTicker`, `FixedCaps`) | `[]DailyCap` | `DayInv`: the runs stamped since the start of the day the tick counted, and the slots it gave itself, are within the cap and what it has launched; a tick that counts before midnight and claims after it adds to the new day only what it had left of the old |
| `ParallelCapAlways` (also `NoResets`) | `[]ParallelCap` | `SlotInv`: the runs alive and the slots left are within the cap; without resets a run alive shows `running` and `auto`, so the tick counts it |
| `InvestigationProofs!TypeCorrect` | `Spec => []TypeOK` | part of `IInv`, the conjunction all theorems of the module rest on (`Invariant`) |
| `KeepsVerdict`, `SavesNoFailure` | `[]VerdictKept`, `[]InfraFailureNotSaved` | `ThreadInv`: what a thread has follows from where it is: no verdict before the stream's end, a readable text fails only on a result error or the ceiling |
| `HighOnSomething` | `[]NotHighOnNothing` | every way from the checks to a label goes through the downgrade, whose result is never HIGH when it checked claims and all failed |
| `BookedExactlyOnce` | `[]BookedOnce` | `LedgerInv` on the rows of the ledger as a bag: a live row is of a run that reached the model, an imported one of its span, each is there once per key, and the unique index makes an insertion of an old key a no-op; nothing relates the two keys. `ImportStarts` may fail a row, but not end its thread |
| `BooksWhatWasSpent` | `BookedSpend`, an action property | `MeterInv`: the meter is the count of the distinct responses until a total arrives, then the total |
| `BookedUnderItsTrigger` | `[]BookedTriggerRight` | `TriggerInv`: the last run started is the one the row's trigger is of |
| `EvaluationApart` | `[]EvalsKeptApart` | from `LedgerInv`: the rows summed are those of kind `rca` or `fix`, and the others are the imported rows of evaluation spans and of spans with neither a fix prompt nor a key (`NotForTickets`). The statement compares totals of bags by their rows, so it needs no induction over the ledger |
| `IndexProofs!HumanBlockAlways` | `[]HumanBlockKept` | `HumanInv`: between its read and its write the job holds the block last saved, a torn summary exists only while the job fills it in, and no summary means nothing was saved; an edit that crosses the job, or a job that dies inside the write, is marked `overrun` |
| `CacheAlwaysAgrees` | `[]CacheAgrees` | `CacheInv`, `ReadUnder`: a graph is read after its mtime, so under the mtime the file has now it can only be the file's; every write gives a later mtime |
| `ScreensAlwaysAtStamp` | `[]ScreensNotBehindStamp` | `ScreensInv`: screens are written and published before their stamp, so on disk the stamp is never ahead of them (`StampsBehind`), and a call not overtaken has read both of one state (`CallsBehind`) |
| `StampNeverAhead` | `[]StampNotAhead` | `GraphInv`: every source the job has fetched, and every one it did not find, is as the branch had it at the stamped commit or later (`Fetched`); branches only grow (`GrownTo`), so this stays true while people push; so of each file the graph shows the symbols of some commit from the stamp on (`NotAhead`) |
| `QueriesAlwaysAgree` | `[]QueriesAgree` | every graph built has its edges between its nodes and one id per node (`Joined`, `Apart`); by induction over the rounds, round n of the search has reached the ends of the chains of at most n edges, and its frontier those of exactly n that are new |
| `HighAlwaysNamesTheWriter` | `[]HighNamesTheWriter` | `RunInv`: what a run knows (the confirmed text, the blamed commit) is true of the history at the time it asked and stays so; the spans of a blame partition the lines, so the cursor of `blame_line` stops in the span the line is in, and the span's commit is the line's writer |
| `IndexTypes` | `[]TypeOK` | the invariants above together |
| `FixMrProofs!FixAlwaysCurrent` | `[]FixIsCurrent` | `FixInv`: a thread that nothing crossed works on the verdict of the row (`ThreadInv`), a request that nothing crossed raises the suggestion on offer (`RequestInv`), and every document of an earlier suggestion or verdict on the row came from a crossed one or was overtaken where it was (`Current`) |
| `MrReviewed` | `[]MrIsTheReviewedDiff` | `MrInv`: of the repository a request is in, the files edited and skipped are those before the one in hand (`Left`, `Handled`); while nobody interferes the edited texts are those of the target, later of the branch, which holds nothing else (`Edited`, `Undisturbed`); so the merge request opened has the reviewed edits and no more (`OpenedDiff`), and where the file is as the suggestion read it this is the diff's text (`AppliedAgain`) |
| `MrResultsTrue` | `[]StoredMrTrue` | the same `MrInv`: results and repositories to do make up those of the fix, in order (`Progress`); a repository still to do has no merge request of this request, one done has the one its result names (`Underway`, `ResultsIn`), and a document stores the results of a request that is over and opens no more (`DocTrue`) |
| `FixTypeOK` | `[]TypeOK` | `MrInv` and `VerdictsFit` |
| `TriageProofs!ListAlwaysComplete` | `[]ListComplete` | `TriageInv`: a ticket an answer owes is still to be stored, stored and pinned, or in the answer (`HasFound`, `HasPinned`, `HasCounted`). No write unpins (`PinStays`), Jira's history only grows, so what other requests do keeps it (`OtherKept`); `NewestAll`: a search with room for all it could find found all |
| `RowsAlwaysFresh` | `[]RowsFresh` | `FreshOK`: everything a list works with was said by Jira since the request began; an older row it shows is still to be stored and read again, or of a ticket Jira did not answer (`kept`) |
| `CountsAlwaysAgree` | `[]CountsAgree` | `PeriodOK`: the classes of a period's tickets are disjoint and make up all of them; `ScoreOK`: what a scoreboard has counted stays so until a decision, which is marked |

Only model-checked: the liveness properties `RunEnds`, `JobEnds`, `TakenUp` (no prover
here reasons about fairness). Every invariant and action property of the passing runs is
a theorem.

**Why `MrInv` is so much larger than what it shows.** A request reads the row once, then
makes a call to GitLab for every file of a repository and three more before its merge
request is open, and each of the two invariants speaks only of the end. To be inductive
the invariant must say of every request under way, at every `pc`, what it has collected
(`WorkIn`), what of it GitLab already holds (`TreesFit`, `Undisturbed`) and what later
steps of others cannot take away: a merge request once opened keeps its request, project
and document (`Stay`), a document once stored is never rewritten (`DocsFit`), and
whatever a push, a second request or a lost answer changes on a branch under way is
marked in `steady` at the same step. A request never returns to a repository because
`by_project` lists each once (`ProjectsAre`, from `Distinct`).

**Induction without induction theorems.** The library's induction theorems take an
operator, which no prover here can instantiate. `OrderProofs` derives what is needed from
the facts that take none: the order of the naturals is well founded, so a set of numbers
has a least one (`LeastOf`), so a set with 0 that is closed under +1 is all of them
(`Counting`). From that come the existence of a recursive function (`WalkExists`,
the rounds of the search; `BetweenExists`, the texts between one edit and the next) and
of the ascending order of a finite set of numbers (`AscendingIs`), which say what the
CHOOSE behind them has chosen.

## 5. Disagreements met while modelling

The models follow the code; none of these has a run of its own.

*Agent run and ledger.* A fence of three backquotes inside an accepted verdict makes
the parser see no JSON (agent.py:199-201), and `parse_verdict` raises on a null where a list
is expected although it calls itself best-effort. Claims are checked once per path,
commit or merge request, so several claims on one collapse (verify.py:8-10). A HIGH
verdict none of whose checks passed becomes MEDIUM, not LOW, and keeps its label. The
comment at agent.py:196 keeps a partial verdict of a run that hit max_turns, but a result
that reports max_turns raises past it. The import is meant for runs from before live
recording (lines 3-5 of the script), but reads every query span: a run booked by its
thread is booked again under its span.

*Index.* `_dedupe` keeps the first occurrence of a frame, so the crash site of a
recursive trace is not its deepest frame. `transitive_callers` leaves out only
ambiguous edges, though its docstring says it follows only extracted ones.
`ensure_latest` does not look at the return code of `git fetch`, so a failed fetch
re-stamps the old clone. `find_screen` reads areas and stamp separately. Files are
written in place, so a reader may meet a torn one, and a job that dies between graph
and summary leaves two artefacts of different nights. GitLab errors in blame and
merge-request lookups end a trace-first investigation uncaught.

*Fix and merge requests.* A branch that exists is reused, so a merge request may carry
the edits of an earlier, rejected fix (against fix_mr.py:13-15), and the pushed file
may revert what a developer pushed between the read and the cut. An in-flight
suggestion (`crossed`), or a verdict stored without a reset, of a re-run or of the late
thread of a run that was reset (`overtaken`), leaves a fix on offer that was built on
another verdict, although `save_fix` says it "never lingers against a new one"
(db.py:258-260). An error of httpx ends the whole request and the results of the
repositories already done are lost.

*Triage.* `quality_period` says the sync makes `raised` complete (app.py:805); a range
with more than 100 tickets keeps those beyond the cap that nobody has listed out of
it. An error of httpx (a timeout, a refused connection) is no `JiraError`: the fallback
to local rows and `stale` are not taken, the request fails. A chunk that is refused or
answered in part is not reported as stale either. `get_scoreboard` runs three SELECTs without a transaction: a
decision between them makes accepted and rejected exceed the total.

## 6. Not modelled, and why

* Prompt texts, the report's wording, attachments and document formats: formatting.
* The fix agent's own conversation and its sandboxed tools: its answer is a choice of
  the environment.
* Text search, the error catalogue, the scoring of screens and of `search_symbols`,
  the AST visitor's syntax: lookups without state.
* New Relic, SQL and Mongo readers: pure I/O, called by the agent alone.
* The buckets of the Quality and Cost tabs (per verdict, cause, model, day): sums over
  rows the models have.
* `auto_post_error` and the bookkeeping of text columns: no guard reads them.
* The issue-type allowlist and text rules of `is_qa_env`: a set of excluded tickets.
* The retired daemon; the command line; the scoring of the evaluation; the extraction
  of screens from sources.

## 7. Plan

1. The refinements worth stating beside `SingleFlight`: the two claims of a ticket's
   investigation as one lock, and the stored results of a fix as one atomic write.
2. The buckets of the Quality tab as folds, with the reopening of a decision by a late
   failing run (db.py:438).
3. Liveness of `Investigation` and `FixMr` under fair threads: every run is booked,
   every suggestion frees the job slot.
