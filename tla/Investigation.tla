---------------------------- MODULE Investigation ----------------------------
(***************************************************************************)
(* _run_rca_background (webapp/app.py) from the inside: the message loop   *)
(* of run_agent under its two time bounds, parsing and checking the        *)
(* verdict, saving it, and writing the run to the cost ledger; with the    *)
(* requests that start runs and reset the row meanwhile, restarts of the   *)
(* process, and the script that imports Phoenix spans into the ledger.     *)
(* What the requests and the automatic post do otherwise is Review's.      *)
(*                                                                         *)
(* External: the SDK's message stream (agent), Phoenix (spans), GitLab's   *)
(* answers to the checks.                                                  *)
(***************************************************************************)
EXTENDS ReviewStore, Verdict, Meter, Ledger

CONSTANTS
    AgentTexts,     \* the texts an agent may write, records as in Verdict
    MaxRuns,        \* bound: investigations started
    MaxResponses,   \* bound: the API responses of each run; one without any may
                    \* still report an error, with no totals but its tokens
    PastSpans       \* what Phoenix holds already: queries of the evaluation, of
                    \* fix generation, and of whatever else asked the SDK

Runs == 1 .. MaxRuns

Span == [id: Nat \ {0}, eval: BOOLEAN, fix_prompt: BOOLEAN, key: BOOLEAN, error: BOOLEAN,
         tokens: Nat, cost: Nat \cup {NoCost}, model_cost: Nat \cup {NoCost}]

Nothing == [form |-> "prose", empty |-> TRUE]      \* final_text = ""

ASSUME InvestigationAssumption ==
    /\ MaxRuns \in Nat
    /\ MaxResponses \in [Runs -> Nat]
    /\ PastSpans \subseteq {s \in Span : s.id \notin Runs}
    /\ \A s, t \in PastSpans : s.id = t.id => s = t
    /\ Nothing \notin AgentTexts
    /\ \A text \in AgentTexts : text.form \in Forms
    /\ \A text \in AgentTexts : text.form = "verdict" =>
            /\ text.evidence \in Seq(Link)
            /\ text.introducing_mr \in {NoLink} \cup {link \in Link : link.kind = "merge_request"}

VARIABLES
    row,        \* the ticket's row
    run,        \* Runs -> the background thread and the locals of run_agent
    usage,      \* Runs -> its meter
    agent,      \* Runs -> what the SDK has streamed of it
    saved,      \* Runs -> the verdict its thread has stored, while there is one
    ledger,     \* table agent_runs
    spans       \* the query spans Phoenix holds

vars == <<row, run, usage, agent, saved, ledger, spans>>

Unstarted == [pc |-> "unstarted", source |-> "none", final_text |-> Nothing,
              status |-> "failed", cause |-> "none",
              reached |-> FALSE]

(* `cause` and `reached` are history: why the run failed, and, when it is    *)
(* over, whether it had reached the model.                                   *)
Silent == [made |-> 0, again |-> FALSE, result |-> "none", total |-> NoCost,
           cost |-> NoCost, late |-> FALSE]

NoVerdict == [text |-> Nothing, confidence |-> "low", label |-> "none"]

Init ==
    /\ row = FreshRow
    /\ run = [r \in Runs |-> Unstarted]
    /\ usage = [r \in Runs |-> NewUsage]
    /\ agent = [r \in Runs |-> Silent]
    /\ saved = [r \in Runs |-> NoVerdict]
    /\ ledger = EmptyBag
    /\ spans = PastSpans

At(r, pc) == run[r].pc = pc

Alive(r) == run[r].pc \notin {"unstarted", "done", "killed"}

Started == {r \in Runs : ~ At(r, "unstarted")}

-----------------------------------------------------------------------------
(* Requests and the poller *)

\* The row is claimed and the next thread starts.
Starts(source) ==
    \E r \in Runs :
        /\ Started = 1 .. (r - 1)
        /\ run' = [run EXCEPT ![r].pc = "fetch", ![r].source = source]
        /\ UNCHANGED <<usage, agent, saved, ledger, spans>>

run_rca ==
    claim_running_selects(row) /\ row' = claim_running(row, "manual") /\ Starts("manual")

auto_run ==
    claim_auto_run_selects(row) /\ row' = claim_auto_run(row) /\ Starts("auto")

reset ==
    /\ row' = reset_row(row)
    /\ UNCHANGED <<run, usage, agent, saved, ledger, spans>>

-----------------------------------------------------------------------------
(* The thread before and after the agent loop *)

Steps(r, change) == run' = [run EXCEPT ![r] = change]

Fails(r, why) == [run[r] EXCEPT !.pc = "fail", !.cause = why]

Fetches(r) ==
    /\ At(r, "fetch")
    /\ \/ Steps(r, [run[r] EXCEPT !.pc = "stream"])
       \/ Steps(r, Fails(r, "fetch"))
    /\ UNCHANGED <<row, usage, agent, saved, ledger, spans>>

\* After the loop: a text without a verdict in it is no result.
Returns(r, text) ==
    [run[r] EXCEPT !.final_text = text,
                   !.pc = IF looks_like_verdict(text) THEN "verify" ELSE "fail",
                   !.cause = IF looks_like_verdict(text) THEN "none" ELSE "no_verdict"]

\* The query is over: Phoenix gets its span, with a cost if the stream ended
\* well.  The prompt of an investigation names the ticket.
SpanOf(r, error) ==
    [id |-> r, eval |-> FALSE, fix_prompt |-> FALSE, key |-> TRUE, error |-> error,
     tokens |-> 1, cost |-> IF error THEN NoCost ELSE 1, model_cost |-> 1]

-----------------------------------------------------------------------------
(* run_agent: one iteration of the loop per message *)

\* The SDK delivers message m of run r and is then in state `next`.  `late`:
\* the soft budget is found exceeded after this message.
\* Mutant: an exhausted budget treated like an error.
AfterMessage_budget_fails(r, text, late) ==
    IF late THEN [Fails(r, "no_verdict") EXCEPT !.final_text = text]
            ELSE [run[r] EXCEPT !.final_text = text]

AfterMessage(r, text, late) ==
    IF late THEN Returns(r, text) ELSE [run[r] EXCEPT !.final_text = text]

\* An assistant message: a new response or a further block of the last one,
\* with a text or without (a tool call).
AssistantMessage(r, text, again, late) ==
    /\ At(r, "stream")
    /\ IF again THEN agent[r].made > 0 /\ ~ agent[r].again
                ELSE agent[r].made < MaxResponses[r]
    /\ agent[r].result = "none"
    /\ agent' = [agent EXCEPT ![r].made = IF again THEN agent[r].made ELSE agent[r].made + 1,
                              ![r].again = again]
    /\ \E model \in Models :
        /\ usage[r].model \in {NoModel, model}
        /\ usage' = [usage EXCEPT ![r] = observe(usage[r],
                [type |-> "assistant", id |-> agent'[r].made, model |-> model,
                 usage |-> TRUE])]
    /\ Steps(r, AfterMessage(r, IF text = Nothing THEN run[r].final_text ELSE text, late))
    /\ spans' = IF late THEN spans \cup {SpanOf(r, FALSE)} ELSE spans
    /\ UNCHANGED <<row, saved, ledger>>

\* A result message: an infrastructure failure ends the run whatever it said.
\* Its totals are of one response more than was streamed (a tool's own call).
\* Mutant: only the subtype looked at.
ResultFails_by_subtype(result) == result = "error_subtype"

ResultFails(result) == result \in {"error_subtype", "is_error"}

ResultMessage(r, result, text, model, cost, late) ==
    /\ At(r, "stream")
    /\ agent[r].result = "none"
    /\ result = "success" => agent[r].made > 0
    /\ MaxResponses[r] = 0 => result = "is_error" /\ model = NoModel /\ ~ cost
    /\ LET total == agent[r].made + 1
       IN  /\ agent' = [agent EXCEPT ![r].result = result, ![r].total = total,
                                     ![r].cost = IF cost THEN total ELSE NoCost,
                                     ![r].again = FALSE]
           /\ usage' = [usage EXCEPT ![r] = observe(usage[r],
                   [type |-> "result", usage |-> TRUE, total |-> total, model |-> model,
                    cost |-> IF cost THEN total ELSE NoCost])]
    /\ IF ResultFails(result)
       THEN Steps(r, Fails(r, "result_error"))
       ELSE Steps(r, AfterMessage(r, IF text = Nothing THEN run[r].final_text ELSE text, late))
    /\ spans' = IF ResultFails(result) \/ late THEN spans \cup {SpanOf(r, FALSE)} ELSE spans
    /\ UNCHANGED <<row, saved, ledger>>

\* A message after the result, of a response the totals include: no longer
\* metered, but its text replaces the last one like any other.
LateMessage(r, text, late) ==
    /\ At(r, "stream")
    /\ agent[r].result = "success" /\ ~ agent[r].late
    /\ agent' = [agent EXCEPT ![r].late = TRUE]
    /\ usage' = [usage EXCEPT ![r] = observe(usage[r],
            [type |-> "assistant", id |-> agent[r].made + 1, model |-> usage[r].model,
             usage |-> TRUE])]
    /\ Steps(r, AfterMessage(r, IF text = Nothing THEN run[r].final_text ELSE text, late))
    /\ spans' = IF late THEN spans \cup {SpanOf(r, FALSE)} ELSE spans
    /\ UNCHANGED <<row, saved, ledger>>

\* The stream ends, or raises: then what was said so far counts, unless
\* nothing was.
StreamEnds(r) ==
    /\ At(r, "stream")
    /\ agent[r].made > 0 \/ agent[r].result # "none"
    /\ Steps(r, Returns(r, run[r].final_text))
    /\ spans' = spans \cup {SpanOf(r, FALSE)}
    /\ UNCHANGED <<row, usage, agent, saved, ledger>>

StreamRaises(r) ==
    /\ At(r, "stream")
    /\ Steps(r, IF run[r].final_text = Nothing THEN Fails(r, "error")
                                               ELSE Returns(r, run[r].final_text))
    /\ spans' = spans \cup {SpanOf(r, TRUE)}
    /\ UNCHANGED <<row, usage, agent, saved, ledger>>

\* asyncio.wait_for cancels the run at the hard ceiling, wherever it waits.
HardTimeout(r) ==
    /\ At(r, "stream")
    /\ Steps(r, Fails(r, "timeout"))
    /\ spans' = spans \cup {SpanOf(r, TRUE)}
    /\ UNCHANGED <<row, usage, agent, saved, ledger>>

\* What else a failed result says is never looked at.
AgentStep(r) ==
    \/ \E text \in AgentTexts \cup {Nothing}, again, late \in BOOLEAN : AssistantMessage(r, text, again, late)
    \/ \E model \in Models \cup {NoModel}, cost \in BOOLEAN :
          \/ \E text \in AgentTexts \cup {Nothing}, late \in BOOLEAN :
                ResultMessage(r, "success", text, model, cost, late)
          \/ \E result \in {"error_subtype", "is_error"} :
                ResultMessage(r, result, Nothing, model, cost, FALSE)
    \/ \E text \in AgentTexts \cup {Nothing}, late \in BOOLEAN : LateMessage(r, text, late)
    \/ StreamEnds(r)
    \/ StreamRaises(r)

-----------------------------------------------------------------------------
(* The thread after the loop *)

\* parse_verdict, verify_verdict (whose calls for the claims in `down` raise),
\* the downgrade, and save_rca of the result.
Saves(r) ==
    /\ At(r, "verify")
    /\ ~ parse_raises(run[r].final_text)
    /\ LET v == parse_verdict(run[r].final_text)
       IN  \E down \in SUBSET (0 .. Len(v.evidence)) :
            LET w == [v EXCEPT !.confidence =
                            downgraded_confidence(@, verify_verdict(v, down))]
            IN  saved' = [saved EXCEPT ![r] =
                            [text |-> run[r].final_text, confidence |-> w.confidence,
                             label |-> verdict_label(w)]]
    /\ row' = save_rca(row, r)
    /\ Steps(r, [run[r] EXCEPT !.pc = "post", !.status = "ok"])
    /\ UNCHANGED <<usage, agent, ledger, spans>>

ParseFails(r) ==
    /\ At(r, "verify")
    /\ parse_raises(run[r].final_text)
    /\ Steps(r, Fails(r, "error"))
    /\ UNCHANGED <<row, usage, agent, saved, ledger, spans>>

\* The locals of run_agent are gone.
LeavesRunAgent(r) ==
    [run[r] EXCEPT !.pc = "record", !.final_text = Nothing, !.cause = "none"]

\* _maybe_auto_post: what it does to the row and to Jira is in module Review.
Posts(r) ==
    /\ At(r, "post")
    /\ Steps(r, LeavesRunAgent(r))
    /\ UNCHANGED <<row, usage, agent, saved, ledger, spans>>

MarksFailed(r) ==
    /\ At(r, "fail")
    /\ row' = mark_failed(row)
    /\ Steps(r, LeavesRunAgent(r))
    /\ UNCHANGED <<usage, agent, saved, ledger, spans>>

\* Mutants: the trigger of a row no longer running forgotten; failures not
\* recorded.
BookedTrigger_while_running ==
    IF row.status = "running" THEN row.trigger_source ELSE "manual"

BookedTrigger == IF row.trigger_source = "none" THEN "manual" ELSE row.trigger_source

Spent_if_ok(r) == run[r].status = "ok" /\ observed(usage[r])

Spent(r) == observed(finish(usage[r]))

ReachedModel(r) == agent[r].made > 0 \/ agent[r].result # "none"

\* _record_run, in the finally clause of every run.
Records(r) ==
    /\ At(r, "record")
    /\ LET u == finish(usage[r])
       IN  ledger' = IF Spent(r)
                     THEN record_run(ledger,
                            [kind |-> "rca", trigger |-> BookedTrigger,
                             status |-> run[r].status, tokens |-> u.tokens,
                             cost |-> u.cost, cost_source |-> u.cost_source,
                             ticket |-> TRUE, started_at |-> r, source_ref |-> 0])
                     ELSE ledger
    /\ run' = [run EXCEPT ![r] = [Unstarted EXCEPT !.pc = "done", !.source = run[r].source,
                                                   !.reached = ReachedModel(r)]]
    /\ usage' = [usage EXCEPT ![r] = NewUsage]
    /\ agent' = [agent EXCEPT ![r] = Silent]
    /\ saved' = [saved EXCEPT ![r] = NoVerdict]
    /\ UNCHANGED <<row, spans>>

ThreadStep(r) ==
    \/ Fetches(r) \/ HardTimeout(r) \/ Saves(r) \/ ParseFails(r)
    \/ Posts(r) \/ MarksFailed(r) \/ Records(r)

-----------------------------------------------------------------------------
(* The process restarts: its threads are gone, finally clauses and all *)

restart ==
    /\ row' = init_db(row)
    /\ run' = [r \in Runs |-> IF Alive(r)
                              THEN [Unstarted EXCEPT !.pc = "killed",
                                                     !.source = run[r].source]
                              ELSE run[r]]
    /\ usage' = [r \in Runs |-> NewUsage]
    /\ agent' = [r \in Runs |-> Silent]
    /\ saved' = [r \in Runs |-> NoVerdict]
    /\ UNCHANGED <<ledger, spans>>

-----------------------------------------------------------------------------
(* The import of spans *)

\* The script opens the store the dashboard is using with init_db: a row that
\* runs is failed under its thread.
ImportStarts ==
    /\ row' = init_db(row)
    /\ UNCHANGED <<run, usage, agent, saved, ledger, spans>>

Imported(s) == \E x \in BagToSet(ledger) : x.source_ref = s.id

\* It inserts one span after the other in Phoenix's order, so the past ones
\* first, each in a transaction, and may die between two; how many of the
\* runs' spans a script has read is left open.
Imports(s) ==
    /\ \A p \in PastSpans : s \notin PastSpans \/ p.id < s.id => Imported(p)
    /\ ledger' = record_run(ledger, to_row(s))
    /\ UNCHANGED <<row, run, usage, agent, saved, spans>>

Next ==
    \/ run_rca \/ auto_run \/ reset \/ restart
    \/ \E r \in Runs : ThreadStep(r) \/ AgentStep(r)
    \/ ImportStarts
    \/ \E s \in spans : Imports(s)

Spec == Init /\ [][Next]_vars

-----------------------------------------------------------------------------
(* Properties *)

LiveRows(r) == {x \in BagToSet(ledger) : x.source_ref = 0 /\ x.started_at = r}

\* Types.
TypeOK ==
    /\ row \in Row
    /\ \A r \in Runs :
        /\ run[r].pc \in {"unstarted", "fetch", "stream", "verify", "post", "fail",
                          "record", "done", "killed"}
        /\ run[r].source \in {"none", "manual", "auto"}
        /\ run[r].final_text \in AgentTexts \cup {Nothing}
        /\ run[r].status \in {"ok", "failed"}
        /\ usage[r] \in RunUsage
        /\ agent[r].made \in 0 .. MaxResponses[r]
        /\ saved[r].confidence \in Confidence
    /\ \A x \in BagToSet(ledger) : x.kind \in {"rca", "fix", "eval", "unattributed"}

\* A run whose last text is a readable verdict fails only on a failure the SDK
\* reports in its result and at the hard ceiling: running over the soft budget,
\* or an exception of the stream, keeps the verdict (agent.py:61-68, 195-198).
VerdictKept ==
    \A r \in Runs : At(r, "fail") /\ run[r].final_text.form \in {"verdict", "inner_fence"}
                        => run[r].cause \in {"result_error", "timeout"}

\* A run whose result message reported a failure never stores a verdict, even
\* if a complete one was streamed before (agent.py:179-183).
InfraFailureNotSaved ==
    \A r \in Runs : agent[r].result \in {"error_subtype", "is_error"} => saved[r] = NoVerdict

\* A verdict whose claims can be checked and all name things neither GitLab nor
\* a clone has is not stored with high confidence, whichever calls fail
\* (verify.py:8-10).
Real(link) == Passes(link, FALSE)

NotHighOnNothing ==
    \A r \in Runs :
        saved[r].confidence = "high" =>
            LET text == saved[r].text
                claims == {text.evidence[i] : i \in DOMAIN text.evidence}
                            \cup {text.introducing_mr}
                checkable == {c \in claims : Checkable(c)}
            IN  checkable # {} => \E c \in checkable : Real(c)

\* Every run that reached the model is booked by its own thread when that is
\* done, once, cancelled and failed runs included (usage.py:9-10, the finally
\* clause of app.py:291); a run the restart killed is not.  However often the
\* import runs, dies and runs again, a span is in the ledger at most once
\* (backfill_costs_from_phoenix.py:16-17).  The two keys know nothing of each
\* other: a run booked by its thread has a second row once its span is imported.
BookedOnce ==
    \A r \in Runs :
        /\ Cardinality(LiveRows(r)) = IF run[r].reached THEN 1 ELSE 0
        /\ \A x \in LiveRows(r) : ledger[x] = 1
    /\ \A x \in BagToSet(ledger) :
        x.source_ref # 0 => /\ ledger[x] = 1
                            /\ \A y \in BagToSet(ledger) : y.source_ref = x.source_ref => y = x

\* What a thread books is what was spent: the SDK's totals if it reported them,
\* else one token per response however many messages carried it; a cost is the
\* SDK's exactly if it gave one (usage.py:3-10).
BookedSpend ==
    [][\A r \in Runs :
        run'[r] # run[r] =>
            \A booked \in BagToSet(ledger') \ BagToSet(ledger) :
                /\ booked.tokens = IF agent[r].result = "none" THEN agent[r].made
                                                              ELSE agent[r].total
                /\ booked.cost_source = "sdk" <=> agent[r].cost # NoCost
                /\ booked.cost_source = "sdk" => booked.cost = agent[r].cost]_vars

\* A run is booked under the trigger that started it unless another run of the
\* ticket was started before it was recorded (app.py:225-227).
BookedTriggerRight ==
    \A r \in Runs : \A x \in LiveRows(r) :
        x.trigger = run[r].source \/ r + 1 \in Started

\* The queries no ticket answers for, by their spans: the evaluation's, whatever
\* was asked, and those that neither build a fix nor name a ticket.
NotForTickets ==
    {s.id : s \in {q \in PastSpans : q.eval \/ ~ (q.fix_prompt \/ q.key)}}

\* The ticket figures of the Cost tab leave out the imported rows of those
\* queries and no other row, live or imported (db.py:621-622, 653).
EvalsKeptApart ==
    get_cost_stats(ledger).tickets =
        agg(RowsOf(ledger, {x \in BagToSet(ledger) : x.source_ref \notin NotForTickets}))
=============================================================================
