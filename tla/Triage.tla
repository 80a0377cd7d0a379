-------------------------------- MODULE Triage --------------------------------
(***************************************************************************)
(* The Triage list and the counters of the Quality tab (webapp/app.py,     *)
(* webapp/db.py): a request searches Jira, stores what it found one ticket *)
(* at a time and answers with the rows it read back.  Requests run in      *)
(* threads of their own, so between any two of a request's store calls     *)
(* another request may store an older or a newer answer of Jira, and the   *)
(* tickets' investigations and decisions go on.                            *)
(*                                                                         *)
(* The answers of one request are modelled key by key in the order of the  *)
(* list, newest first.  A date is a number; the range of a request is a    *)
(* pair of dates, 0 for none.  Of an issue only its type is kept: title,   *)
(* jira_status and jira_done are written beside it by the same statement.  *)
(***************************************************************************)
EXTENDS ReviewStore, Integers, FiniteSets, Sequences, TLC

CONSTANTS Keys,                 \* tickets of the project
          Created,              \* [Keys -> Nat]: the day each was raised
          Stored,               \* stored before, with a verdict to review
          Busy,                 \* bound: those people work on meanwhile
          Clients,              \* browsers with a request open
          Ops,                  \* the endpoints they call
          Ranges,               \* the date ranges they ask for
          SEARCH_MAX,           \* max_results of the list's search
          CHUNK,                \* _PINNED_REFRESH_CHUNK
          PeriodStart,          \* the counter's go-live day
          MaxEvents, MaxRequests      \* bounds: edits in Jira and of rows, requests

ASSUME TriageAssumption ==
    /\ IsFiniteSet(Keys) /\ Stored \subseteq Keys /\ Busy \subseteq Keys
    /\ Created \in [Keys -> Nat \ {0}]
    /\ Ranges \subseteq [from : Nat, to : Nat]
    /\ SEARCH_MAX \in Nat /\ CHUNK \in Nat \ {0} /\ PeriodStart \in Nat \ {0}

VARIABLES jira,                 \* the types of each ticket in Jira, latest last
          card,                 \* the columns _sync_issue writes
          row,                  \* the other columns: ReviewStore
          req,                  \* each client's request
          events, started,      \* counts what MaxEvents and MaxRequests bound
          pins                  \* history: tickets ever stored as a Bug

vars == <<jira, card, row, req, events, started, pins>>

\* Bug and Incident are treated alike everywhere, every other type too.
Types == {"Bug", "Task"}
TriageTypes == {"Bug"}

NoCard == [type |-> "none", pinned |-> FALSE]

NoCounts == [raised |-> {}]

Idle == [op |-> "none", pc |-> "idle", range |-> [from |-> 0, to |-> 0],
         todo |-> <<>>, syncing |-> {}, extra |-> <<>>, rows |-> <<>>, then |-> "none",
         stale |-> FALSE, counts |-> NoCounts,
         seen |-> <<>>, pinned |-> {}, crossed |-> {}, kept |-> {}, decided |-> FALSE]

Now(k) == jira[k][Len(jira[k])]

InRange(k, range) ==
    /\ range.from # 0 => Created[k] >= range.from
    /\ range.to # 0 => Created[k] <= range.to

\* The n newest of S; tickets of one day may come in any order.
Newest(S, n) ==
    {A \in SUBSET S : /\ Cardinality(A) = IF Cardinality(S) < n THEN Cardinality(S) ELSE n
                      /\ \A k \in A, j \in S \ A : Created[k] >= Created[j]}

Only(f, S) == [k \in S |-> f[k]]

\* f where it is defined, g elsewhere.
Over(f, g) == [k \in DOMAIN f \cup DOMAIN g |-> IF k \in DOMAIN f THEN f[k] ELSE g[k]]

\* Some tickets were stored as Bugs earlier and have a verdict to decide, or a
\* re-run under way; Jira may have retyped them since.
Init ==
    /\ jira \in [Keys -> {<<t>> : t \in Types}]
    /\ card = [k \in Keys |->
                 IF k \in Stored THEN [type |-> "Bug", pinned |-> TRUE]
                                 ELSE NoCard]
    /\ \E r \in {save_rca(FreshRow, 1), claim_running(save_rca(FreshRow, 1), "manual")} :
          row = [k \in Keys |-> IF k \in Stored THEN r ELSE FreshRow]
    /\ req = [c \in Clients |-> Idle]
    /\ events = 0 /\ started = 0
    /\ pins = Stored

-----------------------------------------------------------------------------
(* The store *)

\* Mutant: the pin follows the type.
upsert_ticket_unpinning(c, type) ==
    [type |-> type, pinned |-> type \in TriageTypes]

upsert_ticket(c, type) ==
    [type |-> type, pinned |-> c.pinned \/ type \in TriageTypes]

get_dashboard_tickets(range) == {k \in Keys : card[k].pinned /\ InRange(k, range)}

With(S, status) == {k \in S : row[k].status = status}

\* Mutant: every RCA counts as one nobody looked at.
no_action_any(S) == {k \in S : row[k].bot_rca # 0}

no_action(S) == {k \in S : row[k].bot_rca # 0 /\ row[k].status \notin DECIDED_STATUSES}

\* The counts of one SELECT, as sets of tickets and, for the difference, a number.
get_period_stats(range) ==
    LET from == IF range.from > PeriodStart THEN range.from ELSE PeriodStart
        S == get_dashboard_tickets([range EXCEPT !.from = from])
    IN  [raised |-> S,
         accepted |-> Cardinality(With(S, "accepted")),
         rejected |-> Cardinality(With(S, "rejected")),
         unclear |-> Cardinality(With(S, "unclear")),
         no_action |-> Cardinality(no_action(S)),
         untouched |-> {k \in S : /\ row[k].bot_rca = 0
                                  /\ row[k].status \notin DECIDED_STATUSES}]

not_run(s) == Cardinality(s.raised)
                - s.accepted - s.rejected - s.unclear - s.no_action

-----------------------------------------------------------------------------
(* Requests *)

At(c, pc) == req[c].pc = pc

Begins(c, op, pc, range, todo) ==
    /\ op \in Ops
    /\ At(c, "idle")
    /\ started < MaxRequests
    /\ started' = started + 1
    /\ req' = [req EXCEPT ![c] = [Idle EXCEPT
                 !.op = op, !.pc = pc, !.range = range, !.todo = todo,
                 !.then = IF op = "by_key" THEN "answered" ELSE "extra",
                 !.seen = IF pc = "search" THEN [k \in Keys |-> Len(jira[k])] ELSE <<>>,
                 !.pinned = IF pc = "search" THEN {k \in pins : InRange(k, range)} ELSE {}]]
    /\ UNCHANGED <<jira, card, row, events, pins>>

\* What only the request changes.
Private == UNCHANGED <<jira, card, row, events, started, pins>>

\* Where a request is once nothing is left of the sync, and of the chunks; the
\* answer of get_ticket_by_key is its row, on which nothing is claimed.
Settled(r) ==
    LET synced == IF r.pc = "sync" /\ r.todo = <<>> THEN r.then ELSE r.pc
    IN  IF synced = "answered" /\ r.op = "by_key" THEN Idle
        ELSE [r EXCEPT !.pc = IF synced # "chunk" \/ r.extra # <<>> THEN synced
                              ELSE IF r.op = "list" THEN "answered" ELSE "stats"]

Goes(c, next) == req' = [req EXCEPT ![c] = Settled(next)] /\ Private

list_tickets(c) == \E q \in Ranges : Begins(c, "list", "search", q, <<>>)

quality_period(c) ==
    \E q \in Ranges :
        LET from == IF q.from > PeriodStart THEN q.from ELSE PeriodStart
        IN  Begins(c, "period", "search", [q EXCEPT !.from = from], <<>>)

\* get_ticket_by_key, and the sync_issue of the poller's tick, which has read
\* the issue in its own search.
get_ticket_by_key(c) ==
    \E k \in Keys : Begins(c, "by_key", "sync", [from |-> 0, to |-> 0],
                            [j \in {k} |-> Now(j)])

\* Three SELECTs outside a transaction.
get_scoreboard(c) == Begins(c, "scoreboard", "total", [from |-> 0, to |-> 0], <<>>)

\* The search of the list: the newest tickets that are Bugs now.
Searches(c) ==
    /\ At(c, "search")
    /\ \E found \in Newest({k \in Keys : Now(k) \in TriageTypes
                                          /\ InRange(k, req[c].range)}, SEARCH_MAX) :
          Goes(c, [req[c] EXCEPT !.pc = "sync", !.todo = [k \in found |-> Now(k)]])

\* JiraError: the list answers 500, the period counts what is stored.
SearchRefused(c) ==
    /\ At(c, "search")
    /\ Goes(c, IF req[c].op = "list" THEN Idle
               ELSE [req[c] EXCEPT !.pc = "stats", !.stale = TRUE])

\* httpx's own errors are no JiraError: nothing catches them.
Unreachable(c) ==
    /\ \/ At(c, "search")
       \/ At(c, "chunk")
    /\ Goes(c, Idle)

\* _sync_issue: store the issue, then read the row back.
Upserts(c) ==
    /\ At(c, "sync")
    /\ \E A \in Newest(DOMAIN req[c].todo, 1) : \E k \in A :
          LET type == req[c].todo[k]
          IN  /\ card' = [card EXCEPT ![k] = upsert_ticket(card[k], type)]
              /\ pins' = IF type \in TriageTypes THEN pins \cup {k} ELSE pins
              /\ req' = [d \in Clients |->
                           IF d = c THEN [req[c] EXCEPT !.pc = "reread", !.syncing = {k}]
                           ELSE IF k \in req[d].syncing
                             THEN [req[d] EXCEPT !.crossed = req[d].crossed \cup {k}]
                           ELSE req[d]]
    /\ UNCHANGED <<jira, row, events, started>>

\* Mutant: the refresh keeps the local row.
Shown_local(r, k) == Over(r.rows, Only(card, {k}))

Shown(r, k) == Over(Only(card, {k}), r.rows)

Rereads(c) ==
    /\ At(c, "reread")
    /\ \E k \in req[c].syncing :
          Goes(c, [req[c] EXCEPT !.pc = "sync", !.syncing = {}, !.rows = Shown(req[c], k),
                                 !.todo = Only(req[c].todo, DOMAIN req[c].todo \ {k})])

\* The pinned tickets the search did not bring.
ReadsPinned(c) ==
    /\ At(c, "extra")
    /\ LET extra == get_dashboard_tickets(req[c].range) \ DOMAIN req[c].rows
       IN  Goes(c, [req[c] EXCEPT !.pc = "chunk", !.then = "chunk", !.extra = Only(card, extra)])

\* One chunk of them, newest first, asked for by key: the tickets Jira's answer
\* lacks, all of them if it refuses the chunk, are shown as they were stored.
Refreshes(c) ==
    /\ At(c, "chunk")
    /\ \E chunk \in Newest(DOMAIN req[c].extra, CHUNK) : \E fresh \in SUBSET chunk :
          Goes(c, [req[c] EXCEPT !.pc = "sync", !.todo = [k \in fresh |-> Now(k)],
                                 !.extra = Only(req[c].extra, DOMAIN req[c].extra \ chunk),
                                 !.rows = Over(Only(req[c].extra, chunk), req[c].rows),
                                 !.kept = req[c].kept \cup (chunk \ fresh)])

Counts(c) ==
    /\ At(c, "stats")
    /\ Goes(c, [req[c] EXCEPT !.pc = "answered", !.counts = get_period_stats(req[c].range)])

CountsTotal(c) ==
    /\ At(c, "total")
    /\ Goes(c, [req[c] EXCEPT !.pc = "accepted", !.decided = FALSE,
                 !.counts = [total |-> Cardinality(With(Keys, "accepted") \cup With(Keys, "rejected")),
                             accepted |-> 0, rejected |-> 0]])

CountsAccepted(c) ==
    /\ At(c, "accepted")
    /\ Goes(c, [req[c] EXCEPT !.pc = "rejected",
                              !.counts.accepted = Cardinality(With(Keys, "accepted"))])

CountsRejected(c) ==
    /\ At(c, "rejected")
    /\ Goes(c, [req[c] EXCEPT !.pc = "answered",
                              !.counts.rejected = Cardinality(With(Keys, "rejected"))])

Done(c) == At(c, "answered") /\ Goes(c, Idle)

-----------------------------------------------------------------------------
(* Around the requests *)

\* Somebody changes the ticket's type in Jira.
Edited(k) ==
    /\ events < MaxEvents /\ events' = events + 1
    /\ \E type \in Types \ {Now(k)} : jira' = [jira EXCEPT ![k] = Append(jira[k], type)]
    /\ UNCHANGED <<card, row, req, started, pins>>

\* Review has what moves a row in its steps; here each is one.
Becomes(k, after) ==
    /\ card[k] # NoCard
    /\ events < MaxEvents /\ events' = events + 1
    /\ row' = [row EXCEPT ![k] = after]
    /\ req' = [c \in Clients |->
                 IF At(c, "accepted") \/ At(c, "rejected")
                   THEN [req[c] EXCEPT !.decided = TRUE] ELSE req[c]]
    /\ UNCHANGED <<jira, card, started, pins>>

run_rca(k) == claim_running_selects(row[k]) /\ Becomes(k, claim_running(row[k], "manual"))

RunEnds(k) ==
    /\ row[k].status = "running"
    /\ Becomes(k, save_rca(row[k], 1)) \/ Becomes(k, mark_failed(row[k]))

reset_rca(k) == row[k] # reset_row(row[k]) /\ Becomes(k, reset_row(row[k]))

\* accept, reject_local and unclear: a verdict is decided once.
Decides(k) ==
    /\ row[k].bot_rca # 0 /\ row[k].status \notin DECIDED_STATUSES
    /\ \/ Becomes(k, mark_accepted(row[k], 0))
       \/ Becomes(k, mark_rejected(row[k], 0))
       \/ Becomes(k, mark_unclear(row[k]))

Next ==
    \/ \E c \in Clients :
          \/ list_tickets(c) \/ quality_period(c) \/ get_ticket_by_key(c) \/ get_scoreboard(c)
          \/ Searches(c) \/ SearchRefused(c) \/ Unreachable(c)
          \/ Upserts(c) \/ Rereads(c)
          \/ ReadsPinned(c) \/ Refreshes(c)
          \/ Counts(c) \/ CountsTotal(c) \/ CountsAccepted(c) \/ CountsRejected(c)
          \/ Done(c)
    \/ \E k \in Keys : Edited(k)
    \/ \E k \in Busy : run_rca(k) \/ RunEnds(k) \/ reset_rca(k) \/ Decides(k)

Spec == Init /\ [][Next]_vars

-----------------------------------------------------------------------------

Answered(op) == {c \in Clients : At(c, "answered") /\ req[c].op = op}

\* What Jira has said of the ticket since the request began.
Since(c, k) == {jira[k][i] : i \in req[c].seen[k]..Len(jira[k])}

\* The tickets an answer has: the rows of a list, what a period calls raised.
InAnswer(c) == IF req[c].op = "list" THEN DOMAIN req[c].rows ELSE req[c].counts.raised

\* A ticket once stored as a Bug stays on the list whatever it becomes and
\* however many newer ones there are (db.py:171-172, app.py:122-124), and so
\* does every ticket of the range that is a Bug, as long as they fit under the
\* search's cap; a period counted on stored rows alone has the former only.
ListComplete ==
    \A c \in Answered("list") \cup Answered("period") :
        /\ req[c].pinned \subseteq InAnswer(c)
        /\ LET maybe == {k \in Keys : InRange(k, req[c].range)
                                      /\ \E t \in Since(c, k) : t \in TriageTypes}
           IN  Cardinality(maybe) <= SEARCH_MAX /\ ~ req[c].stale =>
                 \A k \in maybe : (\A t \in Since(c, k) : t \in TriageTypes)
                                    => k \in InAnswer(c)

\* A listed row shows what Jira said of the ticket while the list was being
\* made (app.py:122-124), unless it was asked for by key and Jira refused its
\* chunk or left it out of the answer (app.py:135-137), or another request
\* stored the ticket between the two store calls.
RowsFresh ==
    \A c \in Answered("list") :
        \A k \in DOMAIN req[c].rows \ (req[c].kept \cup req[c].crossed) :
            req[c].rows[k].type \in Since(c, k)

\* The numbers of a period describe one set of tickets, none raised before the
\* counter started, and what is left over is what nobody ran or decided
\* (get_period_stats); the scoreboard's three numbers agree unless a row
\* changed between its SELECTs.
CountsAgree ==
    /\ \A c \in Answered("period") :
          /\ not_run(req[c].counts) = Cardinality(req[c].counts.untouched)
          /\ \A k \in req[c].counts.raised : Created[k] >= PeriodStart
    /\ \A c \in Answered("scoreboard") :
          ~ req[c].decided =>
              req[c].counts.total = req[c].counts.accepted + req[c].counts.rejected
=============================================================================
