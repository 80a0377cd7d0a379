------------------------------- MODULE Autorun -------------------------------
(***************************************************************************)
(* Auto-RCA (webapp/autorun.py): the poller's ticks over several tickets,  *)
(* together with what they race: "Poll now", which runs a tick in a        *)
(* request thread (no lock keeps the two apart), the Run RCA button, the   *)
(* settings panel, and the end of the investigations.                      *)
(*                                                                         *)
(* A tick loads the settings once, counts the free slots once, searches    *)
(* Jira once, and then goes through the issues oldest first, reading each  *)
(* row and claiming it; every one of these is a step.  The rows are those  *)
(* of ReviewStore; a ticket the store has not seen yet reads like a fresh  *)
(* row in every test of the tick.  Keys are tickets of an allowed type     *)
(* that are not Done: others never leave the JQL filter.                   *)
(***************************************************************************)
EXTENDS ReviewStore, Integers, FiniteSets

CONSTANTS
    Keys,           \* the tickets people may raise
    QaKeys,         \* those is_qa_env turns away
    Tickers,        \* bound: ticks at once: the poller and "Poll now" requests
    Poller,         \* of these, the poller: the one whose loop repeats
    Panels,         \* bound: settings updates being handled at once
    Updates,        \* the partial updates the panel may send
    Ops,            \* the other events of this environment
    InitialSettings,
    SEARCH_MAX,     \* 50 in the code
    Lookback,       \* lookback_hours, in units of the clock
    DayLength,      \* an IST day, in units of the clock
    MaxTime,        \* bound: the clock stops there
    MaxLive,        \* bound: investigations a person starts of one ticket at once
    Touched         \* bound: the tickets people run and reset themselves

\* "jira_down": a search may raise.
AllOps == {"run_rca", "reset", "restart", "jira_down"}

Settings == [enabled: BOOLEAN,
             enabled_at: Nat,                   \* 0 is None
             max_parallel: 1..4,
             daily_cap: 0..200]

ASSUME AutorunAssumption ==
    /\ IsFiniteSet(Keys)
    /\ QaKeys \subseteq Keys
    /\ Poller \in Tickers
    /\ Updates \subseteq [fields: SUBSET {"enabled", "max_parallel", "daily_cap"},
                          enabled: BOOLEAN, max_parallel: Int, daily_cap: Int]
    /\ Ops \subseteq AllOps
    /\ InitialSettings \in Settings
    /\ SEARCH_MAX \in Nat \ {0}
    /\ Lookback \in Nat
    /\ DayLength \in Nat \ {0}
    /\ MaxTime \in Nat \ {0}
    /\ MaxLive \in Nat
    /\ Touched \subseteq Keys

VARIABLES
    row,        \* Keys -> the ticket's row
    created,    \* Keys -> when it was raised; 0 before
    stamped,    \* Keys -> the time in auto_run_at; 0 is NULL
    live,       \* Keys -> who started it -> investigations of it under way
    launches,   \* Keys -> how many the ticks have started (history)
    was_reset,  \* the tickets somebody has reset (history)
    clock,      \* the time, from 1
    settings,   \* the stored settings
    put,        \* Panels -> the update being handled
    tick        \* Tickers -> the tick under way

vars == <<row, created, stamped, live, launches, was_reset, clock, settings, put, tick>>

NotLive == [auto |-> 0, manual |-> 0]

NoPut == [pc |-> "idle", fields |-> {}, new |-> InitialSettings]

NoTick == [pc |-> "idle", s |-> InitialSettings, now |-> 0, running |-> 0, slots |-> 0,
           todo |-> {}, cur |-> {}, launched |-> 0]

Init ==
    /\ row = [k \in Keys |-> FreshRow]
    /\ created = [k \in Keys |-> 0]
    /\ stamped = [k \in Keys |-> 0]
    /\ live = [k \in Keys |-> NotLive]
    /\ launches = [k \in Keys |-> 0]
    /\ was_reset = {}
    /\ clock = 1
    /\ settings = InitialSettings
    /\ put = [p \in Panels |-> NoPut]
    /\ tick = [t \in Tickers |-> NoTick]

-----------------------------------------------------------------------------
(* The settings panel *)

\* Mutant: the panel's numbers taken as they come.
valid_update_unchecked(u) == TRUE

\* An update names the fields it changes; values outside LIMITS are refused.
valid_update(u) ==
    /\ "max_parallel" \in u.fields => u.max_parallel \in 1..4
    /\ "daily_cap" \in u.fields => u.daily_cap \in 0..200

apply_update(current, u, now) ==
    [enabled |-> IF "enabled" \in u.fields THEN u.enabled ELSE current.enabled,
     enabled_at |-> IF "enabled" \in u.fields /\ u.enabled /\ ~ current.enabled
                    THEN now ELSE current.enabled_at,
     max_parallel |-> IF "max_parallel" \in u.fields THEN u.max_parallel
                      ELSE current.max_parallel,
     daily_cap |-> IF "daily_cap" \in u.fields THEN u.daily_cap ELSE current.daily_cap]

\* PUT /api/autorun/settings: load, apply, save, with nothing held in between.
PutLoads(p) ==
    /\ put[p].pc = "idle"
    /\ \E u \in Updates :
          /\ valid_update(u)
          /\ put' = [put EXCEPT ![p] = [pc |-> "save", fields |-> u.fields,
                                        new |-> apply_update(settings, u, clock)]]
    /\ UNCHANGED <<row, created, stamped, live, launches, was_reset, clock, settings, tick>>

PutSaves(p) ==
    /\ put[p].pc = "save"
    /\ settings' = put[p].new
    /\ put' = [put EXCEPT ![p] = NoPut]
    /\ UNCHANGED <<row, created, stamped, live, launches, was_reset, clock, tick>>

-----------------------------------------------------------------------------
(* A tick *)

DayStart(now) == now - (now % DayLength)

\* Mutant: the status left out of the WHERE clause.
running_auto_keys_ever == {k \in Keys : row[k].trigger_source = "auto"}

running_auto_keys ==
    {k \in Keys : row[k].status = "running" /\ row[k].trigger_source = "auto"}

\* Mutant: the first instant of the day left out.
count_auto_runs_today_strictly(now) ==
    Cardinality({k \in Keys : stamped[k] # 0 /\ stamped[k] > DayStart(now)})

count_auto_runs_today(now) ==
    Cardinality({k \in Keys : stamped[k] # 0 /\ stamped[k] >= DayStart(now)})

is_eligible(k, s) ==
    /\ s.enabled_at # 0
    /\ created[k] >= s.enabled_at
    /\ ~ row[k].auto_run_at
    /\ row[k].bot_rca = 0
    /\ row[k].status = "pending"
    /\ k \notin QaKeys

TickAt(t, pc) == tick[t].pc = pc

TickEnds(t) == tick' = [tick EXCEPT ![t] = NoTick]

StoreUnchanged == UNCHANGED <<row, stamped, live, launches>>

\* load_settings; a disabled or never stamped poller stops here.
TickLoads(t) ==
    /\ TickAt(t, "idle")
    /\ settings.enabled
    /\ settings.enabled_at # 0
    /\ tick' = [tick EXCEPT ![t] = [@ EXCEPT !.pc = "running", !.s = settings,
                                             !.now = clock]]
    /\ StoreUnchanged

TickCountsRunning(t) ==
    /\ TickAt(t, "running")
    /\ tick' = [tick EXCEPT ![t] = [@ EXCEPT !.pc = "today",
                                             !.running = Cardinality(running_auto_keys)]]
    /\ StoreUnchanged

FreeSlots(t) ==
    LET parallel == tick[t].s.max_parallel - tick[t].running
        today == tick[t].s.daily_cap - count_auto_runs_today(tick[t].now)
    IN IF parallel < today THEN parallel ELSE today

TickCountsToday(t) ==
    /\ TickAt(t, "today")
    /\ IF FreeSlots(t) <= 0
       THEN TickEnds(t)
       ELSE tick' = [tick EXCEPT ![t] = [@ EXCEPT !.pc = "search", !.slots = FreeSlots(t)]]
    /\ StoreUnchanged

\* The open issues of the lookback window.
Window == {k \in Keys : created[k] # 0 /\ created[k] + Lookback >= clock}

\* SEARCH_MAX of the oldest of them at most.
Found ==
    LET size == IF Cardinality(Window) < SEARCH_MAX THEN Cardinality(Window) ELSE SEARCH_MAX
    IN {f \in SUBSET Window :
            /\ Cardinality(f) = size
            /\ \A k \in f, x \in Window \ f : created[k] <= created[x]}

TickSearches(t) ==
    /\ TickAt(t, "search")
    /\ \/ \E f \in Found :
             tick' = [tick EXCEPT ![t] = [@ EXCEPT !.pc = "next", !.todo = f]]
       \/ "jira_down" \in Ops /\ TickEnds(t)
    /\ StoreUnchanged

\* The next issue, oldest first: read its row and test it.
TickTests(t) ==
    /\ TickAt(t, "next")
    /\ \/ tick[t].todo = {} /\ TickEnds(t)
       \/ \E k \in tick[t].todo :
             /\ \A x \in tick[t].todo : created[k] <= created[x]
             /\ tick' = [tick EXCEPT ![t] =
                            IF is_eligible(k, tick[t].s)
                            THEN [@ EXCEPT !.pc = "claim", !.cur = {k},
                                       !.todo = tick[t].todo \ {k}]
                            ELSE [@ EXCEPT !.todo = tick[t].todo \ {k}]]
    /\ StoreUnchanged

\* Mutant: the slots compared before the launch is counted.
TickClaims_one_more(t) ==
    /\ TickAt(t, "claim")
    /\ \E k \in tick[t].cur :
          \/ /\ claim_auto_run_selects(row[k])
             /\ row' = [row EXCEPT ![k] = claim_auto_run(@)]
             /\ stamped' = [stamped EXCEPT ![k] = clock]
             /\ live' = [live EXCEPT ![k].auto = @ + 1]
             /\ launches' = [launches EXCEPT ![k] = @ + 1]
             /\ IF tick[t].launched >= tick[t].slots
                THEN TickEnds(t)
                ELSE tick' = [tick EXCEPT ![t] = [@ EXCEPT !.pc = "next", !.cur = {},
                                                           !.launched = tick[t].launched + 1]]
          \/ /\ ~ claim_auto_run_selects(row[k])
             /\ tick' = [tick EXCEPT ![t] = [@ EXCEPT !.pc = "next", !.cur = {}]]
             /\ StoreUnchanged

\* claim_auto_run, and the thread it entitles to; a lost race goes on to the
\* next issue, and the tick stops when its slots are used.
TickClaims(t) ==
    /\ TickAt(t, "claim")
    /\ \E k \in tick[t].cur :
          \/ /\ claim_auto_run_selects(row[k])
             /\ row' = [row EXCEPT ![k] = claim_auto_run(@)]
             /\ stamped' = [stamped EXCEPT ![k] = clock]
             /\ live' = [live EXCEPT ![k].auto = @ + 1]
             /\ launches' = [launches EXCEPT ![k] = @ + 1]
             /\ IF tick[t].launched + 1 >= tick[t].slots
                THEN TickEnds(t)
                ELSE tick' = [tick EXCEPT ![t] = [@ EXCEPT !.pc = "next", !.cur = {},
                                                           !.launched = tick[t].launched + 1]]
          \/ /\ ~ claim_auto_run_selects(row[k])
             /\ tick' = [tick EXCEPT ![t] = [@ EXCEPT !.pc = "next", !.cur = {}]]
             /\ StoreUnchanged

TickStep(t) ==
    /\ \/ TickLoads(t) \/ TickCountsRunning(t) \/ TickCountsToday(t) \/ TickSearches(t)
       \/ TickTests(t) \/ TickClaims(t)
    /\ UNCHANGED <<created, was_reset, clock, settings, put>>

-----------------------------------------------------------------------------
(* What goes on around the ticks *)

Raise(k) ==
    /\ created[k] = 0
    /\ created' = [created EXCEPT ![k] = clock]
    /\ UNCHANGED <<row, stamped, live, launches, was_reset, clock, settings, put, tick>>

run_rca(k) ==
    /\ "run_rca" \in Ops /\ k \in Touched
    /\ created[k] # 0
    /\ live[k].manual < MaxLive
    /\ claim_running_selects(row[k])
    /\ row' = [row EXCEPT ![k] = claim_running(@, "manual")]
    /\ live' = [live EXCEPT ![k].manual = @ + 1]
    /\ UNCHANGED <<created, stamped, launches, was_reset, clock, settings, put, tick>>

\* _run_rca_background writes its verdict or its failure and is gone.
RunEnds(k) ==
    /\ \E source \in {"auto", "manual"} :
          /\ live[k][source] > 0
          /\ live' = [live EXCEPT ![k][source] = @ - 1]
    /\ \/ row' = [row EXCEPT ![k] = save_rca(@, 1)]
       \/ row' = [row EXCEPT ![k] = mark_failed(@)]
    /\ UNCHANGED <<created, stamped, launches, was_reset, clock, settings, put, tick>>

reset(k) ==
    /\ "reset" \in Ops /\ k \in Touched
    /\ created[k] # 0
    /\ row' = [row EXCEPT ![k] = reset_row(@)]
    /\ was_reset' = was_reset \cup {k}
    /\ UNCHANGED <<created, stamped, live, launches, clock, settings, put, tick>>

Tock ==
    /\ clock < MaxTime
    /\ clock' = clock + 1
    /\ UNCHANGED <<row, created, stamped, live, launches, was_reset, settings, put, tick>>

Restart ==
    /\ "restart" \in Ops
    /\ row' = [k \in Keys |-> init_db(row[k])]
    /\ live' = [k \in Keys |-> NotLive]
    /\ put' = [p \in Panels |-> NoPut]
    /\ tick' = [t \in Tickers |-> NoTick]
    /\ UNCHANGED <<created, stamped, launches, was_reset, clock, settings>>

Next ==
    \/ \E t \in Tickers : TickStep(t)
    \/ \E p \in Panels : PutLoads(p) \/ PutSaves(p)
    \/ \E k \in Keys : Raise(k) \/ run_rca(k) \/ RunEnds(k) \/ reset(k)
    \/ Tock
    \/ Restart

Spec == Init /\ [][Next]_vars

\* The poller's loop ticks for as long as the process lives; investigations end
\* (the hard ceiling of app.py's wait_for).  "Poll now" is a person's button:
\* nothing makes it start a tick, and nothing is assumed of one it has started.
FairSpec ==
    /\ Spec
    /\ WF_vars(TickStep(Poller))
    /\ \A k \in Keys : WF_vars(RunEnds(k))

-----------------------------------------------------------------------------
(* Shape *)

Put == [pc: {"idle", "save"},
        fields: SUBSET {"enabled", "max_parallel", "daily_cap"},
        new: Settings]

Tick == [pc: {"idle", "running", "today", "search", "next", "claim"},
         s: Settings, now: Nat, running: Nat, slots: Int,
         todo: SUBSET Keys, cur: SUBSET Keys, launched: Nat]

\* Every variable keeps its type: the one shape invariant of the module.
TypeOK ==
    /\ row \in [Keys -> Row]
    /\ created \in [Keys -> Nat]
    /\ stamped \in [Keys -> Nat]
    /\ live \in [Keys -> [auto: Nat, manual: Nat]]
    /\ launches \in [Keys -> Nat]
    /\ was_reset \subseteq Keys
    /\ clock \in Nat
    /\ settings \in Settings
    /\ put \in [Panels -> Put]
    /\ tick \in [Tickers -> Tick]

AutoLive == {k \in Keys : live[k].auto > 0}

\* The tickets whose automatic run was stamped on the same day as k's.
StampedWith(k) ==
    {x \in Keys : stamped[x] # 0 /\ DayStart(stamped[x]) = DayStart(stamped[k])}

\* Ticket k is among what every search returns: in the lookback window, with
\* fewer than SEARCH_MAX others that are no younger.
InSearch(k) ==
    /\ k \in Window
    /\ Cardinality({x \in Window : created[x] <= created[k]}) <= SEARCH_MAX

\* Ticket k is one the poller is switched on to take, can see, and may still
\* take today.
Waits(k) ==
    /\ settings.enabled
    /\ is_eligible(k, settings)
    /\ InSearch(k)
    /\ count_auto_runs_today(clock) < settings.daily_cap

-----------------------------------------------------------------------------
(* What the code keeps *)

\* A ticket is auto-run at most once, ever: whatever the number of ticks under
\* way, and through resets, re-runs and restarts (claim_auto_run).
AutoRunOncePerTicket == \A k \in Keys : launches[k] <= 1

\* Of a ticket nobody has reset, a tick, another tick and a click on Run RCA
\* never get two investigations going, although each reads the row before it
\* claims it (claim_auto_run, claim_running).
OneRunPerTicket == \A k \in Keys \ was_reset : live[k].auto + live[k].manual <= 1

\* Where ticks do not overlap and nobody resets, no more automatic runs are
\* alive than max_parallel, although the tick counts them once and goes on.
ParallelCap == Cardinality(AutoLive) <= settings.max_parallel

\* Where ticks do not overlap, no day has more automatic runs than daily_cap,
\* even of a tick that counts before midnight and claims after it.
DailyCap ==
    \A k \in Keys : stamped[k] # 0 => Cardinality(StampedWith(k)) <= settings.daily_cap

\* Liveness: a ticket the rules select does not wait for ever where the poller
\* can see it and the day's cap leaves room: it is launched, or somebody else
\* takes it, or it drops out of what the search returns.  That way out is
\* the code's own: a ticket that ages past lookback_hours while the slots are
\* busy is never taken, and one behind SEARCH_MAX older ones has to wait.
TakenUp == \A k \in Keys : Waits(k) ~> ~ Waits(k)
=============================================================================
