---------------------------- MODULE AutorunProofs ----------------------------
(***************************************************************************)
(* What TLAPS proves of Autorun for every set of tickets, any number of    *)
(* ticks and panels, and any settings: overlapping ticks included, but for *)
(* the two caps, which are theorems about ticks that do not overlap.       *)
(***************************************************************************)
EXTENDS Autorun, ReviewStoreProofs, FiniteSetTheorems, TLAPS

\* AutoRunOncePerTicket and OneRunPerTicket are not inductive as they stand: a
\* launch must be remembered by the stamp of the row, and an investigation under
\* way by its status, because those are what the claims test.
Stamped(k) == launches[k] = 0 \/ (launches[k] = 1 /\ row[k].auto_run_at)

Claimed(k) ==
    \/ live[k].auto = 0 /\ live[k].manual = 0
    \/ /\ live[k].auto + live[k].manual = 1
       /\ row[k].status = "running"

LaunchType ==
    /\ row \in [Keys -> Row]
    /\ live \in [Keys -> [auto: Nat, manual: Nat]]
    /\ launches \in [Keys -> Nat]

LaunchInv ==
    /\ LaunchType
    /\ \A k \in Keys : Stamped(k)
    /\ \A k \in Keys \ was_reset : Claimed(k)

\* The steps that touch no row and start or end no investigation.
LEMMA QuietStep ==
    ASSUME LaunchInv, UNCHANGED <<row, live, launches, was_reset>>
    PROVE  LaunchInv'
BY DEF LaunchInv, LaunchType, Stamped, Claimed

\* Nothing has been launched at the start.
LEMMA LaunchInit == Init => LaunchInv
<1>1. FreshRow \in Row
  BY DEF FreshRow, Row, Statuses, JobKinds, DECIDED_STATUSES
<1>2. NotLive \in [auto: Nat, manual: Nat]
  BY DEF NotLive
<1>3. QED
  BY <1>1, <1>2 DEF Init, LaunchInv, LaunchType, Stamped, Claimed, NotLive

\* The poller's claim: the row it takes is pending and not stamped, so nothing of
\* the ticket is under way and no earlier tick has launched it.
LEMMA ClaimStep ==
    ASSUME LaunchInv, NEW t \in Tickers, TickClaims(t), tick[t].cur \subseteq Keys,
           UNCHANGED was_reset
    PROVE  LaunchInv'
<1>1. PICK k \in Keys :
          \/ /\ claim_auto_run_selects(row[k])
             /\ row' = [row EXCEPT ![k] = claim_auto_run(row[k])]
             /\ live' = [live EXCEPT ![k].auto = live[k].auto + 1]
             /\ launches' = [launches EXCEPT ![k] = launches[k] + 1]
          \/ UNCHANGED <<row, live, launches>>
  BY DEF TickClaims, StoreUnchanged
<1>2. CASE UNCHANGED <<row, live, launches>>
  BY <1>2, QuietStep
<1>3. CASE /\ claim_auto_run_selects(row[k])
           /\ row' = [row EXCEPT ![k] = claim_auto_run(row[k])]
           /\ live' = [live EXCEPT ![k].auto = live[k].auto + 1]
           /\ launches' = [launches EXCEPT ![k] = launches[k] + 1]
  <2>1. row[k] \in Row /\ live[k] \in [auto: Nat, manual: Nat] /\ launches[k] \in Nat
    BY DEF LaunchInv, LaunchType
  <2>2. claim_auto_run(row[k]) \in Row /\ claim_auto_run(row[k]).auto_run_at
    BY <2>1, StoreTypes, StoreKeepsStamp
  <2>3. claim_auto_run(row[k]).status = "running"
    BY <2>1 DEF claim_auto_run, Row
  <2>4. launches[k] = 0
    BY <1>3 DEF LaunchInv, Stamped, claim_auto_run_selects
  <2>5. k \notin was_reset => live[k].auto = 0 /\ live[k].manual = 0
    BY <1>3 DEF LaunchInv, Claimed, claim_auto_run_selects
  <2>6. LaunchType'
    BY <1>3, <2>1, <2>2 DEF LaunchInv, LaunchType
  <2>7. ASSUME NEW x \in Keys
        PROVE  Stamped(x)'
    BY <1>3, <2>2, <2>4, <2>7 DEF LaunchInv, LaunchType, Stamped
  <2>8. ASSUME NEW x \in Keys \ was_reset
        PROVE  Claimed(x)'
    BY <1>3, <2>1, <2>3, <2>5, <2>8 DEF LaunchInv, LaunchType, Claimed
  <2>9. QED
    BY <2>6, <2>7, <2>8 DEF LaunchInv
<1>4. QED
  BY <1>1, <1>2, <1>3

\* Run RCA: claim_running refuses a row that shows a run under way.
LEMMA ClickStep ==
    ASSUME LaunchInv, NEW k \in Keys, run_rca(k)
    PROVE  LaunchInv'
<1>1. /\ row' = [row EXCEPT ![k] = claim_running(row[k], "manual")]
      /\ live' = [live EXCEPT ![k].manual = live[k].manual + 1]
      /\ launches' = launches /\ was_reset' = was_reset
      /\ row[k].status # "running"
  BY DEF run_rca, claim_running_selects
<1>2. row[k] \in Row /\ live[k] \in [auto: Nat, manual: Nat]
  BY DEF LaunchInv, LaunchType
<1>3. /\ claim_running(row[k], "manual") \in Row
      /\ row[k].auto_run_at => claim_running(row[k], "manual").auto_run_at
  BY <1>2, StoreTypes, StoreKeepsStamp
<1>4. claim_running(row[k], "manual").status = "running"
  BY <1>2 DEF claim_running, Row
<1>5. k \notin was_reset => live[k].auto = 0 /\ live[k].manual = 0
  BY <1>1 DEF LaunchInv, Claimed
<1>6. LaunchType'
  BY <1>1, <1>2, <1>3 DEF LaunchInv, LaunchType
<1>7. ASSUME NEW x \in Keys
      PROVE  Stamped(x)'
  BY <1>1, <1>3, <1>7 DEF LaunchInv, LaunchType, Stamped
<1>8. ASSUME NEW x \in Keys \ was_reset
      PROVE  Claimed(x)'
  BY <1>1, <1>2, <1>4, <1>5, <1>8 DEF LaunchInv, LaunchType, Claimed
<1>9. QED
  BY <1>1, <1>6, <1>7, <1>8 DEF LaunchInv

\* The end of an investigation: the only one, of a ticket nobody has reset.
LEMMA EndStep ==
    ASSUME LaunchInv, NEW k \in Keys, RunEnds(k)
    PROVE  LaunchInv'
<1>1. PICK source \in {"auto", "manual"} :
          live[k][source] > 0 /\ live' = [live EXCEPT ![k][source] = live[k][source] - 1]
  BY DEF RunEnds
<1>2. row[k] \in Row /\ live[k] \in [auto: Nat, manual: Nat]
  BY DEF LaunchInv, LaunchType
<1>3. PICK r \in Row :
          /\ row' = [row EXCEPT ![k] = r]
          /\ row[k].auto_run_at => r.auto_run_at
  <2>1. save_rca(row[k], 1) \in Row /\ mark_failed(row[k]) \in Row
    BY <1>2, StoreTypes
  <2>2. row[k].auto_run_at => save_rca(row[k], 1).auto_run_at /\ mark_failed(row[k]).auto_run_at
    BY <1>2, StoreKeepsStamp
  <2>3. QED
    BY <2>1, <2>2 DEF RunEnds
<1>4. launches' = launches /\ was_reset' = was_reset
  BY DEF RunEnds
<1>5. live'[k] \in [auto: Nat, manual: Nat]
  <2>1. CASE source = "auto"
    BY <1>1, <1>2, <2>1 DEF LaunchInv, LaunchType
  <2>2. CASE source = "manual"
    BY <1>1, <1>2, <2>2 DEF LaunchInv, LaunchType
  <2>3. QED
    BY <2>1, <2>2
<1>6. k \notin was_reset => live'[k].auto = 0 /\ live'[k].manual = 0
  <2>1. /\ live[k].auto \in Nat /\ live[k].manual \in Nat
        /\ k \notin was_reset => live[k].auto + live[k].manual <= 1
    BY <1>2 DEF LaunchInv, Claimed
  <2>2. CASE source = "auto"
    <3>1. live'[k].auto = live[k].auto - 1 /\ live'[k].manual = live[k].manual
      BY <1>1, <1>2, <2>2 DEF LaunchInv, LaunchType
    <3>2. live[k].auto > 0
      BY <1>1, <2>2
    <3>3. QED
      BY <2>1, <3>1, <3>2
  <2>3. CASE source = "manual"
    <3>1. live'[k].manual = live[k].manual - 1 /\ live'[k].auto = live[k].auto
      BY <1>1, <1>2, <2>3 DEF LaunchInv, LaunchType
    <3>2. live[k].manual > 0
      BY <1>1, <2>3
    <3>3. QED
      BY <2>1, <3>1, <3>2
  <2>4. QED
    BY <2>2, <2>3
<1>7. \A x \in Keys : x # k => live'[x] = live[x]
  BY <1>1 DEF LaunchInv, LaunchType
<1>8. LaunchType'
  <2>1. live' \in [Keys -> [auto: Nat, manual: Nat]]
    <3>1. DOMAIN live' = Keys /\ live' = [x \in Keys |-> live'[x]]
      BY <1>1 DEF LaunchInv, LaunchType
    <3>2. \A x \in Keys : live'[x] \in [auto: Nat, manual: Nat]
      BY <1>5, <1>7 DEF LaunchInv, LaunchType
    <3>3. QED
      BY <3>1, <3>2
  <2>2. QED
    BY <1>3, <1>4, <2>1 DEF LaunchInv, LaunchType
<1>9. ASSUME NEW x \in Keys
      PROVE  Stamped(x)'
  BY <1>3, <1>4, <1>9 DEF LaunchInv, LaunchType, Stamped
<1>10. ASSUME NEW x \in Keys \ was_reset
       PROVE  Claimed(x)'
  BY <1>3, <1>6, <1>7, <1>10 DEF LaunchInv, LaunchType, Claimed
<1>11. QED
  BY <1>4, <1>8, <1>9, <1>10 DEF LaunchInv

\* A reset keeps the stamp and takes the ticket out of OneRunPerTicket.
LEMMA ResetStep ==
    ASSUME LaunchInv, NEW k \in Keys, reset(k)
    PROVE  LaunchInv'
<1>1. /\ row' = [row EXCEPT ![k] = reset_row(row[k])]
      /\ was_reset' = was_reset \cup {k}
      /\ live' = live /\ launches' = launches
  BY DEF reset
<1>2. row[k] \in Row
  BY DEF LaunchInv, LaunchType
<1>3. reset_row(row[k]) \in Row /\ (row[k].auto_run_at => reset_row(row[k]).auto_run_at)
  BY <1>2, StoreTypes, StoreKeepsStamp
<1>4. LaunchType'
  BY <1>1, <1>3 DEF LaunchInv, LaunchType
<1>5. ASSUME NEW x \in Keys
      PROVE  Stamped(x)'
  BY <1>1, <1>3, <1>5 DEF LaunchInv, LaunchType, Stamped
<1>6. ASSUME NEW x \in Keys \ was_reset'
      PROVE  Claimed(x)'
  BY <1>1, <1>6 DEF LaunchInv, LaunchType, Claimed
<1>7. QED
  BY <1>4, <1>5, <1>6 DEF LaunchInv

\* A restart ends every investigation and keeps every stamp.
LEMMA RestartStep ==
    ASSUME LaunchInv, Restart
    PROVE  LaunchInv'
<1>1. /\ row' = [k \in Keys |-> init_db(row[k])]
      /\ live' = [k \in Keys |-> NotLive]
      /\ launches' = launches /\ was_reset' = was_reset
  BY DEF Restart
<1>2. \A k \in Keys : /\ init_db(row[k]) \in Row
                      /\ row[k].auto_run_at => init_db(row[k]).auto_run_at
  BY StoreTypes, StoreKeepsStamp DEF LaunchInv, LaunchType
<1>3. NotLive \in [auto: Nat, manual: Nat] /\ NotLive.auto = 0 /\ NotLive.manual = 0
  BY DEF NotLive
<1>4. QED
  BY <1>1, <1>2, <1>3 DEF LaunchInv, LaunchType, Stamped, Claimed

-----------------------------------------------------------------------------
(* Types *)

\* The values a step of a tick may put into its record.
LEMMA TickUpdates ==
    ASSUME NEW old \in Tick
    PROVE  /\ \A now \in Nat, s \in Settings :
                 [old EXCEPT !.pc = "running", !.s = s, !.now = now] \in Tick
           /\ \A n \in Nat : [old EXCEPT !.pc = "today", !.running = n] \in Tick
           /\ \A n \in Int : [old EXCEPT !.pc = "search", !.slots = n] \in Tick
           /\ \A f \in SUBSET Keys : [old EXCEPT !.pc = "next", !.todo = f] \in Tick
           /\ \A k \in Keys :
                 /\ [old EXCEPT !.pc = "claim", !.cur = {k},
                                !.todo = old.todo \ {k}] \in Tick
                 /\ [old EXCEPT !.todo = old.todo \ {k}] \in Tick
           /\ [old EXCEPT !.pc = "next", !.cur = {}, !.launched = old.launched + 1] \in Tick
           /\ [old EXCEPT !.pc = "next", !.cur = {}] \in Tick
<1>1. \A now \in Nat, s \in Settings :
          [old EXCEPT !.pc = "running", !.s = s, !.now = now] \in Tick
  BY DEF Tick
<1>2. \A n \in Nat : [old EXCEPT !.pc = "today", !.running = n] \in Tick
  BY DEF Tick
<1>3. \A n \in Int : [old EXCEPT !.pc = "search", !.slots = n] \in Tick
  BY DEF Tick
<1>4. \A f \in SUBSET Keys : [old EXCEPT !.pc = "next", !.todo = f] \in Tick
  BY DEF Tick
<1>5. ASSUME NEW k \in Keys
      PROVE  /\ [old EXCEPT !.pc = "claim", !.cur = {k}, !.todo = old.todo \ {k}] \in Tick
             /\ [old EXCEPT !.todo = old.todo \ {k}] \in Tick
  <2>1. old.todo \ {k} \in SUBSET Keys /\ {k} \in SUBSET Keys
    BY DEF Tick
  <2>2. QED
    BY <2>1 DEF Tick
<1>6. [old EXCEPT !.pc = "next", !.cur = {}, !.launched = old.launched + 1] \in Tick
  <2>1. old.launched + 1 \in Nat
    BY DEF Tick
  <2>2. QED
    BY <2>1 DEF Tick
<1>7. [old EXCEPT !.pc = "next", !.cur = {}] \in Tick
  BY DEF Tick
<1>8. QED
  BY <1>1, <1>2, <1>3, <1>4, <1>5, <1>6, <1>7

\* The resting values of a tick, a panel and a ticket.
LEMMA NoTickType == NoTick \in Tick /\ NoPut \in Put /\ NotLive \in [auto: Nat, manual: Nat]
BY AutorunAssumption DEF NoTick, Tick, NoPut, Put, NotLive

\* The counts of a tick are numbers: the tickets are finitely many.
LEMMA CountsType ==
    ASSUME TypeOK, NEW t \in Tickers
    PROVE  Cardinality(running_auto_keys) \in Nat /\ FreeSlots(t) \in Int
<1>1. ASSUME NEW S \in SUBSET Keys
      PROVE  Cardinality(S) \in Nat
  BY AutorunAssumption, FS_Subset, FS_CardinalityType
<1>2. Cardinality(running_auto_keys) \in Nat
  BY <1>1 DEF running_auto_keys
<1>3. count_auto_runs_today(tick[t].now) \in Nat
  BY <1>1 DEF count_auto_runs_today
<1>4. /\ tick[t].s.max_parallel \in Int /\ tick[t].s.daily_cap \in Int
      /\ tick[t].running \in Nat
  <2>1. tick[t] \in Tick
    BY DEF TypeOK
  <2>2. tick[t].s \in Settings /\ tick[t].running \in Nat
    BY <2>1 DEF Tick
  <2>3. QED
    BY <2>2 DEF Settings
<1>5. QED
  BY <1>2, <1>3, <1>4 DEF FreeSlots

\* Whatever the panel sends, what is stored stays within the limits.
LEMMA UpdateType ==
    ASSUME NEW s \in Settings, NEW u \in Updates, NEW now \in Nat, valid_update(u)
    PROVE  apply_update(s, u, now) \in Settings
BY AutorunAssumption DEF apply_update, valid_update, Settings

\* Type correctness of one step of a tick.
LEMMA TickStepType ==
    ASSUME TypeOK, NEW t \in Tickers, TickStep(t)
    PROVE  TypeOK'
<1>1. tick[t] \in Tick /\ tick \in [Tickers -> Tick] /\ clock \in Nat /\ settings \in Settings
  BY DEF TypeOK
<1>2. ASSUME NEW new \in Tick, tick' = [tick EXCEPT ![t] = new]
      PROVE  tick' \in [Tickers -> Tick]
  BY <1>1, <1>2
<1>3. ASSUME TickEnds(t)
      PROVE  tick' \in [Tickers -> Tick]
  BY <1>2, <1>3, NoTickType DEF TickEnds
<1>4. CASE TickLoads(t)
  <2>1. tick' \in [Tickers -> Tick]
    BY <1>1, <1>2, <1>4, TickUpdates DEF TickLoads
  <2>2. QED
    BY <1>4, <2>1 DEF TickLoads, TickStep, StoreUnchanged, TypeOK
<1>5. CASE TickCountsRunning(t)
  <2>1. tick' \in [Tickers -> Tick]
    BY <1>1, <1>2, <1>5, TickUpdates, CountsType DEF TickCountsRunning
  <2>2. QED
    BY <1>5, <2>1 DEF TickCountsRunning, TickStep, StoreUnchanged, TypeOK
<1>6. CASE TickCountsToday(t)
  <2>1. tick' \in [Tickers -> Tick]
    BY <1>1, <1>2, <1>3, <1>6, TickUpdates, CountsType DEF TickCountsToday
  <2>2. QED
    BY <1>6, <2>1 DEF TickCountsToday, TickStep, StoreUnchanged, TypeOK
<1>7. CASE TickSearches(t)
  <2>1. \A f \in Found : f \in SUBSET Keys
    BY DEF Found, Window
  <2>2. tick' \in [Tickers -> Tick]
    BY <1>1, <1>2, <1>3, <1>7, <2>1, TickUpdates DEF TickSearches
  <2>3. QED
    BY <1>7, <2>2 DEF TickSearches, TickStep, StoreUnchanged, TypeOK
<1>8. CASE TickTests(t)
  <2>1. tick[t].todo \subseteq Keys
    BY <1>1 DEF Tick
  <2>2. \A k \in tick[t].todo :
            /\ [tick[t] EXCEPT !.pc = "claim", !.cur = {k},
                               !.todo = tick[t].todo \ {k}] \in Tick
            /\ [tick[t] EXCEPT !.todo = tick[t].todo \ {k}] \in Tick
    BY <1>1, <2>1, TickUpdates
  <2>3. ASSUME NEW k \in tick[t].todo,
               tick' = [tick EXCEPT ![t] =
                          IF is_eligible(k, tick[t].s)
                          THEN [@ EXCEPT !.pc = "claim", !.cur = {k},
                                         !.todo = tick[t].todo \ {k}]
                          ELSE [@ EXCEPT !.todo = tick[t].todo \ {k}]]
        PROVE  tick' \in [Tickers -> Tick]
    <3>1. CASE is_eligible(k, tick[t].s)
      BY <1>2, <2>2, <2>3, <3>1
    <3>2. CASE ~ is_eligible(k, tick[t].s)
      BY <1>2, <2>2, <2>3, <3>2
    <3>3. QED
      BY <3>1, <3>2
  <2>4. tick' \in [Tickers -> Tick]
    BY <1>3, <1>8, <2>3 DEF TickTests
  <2>5. QED
    BY <1>8, <2>4 DEF TickTests, TickStep, StoreUnchanged, TypeOK
<1>9. CASE TickClaims(t)
  <2>1. tick[t].cur \subseteq Keys
    BY <1>1 DEF Tick
  <2>2. tick' \in [Tickers -> Tick]
    <3>1. /\ [tick[t] EXCEPT !.pc = "next", !.cur = {},
                             !.launched = tick[t].launched + 1] \in Tick
          /\ [tick[t] EXCEPT !.pc = "next", !.cur = {}] \in Tick
      BY <1>1, TickUpdates
    <3>2. \/ TickEnds(t)
          \/ tick' = [tick EXCEPT ![t] = [@ EXCEPT !.pc = "next", !.cur = {},
                                                  !.launched = tick[t].launched + 1]]
          \/ tick' = [tick EXCEPT ![t] = [@ EXCEPT !.pc = "next", !.cur = {}]]
      BY <1>9 DEF TickClaims
    <3>3. QED
      BY <1>2, <1>3, <3>1, <3>2
  <2>3. PICK k \in Keys :
            \/ /\ row' = [row EXCEPT ![k] = claim_auto_run(row[k])]
               /\ stamped' = [stamped EXCEPT ![k] = clock]
               /\ live' = [live EXCEPT ![k].auto = live[k].auto + 1]
               /\ launches' = [launches EXCEPT ![k] = launches[k] + 1]
            \/ UNCHANGED <<row, stamped, live, launches>>
    BY <1>9, <2>1 DEF TickClaims, StoreUnchanged
  <2>4. /\ claim_auto_run(row[k]) \in Row /\ launches[k] + 1 \in Nat
        /\ [live[k] EXCEPT !.auto = live[k].auto + 1] \in [auto: Nat, manual: Nat]
    BY StoreTypes DEF TypeOK
  <2>5. row' \in [Keys -> Row]
    BY <2>3, <2>4 DEF TypeOK
  <2>6. stamped' \in [Keys -> Nat] /\ launches' \in [Keys -> Nat]
    <3>1. stamped \in [Keys -> Nat] /\ launches \in [Keys -> Nat]
      BY DEF TypeOK
    <3>2. stamped' = [stamped EXCEPT ![k] = clock] \/ stamped' = stamped
      BY <2>3
    <3>3. launches' = [launches EXCEPT ![k] = launches[k] + 1] \/ launches' = launches
      BY <2>3
    <3>4. QED
      BY <1>1, <2>4, <3>1, <3>2, <3>3
  <2>7. live' \in [Keys -> [auto: Nat, manual: Nat]]
    BY <2>3, <2>4 DEF TypeOK
  <2>8. QED
    BY <1>9, <2>2, <2>5, <2>6, <2>7 DEF TickStep, TypeOK
<1>10. QED
  BY <1>4, <1>5, <1>6, <1>7, <1>8, <1>9 DEF TickStep

\* Type correctness of a settings update: only values within the limits are stored.
LEMMA PanelStepType ==
    ASSUME TypeOK, NEW p \in Panels, PutLoads(p) \/ PutSaves(p)
    PROVE  TypeOK'
<1>1. CASE PutLoads(p)
  <2>1. PICK u \in Updates :
            /\ valid_update(u)
            /\ put' = [put EXCEPT ![p] = [pc |-> "save", fields |-> u.fields,
                                          new |-> apply_update(settings, u, clock)]]
    BY <1>1 DEF PutLoads
  <2>2. apply_update(settings, u, clock) \in Settings
    BY <2>1, UpdateType DEF TypeOK
  <2>3. u.fields \in SUBSET {"enabled", "max_parallel", "daily_cap"}
    BY AutorunAssumption
  <2>4. [pc |-> "save", fields |-> u.fields, new |-> apply_update(settings, u, clock)] \in Put
    BY <2>2, <2>3 DEF Put
  <2>5. QED
    BY <1>1, <2>1, <2>4 DEF PutLoads, TypeOK
<1>2. CASE PutSaves(p)
  <2>1. put[p].new \in Settings
    BY DEF TypeOK, Put
  <2>2. QED
    BY <1>2, <2>1, NoTickType DEF PutSaves, TypeOK
<1>3. QED
  BY <1>1, <1>2

\* Type correctness of what happens to one ticket outside the ticks.
LEMMA TicketStepType ==
    ASSUME TypeOK, NEW k \in Keys, Raise(k) \/ run_rca(k) \/ RunEnds(k) \/ reset(k)
    PROVE  TypeOK'
<1>1. row[k] \in Row /\ live[k] \in [auto: Nat, manual: Nat]
  BY DEF TypeOK
<1>2. CASE Raise(k)
  BY <1>2 DEF Raise, TypeOK
<1>3. CASE run_rca(k)
  <2>1. claim_running(row[k], "manual") \in Row
    BY <1>1, StoreTypes
  <2>2. QED
    BY <1>1, <1>3, <2>1 DEF run_rca, TypeOK
<1>4. CASE RunEnds(k)
  <2>1. save_rca(row[k], 1) \in Row /\ mark_failed(row[k]) \in Row
    BY <1>1, StoreTypes
  <2>2. row' \in [Keys -> Row]
    BY <1>4, <2>1 DEF RunEnds, TypeOK
  <2>3. live' \in [Keys -> [auto: Nat, manual: Nat]]
    <3>1. CASE live[k].auto > 0 /\ live' = [live EXCEPT ![k].auto = live[k].auto - 1]
      BY <1>1, <3>1 DEF TypeOK
    <3>2. CASE live[k].manual > 0 /\ live' = [live EXCEPT ![k].manual = live[k].manual - 1]
      BY <1>1, <3>2 DEF TypeOK
    <3>3. QED
      BY <1>4, <3>1, <3>2 DEF RunEnds
  <2>4. QED
    BY <1>4, <2>2, <2>3 DEF RunEnds, TypeOK
<1>5. CASE reset(k)
  <2>1. reset_row(row[k]) \in Row
    BY <1>1, StoreTypes
  <2>2. QED
    BY <1>5, <2>1 DEF reset, TypeOK
<1>6. QED
  BY <1>2, <1>3, <1>4, <1>5

\* Every reachable state is well typed; in particular the settings a tick works
\* with never leave the limits, whatever updates race.
THEOREM AutorunTypeCorrect == Spec => []TypeOK
<1>1. Init => TypeOK
  <2>1. FreshRow \in Row
    BY DEF FreshRow, Row, Statuses, JobKinds, DECIDED_STATUSES
  <2>2. QED
    BY <2>1, NoTickType, AutorunAssumption DEF Init, TypeOK
<1>2. TypeOK /\ [Next]_vars => TypeOK'
  <2> SUFFICES ASSUME TypeOK, [Next]_vars
               PROVE  TypeOK'
    OBVIOUS
  <2>1. CASE Tock
    BY <2>1 DEF Tock, TypeOK
  <2>2. CASE Restart
    <3>1. \A k \in Keys : init_db(row[k]) \in Row
      BY StoreTypes DEF TypeOK
    <3>2. QED
      BY <2>2, <3>1, NoTickType DEF Restart, TypeOK
  <2>3. CASE UNCHANGED vars
    BY <2>3 DEF vars, TypeOK
  <2>4. QED
    BY <2>1, <2>2, <2>3, TickStepType, PanelStepType, TicketStepType DEF Next
<1>3. QED
  BY <1>1, <1>2, PTL DEF Spec

-----------------------------------------------------------------------------
(* The two theorems *)

\* Every step keeps the invariant behind the two theorems.
LEMMA LaunchStep ==
    ASSUME TypeOK, LaunchInv, [Next]_vars
    PROVE  LaunchInv'
<1>1. ASSUME NEW t \in Tickers, TickStep(t)
      PROVE  LaunchInv'
  <2>1. tick[t].cur \subseteq Keys
    BY DEF TypeOK, Tick
  <2>2. CASE TickClaims(t)
    BY <1>1, <2>1, <2>2, ClaimStep DEF TickStep
  <2>3. CASE ~ TickClaims(t)
    BY <1>1, <2>3, QuietStep DEF TickStep, TickLoads, TickCountsRunning, TickCountsToday,
        TickSearches, TickTests, StoreUnchanged
  <2>4. QED
    BY <2>2, <2>3
<1>2. ASSUME NEW p \in Panels, PutLoads(p) \/ PutSaves(p)
      PROVE  LaunchInv'
  BY <1>2, QuietStep DEF PutLoads, PutSaves
<1>3. ASSUME NEW k \in Keys, Raise(k)
      PROVE  LaunchInv'
  BY <1>3, QuietStep DEF Raise
<1>4. CASE Tock \/ UNCHANGED vars
  BY <1>4, QuietStep DEF Tock, vars
<1>5. QED
  BY <1>1, <1>2, <1>3, <1>4, ClickStep, EndStep, ResetStep, RestartStep DEF Next

\* The invariant behind the two theorems holds in every reachable state.
LEMMA LaunchAlways == Spec => []LaunchInv
<1>1. TypeOK /\ LaunchInv /\ [Next]_vars => LaunchInv'
  BY LaunchStep
<1>2. QED
  BY <1>1, LaunchInit, AutorunTypeCorrect, PTL DEF Spec

\* However many ticks overlap, and through resets, re-runs and restarts, the
\* poller investigates a ticket at most once.
THEOREM AutoRunOncePerTicketAlways == Spec => []AutoRunOncePerTicket
<1>1. LaunchInv => AutoRunOncePerTicket
  BY DEF LaunchInv, Stamped, AutoRunOncePerTicket
<1>2. QED
  BY <1>1, LaunchAlways, PTL

\* However many ticks overlap and people click, a ticket nobody has reset has at
\* most one investigation under way.
THEOREM OneRunPerTicketAlways == Spec => []OneRunPerTicket
<1>1. LaunchInv => OneRunPerTicket
  BY DEF LaunchInv, LaunchType, Claimed, OneRunPerTicket
<1>2. QED
  BY <1>1, LaunchAlways, PTL

-----------------------------------------------------------------------------
(* The two caps.  They hold where ticks do not overlap ("Poll now" is not    *)
(* pressed during a tick) and nobody changes the caps; ParallelCap also      *)
(* needs that nobody resets a ticket, which frees a slot under its run.      *)

OneTicker == \A t, u \in Tickers : t = u

FixedCaps ==
    \A u \in Updates : valid_update(u) => u.fields \cap {"max_parallel", "daily_cap"} = {}

NoResets == "reset" \notin Ops

\* The caps stored, in an update and in a tick are those of the start.
SameCaps(s) ==
    /\ s.max_parallel = InitialSettings.max_parallel
    /\ s.daily_cap = InitialSettings.daily_cap

CapsInv ==
    /\ SameCaps(settings)
    /\ \A p \in Panels : SameCaps(put[p].new)
    /\ \A t \in Tickers : SameCaps(tick[t].s)

\* What a claim does to the store, and what the step leaves alone.
Launches(k) ==
    /\ claim_auto_run_selects(row[k])
    /\ row' = [row EXCEPT ![k] = claim_auto_run(row[k])]
    /\ stamped' = [stamped EXCEPT ![k] = clock]
    /\ live' = [live EXCEPT ![k].auto = live[k].auto + 1]
    /\ launches' = [launches EXCEPT ![k] = launches[k] + 1]

\* The steps of a tick, field by field.
LEMMA TickFields ==
    ASSUME TypeOK, NEW t \in Tickers, TickStep(t)
    PROVE  LET x == tick[t]
               y == tick'[t]
           IN  /\ tick' = [tick EXCEPT ![t] = y]
               /\ \/ /\ StoreUnchanged
                     /\ \/ y = NoTick
                        \/ /\ x.pc = "idle" /\ y.pc = "running" /\ y.s = settings
                           /\ y.now = clock /\ y.launched = x.launched
                        \/ /\ x.pc = "running" /\ y.pc = "today" /\ y.s = x.s
                           /\ y.now = x.now /\ y.launched = x.launched
                           /\ y.running = Cardinality(running_auto_keys)
                        \/ /\ x.pc = "today" /\ y.pc = "search" /\ y.s = x.s
                           /\ y.now = x.now /\ y.launched = x.launched
                           /\ y.slots = FreeSlots(t) /\ FreeSlots(t) > 0
                        \/ /\ x.pc \in {"search", "next", "claim"} /\ y.pc \in {"next", "claim"}
                           /\ y.s = x.s /\ y.now = x.now /\ y.launched = x.launched
                           /\ y.slots = x.slots
                  \/ /\ x.pc = "claim"
                     /\ \E k \in Keys : Launches(k)
                     /\ \/ y = NoTick
                        \/ /\ y.pc = "next" /\ y.s = x.s /\ y.now = x.now /\ y.slots = x.slots
                           /\ y.launched = x.launched + 1 /\ y.launched < y.slots
<1> DEFINE x == tick[t]
           y == tick'[t]
<1>1. x \in Tick /\ tick \in [Tickers -> Tick]
  BY DEF TypeOK
<1>2. DOMAIN x = {"pc", "s", "now", "running", "slots", "todo", "cur", "launched"}
      /\ x.launched \in Nat /\ x.slots \in Int
  BY <1>1 DEF Tick
<1>3. ASSUME TickEnds(t) PROVE y = NoTick /\ tick' = [tick EXCEPT ![t] = y]
  BY <1>1, <1>3 DEF TickEnds
<1>4. ASSUME NEW new, tick' = [tick EXCEPT ![t] = new]
      PROVE  y = new /\ tick' = [tick EXCEPT ![t] = y]
  BY <1>1, <1>4
<1>5. CASE TickLoads(t)
  <2> DEFINE new == [x EXCEPT !.pc = "running", !.s = settings, !.now = clock]
  <2>1. StoreUnchanged /\ x.pc = "idle" /\ tick' = [tick EXCEPT ![t] = new]
    BY <1>5 DEF TickLoads, TickAt
  <2>2. new.pc = "running" /\ new.s = settings /\ new.now = clock /\ new.launched = x.launched
    BY <1>2
  <2> HIDE DEF new
  <2>3. QED
    BY <1>4, <2>1, <2>2
<1>6. CASE TickCountsRunning(t)
  <2> DEFINE count == Cardinality(running_auto_keys)
             new == [x EXCEPT !.pc = "today", !.running = count]
  <2>1. StoreUnchanged /\ x.pc = "running" /\ tick' = [tick EXCEPT ![t] = new]
    BY <1>6 DEF TickCountsRunning, TickAt
  <2>2. /\ new.pc = "today" /\ new.s = x.s /\ new.now = x.now /\ new.launched = x.launched
        /\ new.running = count
    BY <1>2
  <2> HIDE DEF new
  <2>3. QED
    BY <1>4, <2>1, <2>2
<1>7. CASE TickCountsToday(t)
  <2> DEFINE new == [x EXCEPT !.pc = "search", !.slots = FreeSlots(t)]
  <2>1. StoreUnchanged /\ x.pc = "today"
    BY <1>7 DEF TickCountsToday, TickAt
  <2>2. CASE FreeSlots(t) <= 0
    BY <1>3, <1>7, <2>1, <2>2 DEF TickCountsToday
  <2>3. CASE ~ (FreeSlots(t) <= 0)
    <3>1. tick' = [tick EXCEPT ![t] = new]
      BY <1>7, <2>3 DEF TickCountsToday
    <3>2. FreeSlots(t) > 0
      BY <2>3, CountsType
    <3>3. /\ new.pc = "search" /\ new.s = x.s /\ new.now = x.now /\ new.launched = x.launched
          /\ new.slots = FreeSlots(t)
      BY <1>2
    <3> HIDE DEF new
    <3>4. QED
      BY <1>4, <2>1, <3>1, <3>2, <3>3
  <2>4. QED
    BY <2>2, <2>3
<1>8. CASE TickSearches(t)
  <2>1. StoreUnchanged /\ x.pc = "search"
    BY <1>8 DEF TickSearches, TickAt
  <2>2. CASE TickEnds(t)
    BY <1>3, <2>1, <2>2
  <2>3. ASSUME NEW f, tick' = [tick EXCEPT ![t] = [x EXCEPT !.pc = "next", !.todo = f]]
        PROVE  /\ tick' = [tick EXCEPT ![t] = y] /\ y.pc = "next" /\ y.s = x.s
               /\ y.now = x.now /\ y.launched = x.launched /\ y.slots = x.slots
    BY <1>2, <1>4, <2>3
  <2>4. QED
    BY <1>8, <2>1, <2>2, <2>3 DEF TickSearches
<1>9. CASE TickTests(t)
  <2>1. StoreUnchanged /\ x.pc = "next"
    BY <1>9 DEF TickTests, TickAt
  <2>2. CASE TickEnds(t)
    BY <1>3, <2>1, <2>2
  <2>3. ASSUME NEW k, tick' = [tick EXCEPT ![t] =
                          IF is_eligible(k, x.s)
                          THEN [x EXCEPT !.pc = "claim", !.cur = {k}, !.todo = x.todo \ {k}]
                          ELSE [x EXCEPT !.todo = x.todo \ {k}]]
        PROVE  /\ tick' = [tick EXCEPT ![t] = y] /\ y.pc \in {"next", "claim"} /\ y.s = x.s
               /\ y.now = x.now /\ y.launched = x.launched /\ y.slots = x.slots
    <3> DEFINE taken == [x EXCEPT !.pc = "claim", !.cur = {k}, !.todo = x.todo \ {k}]
               passed == [x EXCEPT !.todo = x.todo \ {k}]
    <3>1. \A new \in {taken, passed} :
             /\ new.pc \in {"next", "claim"} /\ new.s = x.s
             /\ new.now = x.now /\ new.launched = x.launched /\ new.slots = x.slots
      BY <1>2, <2>1
    <3>2. tick' = [tick EXCEPT ![t] = taken] \/ tick' = [tick EXCEPT ![t] = passed]
      BY <2>3
    <3> HIDE DEF taken, passed
    <3>3. QED
      BY <1>4, <3>1, <3>2
  <2>4. QED
    BY <1>9, <2>1, <2>2, <2>3 DEF TickTests
<1>10. CASE TickClaims(t)
  <2>1. x.pc = "claim" /\ x.cur \subseteq Keys
    BY <1>1, <1>10 DEF TickClaims, TickAt, Tick
  <2> DEFINE more == [x EXCEPT !.pc = "next", !.cur = {}, !.launched = x.launched + 1]
             lost == [x EXCEPT !.pc = "next", !.cur = {}]
  <2>2. /\ more.pc = "next" /\ more.s = x.s /\ more.now = x.now /\ more.slots = x.slots
        /\ more.launched = x.launched + 1
        /\ lost.pc = "next" /\ lost.s = x.s /\ lost.now = x.now /\ lost.slots = x.slots
        /\ lost.launched = x.launched
    BY <1>2
  <2>3. \/ /\ \E k \in Keys : Launches(k)
           /\ IF x.launched + 1 >= x.slots THEN TickEnds(t)
              ELSE tick' = [tick EXCEPT ![t] = more]
        \/ StoreUnchanged /\ tick' = [tick EXCEPT ![t] = lost]
    BY <1>10, <2>1 DEF TickClaims, Launches
  <2> HIDE DEF more, lost
  <2>4. CASE StoreUnchanged /\ tick' = [tick EXCEPT ![t] = lost]
    BY <1>4, <2>1, <2>2, <2>4
  <2>5. CASE (\E k \in Keys : Launches(k)) /\ TickEnds(t)
    BY <1>3, <2>1, <2>5
  <2>6. CASE /\ \E k \in Keys : Launches(k)
             /\ ~ (x.launched + 1 >= x.slots) /\ tick' = [tick EXCEPT ![t] = more]
    <3>1. y = more /\ tick' = [tick EXCEPT ![t] = y]
      BY <1>4, <2>6
    <3>2. x.launched + 1 < x.slots
      BY <1>2, <2>6
    <3>3. QED
      BY <2>1, <2>2, <2>6, <3>1, <3>2
  <2>7. QED
    BY <2>3, <2>4, <2>5, <2>6
<1>11. QED
  BY <1>5, <1>6, <1>7, <1>8, <1>9, <1>10 DEF TickStep

\* The caps stay what they are.
LEMMA CapsInit == Init => CapsInv
BY DEF Init, CapsInv, SameCaps, NoPut, NoTick

LEMMA CapsStep ==
    ASSUME FixedCaps, TypeOK, CapsInv, [Next]_vars
    PROVE  CapsInv'
<1>1. ASSUME UNCHANGED <<settings, put, tick>> PROVE CapsInv'
  BY <1>1 DEF CapsInv, SameCaps
<1>2. SameCaps(NoTick.s) /\ SameCaps(NoPut.new)
  BY DEF NoTick, NoPut, SameCaps
<1>3. ASSUME NEW t \in Tickers, TickStep(t) PROVE CapsInv'
  <2>1. UNCHANGED <<settings, put>> /\ tick \in [Tickers -> Tick]
    BY <1>3 DEF TickStep, TypeOK
  <2>2. tick' = [tick EXCEPT ![t] = tick'[t]] /\ tick'[t].s \in {NoTick.s, settings, tick[t].s}
    BY <1>3, TickFields
  <2>3. \A u \in Tickers : SameCaps(tick'[u].s)
    BY <1>2, <2>1, <2>2 DEF CapsInv
  <2>4. QED
    BY <2>1, <2>3 DEF CapsInv, SameCaps
<1>4. ASSUME NEW p \in Panels, PutLoads(p) PROVE CapsInv'
  <2>1. PICK u \in Updates :
            /\ valid_update(u)
            /\ put' = [put EXCEPT ![p] = [pc |-> "save", fields |-> u.fields,
                                          new |-> apply_update(settings, u, clock)]]
    BY <1>4 DEF PutLoads
  <2>2. "max_parallel" \notin u.fields /\ "daily_cap" \notin u.fields
    BY <2>1 DEF FixedCaps
  <2>3. SameCaps(apply_update(settings, u, clock))
    BY <2>2 DEF apply_update, CapsInv, SameCaps
  <2>4. UNCHANGED <<settings, tick>> /\ \A q \in Panels : SameCaps(put'[q].new)
    BY <1>4, <2>1, <2>3 DEF PutLoads, CapsInv, TypeOK
  <2>5. QED
    BY <2>4 DEF CapsInv, SameCaps
<1>5. ASSUME NEW p \in Panels, PutSaves(p) PROVE CapsInv'
  <2>1. /\ settings' = put[p].new /\ UNCHANGED tick
        /\ \A q \in Panels : put'[q] \in {put[q], NoPut}
    BY <1>5 DEF PutSaves, TypeOK
  <2>2. SameCaps(settings') /\ \A q \in Panels : SameCaps(put'[q].new)
    BY <1>2, <2>1 DEF CapsInv
  <2>3. QED
    BY <2>1, <2>2 DEF CapsInv, SameCaps
<1>6. CASE Restart
  <2>1. UNCHANGED settings /\ (\A q \in Panels : put'[q] = NoPut) /\ \A t \in Tickers : tick'[t] = NoTick
    BY <1>6 DEF Restart
  <2>2. QED
    BY <1>2, <2>1 DEF CapsInv, SameCaps
<1>7. QED
  BY <1>1, <1>3, <1>4, <1>5, <1>6 DEF Next, Raise, run_rca, RunEnds, reset, Tock, vars

-----------------------------------------------------------------------------
(* DailyCap.  A tick that still launches has room left on the day it counted,*)
(* and what it stamps is of that day or a later one.                         *)

StampedSince(from) == {k \in Keys : stamped[k] # 0 /\ stamped[k] >= from}

DayRoom(t) ==
    /\ tick[t].pc \in {"idle", "running", "today"} => tick[t].launched = 0
    /\ tick[t].pc # "idle" => tick[t].now <= clock
    /\ tick[t].pc \in {"search", "next", "claim"} =>
          /\ tick[t].launched < tick[t].slots
          /\ Cardinality(StampedSince(DayStart(tick[t].now))) + tick[t].slots
                <= InitialSettings.daily_cap + tick[t].launched

DayCount(k) == stamped[k] # 0 => Cardinality(StampedWith(k)) <= InitialSettings.daily_cap

DayInv ==
    /\ \A k \in Keys : stamped[k] # 0 => row[k].auto_run_at
    /\ \A k \in Keys : DayCount(k)
    /\ \A t \in Tickers : DayRoom(t)

LEMMA DayStartGrows == \A a, b \in Nat : a <= b => DayStart(a) <= DayStart(b)
BY AutorunAssumption DEF DayStart

LEMMA DayStartType == \A a \in Nat : DayStart(a) \in Int /\ DayStart(a) <= a
BY AutorunAssumption DEF DayStart

\* Sets of tickets can be counted; another ticket adds one.
LEMMA KeysFinite ==
    ASSUME NEW S \in SUBSET Keys
    PROVE  /\ IsFiniteSet(S) /\ Cardinality(S) \in Nat
           /\ \A T \in SUBSET S : Cardinality(T) <= Cardinality(S)
           /\ \A k : Cardinality(S \cup {k}) <= Cardinality(S) + 1
<1>1. IsFiniteSet(S) /\ Cardinality(S) \in Nat
  BY AutorunAssumption, FS_Subset, FS_CardinalityType
<1>2. \A T \in SUBSET S : Cardinality(T) <= Cardinality(S)
  BY <1>1, FS_Subset
<1>3. ASSUME NEW k PROVE Cardinality(S \cup {k}) <= Cardinality(S) + 1
  <2>1. Cardinality(S \cup {k}) = IF k \in S THEN Cardinality(S) ELSE Cardinality(S) + 1
    BY <1>1, FS_AddElement
  <2>2. QED
    BY <1>1, <2>1
<1>4. QED
  BY <1>1, <1>2, <1>3

LEMMA DayInit == Init => DayInv
BY DEF Init, DayInv, DayCount, DayRoom, NoTick

\* What does not stamp and leaves the tick alone, or ends it, keeps the room.
LEMMA DayKept ==
    ASSUME TypeOK, DayInv, UNCHANGED stamped, clock <= clock', clock' \in Nat,
           \A k \in Keys : row[k].auto_run_at => row'[k].auto_run_at,
           \A t \in Tickers : tick'[t] \in {tick[t], NoTick}
    PROVE  DayInv'
<1>1. \A k \in Keys : DayCount(k)'
  BY DEF DayInv, DayCount, StampedWith
<1>2. ASSUME NEW t \in Tickers PROVE DayRoom(t)'
  <2>1. CASE tick'[t] = NoTick
    BY <2>1 DEF DayRoom, NoTick
  <2>2. CASE tick'[t] = tick[t]
    <3>1. StampedSince(DayStart(tick[t].now))' = StampedSince(DayStart(tick[t].now))
      BY <2>2 DEF StampedSince, DayStart
    <3>2. tick[t] \in Tick /\ clock \in Nat
      BY DEF TypeOK
    <3>3. tick[t].now \in Nat
      BY <3>2 DEF Tick
    <3>4. QED
      BY <2>2, <3>1, <3>2, <3>3 DEF DayInv, DayRoom
  <2>3. QED
    BY <2>1, <2>2
<1>3. QED
  BY <1>1, <1>2 DEF DayInv

\* A launch: the ticket was not stamped before, and is counted once.
LEMMA LaunchCounted ==
    ASSUME TypeOK, DayInv, NEW k \in Keys, Launches(k)
    PROVE  /\ stamped[k] = 0
           /\ \A j \in Keys : stamped'[j] = IF j = k THEN clock ELSE stamped[j]
           /\ \A j \in Keys : stamped'[j] # 0 => row'[j].auto_run_at
           /\ \A from : StampedSince(from)' \subseteq StampedSince(from) \cup {k}
<1>1. stamped[k] = 0
  BY DEF Launches, claim_auto_run_selects, DayInv
<1>2. \A j \in Keys : stamped'[j] = IF j = k THEN clock ELSE stamped[j]
  BY DEF Launches, TypeOK
<1>3. row[k] \in Row /\ claim_auto_run(row[k]).auto_run_at
  BY StoreKeepsStamp DEF TypeOK
<1>4. \A j \in Keys : stamped'[j] # 0 => row'[j].auto_run_at
  BY <1>2, <1>3 DEF Launches, TypeOK, DayInv
<1>5. QED
  BY <1>1, <1>2, <1>4 DEF StampedSince

LEMMA DayClaim ==
    ASSUME OneTicker, TypeOK, DayInv, NEW t \in Tickers, tick[t].pc = "claim",
           NEW k \in Keys, Launches(k), UNCHANGED clock,
           \/ tick'[t] = NoTick
           \/ /\ tick'[t].pc = "next" /\ tick'[t].now = tick[t].now /\ tick'[t].slots = tick[t].slots
              /\ tick'[t].launched = tick[t].launched + 1
              /\ tick'[t].launched < tick'[t].slots
    PROVE  DayInv'
<1> DEFINE x == tick[t]
           y == tick'[t]
           cap == InitialSettings.daily_cap
<1>1. x \in Tick /\ clock \in Nat /\ stamped \in [Keys -> Nat]
  BY DEF TypeOK
<1>2. x.now \in Nat /\ x.slots \in Int /\ x.launched \in Nat /\ cap \in Nat
  BY <1>1, AutorunAssumption DEF Tick, Settings
<1>0. PICK day \in Int : day = DayStart(x.now)
  BY <1>2, DayStartType
<1>3. /\ x.launched < x.slots /\ x.now <= clock
      /\ Cardinality(StampedSince(day)) + x.slots <= cap + x.launched
  BY <1>0 DEF DayInv, DayRoom
<1>4. Cardinality(StampedSince(day)) \in Nat /\ Cardinality(StampedSince(day)) + 1 <= cap
  BY <1>2, <1>3, KeysFinite DEF StampedSince
<1>5. /\ stamped[k] = 0
      /\ \A j \in Keys : stamped'[j] = IF j = k THEN clock ELSE stamped[j]
      /\ \A j \in Keys : stamped'[j] # 0 => row'[j].auto_run_at
      /\ StampedSince(day)' \subseteq StampedSince(day) \cup {k}
  BY LaunchCounted
<1>6. Cardinality(StampedSince(day)') \in Nat
      /\ Cardinality(StampedSince(day)') <= Cardinality(StampedSince(day)) + 1
  <2>1. StampedSince(day) \subseteq Keys /\ StampedSince(day) \cup {k} \subseteq Keys
    BY DEF StampedSince
  <2>2. Cardinality(StampedSince(day) \cup {k}) <= Cardinality(StampedSince(day)) + 1
    BY <2>1, KeysFinite
  <2>3. Cardinality(StampedSince(day) \cup {k}) \in Nat
    BY <2>1, KeysFinite
  <2>4. StampedSince(day)' \in SUBSET (StampedSince(day) \cup {k}) /\ StampedSince(day)' \in SUBSET Keys
    BY <1>5, <2>1
  <2>5. /\ Cardinality(StampedSince(day)') <= Cardinality(StampedSince(day) \cup {k})
        /\ Cardinality(StampedSince(day)') \in Nat
    BY <2>1, <2>4, KeysFinite
  <2>6. QED
    BY <1>4, <2>2, <2>3, <2>5
<1>7. ASSUME NEW j \in Keys PROVE DayCount(j)'
  <2> SUFFICES ASSUME stamped'[j] # 0 PROVE Cardinality(StampedWith(j)') <= cap
    BY DEF DayCount
  <2>1. CASE DayStart(stamped'[j]) = DayStart(clock)
    <3>1. day <= DayStart(clock) /\ day \in Int /\ DayStart(clock) \in Int
      BY <1>0, <1>1, <1>2, <1>3, DayStartGrows, DayStartType
    <3>2. ASSUME NEW i \in StampedWith(j)' PROVE i \in StampedSince(day)'
      <4>1. i \in Keys /\ stamped'[i] # 0 /\ DayStart(stamped'[i]) = DayStart(clock)
        BY <2>1 DEF StampedWith, DayStart
      <4>2. stamped'[i] \in Nat
        BY <1>1, <1>5, <4>1
      <4>3. DayStart(clock) <= stamped'[i]
        BY <4>1, <4>2, DayStartType
      <4>4. day <= stamped'[i]
        BY <3>1, <4>2, <4>3
      <4>5. QED
        BY <4>1, <4>2, <4>4, <3>1 DEF StampedSince
    <3>3. StampedWith(j)' \in SUBSET (StampedSince(day)') /\ StampedSince(day)' \in SUBSET Keys
      BY <3>2 DEF StampedSince
    <3>4. /\ Cardinality(StampedWith(j)') <= Cardinality(StampedSince(day)')
          /\ Cardinality(StampedWith(j)') \in Nat
      BY <3>3, KeysFinite
    <3>5. QED
      BY <1>2, <1>4, <1>6, <3>4
  <2>2. CASE DayStart(stamped'[j]) # DayStart(clock)
    <3>1. j # k /\ stamped'[j] = stamped[j]
      BY <1>5, <2>2
    <3>2. StampedWith(j)' = StampedWith(j)
      BY <1>5, <2>2, <3>1 DEF StampedWith, DayStart
    <3>3. QED
      BY <3>1, <3>2 DEF DayInv, DayCount
  <2>3. QED
    BY <2>1, <2>2
<1>8. DayRoom(t)'
  <2>1. CASE y = NoTick
    BY <2>1 DEF DayRoom, NoTick
  <2>2. CASE /\ y.pc = "next" /\ y.now = x.now /\ y.slots = x.slots
             /\ y.launched = x.launched + 1 /\ y.launched < y.slots
    <3>1. StampedSince(DayStart(tick[t].now))' = StampedSince(day)'
      BY <1>0, <2>2 DEF StampedSince, DayStart
    <3>2. Cardinality(StampedSince(day)') + x.slots <= cap + (x.launched + 1)
      BY <1>2, <1>3, <1>4, <1>6
    <3>3. Cardinality(StampedSince(DayStart(tick[t].now)))' + y.slots <= cap + y.launched
      BY <2>2, <3>1, <3>2
    <3>4. QED
      BY <1>3, <2>2, <3>3 DEF DayRoom
  <2>3. QED
    BY <2>1, <2>2
<1>9. \A u \in Tickers : DayRoom(u)'
  BY <1>8 DEF OneTicker
<1>10. QED
  BY <1>5, <1>7, <1>9 DEF DayInv

\* A launch changes the row.
LEMMA LaunchSeen ==
    ASSUME TypeOK, NEW k \in Keys, Launches(k)
    PROVE  ~ StoreUnchanged
<1>1. row[k] \in Row /\ claim_auto_run(row[k]).auto_run_at
  BY StoreKeepsStamp DEF TypeOK
<1>2. row'[k] = claim_auto_run(row[k]) /\ ~ row[k].auto_run_at
  BY DEF Launches, claim_auto_run_selects, TypeOK
<1>3. QED
  BY <1>1, <1>2 DEF StoreUnchanged

\* The store's other UPDATEs keep every stamp.
LEMMA TicketKeepsStamps ==
    ASSUME TypeOK, NEW k \in Keys, run_rca(k) \/ RunEnds(k) \/ reset(k)
    PROVE  \A j \in Keys : row[j].auto_run_at => row'[j].auto_run_at
<1>1. row[k] \in Row
  BY DEF TypeOK
<1>2. \A r \in {claim_running(row[k], "manual"), save_rca(row[k], 1), mark_failed(row[k]),
               reset_row(row[k])} : row[k].auto_run_at => r.auto_run_at
  BY <1>1, StoreKeepsStamp
<1>3. \E r \in {claim_running(row[k], "manual"), save_rca(row[k], 1), mark_failed(row[k]),
               reset_row(row[k])} : row' = [row EXCEPT ![k] = r]
  BY DEF run_rca, RunEnds, reset
<1>4. QED
  BY <1>2, <1>3 DEF TypeOK

LEMMA DayStep ==
    ASSUME OneTicker, TypeOK, CapsInv, DayInv, [Next]_vars
    PROVE  DayInv'
<1>1. clock \in Nat
  BY DEF TypeOK
<1>2. ASSUME NEW t \in Tickers, TickStep(t) PROVE DayInv'
  <2> DEFINE x == tick[t]
             y == tick'[t]
  <2>1. UNCHANGED clock /\ x \in Tick /\ tick \in [Tickers -> Tick]
    BY <1>2 DEF TickStep, TypeOK
  <2>2. tick' = [tick EXCEPT ![t] = y]
    BY <1>2, TickFields
  <2>3. CASE StoreUnchanged
    <3>1. UNCHANGED stamped /\ \A k \in Keys : row[k].auto_run_at => row'[k].auto_run_at
      BY <2>3 DEF StoreUnchanged
    <3>2. CASE y = NoTick
      BY <1>1, <2>1, <2>2, <3>1, <3>2, DayKept
    <3>3. CASE y # NoTick
      <4>1. x.now \in Nat /\ x.launched \in Nat /\ x.slots \in Int
        BY <2>1 DEF Tick
      <4>2. DayRoom(t)'
        <5>1. CASE y.pc \in {"running", "today"}
          BY <1>1, <1>2, <2>1, <2>3, <3>3, <4>1, <5>1, TickFields DEF DayInv, DayRoom, NoTick
        <5>2. CASE y.pc = "search"
          <6> DEFINE n == Cardinality(StampedSince(DayStart(x.now)))
          <6>1. /\ x.pc = "today" /\ y.s = x.s /\ y.now = x.now /\ y.launched = x.launched
                /\ y.slots = FreeSlots(t) /\ FreeSlots(t) > 0
            BY <1>2, <3>3, <5>2, TickFields
          <6>2. x.launched = 0 /\ x.now <= clock
            BY <6>1 DEF DayInv, DayRoom
          <6>3. n \in Nat /\ count_auto_runs_today(x.now) = n
            BY KeysFinite DEF StampedSince, count_auto_runs_today
          <6>4. /\ x.s.max_parallel \in Int /\ x.running \in Nat
                /\ x.s.daily_cap = InitialSettings.daily_cap /\ InitialSettings.daily_cap \in Nat
            BY <2>1, AutorunAssumption DEF Tick, Settings, CapsInv, SameCaps
          <6> HIDE DEF n
          <6>5. FreeSlots(t) <= InitialSettings.daily_cap - n /\ FreeSlots(t) \in Int
            BY <6>3, <6>4 DEF FreeSlots
          <6>6. Cardinality(StampedSince(DayStart(tick[t].now)))' = n
            BY <3>1, <6>1 DEF n, StampedSince, DayStart
          <6>7. Cardinality(StampedSince(DayStart(tick[t].now)))' + y.slots
                  <= InitialSettings.daily_cap + y.launched
            BY <6>1, <6>2, <6>3, <6>4, <6>5, <6>6
          <6>8. QED
            BY <2>1, <5>2, <6>1, <6>2, <6>5, <6>7 DEF DayRoom
        <5>3. CASE y.pc \in {"next", "claim"}
          <6>1. /\ x.pc \in {"search", "next", "claim"}
                /\ y.s = x.s /\ y.now = x.now /\ y.launched = x.launched /\ y.slots = x.slots
            BY <1>2, <2>3, <3>3, <5>3, LaunchSeen, TickFields
          <6>2. StampedSince(DayStart(tick[t].now))' = StampedSince(DayStart(x.now))
            BY <3>1, <6>1 DEF StampedSince, DayStart
          <6>3. QED
            BY <2>1, <5>3, <6>1, <6>2 DEF DayInv, DayRoom
        <5>4. QED
          BY <1>2, <2>3, <3>3, <5>1, <5>2, <5>3, TickFields
      <4>3. \A k \in Keys : DayCount(k)'
        BY <3>1 DEF DayInv, DayCount, StampedWith
      <4>4. QED
        BY <3>1, <4>2, <4>3 DEF DayInv, OneTicker
    <3>4. QED
      BY <3>2, <3>3
  <2>4. CASE ~ StoreUnchanged
    <3>1. PICK k \in Keys : Launches(k)
      BY <1>2, <2>4, TickFields
    <3>2. /\ x.pc = "claim"
          /\ \/ y = NoTick
             \/ /\ y.pc = "next" /\ y.now = x.now /\ y.slots = x.slots
                /\ y.launched = x.launched + 1 /\ y.launched < y.slots
      BY <1>2, <2>4, TickFields
    <3>3. QED
      BY <2>1, <3>1, <3>2, DayClaim
  <2>5. QED
    BY <2>3, <2>4
<1>3. ASSUME UNCHANGED <<stamped, tick>>, clock' \in Nat, clock <= clock',
             \A k \in Keys : row[k].auto_run_at => row'[k].auto_run_at
      PROVE  DayInv'
  BY <1>3, DayKept
<1>4. ASSUME NEW p \in Panels, PutLoads(p) \/ PutSaves(p) PROVE DayInv'
  BY <1>1, <1>3, <1>4 DEF PutLoads, PutSaves
<1>5. ASSUME NEW k \in Keys, Raise(k) \/ run_rca(k) \/ RunEnds(k) \/ reset(k) PROVE DayInv'
  <2>1. \A j \in Keys : row[j].auto_run_at => row'[j].auto_run_at
    BY <1>5, TicketKeepsStamps DEF Raise
  <2>2. UNCHANGED <<stamped, tick, clock>>
    BY <1>5 DEF Raise, run_rca, RunEnds, reset
  <2>3. QED
    BY <1>1, <1>3, <2>1, <2>2
<1>6. CASE Tock \/ UNCHANGED vars
  BY <1>1, <1>3, <1>6 DEF Tock, vars
<1>7. CASE Restart
  <2>1. \A k \in Keys : row[k].auto_run_at => row'[k].auto_run_at
    BY <1>7, StoreKeepsStamp DEF Restart, TypeOK
  <2>2. UNCHANGED <<stamped, clock>> /\ \A t \in Tickers : tick'[t] = NoTick
    BY <1>7 DEF Restart
  <2>3. QED
    BY <1>1, <2>1, <2>2, DayKept
<1>8. QED
  BY <1>2, <1>4, <1>5, <1>6, <1>7 DEF Next

\* Of one poller with fixed caps, no day has more automatic runs than
\* daily_cap: through restarts, resets, clicks, and a tick that counts before
\* midnight and claims after it (db.py:379-386, autorun.py:345-352).
THEOREM DailyCapAlways ==
    ASSUME OneTicker, FixedCaps
    PROVE  Spec => []DailyCap
<1>1. TypeOK /\ CapsInv /\ DayInv /\ [Next]_vars => (CapsInv /\ DayInv)'
  BY CapsStep, DayStep
<1>2. CapsInv /\ DayInv => DailyCap
  BY DEF DayInv, DayCount, DailyCap, CapsInv, SameCaps
<1>3. QED
  BY <1>1, <1>2, CapsInit, DayInit, AutorunTypeCorrect, PTL DEF Spec

-----------------------------------------------------------------------------
(* ParallelCap.  Without resets an automatic run under way shows "running"   *)
(* and "auto", so the tick counts it; a tick that still launches has a slot. *)

SlotRoom(t) ==
    /\ tick[t].pc \in {"idle", "running", "today"} => tick[t].launched = 0
    /\ tick[t].pc = "today" => Cardinality(AutoLive) <= tick[t].running
    /\ tick[t].pc \in {"search", "next", "claim"} =>
          /\ tick[t].launched < tick[t].slots
          /\ Cardinality(AutoLive) + tick[t].slots
                <= InitialSettings.max_parallel + tick[t].launched

SourceShown(k) == live[k].auto > 0 => row[k].trigger_source = "auto"

SlotInv ==
    /\ was_reset = {}
    /\ \A k \in Keys : SourceShown(k)
    /\ Cardinality(AutoLive) <= InitialSettings.max_parallel
    /\ \A t \in Tickers : SlotRoom(t)

LEMMA SlotInit == Init => SlotInv
<1> SUFFICES ASSUME Init PROVE SlotInv
  OBVIOUS
<1>1. AutoLive = {}
  BY DEF Init, AutoLive, NotLive
<1>2. Cardinality(AutoLive) = 0 /\ InitialSettings.max_parallel \in 1..4
  BY <1>1, FS_EmptySet, AutorunAssumption DEF Settings
<1>3. Cardinality(AutoLive) <= InitialSettings.max_parallel
  BY <1>2
<1>4. QED
  BY <1>3 DEF Init, SlotInv, SourceShown, SlotRoom, NoTick, NotLive

\* The runs under way, before and after a step.
LEMMA AutoLiveCounts ==
    /\ Cardinality(AutoLive) \in Nat
    /\ AutoLive' \subseteq AutoLive =>
          Cardinality(AutoLive') \in Nat /\ Cardinality(AutoLive') <= Cardinality(AutoLive)
    /\ \A k \in Keys : AutoLive' \subseteq AutoLive \cup {k} =>
          Cardinality(AutoLive') \in Nat /\ Cardinality(AutoLive') <= Cardinality(AutoLive) + 1
<1>1. AutoLive \subseteq Keys /\ AutoLive' \subseteq Keys
  BY DEF AutoLive
<1>2. Cardinality(AutoLive) \in Nat /\ Cardinality(AutoLive') \in Nat
  BY <1>1, KeysFinite
<1>3. AutoLive' \subseteq AutoLive => Cardinality(AutoLive') <= Cardinality(AutoLive)
  BY <1>1, KeysFinite
<1>4. ASSUME NEW k \in Keys, AutoLive' \subseteq AutoLive \cup {k}
      PROVE  Cardinality(AutoLive') <= Cardinality(AutoLive) + 1
  <2>1. AutoLive \cup {k} \subseteq Keys
    BY <1>1
  <2>2. Cardinality(AutoLive') <= Cardinality(AutoLive \cup {k})
    BY <1>4, <2>1, KeysFinite
  <2>3. Cardinality(AutoLive \cup {k}) <= Cardinality(AutoLive) + 1
        /\ Cardinality(AutoLive \cup {k}) \in Nat
    BY <1>1, <2>1, KeysFinite
  <2>4. QED
    BY <1>2, <2>2, <2>3
<1>5. QED
  BY <1>2, <1>3, <1>4

\* What starts no automatic run and leaves the tick alone, or ends it.
LEMMA SlotKept ==
    ASSUME TypeOK, SlotInv, UNCHANGED was_reset, AutoLive' \subseteq AutoLive,
           \A k \in Keys : SourceShown(k)',
           \A t \in Tickers : tick'[t] \in {tick[t], NoTick}
    PROVE  SlotInv'
<1>1. /\ Cardinality(AutoLive) \in Nat /\ Cardinality(AutoLive)' \in Nat
      /\ Cardinality(AutoLive)' <= Cardinality(AutoLive)
  BY AutoLiveCounts
<1>2. InitialSettings.max_parallel \in Nat
  BY AutorunAssumption DEF Settings
<1>3. ASSUME NEW t \in Tickers PROVE SlotRoom(t)'
  <2>1. CASE tick'[t] = NoTick
    BY <2>1 DEF SlotRoom, NoTick
  <2>2. CASE tick'[t] = tick[t]
    <3>1. tick[t] \in Tick
      BY DEF TypeOK
    <3>2. tick[t].running \in Nat /\ tick[t].slots \in Int /\ tick[t].launched \in Nat
      BY <3>1 DEF Tick
    <3>3. QED
      BY <1>1, <1>2, <2>2, <3>2 DEF SlotInv, SlotRoom
  <2>3. QED
    BY <2>1, <2>2
<1>4. Cardinality(AutoLive)' <= InitialSettings.max_parallel
  BY <1>1, <1>2 DEF SlotInv
<1>5. QED
  BY <1>3, <1>4 DEF SlotInv

LEMMA SlotTick ==
    ASSUME OneTicker, TypeOK, CapsInv, LaunchInv, SlotInv, NEW t \in Tickers, TickStep(t)
    PROVE  SlotInv'
<1> DEFINE x == tick[t]
           y == tick'[t]
<1>1. UNCHANGED was_reset /\ x \in Tick /\ tick \in [Tickers -> Tick]
  BY DEF TickStep, TypeOK
<1>2. x.launched \in Nat /\ x.slots \in Int /\ x.running \in Nat
  BY <1>1 DEF Tick
<1>3. /\ x.s.max_parallel = InitialSettings.max_parallel /\ InitialSettings.max_parallel \in Nat
      /\ x.s.daily_cap \in Int
  BY <1>1, AutorunAssumption DEF Tick, Settings, CapsInv, SameCaps
<1>4. tick' = [tick EXCEPT ![t] = y]
  BY TickFields
<1>5. CASE StoreUnchanged
  <2>1. AutoLive' = AutoLive /\ \A k \in Keys : SourceShown(k)'
    BY <1>5 DEF StoreUnchanged, AutoLive, SlotInv, SourceShown
  <2>2. CASE y = NoTick
    BY <1>1, <1>4, <2>1, <2>2, SlotKept
  <2>3. CASE y # NoTick
    <3> DEFINE n == Cardinality(AutoLive)
    <3>1. n \in Nat /\ Cardinality(AutoLive)' = n /\ n <= InitialSettings.max_parallel
      BY <2>1, AutoLiveCounts DEF SlotInv
    <3>2. SlotRoom(t)'
      <4>1. CASE y.pc = "running"
        <5>1. y.launched = 0
          BY <1>5, <2>3, <4>1, LaunchSeen, TickFields DEF SlotInv, SlotRoom
        <5>2. QED
          BY <4>1, <5>1 DEF SlotRoom
      <4>2. CASE y.pc = "today"
        <5>1. y.running = Cardinality(running_auto_keys) /\ x.pc = "running" /\ y.launched = x.launched
          BY <2>3, <4>2, TickFields
        <5>2. AutoLive \subseteq running_auto_keys
          <6>1. \A k \in Keys : live[k].auto \in Nat /\ live[k].manual \in Nat /\ Claimed(k)
            BY DEF LaunchInv, LaunchType, SlotInv
          <6>2. QED
            BY <6>1 DEF AutoLive, running_auto_keys, Claimed, SlotInv, SourceShown
        <5>3. n <= Cardinality(running_auto_keys)
          BY <5>2, KeysFinite DEF running_auto_keys
        <5> HIDE DEF n
        <5>4. QED
          BY <3>1, <4>2, <5>1, <5>3 DEF SlotInv, SlotRoom
      <4>3. CASE y.pc = "search"
        <5>1. /\ x.pc = "today" /\ y.launched = x.launched /\ y.slots = FreeSlots(t)
              /\ FreeSlots(t) > 0
          BY <2>3, <4>3, TickFields
        <5>2. x.launched = 0 /\ n <= x.running
          BY <5>1 DEF SlotInv, SlotRoom
        <5>3. FreeSlots(t) <= InitialSettings.max_parallel - x.running /\ FreeSlots(t) \in Int
          <6>1. count_auto_runs_today(x.now) \in Nat
            BY KeysFinite DEF count_auto_runs_today
          <6>2. QED
            BY <1>2, <1>3, <6>1 DEF FreeSlots
        <5> HIDE DEF n
        <5>4. n + y.slots <= InitialSettings.max_parallel + y.launched
          BY <1>2, <1>3, <3>1, <5>1, <5>2, <5>3
        <5>5. QED
          BY <3>1, <4>3, <5>1, <5>2, <5>3, <5>4 DEF SlotRoom
      <4>4. CASE y.pc \in {"next", "claim"}
        <5>1. /\ x.pc \in {"search", "next", "claim"}
              /\ y.launched = x.launched /\ y.slots = x.slots
          BY <1>5, <2>3, <4>4, LaunchSeen, TickFields
        <5>2. QED
          BY <3>1, <4>4, <5>1 DEF SlotInv, SlotRoom
      <4>5. QED
        BY <1>5, <2>3, <4>1, <4>2, <4>3, <4>4, LaunchSeen, TickFields
    <3>3. QED
      BY <1>1, <2>1, <3>1, <3>2 DEF SlotInv, OneTicker
  <2>4. QED
    BY <2>2, <2>3
<1>6. CASE ~ StoreUnchanged
  <2>1. PICK k \in Keys : Launches(k)
    BY <1>6, TickFields
  <2>2. /\ x.pc = "claim"
        /\ \/ y = NoTick
           \/ /\ y.pc = "next" /\ y.slots = x.slots
              /\ y.launched = x.launched + 1 /\ y.launched < y.slots
    BY <1>6, TickFields
  <2>3. /\ row[k] \in Row /\ row'[k] = claim_auto_run(row[k])
        /\ \A j \in Keys \ {k} : row'[j] = row[j] /\ live'[j] = live[j]
    BY <2>1 DEF Launches, TypeOK
  <2>4. claim_auto_run(row[k]).trigger_source = "auto"
    BY <2>3 DEF claim_auto_run, Row
  <2>5. \A j \in Keys : SourceShown(j)'
    BY <2>3, <2>4 DEF SlotInv, SourceShown
  <2>6. AutoLive' \subseteq AutoLive \cup {k}
    BY <2>3 DEF AutoLive
  <2> DEFINE n == Cardinality(AutoLive)
  <2>7. /\ n \in Nat /\ Cardinality(AutoLive)' \in Nat
        /\ Cardinality(AutoLive)' <= n + 1
    BY <2>6, AutoLiveCounts
  <2>8. x.launched < x.slots /\ n + x.slots <= InitialSettings.max_parallel + x.launched
    BY <2>2 DEF SlotInv, SlotRoom
  <2> HIDE DEF n
  <2>9. Cardinality(AutoLive)' <= InitialSettings.max_parallel
    BY <1>2, <1>3, <2>7, <2>8
  <2>10. Cardinality(AutoLive)' + x.slots <= InitialSettings.max_parallel + (x.launched + 1)
    BY <1>2, <1>3, <2>7, <2>8
  <2>11. SlotRoom(t)'
    BY <2>2, <2>10 DEF SlotRoom, NoTick
  <2>12. QED
    BY <1>1, <2>5, <2>9, <2>11 DEF SlotInv, OneTicker
<1>7. QED
  BY <1>5, <1>6

LEMMA SlotStep ==
    ASSUME OneTicker, NoResets, TypeOK, CapsInv, LaunchInv, SlotInv, [Next]_vars
    PROVE  SlotInv'
<1>1. ASSUME UNCHANGED <<row, live, was_reset, tick>> PROVE SlotInv'
  <2>1. AutoLive' = AutoLive /\ \A k \in Keys : SourceShown(k)'
    BY <1>1 DEF AutoLive, SlotInv, SourceShown
  <2>2. QED
    BY <1>1, <2>1, SlotKept
<1>2. \A k \in Keys : row[k] \in Row /\ live[k].auto \in Nat /\ live[k].manual \in Nat /\ Claimed(k)
  BY DEF LaunchInv, LaunchType, SlotInv
<1>3. ASSUME NEW k \in Keys, run_rca(k) PROVE SlotInv'
  <2>1. /\ live' = [live EXCEPT ![k].manual = live[k].manual + 1]
        /\ row[k].status # "running" /\ UNCHANGED <<was_reset, tick>>
        /\ \A j \in Keys \ {k} : row'[j] = row[j]
    BY <1>3 DEF run_rca, claim_running_selects, TypeOK
  <2>2. \A j \in Keys : live'[j].auto = live[j].auto
    BY <2>1 DEF TypeOK
  <2>3. live[k].auto = 0
    BY <1>2, <2>1 DEF Claimed
  <2>4. AutoLive' \subseteq AutoLive /\ \A j \in Keys : SourceShown(j)'
    BY <2>1, <2>2, <2>3 DEF AutoLive, SlotInv, SourceShown
  <2>5. QED
    BY <2>1, <2>4, SlotKept
<1>4. ASSUME NEW k \in Keys, RunEnds(k) PROVE SlotInv'
  <2>1. PICK source \in {"auto", "manual"} :
          live[k][source] > 0 /\ live' = [live EXCEPT ![k][source] = live[k][source] - 1]
    BY <1>4 DEF RunEnds
  <2>2. UNCHANGED <<was_reset, tick>> /\ \A j \in Keys \ {k} : row'[j] = row[j] /\ live'[j] = live[j]
    BY <1>4, <2>1 DEF RunEnds, TypeOK
  <2>3. live'[k].auto = 0
    <3>1. CASE source = "auto"
      <4>1. live'[k].auto = live[k].auto - 1 /\ live[k].auto > 0
        BY <2>1, <3>1 DEF TypeOK
      <4>2. QED
        BY <1>2, <4>1 DEF Claimed
    <3>2. CASE source = "manual"
      <4>1. live'[k].auto = live[k].auto /\ live[k].manual > 0
        BY <2>1, <3>2 DEF TypeOK
      <4>2. QED
        BY <1>2, <4>1 DEF Claimed
    <3>3. QED
      BY <3>1, <3>2
  <2>4. AutoLive' \subseteq AutoLive /\ \A j \in Keys : SourceShown(j)'
    BY <2>2, <2>3 DEF AutoLive, SlotInv, SourceShown
  <2>5. QED
    BY <2>2, <2>4, SlotKept
<1>5. CASE Restart
  <2>1. (\A k \in Keys : live'[k] = NotLive) /\ UNCHANGED was_reset /\ \A t \in Tickers : tick'[t] = NoTick
    BY <1>5 DEF Restart
  <2>2. AutoLive' \subseteq AutoLive /\ \A k \in Keys : SourceShown(k)'
    BY <2>1 DEF AutoLive, SourceShown, NotLive
  <2>3. QED
    BY <2>1, <2>2, SlotKept
<1>6. QED
  BY <1>1, <1>3, <1>4, <1>5, SlotTick
     DEF Next, PutLoads, PutSaves, Raise, reset, Tock, vars, NoResets

\* Of one poller with fixed caps, where nobody resets a ticket, no more
\* automatic runs are under way than max_parallel: through restarts and clicks,
\* although the tick counts them once and launches for its whole search
\* (autorun.py:345-389).
THEOREM ParallelCapAlways ==
    ASSUME OneTicker, FixedCaps, NoResets
    PROVE  Spec => []ParallelCap
<1>1. TypeOK /\ LaunchInv /\ CapsInv /\ SlotInv /\ [Next]_vars => (CapsInv /\ SlotInv)'
  BY CapsStep, SlotStep
<1>2. CapsInv /\ SlotInv => ParallelCap
  BY DEF SlotInv, ParallelCap, CapsInv, SameCaps
<1>3. QED
  BY <1>1, <1>2, CapsInit, SlotInit, LaunchAlways, AutorunTypeCorrect, PTL DEF Spec
=============================================================================
