------------------------------ MODULE TriageProofs ------------------------------
(***************************************************************************)
(* Proof about the Triage list and the counters (Triage): a ticket once    *)
(* stored as a Bug is in every answer whose range it is in, and so is      *)
(* every ticket that is a Bug while the answer is made, as long as those   *)
(* fit under the cap of the search; the rows of a list are as fresh as it  *)
(* says; the numbers of a period and of the scoreboard add up.             *)
(***************************************************************************)
EXTENDS Triage, FiniteSetTheorems, TLAPS

(***************************************************************************)
(* The inductive invariant.                                                *)
(***************************************************************************)

CardsInv ==
    /\ DOMAIN card = Keys
    /\ \A k \in Keys : DOMAIN card[k] = {"type", "pinned"} /\ card[k].pinned \in BOOLEAN
    /\ pins \subseteq Keys
    /\ \A k \in pins : card[k].pinned

JiraInv ==
    /\ DOMAIN jira = Keys
    /\ \A k \in Keys : jira[k] \in Seq(Types) /\ Len(jira[k]) >= 1

\* What the search of a request may have found, and must have found.
SinceOf(x, k) == {jira[k][i] : i \in x.seen[k] .. Len(jira[k])}

MaybeOf(x) == {k \in Keys : InRange(k, x.range) /\ \E t \in SinceOf(x, k) : t \in TriageTypes}

SureOf(x) == {k \in Keys : InRange(k, x.range) /\ \A t \in SinceOf(x, k) : t \in TriageTypes}

Complete(x) == ~x.stale /\ Cardinality(MaybeOf(x)) <= SEARCH_MAX

Lists(x) == x.op \in {"list", "period"}

\* Where a request is, and what is left of its work there.
PlaceOK(x) ==
    Lists(x) =>
        /\ x.then \in {"extra", "chunk"}
        /\ x.pc \notin {"total", "accepted", "rejected"}
        /\ x.pc \in {"search", "extra", "chunk", "stats", "answered"} => x.todo = <<>>
        /\ x.pc = "chunk" => x.then = "chunk"
        /\ x.op = "list" => /\ x.pc # "stats"
                            /\ x.pc = "answered" => x.then = "chunk" /\ x.extra = <<>>

\* What the request has of the tickets it must answer.
HasPinned(x) ==
    Lists(x) =>
        /\ x.pinned \subseteq pins
        /\ \A k \in x.pinned : InRange(k, x.range)
        /\ x.then = "chunk" => x.pinned \subseteq DOMAIN x.rows \cup DOMAIN x.extra

HasFound(x) ==
    (Lists(x) /\ x.pc \notin {"idle", "search"} /\ Complete(x)) =>
        \A k \in SureOf(x) :
            \/ k \in DOMAIN x.todo /\ x.todo[k] \in TriageTypes
            \/ k \in DOMAIN x.rows /\ card[k].pinned

HasCounted(x) ==
    (x.op = "period" /\ x.pc = "answered") =>
        /\ x.pinned \subseteq x.counts.raised
        /\ Complete(x) => SureOf(x) \subseteq x.counts.raised

HasStored(x) ==
    /\ DOMAIN x.todo \subseteq Keys /\ DOMAIN x.extra \subseteq Keys
    /\ x.pc # "reread" => x.syncing = {}
    /\ x.pc = "reread" =>
        x.syncing \subseteq DOMAIN x.todo /\ \A k \in x.syncing : x.todo[k] \in TriageTypes => card[k].pinned

HasSeen(x) ==
    /\ (Lists(x) /\ x.pc # "idle") =>
            DOMAIN x.seen = Keys /\ \A k \in Keys : x.seen[k] \in 1 .. Len(jira[k])
    /\ x.op = "period" => /\ DOMAIN x.range = {"from", "to"}
                          /\ x.range.from \in Nat /\ x.range.from >= PeriodStart

RequestOK(x) ==
    /\ DOMAIN x = DOMAIN Idle
    /\ PlaceOK(x)
    /\ HasPinned(x) /\ HasFound(x) /\ HasCounted(x) /\ HasStored(x) /\ HasSeen(x)

TriageInv ==
    /\ CardsInv /\ JiraInv
    /\ DOMAIN req = Clients
    /\ \A c \in Clients : RequestOK(req[c])

(***************************************************************************)
(* The sets of keys are finite.                                            *)
(***************************************************************************)

LEMMA MaybeFinite == \A x : IsFiniteSet(MaybeOf(x)) /\ Cardinality(MaybeOf(x)) \in Nat
<1> SUFFICES ASSUME NEW x PROVE IsFiniteSet(MaybeOf(x)) /\ Cardinality(MaybeOf(x)) \in Nat
  OBVIOUS
<1>1. MaybeOf(x) \subseteq Keys /\ IsFiniteSet(Keys)
  BY TriageAssumption DEF MaybeOf
<1>2. QED
  BY <1>1, FS_Subset, FS_CardinalityType

\* A search that had room for all it could find found all.
LEMMA NewestAll ==
    ASSUME NEW S, IsFiniteSet(S), Cardinality(S) <= SEARCH_MAX, NEW A \in Newest(S, SEARCH_MAX)
    PROVE  A = S
<1>1. Cardinality(S) \in Nat /\ SEARCH_MAX \in Nat
  BY FS_CardinalityType, TriageAssumption
<1>2. A \subseteq S /\ Cardinality(A) = Cardinality(S)
  BY <1>1 DEF Newest
<1>3. QED
  BY <1>2, FS_Subset

(***************************************************************************)
(* What a request keeps while others work.                                 *)
(***************************************************************************)

Same(x, y) ==
    /\ DOMAIN y = DOMAIN x
    /\ y.op = x.op /\ y.pc = x.pc /\ y.range = x.range /\ y.todo = x.todo
    /\ y.syncing = x.syncing /\ y.extra = x.extra /\ y.rows = x.rows /\ y.then = x.then
    /\ y.stale = x.stale /\ y.counts = x.counts /\ y.seen = x.seen /\ y.pinned = x.pinned

\* Pins are never taken off, and Jira's history grows.
Grows ==
    /\ pins \subseteq pins'
    /\ \A k \in Keys : card[k].pinned => card'[k].pinned
    /\ \A k \in Keys : /\ Len(jira[k]) \in Nat /\ Len(jira'[k]) \in Nat
                       /\ Len(jira[k]) <= Len(jira'[k])
                       /\ \A i \in 1 .. Len(jira[k]) : jira'[k][i] = jira[k][i]

LEMMA OtherKept ==
    ASSUME NEW c \in Clients, RequestOK(req[c]), Same(req[c], req'[c]), Grows
    PROVE  RequestOK(req[c])'
<1> DEFINE x == req[c]
           y == req'[c]
<1>1. /\ DOMAIN y = DOMAIN Idle
      /\ PlaceOK(y)
      /\ HasPinned(x)'
      /\ HasStored(x)'
      /\ HasSeen(x)'
  BY DEF RequestOK, PlaceOK, HasPinned, HasStored, HasSeen, Lists, Same, Grows
<1>2. Lists(x) /\ x.pc # "idle" =>
        \A k \in Keys : SinceOf(x, k) \subseteq SinceOf(x, k)'
  BY DEF RequestOK, HasSeen, Same, Grows, SinceOf
<1>3. Lists(x) /\ x.pc # "idle" => MaybeOf(x) \subseteq MaybeOf(x)' /\ SureOf(x)' \subseteq SureOf(x)
  BY <1>2 DEF MaybeOf, SureOf, Same, InRange
<1>4. Lists(x) /\ x.pc # "idle" /\ Complete(x)' => Complete(x)
  <2>1. IsFiniteSet(MaybeOf(x)) /\ IsFiniteSet(MaybeOf(x))'
        /\ Cardinality(MaybeOf(x)) \in Nat /\ Cardinality(MaybeOf(x))' \in Nat
    <3>1. MaybeOf(x) \subseteq Keys /\ MaybeOf(x)' \subseteq Keys
      BY DEF MaybeOf
    <3>2. QED
      BY <3>1, FS_Subset, FS_CardinalityType, TriageAssumption
  <2>2. Lists(x) /\ x.pc # "idle" => Cardinality(MaybeOf(x)) <= Cardinality(MaybeOf(x))'
    <3>1. ASSUME NEW S, NEW T, IsFiniteSet(S), T \subseteq S PROVE Cardinality(T) <= Cardinality(S)
      BY <3>1, FS_Subset
    <3>2. QED
      BY <1>3, <2>1, <3>1
  <2>3. QED
    BY <2>1, <2>2, TriageAssumption DEF Complete, Same
<1>5. HasFound(x)'
  BY <1>3, <1>4 DEF RequestOK, HasFound, Lists, Same, Grows, SureOf
<1>6. HasCounted(x)'
  BY <1>3, <1>4 DEF RequestOK, HasCounted, Lists, Same
<1>7. QED
  BY <1>1, <1>5, <1>6 DEF RequestOK

(***************************************************************************)
(* Goes: the request's own step, with what is over settled.                *)
(***************************************************************************)

LEMMA IdleOK == RequestOK(Idle)
BY DEF RequestOK, PlaceOK, HasPinned, HasFound, HasCounted, HasStored, HasSeen, Lists, Idle

LEMMA SettledOK ==
    ASSUME NEW r, RequestOK(r), r.pc \notin {"search", "idle", "reread"}
    PROVE  RequestOK(Settled(r))
<1> DEFINE synced == IF r.pc = "sync" /\ r.todo = <<>> THEN r.then ELSE r.pc
           pc == IF synced # "chunk" \/ r.extra # <<>> THEN synced
                 ELSE IF r.op = "list" THEN "answered" ELSE "stats"
           y == [r EXCEPT !.pc = pc]
<1>1. CASE synced = "answered" /\ r.op = "by_key"
  BY <1>1, IdleOK DEF Settled
<1>2. CASE ~(synced = "answered" /\ r.op = "by_key")
  <2>1. Settled(r) = y
    BY <1>2 DEF Settled
  <2>2. DOMAIN r = DOMAIN Idle
    BY DEF RequestOK
  <2>3. /\ DOMAIN y = DOMAIN Idle
        /\ y.op = r.op /\ y.range = r.range /\ y.todo = r.todo
        /\ y.syncing = r.syncing /\ y.extra = r.extra /\ y.rows = r.rows /\ y.then = r.then
        /\ y.stale = r.stale /\ y.counts = r.counts /\ y.seen = r.seen /\ y.pinned = r.pinned
        /\ y.pc = pc
    BY <2>2 DEF Idle
  <2> HIDE DEF y
  <2>4. PlaceOK(y)
    BY <2>3 DEF RequestOK, PlaceOK, Lists
  <2>5. HasPinned(y) /\ HasSeen(y)
    BY <2>3 DEF RequestOK, HasPinned, HasSeen, Lists
  <2>6. HasStored(y)
    BY <2>3 DEF RequestOK, HasStored, PlaceOK, Lists
  <2>7. SureOf(y) = SureOf(r) /\ MaybeOf(y) = MaybeOf(r)
    BY <2>3 DEF SureOf, MaybeOf, SinceOf
  <2>8. HasFound(y) /\ HasCounted(y)
    BY <2>3, <2>7 DEF RequestOK, HasFound, HasCounted, PlaceOK, Complete, Lists
  <2>9. QED
    BY <2>1, <2>3, <2>4, <2>5, <2>6, <2>8 DEF RequestOK
<1>3. QED
  BY <1>1, <1>2

\* What holds of a request's next state now holds of it then, if nothing else changes.
LEMMA ThenOK ==
    ASSUME UNCHANGED <<jira, card, pins>>, NEW c \in Clients, RequestOK(req'[c])
    PROVE  RequestOK(req[c])'
<1>1. \A k \in Keys : SinceOf(req'[c], k) = SinceOf(req[c], k)'
  BY DEF SinceOf
<1>2. SureOf(req'[c]) = SureOf(req[c])' /\ MaybeOf(req'[c]) = MaybeOf(req[c])'
  BY <1>1 DEF SureOf, MaybeOf, InRange
<1>3. Complete(req'[c]) <=> Complete(req[c])'
  BY <1>2 DEF Complete
<1>4. DOMAIN req'[c] = DOMAIN Idle /\ PlaceOK(req[c])'
  BY DEF RequestOK, PlaceOK, Lists
<1>5. HasPinned(req[c])'
  BY DEF RequestOK, HasPinned, Lists, InRange
<1>6. HasFound(req[c])'
  BY <1>2, <1>3 DEF RequestOK, HasFound, Lists
<1>7. HasCounted(req[c])'
  BY <1>2, <1>3 DEF RequestOK, HasCounted
<1>8. HasStored(req[c])' /\ HasSeen(req[c])'
  BY DEF RequestOK, HasStored, HasSeen, Lists
<1>9. QED
  BY <1>4, <1>5, <1>6, <1>7, <1>8 DEF RequestOK

\* A request that is there to be settled.
Ready(next) == RequestOK(next) /\ (next = Idle \/ next.pc \notin {"search", "idle", "reread"})

LEMMA IdleSettled == Settled(Idle) = Idle
BY DEF Settled, Idle

\* A step of one request through Goes.
LEMMA GoesStep ==
    ASSUME TriageInv, NEW c \in Clients, NEW next, Goes(c, next), Ready(next)
    PROVE  TriageInv'
<1>1. req' = [req EXCEPT ![c] = Settled(next)] /\ UNCHANGED <<jira, card, pins>>
  BY DEF Goes, Private
<1>2. RequestOK(Settled(next))
  BY IdleSettled, IdleOK, SettledOK DEF Ready
<1>3. DOMAIN req' = Clients /\ \A d \in Clients : RequestOK(req'[d])
  BY <1>1, <1>2 DEF TriageInv
<1>4. \A d \in Clients : RequestOK(req[d])'
  BY <1>1, <1>3, ThenOK
<1>5. QED
  BY <1>1, <1>3, <1>4 DEF TriageInv, CardsInv, JiraInv

\* A step of one request that begins.
LEMMA BeginsStep ==
    ASSUME TriageInv, NEW c \in Clients, NEW op, NEW pc, NEW range, NEW todo,
           Begins(c, op, pc, range, todo),
           \/ op = "list" /\ pc = "search" /\ todo = <<>>
           \/ /\ op = "period" /\ pc = "search" /\ todo = <<>>
              /\ DOMAIN range = {"from", "to"} /\ range.from \in Nat /\ range.from >= PeriodStart
           \/ op = "by_key" /\ pc = "sync" /\ DOMAIN todo \subseteq Keys
           \/ op = "scoreboard" /\ pc = "total" /\ todo = <<>>
    PROVE  TriageInv'
<1> DEFINE x == [Idle EXCEPT
                 !.op = op, !.pc = pc, !.range = range, !.todo = todo,
                 !.then = IF op = "by_key" THEN "answered" ELSE "extra",
                 !.seen = IF pc = "search" THEN [k \in Keys |-> Len(jira[k])] ELSE <<>>,
                 !.pinned = IF pc = "search" THEN {k \in pins : InRange(k, range)} ELSE {}]
<1>1. req' = [req EXCEPT ![c] = x] /\ UNCHANGED <<jira, card, pins>>
  BY DEF Begins
<1>2. /\ DOMAIN x = DOMAIN Idle
      /\ x.op = op /\ x.pc = pc /\ x.range = range /\ x.todo = todo /\ x.syncing = {} /\ x.extra = <<>>
      /\ x.then = IF op = "by_key" THEN "answered" ELSE "extra"
      /\ x.seen = IF pc = "search" THEN [k \in Keys |-> Len(jira[k])] ELSE <<>>
      /\ x.pinned = IF pc = "search" THEN {k \in pins : InRange(k, range)} ELSE {}
  BY DEF Idle
<1> HIDE DEF x
<1>3. \A k \in Keys : Len(jira[k]) \in Nat /\ Len(jira[k]) >= 1
  BY DEF TriageInv, JiraInv
<1>4. PlaceOK(x) /\ HasPinned(x) /\ HasFound(x) /\ HasCounted(x) /\ HasStored(x)
  BY <1>2 DEF PlaceOK, HasPinned, HasFound, HasCounted, HasStored, Lists
<1>5. HasSeen(x)
  BY <1>2, <1>3 DEF HasSeen, Lists
<1>6. DOMAIN req' = Clients /\ \A d \in Clients : RequestOK(req'[d])
  BY <1>1, <1>2, <1>4, <1>5 DEF TriageInv, RequestOK
<1>7. \A d \in Clients : RequestOK(req[d])'
  BY <1>1, <1>6, ThenOK
<1>8. QED
  BY <1>1, <1>6, <1>7 DEF TriageInv, CardsInv, JiraInv

\* Others than c keep what they have when only cards are pinned or Jira's history grows.
LEMMA OthersStep ==
    ASSUME TriageInv, CardsInv', JiraInv', Grows, DOMAIN req' = Clients,
           \A c \in Clients : Same(req[c], req'[c])
    PROVE  TriageInv'
BY OtherKept DEF TriageInv

(***************************************************************************)
(* The steps of a request.                                                 *)
(***************************************************************************)

LEMMA SearchesStep == ASSUME TriageInv, NEW c \in Clients, Searches(c) PROVE TriageInv'
<1> DEFINE x == req[c]
           S == {k \in Keys : Now(k) \in TriageTypes /\ InRange(k, x.range)}
<1>1. PICK found \in Newest(S, SEARCH_MAX) :
        Goes(c, [x EXCEPT !.pc = "sync", !.todo = [k \in found |-> Now(k)]])
  BY DEF Searches
<1> DEFINE next == [x EXCEPT !.pc = "sync", !.todo = [k \in found |-> Now(k)]]
<1>2. RequestOK(x) /\ x.pc = "search"
  BY DEF Searches, At, TriageInv
<1>3. /\ DOMAIN next = DOMAIN Idle
      /\ next.op = x.op /\ next.pc = "sync" /\ next.range = x.range
      /\ next.todo = [k \in found |-> Now(k)]
      /\ next.syncing = x.syncing /\ next.extra = x.extra /\ next.rows = x.rows
      /\ next.then = x.then /\ next.stale = x.stale /\ next.counts = x.counts
      /\ next.seen = x.seen /\ next.pinned = x.pinned
  BY <1>2 DEF RequestOK, Idle
<1> HIDE DEF next
<1>4. found \subseteq S
  BY DEF Newest
<1>5. Lists(x) => S \subseteq MaybeOf(x) /\ SureOf(x) \subseteq S
  <2>1. ASSUME Lists(x), NEW k \in Keys PROVE Now(k) \in SinceOf(x, k)
    <3>1. x.seen[k] \in 1 .. Len(jira[k])
      BY <1>2, <2>1 DEF RequestOK, HasSeen
    <3>2. QED
      BY <3>1 DEF SinceOf, Now
  <2>2. QED
    BY <2>1 DEF MaybeOf, SureOf
<1>6. Lists(x) /\ Complete(x) => found = S
  <2>1. SUFFICES ASSUME Lists(x), Complete(x) PROVE found = S
    OBVIOUS
  <2>2. IsFiniteSet(MaybeOf(x)) /\ Cardinality(MaybeOf(x)) \in Nat
    BY MaybeFinite
  <2>3. IsFiniteSet(S) /\ Cardinality(S) <= Cardinality(MaybeOf(x))
    BY <1>5, <2>1, <2>2, FS_Subset
  <2>4. Cardinality(S) \in Nat
    BY <2>3, FS_CardinalityType
  <2>5. Cardinality(S) <= SEARCH_MAX
    BY <2>1, <2>2, <2>3, <2>4, TriageAssumption DEF Complete
  <2>6. QED
    BY <2>3, <2>5, NewestAll
<1>7. SureOf(next) = SureOf(x) /\ MaybeOf(next) = MaybeOf(x)
  BY <1>3 DEF SureOf, MaybeOf, SinceOf
<1>8. HasFound(next)
  BY <1>3, <1>5, <1>6, <1>7 DEF HasFound, Complete, Lists
<1>9. HasStored(next)
  <2>1. x.syncing = {} /\ DOMAIN x.extra \subseteq Keys
    BY <1>2 DEF RequestOK, HasStored
  <2>2. DOMAIN next.todo = found /\ found \subseteq Keys
    BY <1>3, <1>4
  <2>3. QED
    BY <1>3, <2>1, <2>2 DEF HasStored
<1>10. PlaceOK(next) /\ HasPinned(next) /\ HasCounted(next) /\ HasSeen(next)
  BY <1>2, <1>3 DEF RequestOK, PlaceOK, HasPinned, HasCounted, HasSeen, Lists
<1>11. RequestOK(next)
  BY <1>3, <1>8, <1>9, <1>10 DEF RequestOK
<1>12. Goes(c, next) /\ Ready(next)
  BY <1>1, <1>3, <1>11 DEF next, Ready
<1>13. QED
  BY <1>12, GoesStep

\* An error ends the request, an answer is taken.
LEMMA EndsStep == ASSUME TriageInv, NEW c \in Clients, Goes(c, Idle) PROVE TriageInv'
BY IdleOK, GoesStep DEF Ready

LEMMA SearchRefusedStep == ASSUME TriageInv, NEW c \in Clients, SearchRefused(c) PROVE TriageInv'
<1> DEFINE x == req[c]
           next == [x EXCEPT !.pc = "stats", !.stale = TRUE]
<1>1. RequestOK(x) /\ x.pc = "search"
  BY DEF SearchRefused, At, TriageInv
<1>2. CASE x.op = "list"
  BY <1>2, EndsStep DEF SearchRefused
<1>3. CASE x.op # "list"
  <2>1. Goes(c, next)
    BY <1>3 DEF SearchRefused
  <2>2. /\ DOMAIN next = DOMAIN Idle
        /\ next.op = x.op /\ next.pc = "stats" /\ next.range = x.range /\ next.todo = x.todo
        /\ next.syncing = x.syncing /\ next.extra = x.extra /\ next.rows = x.rows
        /\ next.then = x.then /\ next.stale = TRUE /\ next.seen = x.seen /\ next.pinned = x.pinned
    BY <1>1 DEF RequestOK, Idle
  <2> HIDE DEF next
  <2>3. PlaceOK(next)
    BY <1>1, <1>3, <2>2 DEF RequestOK, PlaceOK, Lists
  <2>4. HasFound(next) /\ HasCounted(next)
    BY <2>2 DEF HasFound, HasCounted, Complete
  <2>5. HasPinned(next)
    BY <1>1, <2>2 DEF RequestOK, HasPinned, Lists
  <2>6. HasStored(next) /\ HasSeen(next)
    BY <1>1, <2>2 DEF RequestOK, HasStored, HasSeen, Lists
  <2>7. QED
    BY <2>1, <2>2, <2>3, <2>4, <2>5, <2>6, GoesStep DEF Ready, RequestOK
<1>4. QED
  BY <1>2, <1>3

LEMMA RereadsStep == ASSUME TriageInv, NEW c \in Clients, Rereads(c) PROVE TriageInv'
<1> DEFINE x == req[c]
<1>1. PICK k \in x.syncing :
        Goes(c, [x EXCEPT !.pc = "sync", !.syncing = {}, !.rows = Shown(x, k),
                          !.todo = Only(x.todo, DOMAIN x.todo \ {k})])
  BY DEF Rereads
<1> DEFINE next == [x EXCEPT !.pc = "sync", !.syncing = {}, !.rows = Shown(x, k),
                             !.todo = Only(x.todo, DOMAIN x.todo \ {k})]
<1>2. RequestOK(x) /\ x.pc = "reread"
  BY DEF Rereads, At, TriageInv
<1>3. /\ DOMAIN next = DOMAIN Idle
      /\ next.op = x.op /\ next.pc = "sync" /\ next.range = x.range
      /\ next.todo = Only(x.todo, DOMAIN x.todo \ {k})
      /\ next.syncing = {} /\ next.extra = x.extra /\ next.rows = Shown(x, k)
      /\ next.then = x.then /\ next.stale = x.stale
      /\ next.seen = x.seen /\ next.pinned = x.pinned
  BY <1>2 DEF RequestOK, Idle
<1> HIDE DEF next
<1>4. DOMAIN next.rows = DOMAIN x.rows \cup {k}
  BY <1>3 DEF Shown, Over, Only
<1>5. DOMAIN next.todo = DOMAIN x.todo \ {k} /\ \A j \in DOMAIN next.todo : next.todo[j] = x.todo[j]
  BY <1>3 DEF Only
<1>6. SureOf(next) = SureOf(x) /\ MaybeOf(next) = MaybeOf(x)
  BY <1>3 DEF SureOf, MaybeOf, SinceOf
<1>7. HasFound(next)
  BY <1>2, <1>3, <1>4, <1>5, <1>6 DEF RequestOK, HasFound, HasStored, Complete, Lists
<1>8. HasPinned(next) /\ HasStored(next) /\ HasSeen(next) /\ HasCounted(next) /\ PlaceOK(next)
  BY <1>2, <1>3, <1>4, <1>5 DEF RequestOK, HasPinned, HasStored, HasSeen, HasCounted, PlaceOK, Lists
<1>9. Goes(c, next) /\ Ready(next)
  BY <1>1, <1>3, <1>7, <1>8 DEF next, Ready, RequestOK
<1>10. QED
  BY <1>9, GoesStep

LEMMA ReadsPinnedStep == ASSUME TriageInv, NEW c \in Clients, ReadsPinned(c) PROVE TriageInv'
<1> DEFINE x == req[c]
           extra == get_dashboard_tickets(x.range) \ DOMAIN x.rows
           next == [x EXCEPT !.pc = "chunk", !.then = "chunk", !.extra = Only(card, extra)]
<1>1. RequestOK(x) /\ x.pc = "extra" /\ Goes(c, next)
  BY DEF ReadsPinned, At, TriageInv
<1>2. /\ DOMAIN next = DOMAIN Idle
      /\ next.op = x.op /\ next.pc = "chunk" /\ next.range = x.range /\ next.todo = x.todo
      /\ next.syncing = x.syncing /\ next.extra = Only(card, extra) /\ next.rows = x.rows
      /\ next.then = "chunk" /\ next.stale = x.stale
      /\ next.seen = x.seen /\ next.pinned = x.pinned
  BY <1>1 DEF RequestOK, Idle
<1> HIDE DEF next
<1>3. DOMAIN next.extra = extra
  BY <1>2 DEF Only
<1>4. HasPinned(next)
  BY <1>1, <1>2, <1>3 DEF RequestOK, HasPinned, Lists, get_dashboard_tickets, TriageInv, CardsInv
<1>5. SureOf(next) = SureOf(x) /\ MaybeOf(next) = MaybeOf(x)
  BY <1>2 DEF SureOf, MaybeOf, SinceOf
<1>6. HasFound(next)
  BY <1>1, <1>2, <1>5 DEF RequestOK, HasFound, Complete, Lists
<1>7. HasStored(next)
  BY <1>1, <1>2, <1>3 DEF RequestOK, HasStored, get_dashboard_tickets
<1>8. HasSeen(next) /\ HasCounted(next) /\ PlaceOK(next)
  BY <1>1, <1>2 DEF RequestOK, HasSeen, HasCounted, PlaceOK, Lists
<1>9. Ready(next)
  BY <1>2, <1>4, <1>6, <1>7, <1>8 DEF Ready, RequestOK
<1>10. QED
  BY <1>1, <1>9, GoesStep

LEMMA RefreshesStep == ASSUME TriageInv, NEW c \in Clients, Refreshes(c) PROVE TriageInv'
<1> DEFINE x == req[c]
           asks(chunk, fresh) ==
               [x EXCEPT !.pc = "sync", !.todo = [k \in fresh |-> Now(k)],
                         !.extra = Only(x.extra, DOMAIN x.extra \ chunk),
                         !.rows = Over(Only(x.extra, chunk), x.rows),
                         !.kept = x.kept \cup (chunk \ fresh)]
<1>1. PICK chunk \in Newest(DOMAIN x.extra, CHUNK) : \E fresh \in SUBSET chunk :
        Goes(c, asks(chunk, fresh))
  BY DEF Refreshes
<1>1a. PICK fresh \in SUBSET chunk : Goes(c, asks(chunk, fresh))
  BY <1>1
<1> DEFINE next == asks(chunk, fresh)
<1>2. RequestOK(x) /\ x.pc = "chunk" /\ chunk \subseteq DOMAIN x.extra
  BY DEF Refreshes, At, TriageInv, Newest
<1>3. Ready(next)
  <2>1. /\ DOMAIN next = DOMAIN Idle
        /\ next.op = x.op /\ next.range = x.range /\ next.syncing = x.syncing
        /\ next.extra = Only(x.extra, DOMAIN x.extra \ chunk)
        /\ next.rows = Over(Only(x.extra, chunk), x.rows)
        /\ next.then = x.then /\ next.stale = x.stale
        /\ next.seen = x.seen /\ next.pinned = x.pinned
        /\ next.pc = "sync" /\ next.todo = [k \in fresh |-> Now(k)]
    BY <1>2 DEF RequestOK, Idle
  <2>2. DOMAIN next.rows = DOMAIN x.rows \cup chunk
    BY <1>2, <2>1 DEF Only, Over
  <2>3. DOMAIN next.extra = DOMAIN x.extra \ chunk
    BY <2>1 DEF Only
  <2>4. DOMAIN next.todo \subseteq chunk
    BY <2>1
  <2> HIDE DEF next
  <2>5. SureOf(next) = SureOf(x) /\ MaybeOf(next) = MaybeOf(x)
    BY <2>1 DEF SureOf, MaybeOf, SinceOf
  <2>6. HasFound(next)
    BY <1>2, <2>1, <2>2, <2>5 DEF RequestOK, HasFound, PlaceOK, Complete, Lists
  <2>7. HasPinned(next) /\ HasStored(next)
    BY <1>2, <2>1, <2>2, <2>3, <2>4 DEF RequestOK, HasPinned, HasStored, Lists
  <2>8. HasSeen(next) /\ HasCounted(next) /\ PlaceOK(next)
    BY <1>2, <2>1 DEF RequestOK, HasSeen, HasCounted, PlaceOK, Lists
  <2>9. QED
    BY <2>1, <2>6, <2>7, <2>8 DEF Ready, RequestOK
<1>4. QED
  BY <1>1a, <1>3, GoesStep

\* The period is counted from what is stored, all of it no older than PeriodStart.
LEMMA CountsStep == ASSUME TriageInv, NEW c \in Clients, Counts(c) PROVE TriageInv'
<1> DEFINE x == req[c]
           next == [x EXCEPT !.pc = "answered", !.counts = get_period_stats(x.range)]
<1>1. RequestOK(x) /\ x.pc = "stats" /\ Goes(c, next)
  BY DEF Counts, At, TriageInv
<1>2. /\ DOMAIN next = DOMAIN Idle
      /\ next.op = x.op /\ next.pc = "answered" /\ next.range = x.range /\ next.todo = x.todo
      /\ next.syncing = x.syncing /\ next.extra = x.extra /\ next.rows = x.rows
      /\ next.then = x.then /\ next.stale = x.stale /\ next.counts = get_period_stats(x.range)
      /\ next.seen = x.seen /\ next.pinned = x.pinned
  BY <1>1 DEF RequestOK, Idle
<1> HIDE DEF next
<1>3. SureOf(next) = SureOf(x) /\ MaybeOf(next) = MaybeOf(x)
  BY <1>2 DEF SureOf, MaybeOf, SinceOf
<1>4. HasFound(next)
  BY <1>1, <1>2, <1>3 DEF RequestOK, HasFound, Complete, Lists
<1>5. ASSUME x.op = "period"
      PROVE  next.counts.raised = {k \in Keys : card[k].pinned /\ InRange(k, x.range)}
  <2> DEFINE from == IF x.range.from > PeriodStart THEN x.range.from ELSE PeriodStart
             q == [x.range EXCEPT !.from = from]
  <2>1. DOMAIN x.range = {"from", "to"} /\ x.range.from \in Nat /\ x.range.from >= PeriodStart
    BY <1>1, <1>5 DEF RequestOK, HasSeen
  <2>2. from = x.range.from
    BY <2>1, TriageAssumption
  <2>3. q.from = x.range.from /\ q.to = x.range.to
    BY <2>1, <2>2
  <2>4. \A k \in Keys : InRange(k, q) <=> InRange(k, x.range)
    BY <2>3 DEF InRange
  <2>5. next.counts.raised = get_dashboard_tickets(q)
    BY <1>2 DEF get_period_stats
  <2> HIDE DEF q
  <2>6. QED
    BY <2>4, <2>5 DEF get_dashboard_tickets
<1>6. HasCounted(next)
  <2>1. SUFFICES ASSUME x.op = "period" PROVE HasCounted(next)
    BY <1>2 DEF HasCounted
  <2>2. x.pinned \subseteq next.counts.raised
    BY <1>1, <1>5, <2>1 DEF RequestOK, HasPinned, Lists, TriageInv, CardsInv
  <2>3. Complete(x) => \A k \in SureOf(x) : card[k].pinned
    BY <1>1, <2>1 DEF RequestOK, HasFound, PlaceOK, Lists
  <2>4. Complete(next) => SureOf(next) \subseteq next.counts.raised
    BY <1>2, <1>3, <1>5, <2>1, <2>3 DEF Complete, SureOf
  <2>5. QED
    BY <1>2, <2>2, <2>4 DEF HasCounted
<1>7. HasPinned(next) /\ HasStored(next) /\ HasSeen(next)
  BY <1>1, <1>2 DEF RequestOK, HasPinned, HasStored, HasSeen, Lists
<1>8. PlaceOK(next)
  BY <1>1, <1>2 DEF RequestOK, PlaceOK, Lists
<1>9. Ready(next)
  BY <1>2, <1>4, <1>6, <1>7, <1>8 DEF Ready, RequestOK
<1>10. QED
  BY <1>1, <1>9, GoesStep

\* The scoreboard has no tickets of its own: only its place and its counts move.
LEMMA ScoreboardStep ==
    ASSUME TriageInv, NEW c \in Clients, NEW next, Goes(c, next),
           req[c].pc \in {"total", "accepted", "rejected"},
           DOMAIN next = DOMAIN req[c], next.pc \in {"accepted", "rejected", "answered"},
           next.op = req[c].op, next.range = req[c].range, next.todo = req[c].todo,
           next.extra = req[c].extra, next.syncing = req[c].syncing
    PROVE  TriageInv'
<1>1. RequestOK(req[c])
  BY DEF TriageInv
<1>2. ~Lists(req[c]) /\ ~Lists(next)
  BY <1>1 DEF RequestOK, PlaceOK, Lists
<1>3. DOMAIN next = DOMAIN Idle
  BY <1>1 DEF RequestOK
<1>4. PlaceOK(next) /\ HasPinned(next) /\ HasFound(next)
  BY <1>2 DEF PlaceOK, HasPinned, HasFound
<1>5. HasCounted(next) /\ HasStored(next) /\ HasSeen(next)
  BY <1>1, <1>2 DEF RequestOK, HasCounted, HasStored, HasSeen, Lists
<1>6. Ready(next)
  BY <1>3, <1>4, <1>5 DEF Ready, RequestOK
<1>7. QED
  BY <1>6, GoesStep

LEMMA ScoreboardSteps ==
    ASSUME TriageInv, NEW c \in Clients,
           CountsTotal(c) \/ CountsAccepted(c) \/ CountsRejected(c)
    PROVE  TriageInv'
<1> DEFINE x == req[c]
<1>1. DOMAIN x = DOMAIN Idle
  BY DEF TriageInv, RequestOK
<1>2. CASE CountsTotal(c)
  <2> DEFINE counts == [total |-> Cardinality(With(Keys, "accepted") \cup With(Keys, "rejected")),
                        accepted |-> 0, rejected |-> 0]
             next == [x EXCEPT !.pc = "accepted", !.decided = FALSE, !.counts = counts]
  <2>1. Goes(c, next) /\ x.pc = "total"
    BY <1>2 DEF CountsTotal, At
  <2> HIDE DEF counts
  <2>2. /\ DOMAIN next = DOMAIN x /\ next.pc = "accepted" /\ next.op = x.op
        /\ next.range = x.range /\ next.todo = x.todo
        /\ next.extra = x.extra /\ next.syncing = x.syncing
    BY <1>1 DEF Idle
  <2> HIDE DEF next
  <2>3. QED
    BY <2>1, <2>2, ScoreboardStep
<1>3. CASE CountsAccepted(c)
  <2> DEFINE next == [x EXCEPT !.pc = "rejected",
                               !.counts.accepted = Cardinality(With(Keys, "accepted"))]
  <2>1. Goes(c, next) /\ x.pc = "accepted"
    BY <1>3 DEF CountsAccepted, At
  <2>2. /\ DOMAIN next = DOMAIN x /\ next.pc = "rejected" /\ next.op = x.op
        /\ next.range = x.range /\ next.todo = x.todo
        /\ next.extra = x.extra /\ next.syncing = x.syncing
    BY <1>1 DEF Idle
  <2> HIDE DEF next
  <2>3. QED
    BY <2>1, <2>2, ScoreboardStep
<1>4. CASE CountsRejected(c)
  <2> DEFINE next == [x EXCEPT !.pc = "answered",
                               !.counts.rejected = Cardinality(With(Keys, "rejected"))]
  <2>1. Goes(c, next) /\ x.pc = "rejected"
    BY <1>4 DEF CountsRejected, At
  <2>2. /\ DOMAIN next = DOMAIN x /\ next.pc = "answered" /\ next.op = x.op
        /\ next.range = x.range /\ next.todo = x.todo
        /\ next.extra = x.extra /\ next.syncing = x.syncing
    BY <1>1 DEF Idle
  <2> HIDE DEF next
  <2>3. QED
    BY <2>1, <2>2, ScoreboardStep
<1>5. QED
  BY <1>2, <1>3, <1>4

\* A pin stays, and is set for a Bug.
LEMMA PinStays ==
    ASSUME NEW c, NEW type
    PROVE  LET u == upsert_ticket(c, type)
           IN  /\ DOMAIN u = {"type", "pinned"} /\ u.pinned \in BOOLEAN
               /\ c.pinned => u.pinned
               /\ type \in TriageTypes => u.pinned
<1> DEFINE pinned == c.pinned \/ type \in TriageTypes
           u == [type |-> type, pinned |-> pinned]
<1>1. pinned \in BOOLEAN
  OBVIOUS
<1>2. c.pinned \/ type \in TriageTypes => pinned
  OBVIOUS
<1> HIDE DEF pinned
<1>3. u.pinned = pinned /\ DOMAIN u = {"type", "pinned"}
  OBVIOUS
<1>4. upsert_ticket(c, type) = u
  BY DEF upsert_ticket, pinned
<1>5. QED
  BY <1>1, <1>2, <1>3, <1>4

\* Storing an issue pins it and unpins nothing.
LEMMA UpsertsStep == ASSUME TriageInv, NEW c \in Clients, Upserts(c) PROVE TriageInv'
<1> DEFINE x == req[c]
<1>1. RequestOK(x) /\ x.pc = "sync"
  BY DEF Upserts, At, TriageInv
<1>2. PICK A \in Newest(DOMAIN x.todo, 1) : \E k \in A :
        /\ card' = [card EXCEPT ![k] = upsert_ticket(card[k], x.todo[k])]
        /\ pins' = IF x.todo[k] \in TriageTypes THEN pins \cup {k} ELSE pins
        /\ req' = [d \in Clients |->
                     IF d = c THEN [x EXCEPT !.pc = "reread", !.syncing = {k}]
                     ELSE IF k \in req[d].syncing
                       THEN [req[d] EXCEPT !.crossed = req[d].crossed \cup {k}]
                     ELSE req[d]]
  BY DEF Upserts
<1>3. PICK k \in A :
        /\ card' = [card EXCEPT ![k] = upsert_ticket(card[k], x.todo[k])]
        /\ pins' = IF x.todo[k] \in TriageTypes THEN pins \cup {k} ELSE pins
        /\ req' = [d \in Clients |->
                     IF d = c THEN [x EXCEPT !.pc = "reread", !.syncing = {k}]
                     ELSE IF k \in req[d].syncing
                       THEN [req[d] EXCEPT !.crossed = req[d].crossed \cup {k}]
                     ELSE req[d]]
  BY <1>2
<1>4. k \in DOMAIN x.todo /\ k \in Keys /\ jira' = jira
  BY <1>1 DEF Newest, RequestOK, HasStored, Upserts
<1>5. CardsInv' /\ Grows
  <2>1. DOMAIN card' = Keys /\ \A j \in Keys \ {k} : card'[j] = card[j]
    BY <1>3, <1>4 DEF TriageInv, CardsInv
  <2>2. card'[k] = upsert_ticket(card[k], x.todo[k])
    BY <1>3, <1>4 DEF TriageInv, CardsInv
  <2>3. /\ DOMAIN card'[k] = {"type", "pinned"} /\ card'[k].pinned \in BOOLEAN
        /\ card[k].pinned => card'[k].pinned
        /\ x.todo[k] \in TriageTypes => card'[k].pinned
    BY <2>2, PinStays
  <2>4. CardsInv'
    BY <1>3, <1>4, <2>1, <2>3 DEF TriageInv, CardsInv
  <2>5. \A j \in Keys : card[j].pinned => card'[j].pinned
    BY <2>1, <2>3
  <2>6. \A j \in Keys : Len(jira[j]) \in Nat
    BY DEF TriageInv, JiraInv
  <2>7. QED
    BY <1>3, <1>4, <2>4, <2>5, <2>6 DEF Grows
<1>6. DOMAIN req' = Clients
  BY <1>3
<1>7. ASSUME NEW d \in Clients \ {c} PROVE RequestOK(req[d])'
  <2>1. RequestOK(req[d]) /\ DOMAIN req[d] = DOMAIN Idle
    BY DEF TriageInv, RequestOK
  <2>2. req'[d] \in {req[d], [req[d] EXCEPT !.crossed = req[d].crossed \cup {k}]}
    BY <1>3
  <2>3. Same(req[d], req'[d])
    BY <2>1, <2>2 DEF Same, Idle
  <2>4. QED
    BY <1>5, <2>1, <2>3, OtherKept
<1> DEFINE next == [x EXCEPT !.pc = "reread", !.syncing = {k}]
<1>8. req'[c] = next
  BY <1>3
<1>9. /\ DOMAIN next = DOMAIN Idle
      /\ next.op = x.op /\ next.pc = "reread" /\ next.range = x.range /\ next.todo = x.todo
      /\ next.syncing = {k} /\ next.extra = x.extra /\ next.rows = x.rows
      /\ next.then = x.then /\ next.stale = x.stale /\ next.counts = x.counts
      /\ next.seen = x.seen /\ next.pinned = x.pinned
  BY <1>1 DEF RequestOK, Idle
<1> HIDE DEF next
<1>10. card'[k].pinned <=> card[k].pinned \/ x.todo[k] \in TriageTypes
  BY <1>3, <1>4 DEF upsert_ticket, TriageInv, CardsInv
<1>11. PlaceOK(req[c])' /\ HasPinned(req[c])'
  BY <1>1, <1>3, <1>8, <1>9 DEF RequestOK, PlaceOK, HasPinned, Lists, InRange
<1>12. HasCounted(req[c])' /\ HasSeen(req[c])'
  BY <1>1, <1>4, <1>8, <1>9 DEF RequestOK, HasCounted, HasSeen, Lists
<1>13. HasStored(req[c])'
  BY <1>1, <1>4, <1>8, <1>9, <1>10 DEF RequestOK, HasStored
<1>14. SureOf(req[c])' = SureOf(x) /\ MaybeOf(req[c])' = MaybeOf(x)
  BY <1>4, <1>8, <1>9 DEF SureOf, MaybeOf, SinceOf, InRange
<1>15. HasFound(req[c])'
  <2>1. SureOf(x) \subseteq Keys
    BY DEF SureOf
  <2>2. QED
    BY <1>1, <1>5, <1>8, <1>9, <1>14, <2>1 DEF RequestOK, HasFound, Complete, Lists, Grows
<1>16. RequestOK(req[c])'
  BY <1>8, <1>9, <1>11, <1>12, <1>13, <1>15 DEF RequestOK
<1>17. JiraInv'
  BY <1>4 DEF TriageInv, JiraInv
<1>18. QED
  BY <1>5, <1>6, <1>7, <1>16, <1>17 DEF TriageInv

(***************************************************************************)
(* What happens around the requests.                                       *)
(***************************************************************************)

\* An edit only adds to what Jira has said of a ticket.
LEMMA EditedGrows == ASSUME TriageInv, NEW k \in Keys, Edited(k) PROVE Grows
<1>1. PICK type \in Types \ {Now(k)} : jira' = [jira EXCEPT ![k] = Append(jira[k], type)]
  BY DEF Edited
<1>2. UNCHANGED <<card, pins>> /\ DOMAIN jira = Keys
  BY DEF Edited, TriageInv, JiraInv
<1>3. \A j \in Keys : jira[j] \in Seq(Types) /\ Len(jira[j]) \in Nat
  BY DEF TriageInv, JiraInv
<1>4. /\ Len(Append(jira[k], type)) = Len(jira[k]) + 1
      /\ \A i \in 1 .. Len(jira[k]) : Append(jira[k], type)[i] = jira[k][i]
  BY <1>3
<1>5. \A j \in Keys : jira'[j] = IF j = k THEN Append(jira[k], type) ELSE jira[j]
  BY <1>1, <1>2
<1>6. ASSUME NEW j \in Keys
      PROVE  /\ Len(jira'[j]) \in Nat /\ Len(jira[j]) <= Len(jira'[j])
             /\ \A i \in 1 .. Len(jira[j]) : jira'[j][i] = jira[j][i]
  <2>1. CASE j = k
    <3>1. jira'[k] = Append(jira[k], type) /\ Len(jira[k]) \in Nat
      BY <1>3, <1>5
    <3>2. QED
      BY <1>4, <2>1, <3>1
  <2>2. CASE j # k
    BY <1>3, <1>5, <2>2
  <2>3. QED
    BY <2>1, <2>2
<1>7. QED
  BY <1>2, <1>3, <1>6 DEF Grows

LEMMA EditedStep == ASSUME TriageInv, NEW k \in Keys, Edited(k) PROVE TriageInv'
<1>1. PICK type \in Types \ {Now(k)} : jira' = [jira EXCEPT ![k] = Append(jira[k], type)]
  BY DEF Edited
<1>2. UNCHANGED <<card, req, pins>>
  BY DEF Edited
<1>3. DOMAIN jira = Keys /\ \A j \in Keys : jira[j] \in Seq(Types) /\ Len(jira[j]) >= 1
  BY DEF TriageInv, JiraInv
<1>4. Append(jira[k], type) \in Seq(Types) /\ Len(Append(jira[k], type)) >= 1
  BY <1>3
<1>5. \A j \in Keys : jira'[j] = IF j = k THEN Append(jira[k], type) ELSE jira[j]
  BY <1>1, <1>3
<1>6. JiraInv'
  BY <1>1, <1>3, <1>4, <1>5 DEF JiraInv
<1>7. CardsInv' /\ DOMAIN req' = Clients /\ \A c \in Clients : Same(req[c], req'[c])
  BY <1>2 DEF TriageInv, CardsInv, Same
<1>8. QED
  BY <1>6, <1>7, EditedGrows, OthersStep

\* A run or a decision leaves Jira, the pins and the answers alone.
LEMMA RowsStep ==
    ASSUME TriageInv, UNCHANGED <<jira, card, pins>>, DOMAIN req' = Clients,
           \A c \in Clients : req'[c] \in {req[c], [req[c] EXCEPT !.decided = TRUE]}
    PROVE  TriageInv'
<1>1. CardsInv' /\ JiraInv'
  BY DEF TriageInv, CardsInv, JiraInv
<1>2. Grows
  BY DEF Grows, TriageInv, JiraInv
<1>3. \A c \in Clients : Same(req[c], req'[c])
  <2>1. ASSUME NEW c \in Clients PROVE Same(req[c], req'[c])
    <3>1. DOMAIN req[c] = DOMAIN Idle
      BY DEF TriageInv, RequestOK
    <3>2. QED
      BY <3>1 DEF Same, Idle
  <2>2. QED
    BY <2>1
<1>4. QED
  BY <1>1, <1>2, <1>3, OthersStep

LEMMA BecomesStep ==
    ASSUME TriageInv, NEW k, NEW after, Becomes(k, after)
    PROVE  TriageInv'
BY RowsStep DEF Becomes

(***************************************************************************)
(* The theorem.                                                            *)
(***************************************************************************)

LEMMA TriageInit == Init => TriageInv
<1> SUFFICES ASSUME Init PROVE TriageInv
  OBVIOUS
<1>1. CardsInv
  BY TriageAssumption DEF Init, CardsInv, NoCard
<1>2. JiraInv
  <2>1. jira \in [Keys -> {<<t>> : t \in Types}]
    BY DEF Init
  <2>2. \A t \in Types : <<t>> \in Seq(Types) /\ Len(<<t>>) >= 1
    OBVIOUS
  <2>3. QED
    BY <2>1, <2>2 DEF JiraInv
<1>3. DOMAIN req = Clients /\ \A c \in Clients : RequestOK(req[c])
  BY IdleOK DEF Init
<1>4. QED
  BY <1>1, <1>2, <1>3 DEF TriageInv

LEMMA TriageStep == TriageInv /\ [Next]_vars => TriageInv'
<1> SUFFICES ASSUME TriageInv, [Next]_vars PROVE TriageInv'
  OBVIOUS
<1>1. ASSUME NEW c \in Clients, list_tickets(c) PROVE TriageInv'
  BY <1>1, BeginsStep DEF list_tickets
<1>2. ASSUME NEW c \in Clients, quality_period(c) PROVE TriageInv'
  <2>1. PICK q \in Ranges :
          Begins(c, "period", "search",
                 [q EXCEPT !.from = IF q.from > PeriodStart THEN q.from ELSE PeriodStart], <<>>)
    BY <1>2 DEF quality_period
  <2> DEFINE from == IF q.from > PeriodStart THEN q.from ELSE PeriodStart
             range == [q EXCEPT !.from = from]
  <2>2. q \in [from : Nat, to : Nat] /\ PeriodStart \in Nat
    BY TriageAssumption
  <2>3. from \in Nat /\ from >= PeriodStart
    BY <2>2
  <2>4. DOMAIN range = {"from", "to"} /\ range.from = from
    BY <2>2
  <2>5. Begins(c, "period", "search", range, <<>>)
    BY <2>1
  <2> HIDE DEF range, from
  <2>6. QED
    BY <2>3, <2>4, <2>5, BeginsStep
<1>3. ASSUME NEW c \in Clients, get_ticket_by_key(c) PROVE TriageInv'
  <2>1. PICK k \in Keys :
          Begins(c, "by_key", "sync", [from |-> 0, to |-> 0], [j \in {k} |-> Now(j)])
    BY <1>3 DEF get_ticket_by_key
  <2>2. DOMAIN [j \in {k} |-> Now(j)] \subseteq Keys
    OBVIOUS
  <2>3. QED
    BY <2>1, <2>2, BeginsStep
<1>4. ASSUME NEW c \in Clients, get_scoreboard(c) PROVE TriageInv'
  BY <1>4, BeginsStep DEF get_scoreboard
<1>5. ASSUME NEW c \in Clients, Searches(c) PROVE TriageInv'
  BY <1>5, SearchesStep
<1>6. ASSUME NEW c \in Clients, SearchRefused(c) PROVE TriageInv'
  BY <1>6, SearchRefusedStep
<1>7. ASSUME NEW c \in Clients, Unreachable(c) \/ Done(c) PROVE TriageInv'
  BY <1>7, EndsStep DEF Unreachable, Done
<1>8. ASSUME NEW c \in Clients, Upserts(c) PROVE TriageInv'
  BY <1>8, UpsertsStep
<1>9. ASSUME NEW c \in Clients, Rereads(c) PROVE TriageInv'
  BY <1>9, RereadsStep
<1>10. ASSUME NEW c \in Clients, ReadsPinned(c) PROVE TriageInv'
  BY <1>10, ReadsPinnedStep
<1>11. ASSUME NEW c \in Clients, Refreshes(c) PROVE TriageInv'
  BY <1>11, RefreshesStep
<1>12. ASSUME NEW c \in Clients, Counts(c) PROVE TriageInv'
  BY <1>12, CountsStep
<1>13. ASSUME NEW c \in Clients, CountsTotal(c) \/ CountsAccepted(c) \/ CountsRejected(c)
       PROVE TriageInv'
  BY <1>13, ScoreboardSteps
<1>14. ASSUME NEW k \in Keys, Edited(k) PROVE TriageInv'
  BY <1>14, EditedStep
<1>15. ASSUME NEW k \in Busy, run_rca(k) \/ RunEnds(k) \/ reset_rca(k) \/ Decides(k)
       PROVE TriageInv'
  BY <1>15, BecomesStep DEF run_rca, RunEnds, reset_rca, Decides
<1>16. CASE UNCHANGED vars
  <2>1. UNCHANGED <<jira, card, pins, req>>
    BY <1>16 DEF vars
  <2>2. QED
    BY <2>1, RowsStep DEF TriageInv
<1>17. QED
  BY <1>1, <1>2, <1>3, <1>4, <1>5, <1>6, <1>7, <1>8, <1>9, <1>10, <1>11, <1>12, <1>13,
     <1>14, <1>15, <1>16 DEF Next

LEMMA TriageInvImplies == TriageInv => ListComplete
<1> SUFFICES ASSUME TriageInv, NEW c \in Answered("list") \cup Answered("period")
             PROVE  /\ req[c].pinned \subseteq InAnswer(c)
                    /\ LET maybe == {k \in Keys : InRange(k, req[c].range)
                                       /\ \E t \in Since(c, k) : t \in TriageTypes}
                       IN  Cardinality(maybe) <= SEARCH_MAX /\ ~ req[c].stale =>
                             \A k \in maybe : (\A t \in Since(c, k) : t \in TriageTypes)
                                                => k \in InAnswer(c)
  BY DEF ListComplete
<1> DEFINE x == req[c]
           maybe == {k \in Keys : InRange(k, x.range) /\ \E t \in Since(c, k) : t \in TriageTypes}
<1>1. c \in Clients /\ RequestOK(x) /\ x.pc = "answered" /\ Lists(x)
  BY DEF Answered, At, TriageInv, Lists
<1>2. maybe = MaybeOf(x)
  BY DEF MaybeOf, SinceOf, Since
<1>3. \A k \in maybe : (\A t \in Since(c, k) : t \in TriageTypes) => k \in SureOf(x)
  BY DEF SureOf, SinceOf, Since
<1>4. x.pinned \subseteq InAnswer(c) /\ (Complete(x) => SureOf(x) \subseteq InAnswer(c))
  <2>1. CASE x.op = "list"
    <3>1. x.then = "chunk" /\ DOMAIN x.extra = {} /\ DOMAIN x.todo = {}
      BY <1>1, <2>1 DEF RequestOK, PlaceOK
    <3>2. InAnswer(c) = DOMAIN x.rows
      BY <2>1 DEF InAnswer
    <3>3. QED
      BY <1>1, <3>1, <3>2 DEF RequestOK, HasPinned, HasFound
  <2>2. CASE x.op = "period"
    BY <1>1, <2>2 DEF InAnswer, RequestOK, HasCounted
  <2>3. QED
    BY <1>1, <2>1, <2>2 DEF Lists
<1>5. Cardinality(maybe) <= SEARCH_MAX /\ ~x.stale => Complete(x)
  BY <1>2 DEF Complete
<1> HIDE DEF maybe
<1>6. QED
  BY <1>3, <1>4, <1>5 DEF maybe

\* A ticket once stored as a Bug is in every list and every count of its
\* range, whatever it has become, and so is every ticket that is a Bug while
\* the answer is made if those fit under the search's cap (app.py:107-148).
THEOREM ListAlwaysComplete == Spec => []ListComplete
BY TriageInit, TriageStep, TriageInvImplies, PTL DEF Spec

(***************************************************************************)
(* What the answers say: the rows of a list, the numbers of a period and   *)
(* of the scoreboard.  This rests on the invariant above.                  *)
(***************************************************************************)

\* Everything a list works with was said by Jira since the request began; a
\* row it shows that is older is to be stored and read again.
FreshOK(x) ==
    x.op = "list" =>
        /\ x.pc # "idle"
        /\ DOMAIN x.rows \subseteq Keys
        /\ \A k \in DOMAIN x.todo : x.todo[k] \in SinceOf(x, k)
        /\ \A k \in x.syncing \ x.crossed : card[k].type \in SinceOf(x, k)
        /\ \A k \in DOMAIN x.rows \ (x.kept \cup x.crossed) :
              k \in DOMAIN x.todo \/ x.rows[k].type \in SinceOf(x, k)

PeriodOK(x) ==
    (x.op = "period" /\ x.pc = "answered") =>
        /\ not_run(x.counts) = Cardinality(x.counts.untouched)
        /\ \A k \in x.counts.raised : Created[k] >= PeriodStart

\* What a scoreboard has counted so far is so as long as no row changed.
ScoreOK(x) ==
    x.op = "scoreboard" =>
        /\ x.pc \in {"total", "accepted", "rejected", "answered"}
        /\ ~ x.decided =>
            /\ x.pc = "accepted" =>
                /\ DOMAIN x.counts = {"total", "accepted", "rejected"}
                /\ x.counts.total = Cardinality(With(Keys, "accepted") \cup With(Keys, "rejected"))
            /\ x.pc = "rejected" =>
                /\ DOMAIN x.counts = {"total", "accepted", "rejected"}
                /\ x.counts.total = Cardinality(With(Keys, "accepted") \cup With(Keys, "rejected"))
                /\ x.counts.accepted = Cardinality(With(Keys, "accepted"))
            /\ x.pc = "answered" => x.counts.total = x.counts.accepted + x.counts.rejected

AnswerOK(x) == FreshOK(x) /\ PeriodOK(x) /\ ScoreOK(x)

AnswerInv == \A c \in Clients : AnswerOK(req[c])

LEMMA IdleAnswer == AnswerOK(Idle)
BY DEF AnswerOK, FreshOK, PeriodOK, ScoreOK, Idle

\* Disjoint finite sets, counted together.
LEMMA DisjointUnion ==
    ASSUME NEW S, NEW T, IsFiniteSet(S), IsFiniteSet(T), S \cap T = {}
    PROVE  /\ IsFiniteSet(S \cup T)
           /\ Cardinality(S \cup T) = Cardinality(S) + Cardinality(T)
           /\ Cardinality(S) \in Nat /\ Cardinality(T) \in Nat
<1>1. Cardinality(S \cap T) = 0
  BY FS_EmptySet
<1>2. Cardinality(S) \in Nat /\ Cardinality(T) \in Nat
  BY FS_CardinalityType
<1>3. /\ IsFiniteSet(S \cup T)
      /\ Cardinality(S \cup T) = Cardinality(S) + Cardinality(T) - Cardinality(S \cap T)
  BY FS_Union
<1>4. QED
  BY <1>1, <1>2, <1>3

\* A period's numbers: the accepted, the rejected, the unclear, those with an
\* RCA nobody acted on and those nobody touched are all there are.
LEMMA PeriodAddsUp ==
    ASSUME NEW range, range.from \in Nat, DOMAIN range = {"from", "to"}
    PROVE  LET s == get_period_stats(range)
           IN  /\ not_run(s) = Cardinality(s.untouched)
               /\ \A k \in s.raised : Created[k] >= PeriodStart
<1> DEFINE from == IF range.from > PeriodStart THEN range.from ELSE PeriodStart
           q == [range EXCEPT !.from = from]
           S == get_dashboard_tickets(q)
           A == With(S, "accepted")
           R == With(S, "rejected")
           U == With(S, "unclear")
           N == no_action(S)
           L == {k \in S : row[k].bot_rca = 0 /\ row[k].status \notin DECIDED_STATUSES}
           s == get_period_stats(range)
<1>1. s = [raised |-> S, accepted |-> Cardinality(A), rejected |-> Cardinality(R),
           unclear |-> Cardinality(U), no_action |-> Cardinality(N), untouched |-> L]
  BY DEF get_period_stats
<1>2. PeriodStart \in Nat \ {0} /\ from \in Nat /\ from >= PeriodStart
  BY TriageAssumption
<1>3. q.from = from
  OBVIOUS
<1>4. S \subseteq Keys /\ IsFiniteSet(S)
  BY FS_Subset, TriageAssumption DEF get_dashboard_tickets
<1>5. \A k \in S : Created[k] >= PeriodStart
  <2> SUFFICES ASSUME NEW k \in S PROVE Created[k] >= PeriodStart
    OBVIOUS
  <2>1. InRange(k, q) /\ k \in Keys
    BY DEF get_dashboard_tickets
  <2>2. Created[k] \in Nat
    BY <2>1, TriageAssumption
  <2> HIDE DEF from, q
  <2>3. Created[k] >= from
    BY <1>2, <1>3, <2>1 DEF InRange
  <2>4. QED
    BY <1>2, <2>2, <2>3
<1> HIDE DEF S
<1>6. /\ A \subseteq S /\ R \subseteq S /\ U \subseteq S /\ N \subseteq S /\ L \subseteq S
      /\ A \cap R = {} /\ (A \cup R) \cap U = {} /\ ((A \cup R) \cup U) \cap N = {}
      /\ (((A \cup R) \cup U) \cup N) \cap L = {}
      /\ (((A \cup R) \cup U) \cup N) \cup L = S
  BY DEF With, no_action, DECIDED_STATUSES
<1> HIDE DEF A, R, U, N, L
<1>7. IsFiniteSet(A) /\ IsFiniteSet(R) /\ IsFiniteSet(U) /\ IsFiniteSet(N) /\ IsFiniteSet(L)
  BY <1>4, <1>6, FS_Subset
<1>8. IsFiniteSet(A \cup R) /\ Cardinality(A \cup R) = Cardinality(A) + Cardinality(R)
      /\ Cardinality(A) \in Nat /\ Cardinality(R) \in Nat
  BY <1>6, <1>7, DisjointUnion
<1>9. IsFiniteSet((A \cup R) \cup U)
      /\ Cardinality((A \cup R) \cup U) = Cardinality(A \cup R) + Cardinality(U)
      /\ Cardinality(U) \in Nat
  BY <1>6, <1>7, <1>8, DisjointUnion
<1>10. IsFiniteSet(((A \cup R) \cup U) \cup N)
       /\ Cardinality(((A \cup R) \cup U) \cup N) = Cardinality((A \cup R) \cup U) + Cardinality(N)
       /\ Cardinality(N) \in Nat
  BY <1>6, <1>7, <1>9, DisjointUnion
<1>11. Cardinality(S) = Cardinality(((A \cup R) \cup U) \cup N) + Cardinality(L)
       /\ Cardinality(L) \in Nat
  BY <1>6, <1>7, <1>10, DisjointUnion
<1> HIDE DEF s
<1>12. not_run(s) = Cardinality(S) - Cardinality(A) - Cardinality(R) - Cardinality(U)
                      - Cardinality(N)
  BY <1>1 DEF not_run
<1>13. not_run(s) = Cardinality(L)
  BY <1>8, <1>9, <1>10, <1>11, <1>12
<1>14. QED
  BY <1>1, <1>5, <1>13 DEF s

(***************************************************************************)
(* The steps of the answers.                                               *)
(***************************************************************************)

\* What settling a request may change: its place, or all if it is over.
LEMMA SettledFields ==
    ASSUME NEW r, DOMAIN r = DOMAIN Idle, Settled(r) # Idle
    PROVE  LET y == Settled(r)
           IN  /\ y.op = r.op /\ y.range = r.range /\ y.todo = r.todo
               /\ y.syncing = r.syncing /\ y.extra = r.extra /\ y.rows = r.rows
               /\ y.counts = r.counts /\ y.seen = r.seen
               /\ y.crossed = r.crossed /\ y.kept = r.kept /\ y.decided = r.decided
               /\ y.pc \in IF r.pc = "sync" THEN {"sync", r.then, "answered", "stats"}
                           ELSE {r.pc, "answered", "stats"}
               /\ y.pc # r.pc /\ y.pc = "answered" =>
                      \/ r.op = "list"
                      \/ r.pc = "sync" /\ r.then = "answered"
               /\ r.pc \notin {"sync", "chunk"} => y.pc = r.pc
<1> DEFINE synced == IF r.pc = "sync" /\ r.todo = <<>> THEN r.then ELSE r.pc
           pc == IF synced # "chunk" \/ r.extra # <<>> THEN synced
                 ELSE IF r.op = "list" THEN "answered" ELSE "stats"
           y == [r EXCEPT !.pc = pc]
<1>1. Settled(r) = y
  BY DEF Settled
<1>2. /\ y.op = r.op /\ y.range = r.range /\ y.todo = r.todo
      /\ y.syncing = r.syncing /\ y.extra = r.extra /\ y.rows = r.rows
      /\ y.counts = r.counts /\ y.seen = r.seen
      /\ y.crossed = r.crossed /\ y.kept = r.kept /\ y.decided = r.decided
      /\ y.pc = pc
  BY DEF Idle
<1> HIDE DEF y
<1>3. QED
  BY <1>1, <1>2

LEMMA SettledAnswer ==
    ASSUME NEW r, DOMAIN r = DOMAIN Idle, AnswerOK(r),
           Lists(r) => r.then \in {"extra", "chunk"}
    PROVE  AnswerOK(Settled(r))
<1> DEFINE y == Settled(r)
<1>1. CASE y = Idle
  BY <1>1, IdleAnswer
<1>2. CASE y # Idle
  <2>1. /\ y.op = r.op /\ y.todo = r.todo
        /\ y.syncing = r.syncing /\ y.rows = r.rows
        /\ y.counts = r.counts /\ y.seen = r.seen
        /\ y.crossed = r.crossed /\ y.kept = r.kept /\ y.decided = r.decided
        /\ y.pc \in IF r.pc = "sync" THEN {"sync", r.then, "answered", "stats"}
                    ELSE {r.pc, "answered", "stats"}
        /\ y.pc # r.pc /\ y.pc = "answered" =>
               \/ r.op = "list"
               \/ r.pc = "sync" /\ r.then = "answered"
        /\ r.pc \notin {"sync", "chunk"} => y.pc = r.pc
    BY <1>2, SettledFields
  <2> HIDE DEF y
  <2>2. \A k : SinceOf(y, k) = SinceOf(r, k)
    BY <2>1 DEF SinceOf
  <2>3. FreshOK(y)
    BY <2>1, <2>2 DEF AnswerOK, FreshOK, Lists
  <2>4. PeriodOK(y)
    BY <2>1 DEF AnswerOK, PeriodOK, Lists
  <2>5. ScoreOK(y)
    BY <2>1 DEF AnswerOK, ScoreOK
  <2>6. QED
    BY <2>3, <2>4, <2>5 DEF AnswerOK, y
<1>3. QED
  BY <1>1, <1>2

LEMMA ThenAnswer ==
    ASSUME UNCHANGED <<jira, card, row>>, NEW c \in Clients, AnswerOK(req'[c])
    PROVE  AnswerOK(req[c])'
<1>1. \A k : SinceOf(req'[c], k) = SinceOf(req[c], k)'
  BY DEF SinceOf
<1>2. /\ With(Keys, "accepted")' = With(Keys, "accepted")
      /\ With(Keys, "rejected")' = With(Keys, "rejected")
  BY DEF With
<1>3. FreshOK(req[c])'
  BY <1>1 DEF AnswerOK, FreshOK
<1>4. PeriodOK(req[c])'
  BY DEF AnswerOK, PeriodOK, not_run
<1>5. ScoreOK(req[c])'
  <2>1. ScoreOK(req'[c])
    BY DEF AnswerOK
  <2>2. QED
    BY <1>2, <2>1 DEF ScoreOK
<1>6. QED
  BY <1>3, <1>4, <1>5 DEF AnswerOK

LEMMA GoesAnswer ==
    ASSUME TriageInv, AnswerInv, NEW c \in Clients, NEW next, Goes(c, next),
           DOMAIN next = DOMAIN Idle, AnswerOK(next),
           Lists(next) => next.then \in {"extra", "chunk"}
    PROVE  AnswerInv'
<1>1. req' = [req EXCEPT ![c] = Settled(next)] /\ UNCHANGED <<jira, card, row>>
  BY DEF Goes, Private
<1>2. AnswerOK(Settled(next))
  BY SettledAnswer
<1>3. \A d \in Clients : AnswerOK(req'[d])
  BY <1>1, <1>2 DEF TriageInv, AnswerInv
<1>4. QED
  BY <1>1, <1>3, ThenAnswer DEF AnswerInv

\* What a list has stays fresh while others work: only a ticket whose storing
\* another request crosses may change under it.
LEMMA FreshKept ==
    ASSUME NEW c \in Clients, RequestOK(req[c]), FreshOK(req[c]), Same(req[c], req'[c]), Grows,
           req[c].kept \subseteq req'[c].kept, req[c].crossed \subseteq req'[c].crossed,
           \A k \in req[c].syncing \ req'[c].crossed : card'[k].type = card[k].type
    PROVE  FreshOK(req[c])'
<1> DEFINE x == req[c]
           y == req'[c]
<1> SUFFICES ASSUME x.op = "list" PROVE FreshOK(req[c])'
  BY DEF FreshOK, Same
<1>1. /\ y.op = x.op /\ y.pc = x.pc /\ y.todo = x.todo /\ y.syncing = x.syncing
      /\ y.rows = x.rows /\ y.seen = x.seen
  BY DEF Same
<1>2. /\ x.pc # "idle" /\ DOMAIN x.rows \subseteq Keys /\ DOMAIN x.todo \subseteq Keys
      /\ x.syncing \subseteq Keys
  BY DEF FreshOK, RequestOK, HasStored
<1>3. ASSUME NEW k \in Keys PROVE SinceOf(x, k) \subseteq SinceOf(x, k)'
  <2>1. x.seen[k] \in 1 .. Len(jira[k])
    BY <1>2 DEF RequestOK, HasSeen, Lists
  <2>2. QED
    BY <1>1, <2>1 DEF SinceOf, Grows
<1>4. \A k \in DOMAIN y.todo : y.todo[k] \in SinceOf(x, k)'
  BY <1>1, <1>2, <1>3 DEF FreshOK
<1>5. \A k \in y.syncing \ y.crossed : card'[k].type \in SinceOf(x, k)'
  BY <1>1, <1>2, <1>3 DEF FreshOK
<1>6. \A k \in DOMAIN y.rows \ (y.kept \cup y.crossed) :
         k \in DOMAIN y.todo \/ y.rows[k].type \in SinceOf(x, k)'
  BY <1>1, <1>2, <1>3 DEF FreshOK
<1>7. QED
  BY <1>1, <1>2, <1>4, <1>5, <1>6 DEF FreshOK

LEMMA BeginsAnswer ==
    ASSUME TriageInv, AnswerInv, NEW c \in Clients, NEW op, NEW pc, NEW range, NEW todo,
           Begins(c, op, pc, range, todo), pc # "idle", pc # "answered",
           op = "list" => pc = "search" /\ todo = <<>>,
           op = "scoreboard" => pc = "total"
    PROVE  AnswerInv'
<1> DEFINE x == [Idle EXCEPT
                 !.op = op, !.pc = pc, !.range = range, !.todo = todo,
                 !.then = IF op = "by_key" THEN "answered" ELSE "extra",
                 !.seen = IF pc = "search" THEN [k \in Keys |-> Len(jira[k])] ELSE <<>>,
                 !.pinned = IF pc = "search" THEN {k \in pins : InRange(k, range)} ELSE {}]
<1>1. req' = [req EXCEPT ![c] = x] /\ UNCHANGED <<jira, card, row>>
  BY DEF Begins
<1>2. x.op = op /\ x.pc = pc /\ x.todo = todo /\ x.syncing = {} /\ x.rows = <<>>
  BY DEF Idle
<1> HIDE DEF x
<1>3. AnswerOK(x)
  BY <1>2 DEF AnswerOK, FreshOK, PeriodOK, ScoreOK
<1>4. \A d \in Clients : AnswerOK(req'[d])
  BY <1>1, <1>3 DEF TriageInv, AnswerInv
<1>5. QED
  BY <1>1, <1>4, ThenAnswer DEF AnswerInv

LEMMA EndsAnswer ==
    ASSUME TriageInv, AnswerInv, NEW c \in Clients, Goes(c, Idle)
    PROVE  AnswerInv'
<1>1. DOMAIN Idle = DOMAIN Idle /\ ~Lists(Idle)
  BY DEF Lists, Idle
<1>2. QED
  BY <1>1, IdleAnswer, GoesAnswer

\* What the search found is what Jira says now.
LEMMA SearchesAnswer ==
    ASSUME TriageInv, AnswerInv, NEW c \in Clients, Searches(c) PROVE AnswerInv'
<1> DEFINE x == req[c]
           S == {k \in Keys : Now(k) \in TriageTypes /\ InRange(k, x.range)}
<1>1. PICK found \in Newest(S, SEARCH_MAX) :
        Goes(c, [x EXCEPT !.pc = "sync", !.todo = [k \in found |-> Now(k)]])
  BY DEF Searches
<1> DEFINE next == [x EXCEPT !.pc = "sync", !.todo = [k \in found |-> Now(k)]]
<1>2. RequestOK(x) /\ AnswerOK(x) /\ x.pc = "search" /\ found \subseteq Keys
  BY DEF Searches, At, TriageInv, AnswerInv, Newest
<1>3. /\ DOMAIN next = DOMAIN Idle
      /\ next.op = x.op /\ next.pc = "sync" /\ next.todo = [k \in found |-> Now(k)]
      /\ next.syncing = x.syncing /\ next.rows = x.rows /\ next.then = x.then
      /\ next.seen = x.seen /\ next.crossed = x.crossed /\ next.kept = x.kept
  BY <1>2 DEF RequestOK, Idle
<1>4. Goes(c, next)
  BY <1>1
<1> HIDE DEF next
<1>5. \A k : SinceOf(next, k) = SinceOf(x, k)
  BY <1>3 DEF SinceOf
<1>6. ASSUME Lists(x), NEW k \in found PROVE Now(k) \in SinceOf(x, k)
  <2>1. x.seen[k] \in 1 .. Len(jira[k])
    BY <1>2, <1>6 DEF RequestOK, HasSeen
  <2>2. QED
    BY <2>1 DEF SinceOf, Now
<1>7. (x.todo = <<>> /\ x.syncing = {}) \/ ~Lists(x)
  BY <1>2 DEF RequestOK, PlaceOK, HasStored
<1>8. FreshOK(next)
  BY <1>2, <1>3, <1>5, <1>6, <1>7 DEF AnswerOK, FreshOK, Lists
<1>9. PeriodOK(next) /\ ScoreOK(next)
  BY <1>2, <1>3 DEF AnswerOK, PeriodOK, ScoreOK
<1>10. Lists(next) => next.then \in {"extra", "chunk"}
  BY <1>2, <1>3 DEF RequestOK, PlaceOK, Lists
<1>11. QED
  BY <1>3, <1>4, <1>8, <1>9, <1>10, GoesAnswer DEF AnswerOK

LEMMA SearchRefusedAnswer ==
    ASSUME TriageInv, AnswerInv, NEW c \in Clients, SearchRefused(c) PROVE AnswerInv'
<1> DEFINE x == req[c]
           next == [x EXCEPT !.pc = "stats", !.stale = TRUE]
<1>1. RequestOK(x) /\ AnswerOK(x) /\ x.pc = "search"
  BY DEF SearchRefused, At, TriageInv, AnswerInv
<1>2. CASE x.op = "list"
  BY <1>2, EndsAnswer DEF SearchRefused
<1>3. CASE x.op # "list"
  <2>1. Goes(c, next)
    BY <1>3 DEF SearchRefused
  <2>2. /\ DOMAIN next = DOMAIN Idle
        /\ next.op = x.op /\ next.pc = "stats" /\ next.then = x.then
    BY <1>1 DEF RequestOK, Idle
  <2> HIDE DEF next
  <2>3. AnswerOK(next)
    BY <1>1, <1>3, <2>2 DEF AnswerOK, FreshOK, PeriodOK, ScoreOK
  <2>4. Lists(next) => next.then \in {"extra", "chunk"}
    BY <1>1, <2>2 DEF RequestOK, PlaceOK, Lists
  <2>5. QED
    BY <2>1, <2>2, <2>3, <2>4, GoesAnswer
<1>4. QED
  BY <1>2, <1>3

\* The row read back is the one just stored unless another request crossed.
LEMMA RereadsAnswer ==
    ASSUME TriageInv, AnswerInv, NEW c \in Clients, Rereads(c) PROVE AnswerInv'
<1> DEFINE x == req[c]
<1>1. PICK k \in x.syncing :
        Goes(c, [x EXCEPT !.pc = "sync", !.syncing = {}, !.rows = Shown(x, k),
                          !.todo = Only(x.todo, DOMAIN x.todo \ {k})])
  BY DEF Rereads
<1> DEFINE next == [x EXCEPT !.pc = "sync", !.syncing = {}, !.rows = Shown(x, k),
                             !.todo = Only(x.todo, DOMAIN x.todo \ {k})]
<1>2. RequestOK(x) /\ AnswerOK(x) /\ x.pc = "reread"
  BY DEF Rereads, At, TriageInv, AnswerInv
<1>3. /\ DOMAIN next = DOMAIN Idle
      /\ next.op = x.op /\ next.pc = "sync"
      /\ next.todo = Only(x.todo, DOMAIN x.todo \ {k})
      /\ next.syncing = {} /\ next.rows = Shown(x, k) /\ next.then = x.then
      /\ next.seen = x.seen /\ next.crossed = x.crossed /\ next.kept = x.kept
  BY <1>2 DEF RequestOK, Idle
<1>4. Goes(c, next)
  BY <1>1
<1> HIDE DEF next
<1>5. /\ DOMAIN next.rows = DOMAIN x.rows \cup {k}
      /\ next.rows[k] = card[k]
      /\ \A j \in DOMAIN x.rows \ {k} : next.rows[j] = x.rows[j]
  BY <1>3 DEF Shown, Over, Only
<1>6. DOMAIN next.todo = DOMAIN x.todo \ {k} /\ \A j \in DOMAIN next.todo : next.todo[j] = x.todo[j]
  BY <1>3 DEF Only
<1>7. \A j : SinceOf(next, j) = SinceOf(x, j)
  BY <1>3 DEF SinceOf
<1>8. k \in Keys
  BY <1>2 DEF RequestOK, HasStored
<1>9. FreshOK(next)
  <2> SUFFICES ASSUME next.op = "list" PROVE FreshOK(next)
    BY DEF FreshOK
  <2>1. FreshOK(x) /\ x.op = "list"
    BY <1>2, <1>3 DEF AnswerOK
  <2>2. DOMAIN next.rows \subseteq Keys
    BY <1>5, <1>8, <2>1 DEF FreshOK
  <2>3. \A j \in DOMAIN next.todo : next.todo[j] \in SinceOf(next, j)
    BY <1>6, <1>7, <2>1 DEF FreshOK
  <2>4. ASSUME NEW j \in DOMAIN next.rows \ (next.kept \cup next.crossed)
        PROVE  j \in DOMAIN next.todo \/ next.rows[j].type \in SinceOf(next, j)
    <3>1. CASE j = k
      BY <1>3, <1>5, <1>7, <2>1, <2>4, <3>1 DEF FreshOK
    <3>2. CASE j # k
      BY <1>3, <1>5, <1>6, <1>7, <2>1, <2>4, <3>2 DEF FreshOK
    <3>3. QED
      BY <3>1, <3>2
  <2>5. QED
    BY <1>3, <2>2, <2>3, <2>4 DEF FreshOK
<1>10. PeriodOK(next) /\ ScoreOK(next)
  BY <1>2, <1>3 DEF AnswerOK, PeriodOK, ScoreOK
<1>11. Lists(next) => next.then \in {"extra", "chunk"}
  BY <1>2, <1>3 DEF RequestOK, PlaceOK, Lists
<1>12. QED
  BY <1>3, <1>4, <1>9, <1>10, <1>11, GoesAnswer DEF AnswerOK

LEMMA ReadsPinnedAnswer ==
    ASSUME TriageInv, AnswerInv, NEW c \in Clients, ReadsPinned(c) PROVE AnswerInv'
<1> DEFINE x == req[c]
           extra == get_dashboard_tickets(x.range) \ DOMAIN x.rows
           next == [x EXCEPT !.pc = "chunk", !.then = "chunk", !.extra = Only(card, extra)]
<1>1. RequestOK(x) /\ AnswerOK(x) /\ x.pc = "extra" /\ Goes(c, next)
  BY DEF ReadsPinned, At, TriageInv, AnswerInv
<1>2. /\ DOMAIN next = DOMAIN Idle
      /\ next.op = x.op /\ next.pc = "chunk" /\ next.todo = x.todo
      /\ next.syncing = x.syncing /\ next.rows = x.rows /\ next.then = "chunk"
      /\ next.seen = x.seen /\ next.crossed = x.crossed /\ next.kept = x.kept
  BY <1>1 DEF RequestOK, Idle
<1> HIDE DEF next
<1>3. \A k : SinceOf(next, k) = SinceOf(x, k)
  BY <1>2 DEF SinceOf
<1>4. FreshOK(next)
  BY <1>1, <1>2, <1>3 DEF AnswerOK, FreshOK
<1>5. PeriodOK(next) /\ ScoreOK(next)
  BY <1>1, <1>2 DEF AnswerOK, PeriodOK, ScoreOK
<1>6. QED
  BY <1>1, <1>2, <1>4, <1>5, GoesAnswer DEF AnswerOK

\* The rows of a chunk are older: those Jira answers are stored and read again,
\* the others are kept.
LEMMA RefreshesAnswer ==
    ASSUME TriageInv, AnswerInv, NEW c \in Clients, Refreshes(c) PROVE AnswerInv'
<1> DEFINE x == req[c]
           asks(chunk, fresh) ==
               [x EXCEPT !.pc = "sync", !.todo = [k \in fresh |-> Now(k)],
                         !.extra = Only(x.extra, DOMAIN x.extra \ chunk),
                         !.rows = Over(Only(x.extra, chunk), x.rows),
                         !.kept = x.kept \cup (chunk \ fresh)]
<1>1. PICK chunk \in Newest(DOMAIN x.extra, CHUNK) : \E fresh \in SUBSET chunk :
        Goes(c, asks(chunk, fresh))
  BY DEF Refreshes
<1>1a. PICK fresh \in SUBSET chunk : Goes(c, asks(chunk, fresh))
  BY <1>1
<1> DEFINE next == asks(chunk, fresh)
<1>2. RequestOK(x) /\ AnswerOK(x) /\ x.pc = "chunk" /\ chunk \subseteq DOMAIN x.extra
  BY DEF Refreshes, At, TriageInv, AnswerInv, Newest
<1>3. chunk \subseteq Keys
  BY <1>2 DEF RequestOK, HasStored
<1>4. Lists(x) => x.todo = <<>> /\ x.then = "chunk"
  BY <1>2 DEF RequestOK, PlaceOK
<1>5. x.syncing = {}
  BY <1>2 DEF RequestOK, HasStored
<1>6. /\ DOMAIN next = DOMAIN Idle /\ AnswerOK(next)
      /\ Lists(next) => next.then \in {"extra", "chunk"}
  <2>1. /\ DOMAIN next = DOMAIN Idle
        /\ next.op = x.op /\ next.syncing = {} /\ next.then = x.then
        /\ next.rows = Over(Only(x.extra, chunk), x.rows)
        /\ next.seen = x.seen /\ next.crossed = x.crossed
        /\ next.pc = "sync" /\ next.todo = [k \in fresh |-> Now(k)]
        /\ next.kept = x.kept \cup (chunk \ fresh)
    BY <1>2, <1>5 DEF RequestOK, Idle
  <2> HIDE DEF next
  <2>2. /\ DOMAIN next.rows = DOMAIN x.rows \cup chunk
        /\ \A j \in DOMAIN x.rows \ chunk : next.rows[j] = x.rows[j]
    BY <1>2, <2>1 DEF Only, Over
  <2>3. \A j : SinceOf(next, j) = SinceOf(x, j)
    BY <2>1 DEF SinceOf
  <2>4. ASSUME Lists(x), NEW k \in chunk PROVE Now(k) \in SinceOf(x, k)
    <3>1. x.seen[k] \in 1 .. Len(jira[k])
      BY <1>2, <1>3, <2>4 DEF RequestOK, HasSeen
    <3>2. QED
      BY <3>1 DEF SinceOf, Now
  <2>5. FreshOK(next)
    <3> SUFFICES ASSUME next.op = "list" PROVE FreshOK(next)
      BY DEF FreshOK
    <3>1. FreshOK(x) /\ x.op = "list" /\ Lists(x) /\ DOMAIN x.todo = {}
      BY <1>2, <1>4, <2>1 DEF AnswerOK, Lists
    <3>2. DOMAIN next.rows \subseteq Keys
      BY <1>3, <2>2, <3>1 DEF FreshOK
    <3>3. \A j \in DOMAIN next.todo : next.todo[j] \in SinceOf(next, j)
      BY <2>1, <2>3, <2>4, <3>1
    <3>4. ASSUME NEW j \in DOMAIN next.rows \ (next.kept \cup next.crossed)
          PROVE  j \in DOMAIN next.todo \/ next.rows[j].type \in SinceOf(next, j)
      <4>1. CASE j \in chunk
        BY <2>1, <3>4, <4>1
      <4>2. CASE j \notin chunk
        BY <2>1, <2>2, <2>3, <3>1, <3>4, <4>2 DEF FreshOK
      <4>3. QED
        BY <4>1, <4>2
    <3>5. QED
      BY <2>1, <3>2, <3>3, <3>4 DEF FreshOK
  <2>6. PeriodOK(next) /\ ScoreOK(next)
    BY <1>2, <2>1 DEF AnswerOK, PeriodOK, ScoreOK
  <2>7. QED
    BY <1>4, <2>1, <2>5, <2>6 DEF AnswerOK, Lists
<1>7. QED
  BY <1>1a, <1>6, GoesAnswer

LEMMA CountsAnswer ==
    ASSUME TriageInv, AnswerInv, NEW c \in Clients, Counts(c) PROVE AnswerInv'
<1> DEFINE x == req[c]
           counts == get_period_stats(x.range)
           next == [x EXCEPT !.pc = "answered", !.counts = counts]
<1>1. RequestOK(x) /\ AnswerOK(x) /\ x.pc = "stats" /\ Goes(c, next)
  BY DEF Counts, At, TriageInv, AnswerInv
<1>2. x.op = "period" => /\ not_run(counts) = Cardinality(counts.untouched)
                         /\ \A k \in counts.raised : Created[k] >= PeriodStart
  <2>1. x.op = "period" => DOMAIN x.range = {"from", "to"} /\ x.range.from \in Nat
    BY <1>1 DEF RequestOK, HasSeen
  <2>2. QED
    BY <2>1, PeriodAddsUp
<1> HIDE DEF counts
<1>3. /\ DOMAIN next = DOMAIN Idle
      /\ next.op = x.op /\ next.then = x.then /\ next.counts = counts
    BY <1>1 DEF RequestOK, Idle
<1>4. x.op # "list" /\ x.op # "scoreboard"
  BY <1>1 DEF RequestOK, PlaceOK, Lists, AnswerOK, ScoreOK
<1> HIDE DEF next
<1>5. AnswerOK(next)
  BY <1>2, <1>3, <1>4 DEF AnswerOK, FreshOK, PeriodOK, ScoreOK
<1>6. Lists(next) => next.then \in {"extra", "chunk"}
  BY <1>1, <1>3 DEF RequestOK, PlaceOK, Lists
<1>7. QED
  BY <1>1, <1>3, <1>5, <1>6, GoesAnswer

\* A step of a scoreboard.
LEMMA ScoreboardAnswer ==
    ASSUME TriageInv, AnswerInv, NEW c \in Clients, NEW next, Goes(c, next),
           req[c].pc \in {"total", "accepted", "rejected"},
           DOMAIN next = DOMAIN Idle, next.op = req[c].op, ScoreOK(next)
    PROVE  AnswerInv'
<1>1. ~Lists(next)
  BY DEF TriageInv, RequestOK, PlaceOK, Lists
<1>2. FreshOK(next) /\ PeriodOK(next)
  BY <1>1 DEF FreshOK, PeriodOK, Lists
<1>3. QED
  BY <1>1, <1>2, GoesAnswer DEF AnswerOK

LEMMA ScoreboardsAnswer ==
    ASSUME TriageInv, AnswerInv, NEW c \in Clients,
           CountsTotal(c) \/ CountsAccepted(c) \/ CountsRejected(c)
    PROVE  AnswerInv'
<1> DEFINE x == req[c]
           acc == Cardinality(With(Keys, "accepted"))
           rej == Cardinality(With(Keys, "rejected"))
           all == Cardinality(With(Keys, "accepted") \cup With(Keys, "rejected"))
<1>1. DOMAIN x = DOMAIN Idle /\ ScoreOK(x)
  BY DEF TriageInv, RequestOK, AnswerInv, AnswerOK
<1>2. CASE CountsTotal(c)
  <2> DEFINE counts == [total |-> all, accepted |-> 0, rejected |-> 0]
             next == [x EXCEPT !.pc = "accepted", !.decided = FALSE, !.counts = counts]
  <2>1. Goes(c, next) /\ x.pc = "total"
    BY <1>2 DEF CountsTotal, At
  <2>2. counts.total = all /\ DOMAIN counts = {"total", "accepted", "rejected"}
    OBVIOUS
  <2> HIDE DEF counts
  <2>3. /\ DOMAIN next = DOMAIN Idle /\ next.pc = "accepted" /\ next.op = x.op
        /\ next.counts = counts
    BY <1>1 DEF Idle
  <2> HIDE DEF next
  <2>4. ScoreOK(next)
    BY <2>2, <2>3 DEF ScoreOK
  <2>5. QED
    BY <2>1, <2>3, <2>4, ScoreboardAnswer
<1>3. CASE CountsAccepted(c)
  <2> DEFINE counts == [x.counts EXCEPT !.accepted = acc]
             next == [x EXCEPT !.pc = "rejected", !.counts = counts]
  <2>1. Goes(c, next) /\ x.pc = "accepted"
    BY <1>3 DEF CountsAccepted, At
  <2>2. /\ DOMAIN counts = DOMAIN x.counts
        /\ DOMAIN x.counts = {"total", "accepted", "rejected"} =>
              counts.total = x.counts.total /\ counts.accepted = acc
    OBVIOUS
  <2> HIDE DEF counts
  <2>3. /\ DOMAIN next = DOMAIN Idle /\ next.pc = "rejected" /\ next.op = x.op
        /\ next.counts = counts /\ (next.decided <=> x.decided)
    BY <1>1 DEF Idle
  <2> HIDE DEF next
  <2>4. ScoreOK(next)
    BY <1>1, <2>1, <2>2, <2>3 DEF ScoreOK
  <2>5. QED
    BY <2>1, <2>3, <2>4, ScoreboardAnswer
<1>4. CASE CountsRejected(c)
  <2> DEFINE counts == [x.counts EXCEPT !.rejected = rej]
             next == [x EXCEPT !.pc = "answered", !.counts = counts]
  <2>1. Goes(c, next) /\ x.pc = "rejected"
    BY <1>4 DEF CountsRejected, At
  <2>2. DOMAIN x.counts = {"total", "accepted", "rejected"} =>
              /\ counts.total = x.counts.total /\ counts.accepted = x.counts.accepted
              /\ counts.rejected = rej
    OBVIOUS
  <2> HIDE DEF counts
  <2>3. /\ DOMAIN next = DOMAIN Idle /\ next.pc = "answered" /\ next.op = x.op
        /\ next.counts = counts /\ (next.decided <=> x.decided)
    BY <1>1 DEF Idle
  <2> HIDE DEF next
  <2>4. all = acc + rej
    <3>1. IsFiniteSet(With(Keys, "accepted")) /\ IsFiniteSet(With(Keys, "rejected"))
          /\ With(Keys, "accepted") \cap With(Keys, "rejected") = {}
      BY FS_Subset, TriageAssumption DEF With
    <3>2. QED
      BY <3>1, DisjointUnion
  <2>5. ScoreOK(next)
    BY <1>1, <2>1, <2>2, <2>3, <2>4 DEF ScoreOK
  <2>6. QED
    BY <2>1, <2>3, <2>5, ScoreboardAnswer
<1>5. QED
  BY <1>2, <1>3, <1>4

\* Storing an issue is fresh for its own list and marks the ticket in those it
\* crosses.
LEMMA UpsertsAnswer ==
    ASSUME TriageInv, AnswerInv, NEW c \in Clients, Upserts(c) PROVE AnswerInv'
<1> DEFINE x == req[c]
<1>1. RequestOK(x) /\ AnswerOK(x) /\ x.pc = "sync"
  BY DEF Upserts, At, TriageInv, AnswerInv
<1>2. PICK k \in DOMAIN x.todo :
        /\ card' = [card EXCEPT ![k] = upsert_ticket(card[k], x.todo[k])]
        /\ pins' = IF x.todo[k] \in TriageTypes THEN pins \cup {k} ELSE pins
        /\ req' = [d \in Clients |->
                     IF d = c THEN [x EXCEPT !.pc = "reread", !.syncing = {k}]
                     ELSE IF k \in req[d].syncing
                       THEN [req[d] EXCEPT !.crossed = req[d].crossed \cup {k}]
                     ELSE req[d]]
  BY DEF Upserts, Newest
<1>3. k \in Keys /\ UNCHANGED <<jira, row>>
  BY <1>1 DEF RequestOK, HasStored, Upserts
<1>4. /\ DOMAIN card' = Keys /\ \A j \in Keys \ {k} : card'[j] = card[j]
      /\ card'[k] = upsert_ticket(card[k], x.todo[k])
  BY <1>2, <1>3 DEF TriageInv, CardsInv
<1>5. card'[k].type = x.todo[k]
  BY <1>4 DEF upsert_ticket
<1>6. Grows
  <2>1. card[k].pinned => card'[k].pinned
    BY <1>4, PinStays
  <2>2. \A j \in Keys : Len(jira[j]) \in Nat
    BY DEF TriageInv, JiraInv
  <2>3. QED
    BY <1>2, <1>3, <1>4, <2>1, <2>2 DEF Grows
<1>7. /\ With(Keys, "accepted")' = With(Keys, "accepted")
      /\ With(Keys, "rejected")' = With(Keys, "rejected")
  BY <1>3 DEF With
<1>8. ASSUME NEW d \in Clients \ {c} PROVE AnswerOK(req[d])'
  <2> DEFINE z == req[d]
             w == [z EXCEPT !.crossed = z.crossed \cup {k}]
  <2>1. RequestOK(z) /\ AnswerOK(z) /\ DOMAIN z = DOMAIN Idle /\ z.syncing \subseteq Keys
    BY DEF TriageInv, AnswerInv, RequestOK, HasStored
  <2>2. /\ Same(z, w) /\ w.kept = z.kept /\ w.crossed = z.crossed \cup {k}
        /\ (w.decided <=> z.decided)
    BY <2>1 DEF Same, Idle
  <2>3. req'[d] = IF k \in z.syncing THEN w ELSE z
    BY <1>2
  <2> HIDE DEF w
  <2>4. /\ Same(z, req'[d]) /\ req'[d].kept = z.kept /\ z.crossed \subseteq req'[d].crossed
        /\ (req'[d].decided <=> z.decided)
        /\ \A j \in z.syncing \ req'[d].crossed : card'[j].type = card[j].type
    BY <1>4, <2>1, <2>2, <2>3 DEF Same
  <2>5. FreshOK(req[d])'
    BY <1>6, <2>1, <2>4, FreshKept DEF AnswerOK
  <2>6. PeriodOK(req[d])'
    BY <2>1, <2>4 DEF AnswerOK, PeriodOK, Same, not_run
  <2>7. ScoreOK(req[d])'
    BY <1>7, <2>1, <2>4 DEF AnswerOK, ScoreOK, Same
  <2>8. QED
    BY <2>5, <2>6, <2>7 DEF AnswerOK
<1> DEFINE next == [x EXCEPT !.pc = "reread", !.syncing = {k}]
<1>9. /\ req'[c] = next
      /\ next.op = x.op /\ next.pc = "reread" /\ next.todo = x.todo
      /\ next.syncing = {k} /\ next.rows = x.rows
      /\ next.seen = x.seen /\ next.crossed = x.crossed /\ next.kept = x.kept
  BY <1>1, <1>2 DEF RequestOK, Idle
<1> HIDE DEF next
<1>10. \A j : SinceOf(req[c], j)' = SinceOf(x, j)
  BY <1>3, <1>9 DEF SinceOf
<1>11. FreshOK(req[c])'
  BY <1>1, <1>5, <1>9, <1>10 DEF AnswerOK, FreshOK
<1>12. PeriodOK(req[c])' /\ ScoreOK(req[c])'
  BY <1>1, <1>9 DEF AnswerOK, PeriodOK, ScoreOK
<1>13. QED
  BY <1>8, <1>11, <1>12 DEF AnswerInv, AnswerOK

\* What happens around the requests: Jira's history grows, and a row that
\* changes is noted by the scoreboards being counted.
LEMMA AroundAnswer ==
    ASSUME TriageInv, AnswerInv, Grows, UNCHANGED card, DOMAIN req' = Clients,
           \/ UNCHANGED <<row, req>>
           \/ \A c \in Clients :
                 req'[c] = IF At(c, "accepted") \/ At(c, "rejected")
                             THEN [req[c] EXCEPT !.decided = TRUE] ELSE req[c]
    PROVE  AnswerInv'
<1> SUFFICES ASSUME NEW c \in Clients PROVE AnswerOK(req[c])'
  BY DEF AnswerInv
<1> DEFINE x == req[c]
           w == [x EXCEPT !.decided = TRUE]
<1>1. RequestOK(x) /\ AnswerOK(x) /\ DOMAIN x = DOMAIN Idle
  BY DEF TriageInv, AnswerInv, RequestOK
<1>2. Same(x, w) /\ w.kept = x.kept /\ w.crossed = x.crossed /\ w.decided
  BY <1>1 DEF Same, Idle
<1>3. \/ req'[c] = x /\ UNCHANGED row
      \/ req'[c] = x /\ x.pc \notin {"accepted", "rejected"}
      \/ req'[c] = w
  BY DEF At
<1> HIDE DEF w
<1>4. /\ Same(x, req'[c]) /\ req'[c].kept = x.kept /\ req'[c].crossed = x.crossed
      /\ \/ req'[c].decided
         \/ x.decided = req'[c].decided /\ UNCHANGED row
         \/ x.decided = req'[c].decided /\ x.pc \notin {"accepted", "rejected"}
  BY <1>2, <1>3 DEF Same
<1>5. FreshOK(req[c])'
  BY <1>1, <1>4, FreshKept DEF AnswerOK
<1>6. PeriodOK(req[c])'
  BY <1>1, <1>4 DEF AnswerOK, PeriodOK, Same, not_run
<1>7. ScoreOK(req[c])'
  <2>1. UNCHANGED row => /\ With(Keys, "accepted")' = With(Keys, "accepted")
                         /\ With(Keys, "rejected")' = With(Keys, "rejected")
    BY DEF With
  <2>2. CASE req'[c].decided
    BY <1>1, <1>4, <2>2 DEF AnswerOK, ScoreOK, Same
  <2>3. CASE x.decided = req'[c].decided /\ UNCHANGED row
    BY <1>1, <1>4, <2>1, <2>3 DEF AnswerOK, ScoreOK, Same
  <2>4. CASE x.decided = req'[c].decided /\ x.pc \notin {"accepted", "rejected"}
    BY <1>1, <1>4, <2>4 DEF AnswerOK, ScoreOK, Same
  <2>5. QED
    BY <1>4, <2>2, <2>3, <2>4
<1>8. QED
  BY <1>5, <1>6, <1>7 DEF AnswerOK

LEMMA BecomesAnswer ==
    ASSUME TriageInv, AnswerInv, NEW k, NEW after, Becomes(k, after)
    PROVE  AnswerInv'
<1>1. Grows
  BY DEF Becomes, Grows, TriageInv, JiraInv
<1>2. QED
  BY <1>1, AroundAnswer DEF Becomes

LEMMA AnswerInit == Init => AnswerInv
BY IdleAnswer DEF Init, AnswerInv

LEMMA AnswerStep == TriageInv /\ AnswerInv /\ [Next]_vars => AnswerInv'
<1> SUFFICES ASSUME TriageInv, AnswerInv, [Next]_vars PROVE AnswerInv'
  OBVIOUS
<1>1. ASSUME NEW c \in Clients,
             list_tickets(c) \/ quality_period(c) \/ get_ticket_by_key(c) \/ get_scoreboard(c)
      PROVE  AnswerInv'
  <2>1. CASE list_tickets(c)
    BY <2>1, BeginsAnswer DEF list_tickets
  <2>2. CASE quality_period(c)
    BY <2>2, BeginsAnswer DEF quality_period
  <2>3. CASE get_ticket_by_key(c)
    BY <2>3, BeginsAnswer DEF get_ticket_by_key
  <2>4. CASE get_scoreboard(c)
    BY <2>4, BeginsAnswer DEF get_scoreboard
  <2>5. QED
    BY <1>1, <2>1, <2>2, <2>3, <2>4
<1>2. ASSUME NEW c \in Clients, Searches(c) PROVE AnswerInv'
  BY <1>2, SearchesAnswer
<1>3. ASSUME NEW c \in Clients, SearchRefused(c) PROVE AnswerInv'
  BY <1>3, SearchRefusedAnswer
<1>4. ASSUME NEW c \in Clients, Unreachable(c) \/ Done(c) PROVE AnswerInv'
  BY <1>4, EndsAnswer DEF Unreachable, Done
<1>5. ASSUME NEW c \in Clients, Upserts(c) PROVE AnswerInv'
  BY <1>5, UpsertsAnswer
<1>6. ASSUME NEW c \in Clients, Rereads(c) PROVE AnswerInv'
  BY <1>6, RereadsAnswer
<1>7. ASSUME NEW c \in Clients, ReadsPinned(c) PROVE AnswerInv'
  BY <1>7, ReadsPinnedAnswer
<1>8. ASSUME NEW c \in Clients, Refreshes(c) PROVE AnswerInv'
  BY <1>8, RefreshesAnswer
<1>9. ASSUME NEW c \in Clients, Counts(c) PROVE AnswerInv'
  BY <1>9, CountsAnswer
<1>10. ASSUME NEW c \in Clients, CountsTotal(c) \/ CountsAccepted(c) \/ CountsRejected(c)
       PROVE AnswerInv'
  BY <1>10, ScoreboardsAnswer
<1>11. ASSUME NEW k \in Keys, Edited(k) PROVE AnswerInv'
  <2>1. Grows
    BY <1>11, EditedGrows
  <2>2. UNCHANGED <<card, row, req>> /\ DOMAIN req' = Clients
    BY <1>11 DEF Edited, TriageInv
  <2>3. QED
    BY <2>1, <2>2, AroundAnswer
<1>12. ASSUME NEW k \in Busy, run_rca(k) \/ RunEnds(k) \/ reset_rca(k) \/ Decides(k)
       PROVE AnswerInv'
  BY <1>12, BecomesAnswer DEF run_rca, RunEnds, reset_rca, Decides
<1>13. CASE UNCHANGED vars
  <2>1. Grows
    BY <1>13 DEF vars, Grows, TriageInv, JiraInv
  <2>2. UNCHANGED <<card, row, req>> /\ DOMAIN req' = Clients
    BY <1>13 DEF vars, TriageInv
  <2>3. QED
    BY <2>1, <2>2, AroundAnswer
<1>14. QED
  BY <1>1, <1>2, <1>3, <1>4, <1>5, <1>6, <1>7, <1>8, <1>9, <1>10, <1>11, <1>12, <1>13 DEF Next

LEMMA AnswersInvariant == Spec => [](TriageInv /\ AnswerInv)
BY TriageInit, TriageStep, AnswerInit, AnswerStep, PTL DEF Spec

\* A row of a list shows what Jira said of the ticket while the list was made,
\* unless Jira refused its chunk or left it out of the answer (app.py:135-137)
\* or another request stored the ticket between the two store calls of the sync
\* (app.py:157-160).
THEOREM RowsAlwaysFresh == Spec => []RowsFresh
<1>1. TriageInv /\ AnswerInv => RowsFresh
  <2> SUFFICES ASSUME TriageInv, AnswerInv, NEW c \in Answered("list"),
                      NEW k \in DOMAIN req[c].rows \ (req[c].kept \cup req[c].crossed)
               PROVE  req[c].rows[k].type \in Since(c, k)
    BY DEF RowsFresh
  <2>1. c \in Clients /\ req[c].op = "list" /\ req[c].pc = "answered"
    BY DEF Answered, At
  <2>2. DOMAIN req[c].todo = {}
    BY <2>1 DEF TriageInv, RequestOK, PlaceOK, Lists
  <2>3. QED
    BY <2>1, <2>2 DEF AnswerInv, AnswerOK, FreshOK, Since, SinceOf
<1>2. QED
  BY <1>1, AnswersInvariant, PTL

\* The counts of a period add up to the tickets it calls raised, none of them
\* older than the go-live day (db.py:552-607), and the three numbers of the
\* scoreboard agree unless a row changed between its SELECTs.
THEOREM CountsAlwaysAgree == Spec => []CountsAgree
<1>1. AnswerInv => CountsAgree
  BY DEF CountsAgree, AnswerInv, AnswerOK, PeriodOK, ScoreOK, Answered, At
<1>2. QED
  BY <1>1, AnswersInvariant, PTL
=============================================================================
