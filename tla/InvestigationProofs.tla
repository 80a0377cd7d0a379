------------------------ MODULE InvestigationProofs ------------------------
(***************************************************************************)
(* Proofs about one investigation and the ledger (Investigation): what a   *)
(* run may store and when it may fail, and that its thread books every run *)
(* once, with what it spent and under the trigger that started it.         *)
(***************************************************************************)
EXTENDS Investigation, ReviewStoreProofs, FiniteSetTheorems, TLAPS

(***************************************************************************)
(* The inductive invariant.                                                *)
(***************************************************************************)

Failures == {"error_subtype", "is_error"}

RunRecord ==
    [pc: {"unstarted", "fetch", "stream", "verify", "post", "fail", "record", "done",
          "killed"},
     source: {"none", "manual", "auto"}, final_text: AgentTexts \cup {Nothing},
     status: {"ok", "failed"},
     cause: {"none", "fetch", "no_verdict", "result_error", "error", "timeout"},
     reached: BOOLEAN]

AgentRecord ==
    [made: Nat, again: BOOLEAN, result: {"none", "success"} \cup Failures,
     total: Nat \cup {NoCost}, cost: Nat \cup {NoCost}, late: BOOLEAN]

SavedRecord ==
    [text: AgentTexts \cup {Nothing}, confidence: Confidence,
     label: {"none", "Needs review", "Issue Accepted", "Not a BUG"}]

Types ==
    /\ row \in Row
    /\ run \in [Runs -> RunRecord]
    /\ usage \in [Runs -> RunUsage]
    /\ agent \in [Runs -> AgentRecord]
    /\ saved \in [Runs -> SavedRecord]
    /\ \A r \in Runs : agent[r].made <= MaxResponses[r]

\* Where a thread is says what it has: no text before the stream, no verdict
\* before the end of it, a text that reads like a verdict when it is parsed.
Readable(text) == text.form \in {"verdict", "inner_fence"}

ThreadOK(t, a, v) ==
    /\ t.pc \in {"unstarted", "fetch"} => t.final_text = Nothing
    /\ t.pc \in {"unstarted", "fetch", "stream"} => v = NoVerdict
    /\ t.pc = "verify" => looks_like_verdict(t.final_text)
    /\ a.result \in Failures => t.pc \in {"fail", "record"} /\ v = NoVerdict
    /\ t.pc = "fail" /\ Readable(t.final_text) => t.cause \in {"result_error", "timeout"}
    /\ t.reached => t.pc = "done"

ThreadInv == \A r \in Runs : ThreadOK(run[r], agent[r], saved[r])

\* The meter against the stream: each response counted once while the sum runs,
\* the totals of the SDK when there are any.
MeterOK(u, a) ==
    /\ a.result = "none" => u.final = FALSE
    /\ a.result # "none" => u.final = TRUE
    /\ u.tokens = IF a.result = "none" THEN a.made ELSE a.total
    /\ a.result # "none" => a.total \in Nat \ {0}
    /\ a.result = "none" => u.seen = 1 .. a.made /\ a.cost = NoCost
    /\ u.cost = a.cost
    /\ u.cost_source = IF a.cost = NoCost THEN "" ELSE "sdk"

MeterInv == \A r \in Runs : MeterOK(usage[r], agent[r])

\* Phoenix has the past spans and those of runs whose query is over; its kind
\* tells whether a ticket answers for a span.
Kinds == {"rca", "fix", "eval", "unattributed"}

NoTicket == {"eval", "unattributed"}

SpanOK(s) ==
    /\ s.id \in Nat \ {0}
    /\ span_kind(s) \in NoTicket <=> s.id \in NotForTickets

SpansInv == \A s \in spans : SpanOK(s)

\* The last run started is the one the row's trigger is of.
TriggerInv ==
    \A r \in Started :
        \/ r + 1 \in Started
        \/ row.trigger_source = run[r].source /\ run[r].source # "none"

Live(x) == x.source_ref = 0

LedgerInv ==
    /\ \A x \in BagToSet(ledger) :
        /\ ledger[x] = 1
        /\ x.kind \in Kinds
        /\ x.kind \in NoTicket <=> x.source_ref \in NotForTickets
        /\ IF Live(x)
           THEN /\ x.started_at \in Runs
                /\ run[x.started_at].reached
                /\ \/ x.trigger = run[x.started_at].source
                   \/ x.started_at + 1 \in Started
           ELSE x.started_at = x.source_ref
    /\ \A x, y \in BagToSet(ledger) :
        x.source_ref = y.source_ref /\ x.started_at = y.started_at => x = y
    /\ \A r \in Runs :
        run[r].reached => \E x \in BagToSet(ledger) : Live(x) /\ x.started_at = r

IInv == Types /\ ThreadInv /\ MeterInv /\ SpansInv /\ TriggerInv /\ LedgerInv

-----------------------------------------------------------------------------
(***************************************************************************)
(* What most steps share: they change one thread, whose run they neither   *)
(* start nor record.                                                       *)
(***************************************************************************)

\* A step of one thread that keeps its trigger and whether it was recorded.
StepOf(r, change) ==
    /\ change \in RunRecord
    /\ run[r].pc \notin {"unstarted", "done", "killed"}
    /\ change.pc \notin {"unstarted", "done", "killed"}
    /\ change.source = run[r].source
    /\ change.reached = run[r].reached
    /\ run' = [run EXCEPT ![r] = change]

LEMMA StepKeeps ==
    ASSUME IInv, NEW r \in Runs, NEW change, StepOf(r, change),
           row'.trigger_source = row.trigger_source, ledger' = ledger
    PROVE  /\ run' \in [Runs -> RunRecord]
           /\ TriggerInv' /\ LedgerInv'
<1>1. run' \in [Runs -> RunRecord]
  BY DEF IInv, Types, StepOf
<1>2. \A q \in Runs : /\ run'[q].source = run[q].source
                      /\ run'[q].reached = run[q].reached
                      /\ run'[q].pc = "unstarted" <=> run[q].pc = "unstarted"
  BY DEF IInv, Types, StepOf, RunRecord
<1>3. Started' = Started
  BY <1>2 DEF Started, At
<1>4. TriggerInv'
  BY <1>2, <1>3 DEF IInv, TriggerInv, Started
<1>5. LedgerInv'
  BY <1>2, <1>3 DEF IInv, LedgerInv, Live
<1> QED
  BY <1>1, <1>4, <1>5

LEMMA NewMeterOK == MeterOK(NewUsage, Silent)
<1>1. 1 .. 0 = {}
  OBVIOUS
<1>2. NewUsage.final = FALSE /\ Silent.result = "none"
  BY DEF NewUsage, Silent
<1>3. /\ NewUsage.tokens = 0 /\ NewUsage.seen = {} /\ NewUsage.cost = NoCost
      /\ NewUsage.cost_source = "" /\ Silent.made = 0 /\ Silent.cost = NoCost
  BY DEF NewUsage, Silent
<1> QED
  BY <1>1, <1>2, <1>3 DEF MeterOK

LEMMA NoVerdictType == NoVerdict \in SavedRecord
  BY DEF NoVerdict, SavedRecord, Nothing, Confidence

LEMMA InitInv == Init => IInv
<1> SUFFICES ASSUME Init
             PROVE  IInv
  OBVIOUS
<1>1. Types
  <2>1. row \in Row
    BY DEF Init, FreshRow, Row, Statuses
  <2>2. Unstarted \in RunRecord /\ NewUsage \in RunUsage /\ Silent \in AgentRecord
        /\ NoVerdict \in SavedRecord
    BY DEF Unstarted, RunRecord, NewUsage, RunUsage, Silent, AgentRecord, NoVerdict,
           SavedRecord, Nothing, Confidence
  <2> QED
    BY <2>1, <2>2, InvestigationAssumption DEF Init, Types, Silent
<1>2. ThreadInv
  <2>1. ThreadOK(Unstarted, Silent, NoVerdict)
    BY DEF ThreadOK, Unstarted, Silent, Failures
  <2> QED
    BY <2>1 DEF Init, ThreadInv
<1>3. MeterInv
  BY NewMeterOK DEF Init, MeterInv
<1>4. SpansInv
  <2> SUFFICES ASSUME NEW s \in PastSpans
               PROVE  SpanOK(s)
    BY DEF Init, SpansInv
  <2>1. /\ s.id \in Nat \ {0}
        /\ \A t \in PastSpans : t.id = s.id => t = s
    BY InvestigationAssumption DEF Span
  <2>2. s.id \in NotForTickets <=> s.eval \/ ~ (s.fix_prompt \/ s.key)
    BY <2>1 DEF NotForTickets
  <2> QED
    BY <2>1, <2>2 DEF SpanOK, span_kind, NoTicket
<1>5. TriggerInv
  BY DEF Init, TriggerInv, Started, At, Unstarted
<1>6. LedgerInv
  BY DEF Init, LedgerInv, Unstarted, EmptyBag, BagToSet, SetToBag
<1> QED
  BY <1>1, <1>2, <1>3, <1>4, <1>5, <1>6 DEF IInv

-----------------------------------------------------------------------------
(***************************************************************************)
(* The meter (module Meter) along the stream.                              *)
(***************************************************************************)

\* A further block of a response changes nothing, a new response counts one.
LEMMA ObserveAssistant ==
    ASSUME NEW u \in RunUsage, NEW a \in AgentRecord, MeterOK(u, a),
           a.result = "none", NEW model \in Models, NEW n \in Nat \ {0},
           NEW b \in AgentRecord, b.made = n, b.result = "none", b.cost = a.cost,
           n = a.made \/ n = a.made + 1,
           NEW m, m = [type |-> "assistant", id |-> n, model |-> model, usage |-> TRUE]
    PROVE  observe(u, m) \in RunUsage /\ MeterOK(observe(u, m), b)
<1>1. u.final = FALSE
  BY DEF MeterOK
<1>2. observe(u, m) = observe_assistant(u, m)
  BY DEF observe
<1>3. m.usage /\ m.id = n /\ m.id # 0 /\ m.model = model /\ u.seen = 1 .. a.made
  BY DEF MeterOK
<1>4. a.made \in Nat /\ u.tokens = a.made
  BY DEF MeterOK, AgentRecord
<1>5. CASE n = a.made
  <2>1. ~ Counts(u, m)
    BY <1>3, <1>4, <1>5 DEF Counts
  <2>2. observe(u, m) = [u EXCEPT !.model = model, !.tokens = u.tokens, !.seen = u.seen]
    BY <1>1, <1>2, <1>3, <2>1 DEF observe_assistant
  <2>3. /\ observe(u, m) \in RunUsage
        /\ observe(u, m).tokens = u.tokens
        /\ observe(u, m).seen = u.seen
        /\ observe(u, m).cost = u.cost
        /\ observe(u, m).cost_source = u.cost_source
    BY <2>2 DEF RunUsage
  <2>4. observe(u, m).final = FALSE
    BY <1>1, <2>2 DEF RunUsage
  <2>5. u.cost = b.cost /\ u.cost_source = IF b.cost = NoCost THEN "" ELSE "sdk"
    BY DEF MeterOK
  <2>6. a.cost = NoCost
    BY DEF MeterOK
  <2> QED
    BY <1>3, <1>4, <1>5, <2>3, <2>4, <2>5, <2>6 DEF MeterOK
<1>6. CASE n = a.made + 1
  <2>1. Counts(u, m)
    BY <1>3, <1>4, <1>6 DEF Counts
  <2>2. observe(u, m) = [u EXCEPT !.model = model, !.tokens = u.tokens + 1,
                                  !.seen = u.seen \cup {n}]
    BY <1>1, <1>2, <1>3, <2>1 DEF observe_assistant
  <2>3. (1 .. a.made) \cup {n} = 1 .. n
    BY <1>4, <1>6
  <2>4. /\ observe(u, m).tokens = u.tokens + 1
        /\ observe(u, m).seen = u.seen \cup {n}
        /\ observe(u, m).cost = u.cost
        /\ observe(u, m).cost_source = u.cost_source
    BY <2>2 DEF RunUsage
  <2>5. observe(u, m) \in RunUsage
    <3>1. u.seen \cup {n} \in SUBSET (Nat \ {0})
      BY DEF RunUsage
    <3>2. u.tokens + 1 \in Nat
      BY <1>4
    <3> QED
      BY <2>2, <3>1, <3>2 DEF RunUsage
  <2>6. observe(u, m).final = FALSE
    BY <1>1, <2>2 DEF RunUsage
  <2>7. /\ u.cost = b.cost /\ u.cost_source = IF b.cost = NoCost THEN "" ELSE "sdk"
        /\ a.cost = NoCost
    BY DEF MeterOK
  <2> QED
    BY <1>3, <1>4, <1>6, <2>3, <2>4, <2>5, <2>6, <2>7 DEF MeterOK
<1> QED
  BY <1>5, <1>6

\* The totals of the SDK replace the sum.
LEMMA ObserveResult ==
    ASSUME NEW u \in RunUsage, NEW a \in AgentRecord, MeterOK(u, a),
           a.result = "none", NEW total \in Nat \ {0}, NEW cost \in {NoCost, total},
           NEW b \in AgentRecord, b.result # "none", b.total = total, b.cost = cost,
           NEW model \in Models \cup {NoModel},
           NEW m, m = [type |-> "result", usage |-> TRUE, total |-> total, model |-> model,
                       cost |-> cost]
    PROVE  observe(u, m) \in RunUsage /\ MeterOK(observe(u, m), b)
<1>1. observe(u, m) = [u EXCEPT !.model = IF model # NoModel THEN model ELSE u.model,
                                !.tokens = total,
                                !.cost = IF cost # NoCost THEN cost ELSE u.cost,
                                !.cost_source = IF cost # NoCost THEN "sdk" ELSE u.cost_source,
                                !.final = TRUE]
  BY DEF observe, observe_result
<1>2. observe(u, m) \in RunUsage
  BY <1>1 DEF RunUsage
<1>3. observe(u, m).final = TRUE /\ observe(u, m).tokens = total
  BY <1>1 DEF RunUsage
<1>4. u.cost = NoCost /\ u.cost_source = ""
  BY DEF MeterOK
<1>5. /\ observe(u, m).cost = cost
      /\ observe(u, m).cost_source = IF cost = NoCost THEN "" ELSE "sdk"
  BY <1>1, <1>4 DEF RunUsage
<1> QED
  BY <1>2, <1>3, <1>5 DEF MeterOK

\* After the totals nothing counts any more.
LEMMA ObserveLate ==
    ASSUME NEW u, NEW a \in AgentRecord, MeterOK(u, a), a.result # "none",
           NEW b \in AgentRecord, b = [a EXCEPT !.late = TRUE],
           NEW m, m.type = "assistant"
    PROVE  observe(u, m) = u /\ MeterOK(u, b)
<1>1. u.final = TRUE
  BY DEF MeterOK
<1>2. /\ b.result = a.result /\ b.made = a.made /\ b.total = a.total /\ b.cost = a.cost
  BY DEF AgentRecord
<1> QED
  BY <1>1, <1>2 DEF observe, observe_assistant, MeterOK

-----------------------------------------------------------------------------
(***************************************************************************)
(* The message loop.                                                       *)
(***************************************************************************)

LEMMA ThreadKeeps ==
    ASSUME Types, ThreadInv, NEW r \in Runs, NEW change,
           run' = [run EXCEPT ![r] = change],
           \A q \in Runs \ {r} : agent'[q] = agent[q] /\ saved'[q] = saved[q],
           ThreadOK(change, agent'[r], saved'[r])
    PROVE  ThreadInv'
<1> SUFFICES ASSUME NEW q \in Runs
             PROVE  ThreadOK(run'[q], agent'[q], saved'[q])
  BY DEF ThreadInv
<1>1. run'[r] = change /\ (q # r => run'[q] = run[q])
  BY DEF Types
<1> QED
  BY <1>1 DEF ThreadInv

\* Where a message, or the end of the stream, leaves the thread.
LEMMA AfterText ==
    ASSUME Types, NEW r \in Runs, At(r, "stream"), ~ run[r].reached,
           NEW text \in AgentTexts \cup {Nothing}, NEW late \in BOOLEAN,
           NEW change \in {Returns(r, text), AfterMessage(r, text, late)}
    PROVE  /\ change \in RunRecord
           /\ change.pc \in {"stream", "verify", "fail"}
           /\ change.source = run[r].source /\ change.reached = run[r].reached
           /\ change.pc = "verify" => looks_like_verdict(change.final_text)
           /\ change.pc = "fail" => ~ Readable(change.final_text)
<1>1. run[r] \in RunRecord
  BY DEF Types
<1>2. run[r].pc = "stream"
  BY DEF At
<1>3. CASE change = [run[r] EXCEPT !.final_text = text]
  BY <1>1, <1>2, <1>3 DEF RunRecord
<1>4. CASE looks_like_verdict(text) /\ change = [run[r] EXCEPT !.final_text = text,
                                                    !.pc = "verify", !.cause = "none"]
  BY <1>1, <1>4 DEF RunRecord
<1>5. CASE /\ ~ looks_like_verdict(text)
           /\ change = [run[r] EXCEPT !.final_text = text, !.pc = "fail",
                                      !.cause = "no_verdict"]
  BY <1>1, <1>5 DEF RunRecord, looks_like_verdict, Readable
<1> QED
  BY <1>3, <1>4, <1>5 DEF Returns, AfterMessage

LEMMA FailsRecord ==
    ASSUME Types, NEW r \in Runs,
           NEW why \in {"fetch", "result_error", "error", "timeout"}
    PROVE  /\ Fails(r, why) \in RunRecord
           /\ Fails(r, why).pc = "fail" /\ Fails(r, why).cause = why
           /\ Fails(r, why).source = run[r].source
           /\ Fails(r, why).reached = run[r].reached
           /\ Fails(r, why).final_text = run[r].final_text
<1>1. run[r] \in RunRecord
  BY DEF Types
<1>2. Fails(r, why) = [run[r] EXCEPT !.pc = "fail", !.cause = why]
  BY DEF Fails
<1> QED
  BY <1>1, <1>2 DEF RunRecord

LEMMA SpansKeep ==
    ASSUME SpansInv, NEW r \in Runs,
           spans' \in {spans, spans \cup {SpanOf(r, FALSE)}, spans \cup {SpanOf(r, TRUE)}}
    PROVE  SpansInv'
<1>1. r \in Nat \ {0} /\ r \notin NotForTickets
  BY InvestigationAssumption DEF Runs, NotForTickets
<1>2. SpanOK(SpanOf(r, FALSE)) /\ SpanOK(SpanOf(r, TRUE))
  BY <1>1 DEF SpanOf, SpanOK, span_kind, NoTicket
<1> QED
  BY <1>2 DEF SpansInv

LEMMA AssistantInv ==
    ASSUME IInv, NEW r \in Runs, NEW text \in AgentTexts \cup {Nothing},
           NEW again \in BOOLEAN, NEW late \in BOOLEAN,
           AssistantMessage(r, text, again, late)
    PROVE  IInv'
<1> DEFINE said == IF text = Nothing THEN run[r].final_text ELSE text
           change == AfterMessage(r, said, late)
           n == IF again THEN agent[r].made ELSE agent[r].made + 1
           b == [agent[r] EXCEPT !.made = n, !.again = again]
<1>1. /\ run[r] \in RunRecord /\ usage[r] \in RunUsage /\ agent[r] \in AgentRecord
      /\ agent[r].made <= MaxResponses[r] /\ MaxResponses[r] \in Nat
  BY InvestigationAssumption DEF IInv, Types
<1>2. /\ run[r].pc = "stream" /\ agent[r].result = "none"
      /\ n \in Nat \ {0} /\ n <= MaxResponses[r]
      /\ n = agent[r].made \/ n = agent[r].made + 1
  <2>1. agent[r].made \in Nat
    BY <1>1 DEF AgentRecord
  <2>2. /\ again => agent[r].made > 0
        /\ ~ again => agent[r].made < MaxResponses[r]
    BY DEF AssistantMessage
  <2>3. run[r].pc = "stream" /\ agent[r].result = "none"
    BY DEF AssistantMessage, At
  <2> QED
    BY <1>1, <2>1, <2>2, <2>3
<1>3. agent' = [agent EXCEPT ![r] = b]
  BY DEF AssistantMessage
<1>4. b \in AgentRecord /\ b.made = n /\ b.result = "none" /\ b.cost = agent[r].cost
  BY <1>1, <1>2 DEF AgentRecord
<1>5. agent'[r] = b
  BY <1>3 DEF IInv, Types
<1>6. PICK model \in Models :
        usage' = [usage EXCEPT ![r] = observe(usage[r],
            [type |-> "assistant", id |-> n, model |-> model, usage |-> TRUE])]
  <2>1. PICK model \in Models :
        usage' = [usage EXCEPT ![r] = observe(usage[r],
            [type |-> "assistant", id |-> agent'[r].made, model |-> model, usage |-> TRUE])]
    BY DEF AssistantMessage
  <2> QED
    BY <1>4, <1>5, <2>1
<1> DEFINE m == [type |-> "assistant", id |-> n, model |-> model, usage |-> TRUE]
<1>7. observe(usage[r], m) \in RunUsage /\ MeterOK(observe(usage[r], m), b)
  <2>1. MeterOK(usage[r], agent[r])
    BY DEF IInv, MeterInv
  <2> HIDE DEF b, n
  <2> QED
    BY <1>1, <1>2, <1>4, <2>1, ObserveAssistant
<1>8. run' = [run EXCEPT ![r] = change]
  BY DEF AssistantMessage, Steps
<1>9. ~ run[r].reached
  BY <1>2 DEF IInv, ThreadInv, ThreadOK
<1>10. said \in AgentTexts \cup {Nothing}
  BY <1>1 DEF RunRecord
<1>11. /\ change \in RunRecord
       /\ change.pc \in {"stream", "verify", "fail"}
       /\ change.source = run[r].source /\ change.reached = run[r].reached
       /\ change.pc = "verify" => looks_like_verdict(change.final_text)
       /\ change.pc = "fail" => ~ Readable(change.final_text)
  <2> HIDE DEF said
  <2> QED
    BY <1>2, <1>9, <1>10, AfterText DEF IInv, At
<1> HIDE DEF change, b, n, m
<1>12. run' \in [Runs -> RunRecord] /\ TriggerInv' /\ LedgerInv'
  <2>1. StepOf(r, change)
    BY <1>2, <1>8, <1>11 DEF StepOf
  <2>2. row' = row /\ ledger' = ledger
    BY DEF AssistantMessage
  <2> QED
    BY <2>1, <2>2, StepKeeps
<1>13. Types'
  <2>1. usage' \in [Runs -> RunUsage]
    BY <1>6, <1>7 DEF IInv, Types, m
  <2>2. agent' \in [Runs -> AgentRecord] /\ \A q \in Runs : agent'[q].made <= MaxResponses[q]
    BY <1>2, <1>3, <1>4 DEF IInv, Types
  <2>3. row' = row /\ saved' = saved
    BY DEF AssistantMessage
  <2> QED
    BY <1>12, <2>1, <2>2, <2>3 DEF IInv, Types
<1>14. MeterInv'
  BY <1>3, <1>6, <1>7 DEF IInv, Types, MeterInv, m
<1>15. ThreadInv'
  <2>1. saved' = saved /\ saved[r] = NoVerdict
    BY <1>2 DEF AssistantMessage, IInv, ThreadInv, ThreadOK
  <2>2. ThreadOK(change, agent'[r], saved'[r])
    BY <1>4, <1>5, <1>9, <1>11, <2>1 DEF ThreadOK, Failures
  <2>3. \A q \in Runs \ {r} : agent'[q] = agent[q] /\ saved'[q] = saved[q]
    BY <1>3, <2>1 DEF IInv, Types
  <2> QED
    BY <1>8, <2>2, <2>3, ThreadKeeps DEF IInv
<1>16. SpansInv'
  BY SpansKeep DEF AssistantMessage, IInv
<1> QED
  BY <1>12, <1>13, <1>14, <1>15, <1>16 DEF IInv

LEMMA ResultInv ==
    ASSUME IInv, NEW r \in Runs,
           NEW result \in {"success", "error_subtype", "is_error"},
           NEW text \in AgentTexts \cup {Nothing}, NEW model \in Models \cup {NoModel},
           NEW cost \in BOOLEAN, NEW late \in BOOLEAN,
           ResultMessage(r, result, text, model, cost, late)
    PROVE  IInv'
<1> DEFINE said == IF text = Nothing THEN run[r].final_text ELSE text
           change == IF ResultFails(result) THEN Fails(r, "result_error")
                                            ELSE AfterMessage(r, said, late)
           total == agent[r].made + 1
           paid == IF cost THEN total ELSE NoCost
           b == [agent[r] EXCEPT !.result = result, !.total = total, !.cost = paid,
                                 !.again = FALSE]
           m == [type |-> "result", usage |-> TRUE, total |-> total, model |-> model,
                 cost |-> paid]
<1>1. /\ run[r] \in RunRecord /\ usage[r] \in RunUsage /\ agent[r] \in AgentRecord
      /\ agent[r].made <= MaxResponses[r]
  BY DEF IInv, Types
<1>2. run[r].pc = "stream" /\ agent[r].result = "none" /\ total \in Nat \ {0}
  BY <1>1 DEF ResultMessage, At, AgentRecord
<1>3. agent' = [agent EXCEPT ![r] = b] /\ usage' = [usage EXCEPT ![r] = observe(usage[r], m)]
  BY DEF ResultMessage
<1>4. paid \in {NoCost, total}
  OBVIOUS
<1>5. /\ b \in AgentRecord /\ b.made = agent[r].made /\ b.result = result
      /\ b.total = total /\ b.cost = paid
  <2> HIDE DEF paid, total
  <2> QED
    BY <1>1, <1>2, <1>4 DEF AgentRecord, Failures
<1>6. agent'[r] = b
  BY <1>3 DEF IInv, Types
<1>7. observe(usage[r], m) \in RunUsage /\ MeterOK(observe(usage[r], m), b)
  <2>1. MeterOK(usage[r], agent[r])
    BY DEF IInv, MeterInv
  <2> HIDE DEF b, paid, total
  <2> QED
    BY <1>1, <1>2, <1>4, <1>5, <2>1, ObserveResult
<1>8. run' = [run EXCEPT ![r] = change]
  BY DEF ResultMessage, Steps
<1>9. ~ run[r].reached
  BY <1>2 DEF IInv, ThreadInv, ThreadOK
<1>10. said \in AgentTexts \cup {Nothing}
  BY <1>1 DEF RunRecord
<1>11. /\ change \in RunRecord
       /\ change.pc \in {"stream", "verify", "fail"}
       /\ result \in Failures => change.pc = "fail"
       /\ change.source = run[r].source /\ change.reached = run[r].reached
       /\ change.pc = "verify" => looks_like_verdict(change.final_text)
       /\ change.pc = "fail" /\ Readable(change.final_text) => change.cause = "result_error"
  <2> HIDE DEF said
  <2>1. CASE ResultFails(result)
    BY <2>1, FailsRecord DEF IInv
  <2>2. CASE ~ ResultFails(result)
    BY <1>2, <1>9, <1>10, <2>2, AfterText DEF IInv, At, ResultFails, Failures
  <2> QED
    BY <2>1, <2>2
<1> HIDE DEF change, b, m, total, paid
<1>12. run' \in [Runs -> RunRecord] /\ TriggerInv' /\ LedgerInv'
  <2>1. StepOf(r, change)
    BY <1>2, <1>8, <1>11 DEF StepOf
  <2>2. row' = row /\ ledger' = ledger
    BY DEF ResultMessage
  <2> QED
    BY <2>1, <2>2, StepKeeps
<1>13. Types'
  <2>1. usage' \in [Runs -> RunUsage]
    BY <1>3, <1>7 DEF IInv, Types
  <2>2. agent' \in [Runs -> AgentRecord] /\ \A q \in Runs : agent'[q].made <= MaxResponses[q]
    BY <1>1, <1>3, <1>5 DEF IInv, Types
  <2>3. row' = row /\ saved' = saved
    BY DEF ResultMessage
  <2> QED
    BY <1>12, <2>1, <2>2, <2>3 DEF IInv, Types
<1>14. MeterInv'
  BY <1>3, <1>7 DEF IInv, Types, MeterInv
<1>15. ThreadInv'
  <2>1. saved' = saved /\ saved[r] = NoVerdict
    BY <1>2 DEF ResultMessage, IInv, ThreadInv, ThreadOK
  <2>2. ThreadOK(change, agent'[r], saved'[r])
    BY <1>5, <1>6, <1>9, <1>11, <2>1 DEF ThreadOK
  <2>3. \A q \in Runs \ {r} : agent'[q] = agent[q] /\ saved'[q] = saved[q]
    BY <1>3, <2>1 DEF IInv, Types
  <2> QED
    BY <1>8, <2>2, <2>3, ThreadKeeps DEF IInv
<1>16. SpansInv'
  BY SpansKeep DEF ResultMessage, IInv
<1> QED
  BY <1>12, <1>13, <1>14, <1>15, <1>16 DEF IInv

LEMMA LateInv ==
    ASSUME IInv, NEW r \in Runs, NEW text \in AgentTexts \cup {Nothing},
           NEW late \in BOOLEAN, LateMessage(r, text, late)
    PROVE  IInv'
<1> DEFINE said == IF text = Nothing THEN run[r].final_text ELSE text
           change == AfterMessage(r, said, late)
           b == [agent[r] EXCEPT !.late = TRUE]
           m == [type |-> "assistant", id |-> agent[r].made + 1,
                 model |-> usage[r].model, usage |-> TRUE]
<1>1. /\ run[r] \in RunRecord /\ usage[r] \in RunUsage /\ agent[r] \in AgentRecord
      /\ agent[r].made <= MaxResponses[r]
  BY DEF IInv, Types
<1>2. run[r].pc = "stream" /\ agent[r].result = "success"
  BY DEF LateMessage, At
<1>3. agent' = [agent EXCEPT ![r] = b] /\ usage' = [usage EXCEPT ![r] = observe(usage[r], m)]
  BY DEF LateMessage
<1>4. b \in AgentRecord /\ b.made = agent[r].made /\ b.result = "success"
  BY <1>1, <1>2 DEF AgentRecord
<1>5. agent'[r] = b
  BY <1>3 DEF IInv, Types
<1>6. observe(usage[r], m) = usage[r] /\ MeterOK(usage[r], b)
  <2>1. MeterOK(usage[r], agent[r])
    BY DEF IInv, MeterInv
  <2>2. m.type = "assistant"
    OBVIOUS
  <2> HIDE DEF m
  <2> QED
    BY <1>1, <1>2, <1>4, <2>1, <2>2, ObserveLate
<1>7. run' = [run EXCEPT ![r] = change]
  BY DEF LateMessage, Steps
<1>8. ~ run[r].reached
  BY <1>2 DEF IInv, ThreadInv, ThreadOK
<1>9. /\ change \in RunRecord
      /\ change.pc \in {"stream", "verify", "fail"}
      /\ change.source = run[r].source /\ change.reached = run[r].reached
      /\ change.pc = "verify" => looks_like_verdict(change.final_text)
      /\ change.pc = "fail" => ~ Readable(change.final_text)
  <2>1. said \in AgentTexts \cup {Nothing}
    BY <1>1 DEF RunRecord
  <2> HIDE DEF said
  <2> QED
    BY <1>2, <1>8, <2>1, AfterText DEF IInv, At
<1> HIDE DEF change, b, m
<1>10. run' \in [Runs -> RunRecord] /\ TriggerInv' /\ LedgerInv'
  <2>1. StepOf(r, change)
    BY <1>2, <1>7, <1>9 DEF StepOf
  <2>2. row' = row /\ ledger' = ledger
    BY DEF LateMessage
  <2> QED
    BY <2>1, <2>2, StepKeeps
<1>11. usage' = usage
  BY <1>3, <1>6 DEF IInv, Types
<1>12. Types'
  <2>1. agent' \in [Runs -> AgentRecord] /\ \A q \in Runs : agent'[q].made <= MaxResponses[q]
    BY <1>1, <1>3, <1>4 DEF IInv, Types
  <2>2. row' = row /\ saved' = saved
    BY DEF LateMessage
  <2> QED
    BY <1>10, <1>11, <2>1, <2>2 DEF IInv, Types
<1>13. MeterInv'
  BY <1>3, <1>6, <1>11 DEF IInv, Types, MeterInv
<1>14. ThreadInv'
  <2>1. saved' = saved /\ saved[r] = NoVerdict
    BY <1>2 DEF LateMessage, IInv, ThreadInv, ThreadOK
  <2>2. ThreadOK(change, agent'[r], saved'[r])
    BY <1>4, <1>5, <1>8, <1>9, <2>1 DEF ThreadOK, Failures
  <2>3. \A q \in Runs \ {r} : agent'[q] = agent[q] /\ saved'[q] = saved[q]
    BY <1>3, <2>1 DEF IInv, Types
  <2> QED
    BY <1>7, <2>2, <2>3, ThreadKeeps DEF IInv
<1>15. SpansInv'
  BY SpansKeep DEF LateMessage, IInv
<1> QED
  BY <1>10, <1>12, <1>13, <1>14, <1>15 DEF IInv

-----------------------------------------------------------------------------
(***************************************************************************)
(* Steps of a thread outside its stream.                                   *)
(***************************************************************************)

\* A step that neither hears of the agent nor writes to the ledger.
LEMMA QuietInv ==
    ASSUME IInv, NEW r \in Runs, NEW change, StepOf(r, change),
           row' \in Row, row'.trigger_source = row.trigger_source,
           saved' \in [Runs -> SavedRecord],
           \A q \in Runs \ {r} : saved'[q] = saved[q],
           UNCHANGED <<usage, agent, ledger>>,
           spans' \in {spans, spans \cup {SpanOf(r, FALSE)}, spans \cup {SpanOf(r, TRUE)}},
           ThreadOK(change, agent[r], saved'[r])
    PROVE  IInv'
<1>1. run' \in [Runs -> RunRecord] /\ TriggerInv' /\ LedgerInv'
  BY StepKeeps
<1>2. Types'
  BY <1>1 DEF IInv, Types
<1>3. MeterInv'
  BY DEF IInv, MeterInv
<1>4. ThreadInv'
  BY ThreadKeeps DEF IInv, StepOf
<1>5. SpansInv'
  BY SpansKeep DEF IInv
<1> QED
  BY <1>1, <1>2, <1>3, <1>4, <1>5 DEF IInv

\* The end of the stream, however it ends.
LEMMA EndInv ==
    ASSUME IInv, NEW r \in Runs, StreamEnds(r) \/ StreamRaises(r) \/ HardTimeout(r)
    PROVE  IInv'
<1>1. run[r].pc = "stream" /\ run[r] \in RunRecord
  BY DEF StreamEnds, StreamRaises, HardTimeout, At, IInv, Types
<1>2. ~ run[r].reached /\ saved[r] = NoVerdict /\ agent[r].result \notin Failures
  BY <1>1 DEF IInv, ThreadInv, ThreadOK
<1>3. PICK change :
        /\ run' = [run EXCEPT ![r] = change]
        /\ \/ change = Returns(r, run[r].final_text)
           \/ change = Fails(r, "error") /\ run[r].final_text = Nothing
           \/ change = Fails(r, "timeout")
  BY DEF StreamEnds, StreamRaises, HardTimeout, Steps
<1>4. /\ change \in RunRecord
      /\ change.pc \in {"stream", "verify", "fail"}
      /\ change.source = run[r].source /\ change.reached = run[r].reached
      /\ change.pc = "verify" => looks_like_verdict(change.final_text)
      /\ change.pc = "fail" /\ Readable(change.final_text) => change.cause = "timeout"
  <2>1. run[r].final_text \in AgentTexts \cup {Nothing}
    BY <1>1 DEF RunRecord
  <2>2. CASE change = Returns(r, run[r].final_text)
    BY <1>1, <1>2, <2>1, <2>2, AfterText DEF IInv, At
  <2>3. CASE \/ change = Fails(r, "error") /\ run[r].final_text = Nothing
             \/ change = Fails(r, "timeout")
    BY <2>3, FailsRecord DEF IInv, Readable, Nothing
  <2> QED
    BY <1>3, <2>2, <2>3
<1>5. StepOf(r, change)
  BY <1>1, <1>3, <1>4 DEF StepOf
<1>6. /\ row' = row /\ saved' = saved /\ UNCHANGED <<usage, agent, ledger>>
      /\ spans' \in {spans, spans \cup {SpanOf(r, FALSE)}, spans \cup {SpanOf(r, TRUE)}}
  BY DEF StreamEnds, StreamRaises, HardTimeout
<1>7. ThreadOK(change, agent[r], saved[r])
  BY <1>2, <1>4 DEF ThreadOK
<1> QED
  BY <1>5, <1>6, <1>7, QuietInv DEF IInv, Types

LEMMA FetchesInv ==
    ASSUME IInv, NEW r \in Runs, Fetches(r)
    PROVE  IInv'
<1>1. run[r].pc = "fetch" /\ run[r] \in RunRecord
  BY DEF Fetches, At, IInv, Types
<1>2. /\ ~ run[r].reached /\ saved[r] = NoVerdict /\ agent[r].result \notin Failures
      /\ ~ Readable(run[r].final_text)
  BY <1>1 DEF IInv, ThreadInv, ThreadOK, Readable, Nothing
<1>3. PICK change \in {[run[r] EXCEPT !.pc = "stream"], Fails(r, "fetch")} :
        run' = [run EXCEPT ![r] = change]
  BY DEF Fetches, Steps
<1>4. /\ change \in RunRecord
      /\ change.pc \in {"stream", "fail"}
      /\ change.source = run[r].source /\ change.reached = run[r].reached
      /\ change.final_text = run[r].final_text
  BY <1>1, <1>3, FailsRecord DEF IInv, RunRecord
<1>5. StepOf(r, change)
  BY <1>1, <1>3, <1>4 DEF StepOf
<1>6. row' = row /\ saved' = saved /\ UNCHANGED <<usage, agent, ledger>> /\ spans' = spans
  BY DEF Fetches
<1>7. ThreadOK(change, agent[r], saved[r])
  BY <1>2, <1>4 DEF ThreadOK
<1> QED
  BY <1>5, <1>6, <1>7, QuietInv DEF IInv, Types

\* What a thread stores is a verdict record.
LEMMA SavedTypes ==
    ASSUME NEW text \in AgentTexts, NEW down
    PROVE  LET v == parse_verdict(text)
               w == [v EXCEPT !.confidence = downgraded_confidence(@, verify_verdict(v, down))]
           IN  [text |-> text, confidence |-> w.confidence, label |-> verdict_label(w)]
                    \in SavedRecord
<1> DEFINE v == parse_verdict(text)
           c == downgraded_confidence(v.confidence, verify_verdict(v, down))
           w == [v EXCEPT !.confidence = c]
<1>1. v.confidence \in Confidence /\ DOMAIN v = {"parsed", "confidence", "triage",
            "categories", "evidence", "introducing_mr", "is_regression"}
  BY DEF parse_verdict, OneOf, Confidence
<1>2. c \in Confidence
  BY <1>1 DEF downgraded_confidence, Confidence
<1> HIDE DEF v, c
<1>3. w.confidence = c
  BY <1>1
<1>4. verdict_label(w) \in {"Needs review", "Issue Accepted", "Not a BUG"}
  BY DEF verdict_label
<1>5. [text |-> text, confidence |-> w.confidence, label |-> verdict_label(w)] \in SavedRecord
  BY <1>2, <1>3, <1>4 DEF SavedRecord
<1> QED
  BY <1>5 DEF v, c

LEMMA SavesInv ==
    ASSUME IInv, NEW r \in Runs, Saves(r)
    PROVE  IInv'
<1>1. run[r].pc = "verify" /\ run[r] \in RunRecord
  BY DEF Saves, At, IInv, Types
<1>2. /\ ~ run[r].reached /\ looks_like_verdict(run[r].final_text)
      /\ agent[r].result \notin Failures
  BY <1>1 DEF IInv, ThreadInv, ThreadOK
<1>3. run[r].final_text \in AgentTexts
  BY <1>1, <1>2 DEF RunRecord, looks_like_verdict, Nothing
<1> DEFINE change == [run[r] EXCEPT !.pc = "post", !.status = "ok"]
<1>4. run' = [run EXCEPT ![r] = change]
  BY DEF Saves, Steps
<1>5. /\ change \in RunRecord /\ change.pc = "post"
      /\ change.source = run[r].source /\ change.reached = run[r].reached
  BY <1>1 DEF RunRecord
<1> HIDE DEF change
<1>6. StepOf(r, change)
  BY <1>1, <1>4, <1>5 DEF StepOf
<1>7. PICK v \in SavedRecord : saved' = [saved EXCEPT ![r] = v]
  BY <1>3, SavedTypes DEF Saves
<1>8. row' \in Row /\ row'.trigger_source = row.trigger_source
  <2>1. row' = save_rca(row, r) /\ row \in Row /\ r \in Nat
    BY DEF Saves, IInv, Types, Runs
  <2>2. row' \in Row
    BY <2>1, StoreTypes
  <2> QED
    BY <2>1, <2>2 DEF save_rca, Row
<1>9. UNCHANGED <<usage, agent, ledger>> /\ spans' = spans
  BY DEF Saves
<1>10. ThreadOK(change, agent[r], saved'[r])
  BY <1>2, <1>5 DEF ThreadOK
<1>11. /\ saved' \in [Runs -> SavedRecord]
       /\ \A q \in Runs \ {r} : saved'[q] = saved[q]
  BY <1>7 DEF IInv, Types
<1> QED
  BY <1>6, <1>8, <1>9, <1>10, <1>11, QuietInv

LEMMA ParseFailsInv ==
    ASSUME IInv, NEW r \in Runs, ParseFails(r)
    PROVE  IInv'
<1>1. run[r].pc = "verify" /\ run[r] \in RunRecord
  BY DEF ParseFails, At, IInv, Types
<1>2. /\ ~ run[r].reached /\ agent[r].result \notin Failures
      /\ ~ Readable(run[r].final_text)
  BY <1>1 DEF IInv, ThreadInv, ThreadOK, ParseFails, parse_raises, Readable
<1>3. run' = [run EXCEPT ![r] = Fails(r, "error")]
  BY DEF ParseFails, Steps
<1>4. /\ Fails(r, "error") \in RunRecord /\ Fails(r, "error").pc = "fail"
      /\ Fails(r, "error").source = run[r].source
      /\ Fails(r, "error").reached = run[r].reached
      /\ Fails(r, "error").final_text = run[r].final_text
  BY FailsRecord DEF IInv
<1>5. StepOf(r, Fails(r, "error"))
  BY <1>1, <1>3, <1>4 DEF StepOf
<1>6. row' = row /\ saved' = saved /\ UNCHANGED <<usage, agent, ledger>> /\ spans' = spans
  BY DEF ParseFails
<1>7. ThreadOK(Fails(r, "error"), agent[r], saved[r])
  BY <1>2, <1>4 DEF ThreadOK
<1> QED
  BY <1>5, <1>6, <1>7, QuietInv DEF IInv, Types

LEMMA PostsInv ==
    ASSUME IInv, NEW r \in Runs, Posts(r) \/ MarksFailed(r)
    PROVE  IInv'
<1>1. run[r].pc \in {"post", "fail"} /\ run[r] \in RunRecord
  BY DEF Posts, MarksFailed, At, IInv, Types
<1>2. ~ run[r].reached /\ (agent[r].result \in Failures => saved[r] = NoVerdict)
  BY <1>1 DEF IInv, ThreadInv, ThreadOK
<1> DEFINE change == LeavesRunAgent(r)
<1>3. run' = [run EXCEPT ![r] = change]
  BY DEF Posts, MarksFailed, Steps
<1>4. /\ change \in RunRecord /\ change.pc = "record"
      /\ change.source = run[r].source /\ change.reached = run[r].reached
  BY <1>1 DEF RunRecord, LeavesRunAgent
<1> HIDE DEF change
<1>5. StepOf(r, change)
  BY <1>1, <1>3, <1>4 DEF StepOf
<1>6. saved' = saved /\ UNCHANGED <<usage, agent, ledger>> /\ spans' = spans
  BY DEF Posts, MarksFailed
<1>7. row' \in Row /\ row'.trigger_source = row.trigger_source
  <2>1. row' \in {row, mark_failed(row)} /\ row \in Row
    BY DEF Posts, MarksFailed, IInv, Types
  <2>2. mark_failed(row) \in Row
    BY <2>1, StoreTypes
  <2> QED
    BY <2>1, <2>2 DEF mark_failed, Row
<1>8. ThreadOK(change, agent[r], saved[r])
  BY <1>2, <1>4 DEF ThreadOK
<1> QED
  BY <1>5, <1>6, <1>7, <1>8, QuietInv DEF IInv, Types

-----------------------------------------------------------------------------
(***************************************************************************)
(* The requests, and the recoveries.                                       *)
(***************************************************************************)

LEMMA StartsInv ==
    ASSUME IInv, run_rca \/ auto_run
    PROVE  IInv'
<1>1. PICK source \in {"manual", "auto"} :
        /\ Starts(source)
        /\ \/ row' = claim_running(row, source)
           \/ source = "auto" /\ row' = claim_auto_run(row)
  <2>1. CASE run_rca
    BY <2>1 DEF run_rca
  <2>2. CASE auto_run
    BY <2>2 DEF auto_run
  <2> QED
    BY <2>1, <2>2
<1>2. row \in Row
  BY DEF IInv, Types
<1>3. row' \in Row
  BY <1>1, <1>2, StoreTypes
<1>4. row'.trigger_source = source
  BY <1>1, <1>2 DEF claim_running, claim_auto_run, Row
<1>5. PICK r \in Runs :
        /\ Started = 1 .. (r - 1)
        /\ run' = [run EXCEPT ![r].pc = "fetch", ![r].source = source]
        /\ UNCHANGED <<usage, agent, saved, ledger, spans>>
  BY <1>1 DEF Starts
<1>6. r \notin Started
  BY <1>5 DEF Runs
<1>7. run[r].pc = "unstarted" /\ run[r] \in RunRecord
  BY <1>6 DEF Started, At, IInv, Types
<1> DEFINE change == [run[r] EXCEPT !.pc = "fetch", !.source = source]
<1>8. run' = [run EXCEPT ![r] = change]
  BY <1>5, <1>7 DEF IInv, Types, RunRecord
<1>9. /\ change \in RunRecord /\ change.pc = "fetch" /\ change.source = source
      /\ change.reached = run[r].reached /\ change.final_text = run[r].final_text
  BY <1>7 DEF RunRecord
<1> HIDE DEF change
<1>10. run' \in [Runs -> RunRecord]
  BY <1>8, <1>9 DEF IInv, Types
<1>11. /\ \A q \in Runs : q # r => run'[q] = run[q]
       /\ run'[r] = change
  BY <1>8 DEF IInv, Types
<1>12. Started' = Started \cup {r}
  BY <1>9, <1>11 DEF Started, At
<1>13. Types'
  BY <1>3, <1>5, <1>10 DEF IInv, Types
<1>14. ThreadInv'
  <2>1. ThreadOK(change, agent[r], saved[r])
    BY <1>7, <1>9 DEF IInv, ThreadInv, ThreadOK
  <2> QED
    BY <1>5, <1>8, <2>1, ThreadKeeps DEF IInv
<1>15. MeterInv' /\ SpansInv'
  BY <1>5 DEF IInv, MeterInv, SpansInv
<1>16. TriggerInv'
  <2>1. \A q \in Started' : q = r \/ q + 1 \in Started'
    BY <1>5, <1>12 DEF Runs
  <2> QED
    BY <1>1, <1>4, <1>9, <1>11, <2>1 DEF TriggerInv
<1>17. LedgerInv'
  <2>1. ~ run[r].reached
    BY <1>7 DEF IInv, ThreadInv, ThreadOK
  <2>2. \A q \in Runs : run'[q].reached = run[q].reached
    BY <1>9, <1>11
  <2>3. \A q \in Runs : run[q].reached => run'[q].source = run[q].source
    BY <1>11, <2>1
  <2>4. ledger' = ledger /\ Started \subseteq Started'
    BY <1>5, <1>12
  <2> QED
    BY <2>2, <2>3, <2>4 DEF IInv, LedgerInv, Live
<1> QED
  BY <1>13, <1>14, <1>15, <1>16, <1>17 DEF IInv

\* A reset, and the import's init_db, change the row alone.
LEMMA RowInv ==
    ASSUME IInv, reset \/ ImportStarts
    PROVE  IInv'
<1>1. /\ row' \in {reset_row(row), init_db(row)} /\ row \in Row
      /\ UNCHANGED <<run, usage, agent, saved, ledger, spans>>
  BY DEF reset, ImportStarts, IInv, Types
<1>2. row' \in Row
  BY <1>1, StoreTypes
<1>3. row'.trigger_source = row.trigger_source
  BY <1>1 DEF reset_row, init_db, Row
<1>4. Started' = Started
  BY <1>1 DEF Started, At
<1>5. Types' /\ ThreadInv' /\ MeterInv' /\ SpansInv'
  BY <1>1, <1>2 DEF IInv, Types, ThreadInv, MeterInv, SpansInv
<1>6. TriggerInv'
  BY <1>1, <1>3, <1>4 DEF IInv, TriggerInv
<1>7. LedgerInv'
  BY <1>1, <1>4 DEF IInv, LedgerInv, Live
<1> QED
  BY <1>5, <1>6, <1>7 DEF IInv

LEMMA RestartInv ==
    ASSUME IInv, restart
    PROVE  IInv'
<1>1. /\ row' = init_db(row) /\ row \in Row
      /\ run' = [r \in Runs |-> IF Alive(r) THEN [Unstarted EXCEPT !.pc = "killed",
                                                         !.source = run[r].source]
                                            ELSE run[r]]
      /\ usage' = [r \in Runs |-> NewUsage] /\ agent' = [r \in Runs |-> Silent]
      /\ saved' = [r \in Runs |-> NoVerdict]
      /\ UNCHANGED <<ledger, spans>>
  BY DEF restart, IInv, Types
<1>2. row' \in Row /\ row'.trigger_source = row.trigger_source
  <2>1. row' \in Row
    BY <1>1, StoreTypes
  <2> QED
    BY <1>1, <2>1 DEF init_db, Row
<1>3. ASSUME NEW r \in Runs
      PROVE  /\ run'[r] \in RunRecord
             /\ run'[r].source = run[r].source
             /\ run'[r].reached = run[r].reached
             /\ run'[r].pc = "unstarted" <=> run[r].pc = "unstarted"
             /\ ThreadOK(run'[r], agent'[r], saved'[r])
  <2>1. run[r] \in RunRecord /\ ThreadOK(run[r], agent[r], saved[r])
    BY DEF IInv, Types, ThreadInv
  <2>2. agent'[r] = Silent /\ saved'[r] = NoVerdict
    BY <1>1
  <2>3. CASE Alive(r)
    <3> DEFINE d == [Unstarted EXCEPT !.pc = "killed", !.source = run[r].source]
    <3>1. run'[r] = d
      BY <1>1, <2>3
    <3>2. d \in RunRecord /\ d.pc = "killed" /\ d.source = run[r].source /\ ~ d.reached
      BY <2>1 DEF Unstarted, RunRecord
    <3>3. ~ run[r].reached /\ run[r].pc # "unstarted"
      BY <2>1, <2>3 DEF Alive, ThreadOK
    <3>4. run[r].reached = d.reached
      BY <2>1, <3>2, <3>3 DEF RunRecord
    <3> HIDE DEF d
    <3> QED
      BY <2>2, <3>1, <3>2, <3>3, <3>4 DEF ThreadOK, Silent, Failures
  <2>4. CASE ~ Alive(r)
    <3>1. run'[r] = run[r]
      BY <1>1, <2>4
    <3> QED
      BY <2>1, <2>2, <3>1 DEF ThreadOK, Silent, Failures
  <2> QED
    BY <2>3, <2>4
<1>4. Started' = Started
  BY <1>3 DEF Started, At
<1>5. Types'
  <2>1. run' \in [Runs -> RunRecord]
    BY <1>1, <1>3
  <2>2. usage' \in [Runs -> RunUsage] /\ agent' \in [Runs -> AgentRecord]
    <3>1. NewUsage \in RunUsage /\ Silent \in AgentRecord
      BY DEF NewUsage, RunUsage, Silent, AgentRecord
    <3> QED
      BY <1>1, <3>1
  <2>3. \A r \in Runs : agent'[r].made <= MaxResponses[r]
    <3>1. \A r \in Runs : MaxResponses[r] \in Nat /\ agent'[r].made = 0
      BY <1>1, InvestigationAssumption DEF Silent
    <3> QED
      BY <3>1
  <2>4. saved' \in [Runs -> SavedRecord]
    BY <1>1, NoVerdictType
  <2> QED
    BY <1>1, <1>2, <2>1, <2>2, <2>3, <2>4 DEF IInv, Types
<1>6. ThreadInv'
  BY <1>3 DEF ThreadInv
<1>7. MeterInv' /\ SpansInv'
  BY <1>1, NewMeterOK DEF IInv, MeterInv, SpansInv
<1>8. TriggerInv'
  BY <1>2, <1>3, <1>4 DEF IInv, TriggerInv, Started
<1>9. LedgerInv'
  BY <1>1, <1>3, <1>4 DEF IInv, LedgerInv, Live
<1> QED
  BY <1>5, <1>6, <1>7, <1>8, <1>9 DEF IInv

-----------------------------------------------------------------------------
(***************************************************************************)
(* The ledger.                                                             *)
(***************************************************************************)

\* An INSERT of a row that is not there adds it once.
LEMMA Inserts ==
    ASSUME NEW table, NEW new, NEW x, x \notin BagToSet(table),
           \A y \in BagToSet(table) : table[y] = 1,
           new = table (+) SetToBag({x})
    PROVE  /\ BagToSet(new) = BagToSet(table) \cup {x}
           /\ \A y \in BagToSet(new) : new[y] = 1
  BY DEF BagToSet, SetToBag, (+)

\* The row _record_run makes of a run.
Booking(r) ==
    LET u == finish(usage[r])
    IN  [kind |-> "rca", trigger |-> BookedTrigger,
         status |-> run[r].status, tokens |-> u.tokens,
         cost |-> u.cost, cost_source |-> u.cost_source,
         ticket |-> TRUE, started_at |-> r, source_ref |-> 0]

\* What is booked is what was spent, and something was if the model was reached.
LEMMA MeterBooks ==
    ASSUME IInv, NEW r \in Runs
    PROVE  /\ Spent(r) <=> ReachedModel(r)
           /\ finish(usage[r]).tokens = IF agent[r].result = "none" THEN agent[r].made
                                                                  ELSE agent[r].total
           /\ finish(usage[r]).cost_source = "sdk" <=> agent[r].cost # NoCost
           /\ finish(usage[r]).cost_source = "sdk" => finish(usage[r]).cost = agent[r].cost
<1> DEFINE u == usage[r]
           a == agent[r]
           e == estimate_cost(u.model, u.tokens)
<1>1. u \in RunUsage /\ a \in AgentRecord /\ MeterOK(u, a)
  BY DEF IInv, Types, MeterInv
<1>2. a.made \in Nat /\ a.result \in {"none", "success"} \cup Failures
  BY <1>1 DEF AgentRecord
<1> HIDE DEF u, a, e
<1>3. u.tokens = 0 <=> ~ (a.made > 0 \/ a.result # "none")
  <2>1. CASE a.result = "none"
    <3>1. u.tokens = a.made
      BY <1>1, <2>1 DEF MeterOK
    <3> QED
      BY <1>2, <2>1, <3>1
  <2>2. CASE a.result # "none"
    BY <1>1, <2>2 DEF MeterOK
  <2> QED
    BY <2>1, <2>2
<1>4. CASE u.cost = NoCost /\ u.tokens # 0 /\ e # NoCost
  <2>1. finish(u) = [u EXCEPT !.cost = e, !.cost_source = "estimated"]
    BY <1>4 DEF finish, e
  <2>2. finish(u).tokens = u.tokens /\ finish(u).cost_source = "estimated"
    BY <1>1, <2>1 DEF RunUsage
  <2>3. observed(finish(u))
    BY <2>2 DEF observed
  <2> QED
    BY <1>1, <1>3, <1>4, <2>2, <2>3 DEF MeterOK, Spent, ReachedModel, u, a
<1>5. CASE ~ (u.cost = NoCost /\ u.tokens # 0 /\ e # NoCost)
  <2>1. finish(u) = u
    BY <1>5 DEF finish, e
  <2>2. observed(u) <=> u.tokens # 0
    <3>1. u.cost_source # "" => a.result # "none"
      BY <1>1 DEF MeterOK
    <3> QED
      BY <1>3, <3>1 DEF observed
  <2> QED
    BY <1>1, <1>3, <2>1, <2>2 DEF MeterOK, Spent, ReachedModel, u, a
<1> QED
  BY <1>4, <1>5

LEMMA RecordsInv ==
    ASSUME IInv, NEW r \in Runs, Records(r)
    PROVE  IInv'
<1> DEFINE d == [Unstarted EXCEPT !.pc = "done", !.source = run[r].source,
                                  !.reached = ReachedModel(r)]
           x == Booking(r)
<1>1. /\ run[r].pc = "record" /\ run[r] \in RunRecord
      /\ run' = [run EXCEPT ![r] = d]
      /\ usage' = [usage EXCEPT ![r] = NewUsage] /\ agent' = [agent EXCEPT ![r] = Silent]
      /\ saved' = [saved EXCEPT ![r] = NoVerdict]
      /\ UNCHANGED <<row, spans>>
  BY DEF Records, At, IInv, Types
<1>2. ~ run[r].reached
  BY <1>1 DEF IInv, ThreadInv, ThreadOK
<1>3. ledger' = IF Spent(r) THEN record_run(ledger, x) ELSE ledger
  BY DEF Records, Booking
<1>4. d \in RunRecord /\ d.pc = "done" /\ d.source = run[r].source
      /\ d.reached = ReachedModel(r)
  <2>1. ReachedModel(r) \in BOOLEAN
    BY DEF ReachedModel
  <2>2. run[r].source \in {"none", "manual", "auto"}
    BY <1>1 DEF RunRecord
  <2> HIDE DEF ReachedModel
  <2> QED
    BY <2>1, <2>2 DEF Unstarted, RunRecord
<1>5. /\ x.source_ref = 0 /\ x.started_at = r /\ x.kind = "rca" /\ x.trigger = BookedTrigger
  BY DEF Booking
<1> HIDE DEF d, x
<1>6. run' \in [Runs -> RunRecord] /\ run'[r] = d /\ \A q \in Runs : q # r => run'[q] = run[q]
  BY <1>1, <1>4 DEF IInv, Types
<1>7. Started' = Started /\ r \in Started
  BY <1>1, <1>4, <1>6 DEF Started, At
<1>8. Types'
  <2>1. NewUsage \in RunUsage /\ Silent \in AgentRecord
    BY DEF NewUsage, RunUsage, Silent, AgentRecord
  <2>2. usage' \in [Runs -> RunUsage] /\ agent' \in [Runs -> AgentRecord]
    BY <1>1, <2>1 DEF IInv, Types
  <2>3. Silent.made = 0 /\ MaxResponses[r] \in Nat
    BY InvestigationAssumption DEF Silent
  <2>4. \A q \in Runs : agent'[q].made <= MaxResponses[q]
    BY <1>1, <2>3 DEF IInv, Types
  <2>5. saved' \in [Runs -> SavedRecord]
    BY <1>1, NoVerdictType DEF IInv, Types
  <2> QED
    BY <1>1, <1>6, <2>2, <2>4, <2>5 DEF IInv, Types
<1>9. ThreadInv'
  <2>1. ThreadOK(d, Silent, NoVerdict)
    BY <1>4 DEF ThreadOK, Silent, Failures
  <2>2. /\ \A q \in Runs \ {r} : agent'[q] = agent[q] /\ saved'[q] = saved[q]
        /\ agent'[r] = Silent /\ saved'[r] = NoVerdict
    BY <1>1 DEF IInv, Types
  <2> QED
    BY <1>1, <2>1, <2>2, ThreadKeeps DEF IInv
<1>10. MeterInv'
  <2>1. \A q \in Runs : \/ usage'[q] = usage[q] /\ agent'[q] = agent[q]
                        \/ usage'[q] = NewUsage /\ agent'[q] = Silent
    BY <1>1 DEF IInv, Types
  <2> QED
    BY <2>1, NewMeterOK DEF IInv, MeterInv
<1>11. SpansInv'
  BY <1>1 DEF IInv, SpansInv
<1>12. \A q \in Runs : run'[q].source = run[q].source
  BY <1>4, <1>6
<1>13. TriggerInv'
  BY <1>1, <1>7, <1>12 DEF IInv, TriggerInv, Started
<1>14. \A q \in Runs : q # r => run'[q].reached = run[q].reached
  BY <1>6
<1>15. LedgerInv'
  <2>1. CASE ~ Spent(r)
    <3>1. ~ ReachedModel(r) /\ ledger' = ledger
      BY <1>3, <2>1, MeterBooks
    <3>2. \A q \in Runs : run'[q].reached <=> run[q].reached
      BY <1>2, <1>4, <1>6, <3>1
    <3> QED
      BY <1>7, <1>12, <3>1, <3>2 DEF IInv, LedgerInv, Live
  <2>2. CASE Spent(r)
    <3>1. ReachedModel(r) /\ ledger' = ledger (+) SetToBag({x})
      BY <1>3, <1>5, <2>2, MeterBooks DEF record_run
    <3>2. \A y \in BagToSet(ledger) : Live(y) => y.started_at # r
      BY <1>2 DEF IInv, LedgerInv
    <3>3. x \notin BagToSet(ledger)
      BY <1>5, <3>2 DEF Live
    <3>4. /\ BagToSet(ledger') = BagToSet(ledger) \cup {x}
          /\ \A y \in BagToSet(ledger') : ledger'[y] = 1
      <4>1. \A y \in BagToSet(ledger) : ledger[y] = 1
        BY DEF IInv, LedgerInv
      <4> QED
        BY <3>1, <3>3, <4>1, Inserts
    <3>5. run'[r].reached
      BY <1>4, <1>6, <3>1
    <3>6. x.trigger = run[r].source \/ r + 1 \in Started
      BY <1>5, <1>7 DEF BookedTrigger, IInv, TriggerInv
    <3>7. 0 \notin NotForTickets
      BY InvestigationAssumption DEF NotForTickets, Span
    <3>8. ASSUME NEW y \in BagToSet(ledger')
          PROVE  /\ ledger'[y] = 1
                 /\ y.kind \in Kinds
                 /\ y.kind \in NoTicket <=> y.source_ref \in NotForTickets
                 /\ IF Live(y)
                    THEN /\ y.started_at \in Runs
                         /\ run'[y.started_at].reached
                         /\ \/ y.trigger = run'[y.started_at].source
                            \/ y.started_at + 1 \in Started'
                    ELSE y.started_at = y.source_ref
      <4>1. CASE y = x
        BY <1>5, <1>7, <1>12, <3>4, <3>5, <3>6, <3>7, <4>1 DEF Live, Kinds, NoTicket
      <4>2. CASE y \in BagToSet(ledger)
        BY <1>7, <1>12, <1>14, <3>2, <3>4, <4>2 DEF IInv, LedgerInv
      <4> QED
        BY <3>4, <4>1, <4>2
    <3>9. ASSUME NEW y \in BagToSet(ledger'), NEW z \in BagToSet(ledger'),
                 y.source_ref = z.source_ref, y.started_at = z.started_at
          PROVE  y = z
      BY <1>5, <3>2, <3>4, <3>9 DEF IInv, LedgerInv, Live
    <3>10. ASSUME NEW q \in Runs, run'[q].reached
           PROVE  \E y \in BagToSet(ledger') : Live(y) /\ y.started_at = q
      <4>1. CASE q = r
        BY <1>5, <3>4, <4>1 DEF Live
      <4>2. CASE q # r
        BY <1>14, <3>4, <3>10, <4>2 DEF IInv, LedgerInv
      <4> QED
        BY <4>1, <4>2
    <3> QED
      BY <3>8, <3>9, <3>10 DEF LedgerInv, Live
  <2> QED
    BY <2>1, <2>2
<1> QED
  BY <1>8, <1>9, <1>10, <1>11, <1>13, <1>15 DEF IInv

LEMMA ImportsInv ==
    ASSUME IInv, NEW s \in spans, Imports(s)
    PROVE  IInv'
<1> DEFINE x == to_row(s)
<1>1. /\ ledger' = record_run(ledger, x)
      /\ UNCHANGED <<row, run, usage, agent, saved, spans>>
  BY DEF Imports
<1>2. Started' = Started
  BY <1>1 DEF Started, At
<1>3. Types' /\ ThreadInv' /\ MeterInv' /\ SpansInv' /\ TriggerInv'
  BY <1>1, <1>2 DEF IInv, Types, ThreadInv, MeterInv, SpansInv, TriggerInv
<1>4. /\ x.source_ref = s.id /\ x.started_at = s.id /\ s.id # 0
      /\ x.kind \in Kinds
      /\ x.kind \in NoTicket <=> x.source_ref \in NotForTickets
  <2>1. SpanOK(s)
    BY DEF IInv, SpansInv
  <2>2. span_kind(s) \in Kinds
    BY DEF span_kind, Kinds
  <2>3. x.source_ref = s.id /\ x.started_at = s.id /\ x.kind = span_kind(s)
    BY DEF to_row
  <2> QED
    BY <2>1, <2>2, <2>3 DEF SpanOK
<1> HIDE DEF x
<1>5. LedgerInv'
  <2>1. CASE ledger' = ledger
    BY <1>1, <1>2, <2>1 DEF IInv, LedgerInv, Live
  <2>2. CASE ledger' # ledger
    <3>1. /\ ledger' = ledger (+) SetToBag({x})
          /\ \A y \in BagToSet(ledger) : y.source_ref # x.source_ref
      BY <1>1, <1>4, <2>2 DEF record_run
    <3>2. x \notin BagToSet(ledger)
      BY <3>1
    <3>3. /\ BagToSet(ledger') = BagToSet(ledger) \cup {x}
          /\ \A y \in BagToSet(ledger') : ledger'[y] = 1
      <4>1. \A y \in BagToSet(ledger) : ledger[y] = 1
        BY DEF IInv, LedgerInv
      <4> QED
        BY <3>1, <3>2, <4>1, Inserts
    <3>4. ~ Live(x)
      BY <1>4 DEF Live
    <3> QED
      BY <1>1, <1>2, <1>4, <3>1, <3>3, <3>4 DEF IInv, LedgerInv, Live
  <2> QED
    BY <2>1, <2>2
<1> QED
  BY <1>3, <1>5 DEF IInv

-----------------------------------------------------------------------------
(***************************************************************************)
(* Every step keeps the invariant.                                         *)
(***************************************************************************)

LEMMA NextInv == IInv /\ [Next]_vars => IInv'
<1> SUFFICES ASSUME IInv, [Next]_vars
             PROVE  IInv'
  OBVIOUS
<1>1. CASE run_rca \/ auto_run
  BY <1>1, StartsInv
<1>2. CASE reset \/ ImportStarts
  BY <1>2, RowInv
<1>3. CASE restart
  BY <1>3, RestartInv
<1>4. ASSUME NEW r \in Runs, ThreadStep(r)
      PROVE  IInv'
  BY <1>4, FetchesInv, EndInv, SavesInv, ParseFailsInv, PostsInv, RecordsInv DEF ThreadStep
<1>5. ASSUME NEW r \in Runs, AgentStep(r)
      PROVE  IInv'
  BY <1>5, AssistantInv, ResultInv, LateInv, EndInv DEF AgentStep
<1>6. ASSUME NEW s \in spans, Imports(s)
      PROVE  IInv'
  BY <1>6, ImportsInv
<1>7. CASE UNCHANGED vars
  <2>1. /\ row' = row /\ run' = run /\ usage' = usage /\ agent' = agent
        /\ saved' = saved /\ ledger' = ledger /\ spans' = spans
    BY <1>7 DEF vars
  <2>2. Started' = Started
    BY <2>1 DEF Started, At
  <2> QED
    BY <2>1, <2>2 DEF IInv, Types, ThreadInv, MeterInv, SpansInv, TriggerInv, LedgerInv, Live
<1> QED
  BY <1>1, <1>2, <1>3, <1>4, <1>5, <1>6, <1>7 DEF Next

THEOREM Invariant == Spec => []IInv
  BY InitInv, NextInv, PTL DEF Spec

-----------------------------------------------------------------------------
(***************************************************************************)
(* What a verdict may be stored as.                                        *)
(***************************************************************************)

\* A verdict of which something could be checked and nothing was found is
\* never left with high confidence, whichever calls raised.
LEMMA HighNeedsOne ==
    ASSUME NEW text, text.form = "verdict", text.evidence \in Seq(Link),
           text.introducing_mr \in {NoLink} \cup {link \in Link : link.kind = "merge_request"},
           NEW down, NEW confidence,
           downgraded_confidence(confidence, verify_verdict(parse_verdict(text), down)) = "high",
           NEW claims, claims = {text.evidence[i] : i \in DOMAIN text.evidence}
                                    \cup {text.introducing_mr},
           NEW c0 \in claims, Checkable(c0)
    PROVE  \E c \in claims : Checkable(c) /\ Real(c)
<1> DEFINE v == parse_verdict(text)
           idx == {i \in DOMAIN v.evidence : Checkable(v.evidence[i])}
           keys == {CheckKey(v.evidence[i]) : i \in idx}
           introducing == IF IntroducingCounts(v)
                          THEN {<<"introducing", v.introducing_mr.ref>>} ELSE {}
           checks == verify_verdict(v, down)
           Wins(k) == \E i \in idx : /\ CheckKey(v.evidence[i]) = k
                                     /\ \A j \in idx : CheckKey(v.evidence[j]) = k => j <= i
                                     /\ Passes(v.evidence[i], i \in down)
<1>1. v.evidence = text.evidence /\ v.introducing_mr = text.introducing_mr
  BY DEF parse_verdict
<1>2. checks = [k \in keys \cup introducing |->
                    IF k \in introducing THEN Passes(v.introducing_mr, 0 \in down)
                                         ELSE Wins(k)]
  BY DEF verify_verdict
<1>3. DOMAIN checks = keys \cup introducing
  BY <1>2
<1> SUFFICES ASSUME \A c \in claims : Checkable(c) => ~ Real(c)
             PROVE  FALSE
  OBVIOUS
<1>4. \A c, d : Passes(c, d) => Passes(c, FALSE)
  BY DEF Passes
<1>5. \A k \in DOMAIN checks : ~ checks[k]
  <2> SUFFICES ASSUME NEW k \in DOMAIN checks, checks[k]
               PROVE  FALSE
    OBVIOUS
  <2>1. CASE k \in introducing
    <3>1. Passes(v.introducing_mr, FALSE)
      BY <1>2, <1>3, <1>4, <2>1
    <3>2. v.introducing_mr.url
      <4>1. IntroducingCounts(v)
        BY <2>1
      <4> HIDE DEF v
      <4> QED
        BY <4>1 DEF IntroducingCounts
    <3>3. v.introducing_mr.kind = "merge_request"
      <4>1. ~ NoLink.url
        BY DEF NoLink
      <4>2. v.introducing_mr # NoLink
        BY <3>2, <4>1
      <4> QED
        BY <1>1, <4>2
    <3>4. v.introducing_mr \in claims /\ Checkable(v.introducing_mr)
      BY <1>1, <3>2, <3>3 DEF Checkable
    <3> QED
      BY <3>1, <3>4 DEF Real
  <2>2. CASE k \notin introducing
    <3>1. Wins(k)
      BY <1>2, <1>3, <2>2
    <3>2. PICK i \in idx : Passes(v.evidence[i], i \in down)
      BY <3>1
    <3>3. v.evidence[i] \in claims /\ Checkable(v.evidence[i])
      BY <1>1
    <3> QED
      BY <1>4, <3>2, <3>3 DEF Real
  <2> QED
    BY <2>1, <2>2
<1>6. DOMAIN checks # {}
  <2>1. CASE idx # {}
    BY <1>3, <2>1
  <2>2. CASE idx = {}
    <3>1. c0 = v.introducing_mr
      BY <1>1, <2>2
    <3>2. v.introducing_mr.url
      <4>1. ~ Checkable(NoLink)
        BY DEF Checkable, NoLink, FileKinds
      <4>2. c0.kind = "merge_request"
        BY <1>1, <3>1, <4>1
      <4> QED
        BY <3>1, <4>2 DEF Checkable, FileKinds
    <3>3. IntroducingCounts(v)
      BY <2>2, <3>2 DEF IntroducingCounts
    <3> QED
      BY <1>3, <3>3
  <2> QED
    BY <2>1, <2>2
<1>7. IsFiniteSet(DOMAIN checks)
  <2>1. IsFiniteSet(1 .. Len(text.evidence))
    BY FS_Interval
  <2>2. DOMAIN text.evidence = 1 .. Len(text.evidence)
    OBVIOUS
  <2>3. IsFiniteSet(idx)
    BY <1>1, <2>1, <2>2, FS_Subset
  <2>4. IsFiniteSet(keys)
    <3> DEFINE f == [i \in idx |-> CheckKey(v.evidence[i])]
    <3>1. f \in Surjection(idx, keys)
      BY DEF Surjection
    <3> HIDE DEF f
    <3> QED
      BY <2>3, <3>1, FS_Surjection
  <2>5. IsFiniteSet(introducing)
    BY FS_EmptySet, FS_Singleton
  <2> HIDE DEF keys, introducing
  <2>6. IsFiniteSet(keys \cup introducing)
    BY <2>4, <2>5, FS_Union
  <2> QED
    BY <1>3, <2>6
<1> HIDE DEF checks
<1>8. Passed(checks) = 0
  <2>1. {k \in DOMAIN checks : checks[k]} = {}
    BY <1>5
  <2> QED
    BY <2>1, FS_EmptySet DEF Passed
<1>9. Total(checks) \in Nat /\ Total(checks) # 0
  BY <1>6, <1>7, FS_CardinalityType, FS_EmptySet DEF Total
<1>10. downgraded_confidence(confidence, checks) # "high"
  BY <1>8, <1>9 DEF downgraded_confidence
<1> QED
  BY <1>10 DEF checks

\* A step that does not save leaves what is stored, or ends the threads it is of.
LEMMA OnlySavesStores ==
    ASSUME [Next]_vars, saved \in [Runs -> SavedRecord], \A r \in Runs : ~ Saves(r)
    PROVE  \A r \in Runs : saved'[r] \in {saved[r], NoVerdict}
<1>1. CASE run_rca \/ auto_run \/ reset \/ restart \/ ImportStarts
  BY <1>1 DEF run_rca, auto_run, Starts, reset, restart, ImportStarts
<1>2. ASSUME NEW r \in Runs, ThreadStep(r)
      PROVE  \A q \in Runs : saved'[q] \in {saved[q], NoVerdict}
  BY <1>2 DEF ThreadStep, Fetches, HardTimeout, ParseFails, Posts, MarksFailed, Records
<1>3. ASSUME NEW r \in Runs, AgentStep(r)
      PROVE  saved' = saved
  BY <1>3 DEF AgentStep, AssistantMessage, ResultMessage, LateMessage, StreamEnds,
      StreamRaises
<1>4. ASSUME NEW s \in spans, Imports(s)
      PROVE  saved' = saved
  BY <1>4 DEF Imports
<1>5. CASE UNCHANGED vars
  BY <1>5 DEF vars
<1> QED
  BY <1>1, <1>2, <1>3, <1>4, <1>5 DEF Next

HighOK(v) ==
    v.confidence = "high" =>
        LET text == v.text
            claims == {text.evidence[i] : i \in DOMAIN text.evidence}
                        \cup {text.introducing_mr}
            checkable == {c \in claims : Checkable(c)}
        IN  checkable # {} => \E c \in checkable : Real(c)

LEMMA SavesHigh ==
    ASSUME IInv, NEW r \in Runs, Saves(r)
    PROVE  \E v : HighOK(v) /\ saved' = [saved EXCEPT ![r] = v]
<1> DEFINE text == run[r].final_text
           v == parse_verdict(text)
<1>1. run[r].pc = "verify" /\ run[r] \in RunRecord
  BY DEF Saves, At, IInv, Types
<1>2. text \in AgentTexts /\ looks_like_verdict(text)
  BY <1>1 DEF IInv, ThreadInv, ThreadOK, RunRecord, looks_like_verdict, Nothing
<1>3. text.form \in {"verdict", "inner_fence"}
  BY <1>2, InvestigationAssumption DEF Saves, parse_raises, looks_like_verdict, Forms
<1>4. PICK down, w :
        /\ w = [v EXCEPT !.confidence = downgraded_confidence(@, verify_verdict(v, down))]
        /\ saved' = [saved EXCEPT ![r] = [text |-> text, confidence |-> w.confidence,
                                         label |-> verdict_label(w)]]
  BY DEF Saves
<1> DEFINE c == downgraded_confidence(v.confidence, verify_verdict(v, down))
           new == [text |-> text, confidence |-> w.confidence, label |-> verdict_label(w)]
<1>5. w.confidence = c
  <2>1. DOMAIN v = {"parsed", "confidence", "triage", "categories", "evidence",
                    "introducing_mr", "is_regression"}
    BY DEF parse_verdict
  <2> HIDE DEF v, c
  <2>2. w = [v EXCEPT !.confidence = c]
    BY <1>4 DEF c
  <2> QED
    BY <2>1, <2>2
<1>6. HighOK(new)
  <2>1. CASE text.form = "inner_fence"
    <3>1. v.confidence = "low"
      BY <2>1 DEF parse_verdict
    <3> HIDE DEF v
    <3>2. c # "high"
      BY <3>1 DEF downgraded_confidence
    <3> QED
      BY <1>5, <3>2 DEF HighOK
  <2>2. CASE text.form = "verdict"
    <3> DEFINE claims == {text.evidence[i] : i \in DOMAIN text.evidence}
                            \cup {text.introducing_mr}
    <3> SUFFICES ASSUME c = "high", NEW c0 \in claims, Checkable(c0)
                 PROVE  \E x \in claims : Checkable(x) /\ Real(x)
      BY <1>5 DEF HighOK
    <3>1. /\ text.evidence \in Seq(Link)
          /\ text.introducing_mr \in {NoLink} \cup {link \in Link : link.kind = "merge_request"}
      BY <1>2, <2>2, InvestigationAssumption
    <3> HIDE DEF claims, text
    <3> QED
      BY <2>2, <3>1, HighNeedsOne DEF claims
  <2> QED
    BY <1>3, <2>1, <2>2
<1> QED
  BY <1>4, <1>6

LEMMA HighStep == IInv /\ NotHighOnNothing /\ [Next]_vars => NotHighOnNothing'
<1> SUFFICES ASSUME IInv, NotHighOnNothing, [Next]_vars, NEW r \in Runs
             PROVE  HighOK(saved'[r])
  BY DEF NotHighOnNothing, HighOK, Real
<1>1. HighOK(saved[r])
  BY DEF NotHighOnNothing, HighOK, Real
<1>2. CASE \A q \in Runs : ~ Saves(q)
  <2>1. saved'[r] \in {saved[r], NoVerdict}
    BY <1>2, OnlySavesStores DEF IInv, Types
  <2>2. HighOK(NoVerdict)
    BY DEF HighOK, NoVerdict
  <2> QED
    BY <1>1, <2>1, <2>2
<1>3. ASSUME NEW q \in Runs, Saves(q)
      PROVE  HighOK(saved'[r])
  <2>1. PICK v : HighOK(v) /\ saved' = [saved EXCEPT ![q] = v]
    BY <1>3, SavesHigh
  <2>2. saved'[r] = IF r = q THEN v ELSE saved[r]
    BY <2>1 DEF IInv, Types
  <2> QED
    BY <1>1, <2>1, <2>2
<1> QED
  BY <1>2, <1>3

-----------------------------------------------------------------------------
(***************************************************************************)
(* The theorems.                                                           *)
(***************************************************************************)

\* The types of every variable (TypeOK), for any number of runs.
THEOREM TypeCorrect == Spec => []TypeOK
<1>1. IInv => TypeOK
  <2> SUFFICES ASSUME IInv
               PROVE  TypeOK
    OBVIOUS
  <2>1. \A r \in Runs : /\ run[r] \in RunRecord /\ usage[r] \in RunUsage
                        /\ agent[r] \in AgentRecord /\ saved[r] \in SavedRecord
                        /\ agent[r].made <= MaxResponses[r]
    BY DEF IInv, Types
  <2>2. \A r \in Runs : agent[r].made \in 0 .. MaxResponses[r]
    BY <2>1, InvestigationAssumption DEF AgentRecord
  <2>3. \A x \in BagToSet(ledger) : x.kind \in {"rca", "fix", "eval", "unattributed"}
    BY DEF IInv, LedgerInv, Kinds
  <2>4. \A r \in Runs : /\ run[r].pc \in {"unstarted", "fetch", "stream", "verify", "post",
                                          "fail", "record", "done", "killed"}
                        /\ run[r].source \in {"none", "manual", "auto"}
                        /\ run[r].final_text \in AgentTexts \cup {Nothing}
                        /\ run[r].status \in {"ok", "failed"}
                        /\ saved[r].confidence \in Confidence
    BY <2>1 DEF RunRecord, SavedRecord
  <2> QED
    BY <2>1, <2>2, <2>3, <2>4 DEF TypeOK, IInv, Types
<1> QED
  BY <1>1, Invariant, PTL

\* A run whose last text is a readable verdict fails only on a failure the SDK
\* reports in its result and at the hard ceiling (agent.py:61-68, 195-198).
THEOREM KeepsVerdict == Spec => []VerdictKept
<1>1. IInv => VerdictKept
  BY DEF IInv, ThreadInv, ThreadOK, VerdictKept, Readable, At
<1> QED
  BY <1>1, Invariant, PTL

\* A run whose result message reported a failure stores no verdict
\* (agent.py:179-183).
THEOREM SavesNoFailure == Spec => []InfraFailureNotSaved
<1>1. IInv => InfraFailureNotSaved
  BY DEF IInv, ThreadInv, ThreadOK, InfraFailureNotSaved, Failures
<1> QED
  BY <1>1, Invariant, PTL

\* No text an agent may write is stored with high confidence when something of
\* it could be checked and nothing was found (verify.py:8-10).
THEOREM HighOnSomething == Spec => []NotHighOnNothing
<1>1. Init => NotHighOnNothing
  BY DEF Init, NoVerdict, NotHighOnNothing
<1> QED
  BY <1>1, HighStep, Invariant, PTL DEF Spec

\* A run that reached the model and was not killed is booked by its thread, once,
\* and a span is imported at most once; the two rows a run has when both happen
\* are told apart by source_ref alone (usage.py:9-10, app.py:291,
\* backfill_costs_from_phoenix.py:16-17).
THEOREM BookedExactlyOnce == Spec => []BookedOnce
<1>1. IInv => BookedOnce
  <2> SUFFICES ASSUME IInv
               PROVE  BookedOnce
    OBVIOUS
  <2>1. ASSUME NEW r \in Runs
        PROVE  Cardinality(LiveRows(r)) = IF run[r].reached THEN 1 ELSE 0
    <3>1. CASE run[r].reached
      <4>1. PICK x \in BagToSet(ledger) : Live(x) /\ x.started_at = r
        BY <3>1 DEF IInv, LedgerInv
      <4>2. LiveRows(r) = {x}
        BY <4>1 DEF LiveRows, IInv, LedgerInv, Live
      <4> QED
        BY <3>1, <4>2, FS_Singleton
    <3>2. CASE ~ run[r].reached
      <4>1. LiveRows(r) = {}
        BY <3>2 DEF LiveRows, IInv, LedgerInv, Live
      <4> QED
        BY <3>2, <4>1, FS_EmptySet
    <3> QED
      BY <3>1, <3>2
  <2>2. \A x \in BagToSet(ledger) : ledger[x] = 1
    BY DEF IInv, LedgerInv
  <2>3. \A x, y \in BagToSet(ledger) :
            x.source_ref # 0 /\ y.source_ref = x.source_ref => y = x
    BY DEF IInv, LedgerInv, Live
  <2> QED
    BY <2>1, <2>2, <2>3 DEF BookedOnce, LiveRows
<1> QED
  BY <1>1, Invariant, PTL

\* A run is booked under the trigger that started it, unless another run of the
\* ticket was started before it was recorded (app.py:225-227).
THEOREM BookedUnderItsTrigger == Spec => []BookedTriggerRight
<1>1. IInv => BookedTriggerRight
  BY DEF IInv, LedgerInv, BookedTriggerRight, LiveRows, Live
<1> QED
  BY <1>1, Invariant, PTL

\* Whatever Phoenix holds and however much of it has been imported, the ticket
\* figures of the Cost tab leave out the rows of the evaluation and of the queries
\* no ticket can be read from, and count every other row (db.py:621-622, 653).
THEOREM EvaluationApart == Spec => []EvalsKeptApart
<1>1. IInv => EvalsKeptApart
  <2> SUFFICES ASSUME IInv
               PROVE  EvalsKeptApart
    OBVIOUS
  <2>1. {x \in BagToSet(ledger) : x.kind \in {"rca", "fix"}}
            = {x \in BagToSet(ledger) : x.source_ref \notin NotForTickets}
    BY DEF IInv, LedgerInv, Kinds, NoTicket
  <2>2. get_cost_stats(ledger).tickets = agg(ticket_rows(ledger))
    BY DEF get_cost_stats
  <2>3. ticket_rows(ledger)
            = RowsOf(ledger, {x \in BagToSet(ledger) : x.source_ref \notin NotForTickets})
    BY <2>1 DEF ticket_rows
  <2> QED
    BY <2>2, <2>3 DEF EvalsKeptApart
<1> QED
  BY <1>1, Invariant, PTL

\* What a run is booked with is what it spent (usage.py:3-10).
SpendOK ==
    \A r \in Runs :
        run'[r] # run[r] =>
            \A booked \in BagToSet(ledger') \ BagToSet(ledger) :
                /\ booked.tokens = IF agent[r].result = "none" THEN agent[r].made
                                                              ELSE agent[r].total
                /\ booked.cost_source = "sdk" <=> agent[r].cost # NoCost
                /\ booked.cost_source = "sdk" => booked.cost = agent[r].cost

LEMMA SpendStep == IInv /\ [Next]_vars => SpendOK
<1> SUFFICES ASSUME IInv, [Next]_vars
             PROVE  SpendOK
  OBVIOUS
<1>1. CASE ledger' = ledger \/ run' = run
  BY <1>1 DEF SpendOK
<1>2. ASSUME NEW q \in Runs, Records(q)
      PROVE  SpendOK
  <2> SUFFICES ASSUME NEW r \in Runs, run'[r] # run[r],
                      NEW booked \in BagToSet(ledger') \ BagToSet(ledger)
               PROVE  /\ booked.tokens = IF agent[r].result = "none" THEN agent[r].made
                                                                    ELSE agent[r].total
                      /\ booked.cost_source = "sdk" <=> agent[r].cost # NoCost
                      /\ booked.cost_source = "sdk" => booked.cost = agent[r].cost
    BY DEF SpendOK
  <2>1. r = q
    BY <1>2 DEF Records, IInv, Types
  <2>2. ledger' \in {ledger, ledger (+) SetToBag({Booking(q)})}
    BY <1>2 DEF Records, Booking, record_run
  <2>3. booked = Booking(q)
    BY <2>2 DEF (+), SetToBag, BagToSet
  <2>4. /\ Booking(q).tokens = finish(usage[q]).tokens
        /\ Booking(q).cost_source = finish(usage[q]).cost_source
        /\ Booking(q).cost = finish(usage[q]).cost
    BY DEF Booking
  <2> QED
    BY <2>1, <2>3, <2>4, MeterBooks
<1>3. CASE run_rca \/ auto_run \/ reset \/ restart \/ ImportStarts \/ UNCHANGED vars
  BY <1>1, <1>3 DEF run_rca, auto_run, Starts, reset, restart, ImportStarts, vars
<1>4. ASSUME NEW r \in Runs, ThreadStep(r)
      PROVE  SpendOK
  <2>1. Records(r) \/ ledger' = ledger
    BY <1>4 DEF ThreadStep, Fetches, HardTimeout, Saves, ParseFails, Posts, MarksFailed
  <2> QED
    BY <1>1, <1>2, <2>1
<1>5. ASSUME NEW r \in Runs, AgentStep(r)
      PROVE  SpendOK
  <2>1. ledger' = ledger
    BY <1>5 DEF AgentStep, AssistantMessage, ResultMessage, LateMessage, StreamEnds,
        StreamRaises
  <2> QED
    BY <1>1, <2>1
<1>6. ASSUME NEW s \in spans, Imports(s)
      PROVE  SpendOK
  BY <1>1, <1>6 DEF Imports
<1> QED
  BY <1>3, <1>4, <1>5, <1>6 DEF Next

\* The booking of a run: the SDK's totals if it reported them, else one token
\* per response however many messages carried it (usage.py:3-10).
THEOREM BooksWhatWasSpent == Spec => BookedSpend
<1>1. IInv /\ [Next]_vars => [SpendOK]_vars
  BY SpendStep
<1>2. Spec => [][SpendOK]_vars
  BY <1>1, Invariant, PTL DEF Spec
<1> QED
  BY <1>2 DEF BookedSpend, SpendOK
=============================================================================
