--------------------------- MODULE CaseDeskProofs ---------------------------
(***************************************************************************)
(* Theorems about CaseDesk, for any alerts, SLAs, jurisdiction and bounds. *)
(***************************************************************************)
EXTENDS CaseDesk, FiniteSetTheorems, TLAPS

Events == {"case_opened", "escalated_to_str", "escalated_to_sar", "escalated", "closed",
           "edd_requested", "narrative_review", "pkyc_review", "none"}
Pages == {"engine", "case", "bulk", "review", "none"}
Handovers == {<<q, "closed_no_action">> : q \in {"l2_investigator"} \cup FilingQueues}
Words == {Disposition(i, next).to : i \in DOMAIN Alerts, next \in Handovers}
         \cup {"none", "open", "l2_investigator", "str_filing", "sar_filing", "closed_no_action",
               "edd_review", "accept", "escalate_to_str", "approve_escalate", "approve_monitor"}

(* A row of the log: a filing under its American name goes to a filing     *)
(* queue, and what opens a case resolves none.                             *)
RowShape == [event : Events, case : Cases, to : Words]
LogRow ==
    {row \in RowShape : /\ row.event = "case_opened" => row.to = "none"
                        /\ row.event = "escalated_to_sar" => row.to \in FilingQueues}
ClickShape == [page : Pages, cases : Seq(Cases), event : Events, to : Words,
               step : {"idle", "append", "file", "view"}]
Click ==
    {k \in ClickShape : /\ k.event # "case_opened"
                        /\ k.event = "escalated_to_sar" => k.to \in FilingQueues
                        /\ k.step # "idle" => k.cases # <<>>}

TypeOK ==
    /\ label \in Labels
    /\ phase \in {"open", "work", "desk", "gone"}
    /\ turn \in Nat \ {0} /\ half \in BOOLEAN
    /\ log \in Seq(LogRow)
    /\ file \in [Cases -> Words] /\ view \in [Cases -> Words]
    /\ click \in Click
    /\ clock \in Nat /\ clicks \in Nat /\ stops \in Nat

LEMMA SeqRange ==
    ASSUME NEW S, NEW s \in Seq(S)
    PROVE  \A i \in 1..Len(s) : s[i] \in S
OBVIOUS

LEMMA FactsShape ==
    /\ Len(Facts) \in Nat /\ Cases = 1..Len(Facts)
    /\ Len(Alerts) \in Nat /\ DOMAIN Alerts = 1..Len(Alerts)
    /\ \A i \in DOMAIN Alerts : Alerts[i] \in Cases /\ i \in Nat
    /\ \A c \in Cases : Facts[c].queue \in Queues /\ Sla[Facts[c].queue] \in Nat
<1>. DEFINE Fact == [severity : Severities, risk : Risks, queue : Queues, dated : BOOLEAN, end : Int]
<1>1. \A a \in Fact : a.queue \in Queues
  OBVIOUS
<1>2. Facts \in Seq(Fact)
  BY FactsAssumption
<1>. HIDE DEF Fact
<1>3. Len(Facts) \in Nat /\ Cases = 1..Len(Facts)
  BY <1>2 DEF Cases
<1>4. \A c \in Cases : Facts[c] \in Fact
  BY <1>2, <1>3, SeqRange
<1>5. \A q \in Queues : Sla[q] \in Nat
  BY SlaAssumption
<1>6. /\ Len(Alerts) \in Nat /\ DOMAIN Alerts = 1..Len(Alerts)
      /\ \A i \in DOMAIN Alerts : Alerts[i] \in Cases /\ i \in Nat
  BY AlertsAssumption, SeqRange
<1>. QED BY <1>1, <1>3, <1>4, <1>5, <1>6

LEMMA IdleIsClick == Idle \in Click
BY DEF Idle, Click, ClickShape, Pages, Events, Words

(* What the engine's analyst does with a case never opens one.             *)
LEMMA VerdictShape ==
    ASSUME NEW i \in DOMAIN Alerts
    PROVE  /\ Verdict(i).event \in {"escalated_to_str", "escalated", "closed"}
           /\ Verdict(i).to \in Words
<1>. DEFINE next == NextQueues(Facts[Alerts[i]].queue)
<1>1. Facts[Alerts[i]].queue \in Queues BY FactsShape
<1>2. next \in Handovers
  BY <1>1 DEF Queues, NextQueues, Handovers, FilingQueue, FilingQueues
<1>. HIDE DEF next
<1>3. Disposition(i, next).to \in Words BY <1>2 DEF Words
<1>4. Disposition(i, next).event \in {"escalated_to_str", "escalated", "closed"}
  BY DEF Disposition
<1>. QED BY <1>3, <1>4 DEF next, Verdict

LEMMA TypeInit == Init => TypeOK
<1>. SUFFICES ASSUME Init PROVE TypeOK
  OBVIOUS
<1>1. file \in [Cases -> Words] /\ view \in [Cases -> Words] BY DEF Init, Words
<1>2. log \in Seq(LogRow) BY DEF Init
<1>3. half \in BOOLEAN BY DEF Init
<1>. QED BY <1>1, <1>2, <1>3, IdleIsClick DEF Init, TypeOK

(* The row a page or the engine appends.                                   *)
LEMMA RowIsLogRow ==
    ASSUME NEW c \in Cases, NEW event \in Events, NEW to \in Words,
           event = "case_opened" => to = "none",
           event = "escalated_to_sar" => to \in FilingQueues
    PROVE  /\ Row(c, event, to) \in LogRow
           /\ Row(c, event, to).case = c
           /\ Row(c, event, to).to = to
           /\ Row(c, event, to).event = event
BY DEF Row, LogRow, RowShape

(* The Review Queue appends one row, or two, that decide nothing by name.  *)
LEMMA NarrateShape ==
    ASSUME TypeOK, NEW c \in Cases, NEW a \in NarrativeActions, NEW p \in PkycActions,
           Narrate(c, a, p)
    PROVE  \E row \in LogRow :
              /\ row.to \notin Resolved /\ row.event # "case_opened"
              /\ \/ log' = Append(log, row)
                 \/ \E more \in LogRow :
                       /\ more.to \notin Resolved /\ more.event # "case_opened"
                       /\ log' = Append(Append(log, row), more)
<1>. DEFINE row == Row(c, NarrativeEvent(a), a)
            more == [k \in DOMAIN p |-> Row(c, PkycEvent(p[k]), p[k])]
<1>1. log \in Seq(LogRow) BY DEF TypeOK
<1>2. /\ a \in Words /\ NarrativeEvent(a) \in {"escalated_to_str", "narrative_review"}
      /\ a \notin Resolved
  BY DEF NarrativeActions, NarrativeEvent, Words, Resolved, FilingQueues
<1>3. row \in LogRow /\ row.to = a /\ row.event = NarrativeEvent(a)
  BY <1>1, <1>2, RowIsLogRow DEF Events
<1>4. log' = Append(log, row) \o more BY DEF Narrate
<1>5. CASE p = <<>>
  <2>1. more = <<>> BY <1>5
  <2>. HIDE DEF row, more
  <2>2. log' = Append(log, row) BY <1>1, <1>3, <1>4, <2>1
  <2>. QED BY <1>2, <1>3, <2>2
<1>6. ASSUME NEW w \in {"approve_escalate", "approve_monitor"}, p = <<w>> PROVE
         \E r \in LogRow : r.to \notin Resolved /\ r.event # "case_opened" /\ more = <<r>>
  <2>. DEFINE r == Row(c, PkycEvent(w), w)
  <2>1. /\ w \in Words /\ PkycEvent(w) \in {"escalated", "pkyc_review"} /\ w \notin Resolved
    BY DEF PkycEvent, Words, Resolved, FilingQueues
  <2>2. r \in LogRow /\ r.to = w /\ r.event = PkycEvent(w)
    BY <1>1, <2>1, RowIsLogRow DEF Events
  <2>3. more = <<r>> BY <1>6
  <2>. HIDE DEF r, more
  <2>. QED BY <2>1, <2>2, <2>3
<1>7. ASSUME NEW w \in {"approve_escalate", "approve_monitor"}, p = <<w>> PROVE
         \E r \in LogRow : /\ r.to \notin Resolved /\ r.event # "case_opened"
                           /\ log' = Append(Append(log, row), r)
  <2>1. PICK r \in LogRow : r.to \notin Resolved /\ r.event # "case_opened" /\ more = <<r>>
    BY <1>6, <1>7
  <2>. HIDE DEF row, more
  <2>2. Append(log, row) \in Seq(LogRow) BY <1>1, <1>3
  <2>. DEFINE s == Append(log, row)
  <2>. HIDE DEF s
  <2>3. s \o <<r>> = Append(s, r) BY <2>2 DEF s
  <2>. QED BY <1>4, <2>1, <2>3 DEF s
<1>8. p = <<>> \/ \E w \in {"approve_escalate", "approve_monitor"} : p = <<w>>
  BY DEF PkycActions
<1>9. row.to \notin Resolved /\ row.event # "case_opened" BY <1>2, <1>3
<1>. HIDE DEF row, more
<1>. QED BY <1>3, <1>5, <1>7, <1>8, <1>9

(* Appending a row, and what the types say of the rows there are.          *)
LEMMA LogGrows ==
    ASSUME NEW S, NEW s \in Seq(S), NEW e \in S
    PROVE  /\ Append(s, e) \in Seq(S)
           /\ Len(Append(s, e)) = Len(s) + 1
           /\ \A k \in DOMAIN s : k \in DOMAIN Append(s, e) /\ Append(s, e)[k] = s[k]
           /\ DOMAIN Append(s, e) = DOMAIN s \cup {Len(s) + 1}
           /\ Append(s, e)[Len(s) + 1] = e
OBVIOUS

(* The rows the engine appends.                                            *)
LEMMA EngineRows ==
    ASSUME NEW i \in DOMAIN Alerts
    PROVE  /\ Row(Alerts[i], "case_opened", "none") \in LogRow
           /\ Row(Alerts[i], Verdict(i).event, Verdict(i).to) \in LogRow
           /\ Verdict(i).to \in Words /\ Verdict(i).event # "case_opened"
<1>1. Alerts[i] \in Cases /\ "none" \in Words BY FactsShape DEF Words
<1>2. Row(Alerts[i], "case_opened", "none") \in LogRow
  BY <1>1, RowIsLogRow DEF Events
<1>3. /\ Verdict(i).event \in Events /\ Verdict(i).to \in Words
      /\ Verdict(i).event \notin {"case_opened", "escalated_to_sar"}
  BY VerdictShape DEF Events
<1>4. Row(Alerts[i], Verdict(i).event, Verdict(i).to) \in LogRow
  BY <1>1, <1>3, RowIsLogRow
<1>. QED BY <1>2, <1>3, <1>4

(* What a button does: the decisions the two pages offer, as a click.      *)
LEMMA ButtonIsClick ==
    ASSUME NEW page \in {"case", "bulk"}, NEW cases \in Seq(Cases), cases # <<>>,
           NEW d \in CaseActions \cup BulkActions
    PROVE  [page |-> page, cases |-> cases, event |-> d[1], to |-> d[2], step |-> "append"]
              \in Click
<1>. DEFINE button == [page |-> page, cases |-> cases, event |-> d[1], to |-> d[2],
                       step |-> "append"]
<1>1. /\ d[1] \in {"escalated", "escalated_to_str", "escalated_to_sar", "closed", "edd_requested"}
      /\ d[2] \in {"l2_investigator", "str_filing", "sar_filing", "closed_no_action", "edd_review"}
      /\ d[1] = "escalated_to_sar" => d[2] \in FilingQueues
  BY DEF CaseActions, BulkActions, FilingEvent, FilingQueue, FilingQueues
<1>2. button \in ClickShape BY <1>1 DEF ClickShape, Events, Pages, Words
<1>. QED BY <1>1, <1>2 DEF Click

(* A click in progress, and its target.                                    *)
LEMMA ClickInProgress ==
    ASSUME TypeOK, click.step # "idle"
    PROVE  /\ Target \in Cases /\ click.to \in Words /\ click.cases \in Seq(Cases)
           /\ click.cases # <<>> /\ Len(click.cases) \in Nat /\ Len(click.cases) >= 1
           /\ Target = click.cases[1]
           /\ click \in ClickShape
           /\ click.event # "case_opened"
           /\ click.event = "escalated_to_sar" => click.to \in FilingQueues
<1>1. click \in ClickShape /\ click.cases # <<>> BY DEF TypeOK, Click
<1>2. click.cases \in Seq(Cases) /\ click.to \in Words BY <1>1 DEF ClickShape
<1>. QED BY <1>1, <1>2 DEF Target, TypeOK, Click

(* A click moves on to its next step, or to its next case.                 *)
LEMMA ClickMoves ==
    ASSUME NEW k \in Click, NEW w \in {"append", "file", "view"}, k.step # "idle"
    PROVE  /\ [k EXCEPT !.step = w] \in Click
           /\ Len(k.cases) # 1 => [k EXCEPT !.step = w, !.cases = Tail(@)] \in Click
<1>1. k \in ClickShape /\ k.cases # <<>> /\ k.cases \in Seq(Cases) BY DEF Click, ClickShape
<1>2. [k EXCEPT !.step = w] \in Click BY <1>1 DEF Click, ClickShape
<1>3. ASSUME NEW q, q \in Seq(Cases), q # <<>>, Len(q) # 1
      PROVE  Tail(q) \in Seq(Cases) /\ Tail(q) # <<>>
  <2>1. Len(Tail(q)) # 0 /\ Tail(q) \in Seq(Cases) BY <1>3
  <2>2. Len(<<>>) = 0 OBVIOUS
  <2>. QED BY <2>1, <2>2
<1>4. ASSUME Len(k.cases) # 1 PROVE [k EXCEPT !.step = w, !.cases = Tail(@)] \in Click
  BY <1>1, <1>3, <1>4 DEF Click, ClickShape
<1>. QED BY <1>2, <1>4

LEMMA TypeStep == TypeOK /\ [Next]_vars => TypeOK'
<1>. SUFFICES ASSUME TypeOK, [Next]_vars PROVE TypeOK'
  OBVIOUS
<1>. USE DEF TypeOK
<1>1. ASSUME OpenCase PROVE TypeOK'
  <2>1. /\ turn \in DOMAIN Alerts /\ Alerts[turn] \in Cases /\ "open" \in Words
        /\ Row(Alerts[turn], "case_opened", "none") \in LogRow
    BY <1>1, EngineRows, FactsShape DEF OpenCase, Words
  <2>2. log' \in Seq(LogRow)
    <3>1. log' \in {log, Append(log, Row(Alerts[turn], "case_opened", "none"))} BY <1>1 DEF OpenCase
    <3>. QED BY <2>1, <3>1, LogGrows
  <2>3. file' \in [Cases -> Words] /\ turn' \in Nat \ {0} BY <1>1, <2>1 DEF OpenCase
  <2>. QED BY <1>1, <2>2, <2>3 DEF OpenCase, desk
<1>2. ASSUME WorkCase PROVE TypeOK'
  <2>1. /\ turn \in DOMAIN Alerts /\ Alerts[turn] \in Cases /\ Verdict(turn).to \in Words
        /\ Row(Alerts[turn], Verdict(turn).event, Verdict(turn).to) \in LogRow
    BY <1>2, EngineRows, FactsShape DEF WorkCase
  <2>. HIDE DEF Row
  <2>2. log' \in Seq(LogRow) BY <1>2, <2>1, LogGrows DEF WorkCase
  <2>3. file' \in [Cases -> Words] /\ turn' \in Nat \ {0} BY <1>2, <2>1 DEF WorkCase
  <2>. QED BY <1>2, <2>2, <2>3 DEF WorkCase, desk
<1>3. ASSUME Load \/ AllOpened PROVE TypeOK'
  BY <1>3 DEF Load, AllOpened, engine, desk
<1>4. ASSUME NEW page \in {"case", "bulk"}, NEW cases \in Seq(Cases), cases # <<>>,
             NEW d \in CaseActions \cup BulkActions, Press(page, cases, d) PROVE TypeOK'
  <2>1. click' \in Click BY <1>4, ButtonIsClick DEF Press
  <2>. QED BY <1>4, <2>1 DEF Press, engine
<1>5. ASSUME NEW c \in Cases, NEW a \in NarrativeActions, NEW p \in PkycActions, Narrate(c, a, p)
      PROVE TypeOK'
  <2>1. log' \in Seq(LogRow)
    <3>1. PICK row \in LogRow : \/ log' = Append(log, row)
                                \/ \E more \in LogRow : log' = Append(Append(log, row), more)
      BY <1>5, NarrateShape
    <3>2. Append(log, row) \in Seq(LogRow) BY LogGrows
    <3>. QED BY SMTT(20), <3>1, <3>2, LogGrows
  <2>. QED BY <1>5, <2>1 DEF Narrate, engine
<1>6. ASSUME AppendDecision PROVE TypeOK'
  <2>1. click.step = "append" /\ click \in ClickShape /\ Target \in Cases /\ click.to \in Words
        /\ click.event # "case_opened"
        /\ (click.event = "escalated_to_sar" => click.to \in FilingQueues)
    BY <1>6, ClickInProgress DEF AppendDecision
  <2>2. click.event \in Events BY <2>1 DEF ClickShape
  <2>3. Row(Target, click.event, click.to) \in LogRow
    BY <2>1, <2>2, RowIsLogRow
  <2>4. log' \in Seq(LogRow) BY <1>6, <2>3, LogGrows DEF AppendDecision
  <2>5. click' \in Click
    <3>1. PICK w \in {"append", "file", "view"} : click' = [click EXCEPT !.step = w]
      BY <1>6 DEF AppendDecision
    <3>. QED BY <2>1, <3>1, ClickMoves
  <2>. QED BY <1>6, <2>4, <2>5 DEF AppendDecision, engine
<1>7. ASSUME WriteFile PROVE TypeOK'
  <2>1. click.step = "file" /\ Target \in Cases /\ click.to \in Words
    BY <1>7, ClickInProgress DEF WriteFile
  <2>2. click' \in Click BY <1>7, <2>1, ClickMoves DEF WriteFile
  <2>3. file' \in [Cases -> Words] BY <1>7, <2>1 DEF WriteFile
  <2>. QED BY <1>7, <2>2, <2>3 DEF WriteFile, engine
<1>8. ASSUME ShowDecision PROVE TypeOK'
  <2>1. click.step = "view" /\ Target \in Cases /\ click.to \in Words
    BY <1>8, ClickInProgress DEF ShowDecision
  <2>2. click' \in Click BY <1>8, <2>1, ClickMoves, IdleIsClick DEF ShowDecision
  <2>3. view' \in [Cases -> Words] BY <1>8, <2>1 DEF ShowDecision
  <2>. QED BY <1>8, <2>2, <2>3 DEF ShowDecision, engine
<1>9. ASSUME StopScript PROVE TypeOK'
  BY <1>9, IdleIsClick DEF StopScript, engine
<1>10. ASSUME Die PROVE TypeOK'
  BY <1>10, IdleIsClick DEF Die, engine
<1>11. ASSUME Tick PROVE TypeOK'
  BY <1>11 DEF Tick, engine
<1>12. ASSUME UNCHANGED vars PROVE TypeOK'
  BY <1>12 DEF vars
<1>13. ASSUME NEW c \in Cases, NEW d \in CaseActions, PressCase(c, d) PROVE TypeOK'
  <2>1. <<c>> \in Seq(Cases) /\ <<c>> # <<>> OBVIOUS
  <2>. QED BY <1>4, <1>13, <2>1 DEF PressCase
<1>14. ASSUME NEW c \in Cases, NEW d \in BulkActions, PressBulk(<<c>>, d) PROVE TypeOK'
  <2>1. <<c>> \in Seq(Cases) /\ <<c>> # <<>> OBVIOUS
  <2>. QED BY <1>4, <1>14, <2>1 DEF PressBulk
<1>15. ASSUME NEW b \in Cases, NEW c \in Cases, NEW d \in BulkActions, PressBulk(<<b, c>>, d)
       PROVE TypeOK'
  <2>1. <<b, c>> \in Seq(Cases) /\ <<b, c>> # <<>> OBVIOUS
  <2>. QED BY <1>4, <1>15, <2>1 DEF PressBulk
<1>. HIDE DEF TypeOK
<1>. QED BY <1>1, <1>2, <1>3, <1>5, <1>6, <1>7, <1>8, <1>9, <1>10, <1>11, <1>12, <1>13, <1>14, <1>15
     DEF Next

(* Every value has its type: a case decided on any page stays one of the   *)
(* run's alerts, and no page ever opens a case.                            *)
THEOREM TypeCorrect == Spec => []TypeOK
BY TypeInit, TypeStep, PTL DEF Spec

----------------------------------------------------------------------------
(* The readers of the log see rows of the log.                             *)
LEMMA DecisionsAreRows ==
    ASSUME TypeOK, NEW c \in Cases
    PROVE  \A d \in DecisionsOf(c) : d \in LogRow /\ d.event # "case_opened"
<1>. log \in Seq(LogRow) BY DEF TypeOK
<1>. QED BY SeqRange DEF DecisionsOf

(* Filings cannot be lost on the way to the funnel: a row that files under *)
(* the Canadian or the American event is recognised by its event or by the *)
(* queue the same button gives it, whatever the jurisdiction.              *)
THEOREM FilingsAreCounted == Spec => []FilingsReachTheFunnel
<1>1. ASSUME TypeOK PROVE FilingsReachTheFunnel
  <2>. SUFFICES ASSUME NEW c \in Cases
                PROVE  /\ (\E d \in DecisionsOf(c) : d.event \in {"escalated_to_str", "escalated_to_sar"})
                             => Filed(c)
                       /\ PackFiled(c) => Filed(c)
    BY DEF FilingsReachTheFunnel
  <2>1. \A d \in DecisionsOf(c) : d.event = "escalated_to_sar" => d.to \in FilingQueues
    BY <1>1, DecisionsAreRows DEF LogRow
  <2>. QED BY <2>1 DEF Filed, PackFiled, FiledEvents, PackFiledEvents, NamesStr
<1>. QED BY <1>1, TypeCorrect, PTL

----------------------------------------------------------------------------
(* The log l decides case c with the status w.                             *)
Decides(l, c, w) ==
    \E k \in DOMAIN l : l[k].case = c /\ l[k].to = w /\ l[k].event # "case_opened"

LEMMA DecidesGrows ==
    ASSUME NEW l \in Seq(LogRow), NEW e \in LogRow, NEW c, NEW w
    PROVE  /\ Append(l, e) \in Seq(LogRow)
           /\ Decides(l, c, w) => Decides(Append(l, e), c, w)
           /\ (e.case = c /\ e.to = w /\ e.event # "case_opened") => Decides(Append(l, e), c, w)
BY LogGrows DEF Decides

(* Every step leaves the log alone or appends one row or two.              *)
LEMMA LogSteps ==
    ASSUME TypeOK, [Next]_vars
    PROVE  \/ log' = log
           \/ \E e \in LogRow :
                 \/ log' = Append(log, e)
                 \/ \E more \in LogRow : log' = Append(Append(log, e), more)
<1>1. CASE OpenCase
  <2>1. turn \in DOMAIN Alerts /\ log' \in {log, Append(log, Row(Alerts[turn], "case_opened", "none"))}
    BY <1>1 DEF OpenCase
  <2>. QED BY <2>1, EngineRows
<1>2. CASE WorkCase
  <2>1. /\ turn \in DOMAIN Alerts
        /\ log' \in {log, Append(log, Row(Alerts[turn], Verdict(turn).event, Verdict(turn).to))}
    BY <1>2 DEF WorkCase
  <2>. QED BY <2>1, EngineRows
<1>3. ASSUME NEW c \in Cases, NEW a \in NarrativeActions, NEW p \in PkycActions, Narrate(c, a, p)
      PROVE  \E e \in LogRow : \/ log' = Append(log, e)
                               \/ \E more \in LogRow : log' = Append(Append(log, e), more)
  BY <1>3, NarrateShape
<1>4. CASE AppendDecision
  <2>1. log' = Append(log, Row(Target, click.event, click.to))
    BY <1>4 DEF AppendDecision
  <2>2. log' \in Seq(LogRow) BY TypeStep DEF TypeOK
  <2>3. Row(Target, click.event, click.to) \in LogRow
    <3>1. /\ click \in ClickShape /\ Target \in Cases /\ click.to \in Words
          /\ click.event # "case_opened"
          /\ (click.event = "escalated_to_sar" => click.to \in FilingQueues)
      BY <1>4, ClickInProgress DEF AppendDecision
    <3>2. click.event \in Events BY <3>1 DEF ClickShape
    <3>. QED BY <3>1, <3>2, RowIsLogRow
  <2>. QED BY <2>1, <2>3
<1>5. CASE UNCHANGED vars BY <1>5 DEF vars
<1>6. CASE \/ AllOpened \/ Load \/ WriteFile \/ ShowDecision \/ StopScript \/ Die \/ Tick
  BY <1>6 DEF AllOpened, Load, WriteFile, ShowDecision, StopScript, Die, Tick
<1>7. CASE \/ \E c \in Cases, d \in CaseActions : PressCase(c, d)
           \/ \E c \in Cases, d \in BulkActions : PressBulk(<<c>>, d)
           \/ \E b, c \in Cases, d \in BulkActions : b < c /\ PressBulk(<<b, c>>, d)
  BY <1>7 DEF PressCase, PressBulk, Press
<1>. QED BY <1>1, <1>2, <1>3, <1>4, <1>5, <1>6, <1>7 DEF Next

LEMMA DecidesForGood ==
    ASSUME TypeOK, [Next]_vars, NEW c, NEW w, Decides(log, c, w)
    PROVE  Decides(log', c, w)
<1>1. log \in Seq(LogRow) BY DEF TypeOK
<1>2. ASSUME NEW e \in LogRow, NEW more \in LogRow
      PROVE  /\ Decides(Append(log, e), c, w)
             /\ Decides(Append(Append(log, e), more), c, w)
  BY <1>1, DecidesGrows
<1>. QED BY <1>2, LogSteps

(* What stands behind FileFollowsLog: the engine or the click that is about *)
(* to write the case file has its decision in the log already.              *)
FileInv ==
    /\ \A c \in Cases : file[c] \notin {"none", "open"} => Decides(log, c, file[c])
    /\ click.step = "file" => Decides(log, Target, click.to)
    /\ half => /\ turn \in DOMAIN Alerts
               /\ phase = "work" => Decides(log, Alerts[turn], Verdict(turn).to)

LEMMA LabelStays == [Next]_vars => label' = label
BY DEF Next, OpenCase, AllOpened, WorkCase, Load, PressCase, PressBulk, Press, Narrate,
       AppendDecision, WriteFile, ShowDecision, StopScript, Die, Tick, vars

LEMMA VerdictStays ==
    ASSUME label' = label, turn' = turn
    PROVE  Verdict(turn)' = Verdict(turn)
<1>1. FilingQueue' = FilingQueue BY DEF FilingQueue
<1>2. \A q : NextQueues(q)' = NextQueues(q) BY <1>1 DEF NextQueues
<1>. QED BY <1>2 DEF Verdict

LEMMA FileStep == FileInv /\ TypeOK /\ [Next]_vars => FileInv'
<1>. SUFFICES ASSUME FileInv, TypeOK, [Next]_vars PROVE FileInv'
  OBVIOUS
<1>1. log \in Seq(LogRow) /\ file \in [Cases -> Words] BY DEF TypeOK
<1>2. \A c \in Cases : file[c] \notin {"none", "open"} => Decides(log', c, file[c])
  BY DecidesForGood DEF FileInv
<1>20. ASSUME click' = click, click'.step = "file" PROVE Decides(log', Target', click'.to)
  <2>1. PICK t, w : t = Target /\ w = click.to OBVIOUS
  <2>2. Decides(log', t, w) BY <1>20, <2>1, DecidesForGood DEF FileInv
  <2>3. Target' = t /\ click'.to = w BY <1>20, <2>1 DEF Target
  <2>. QED BY <2>2, <2>3
<1>30. ASSUME UNCHANGED engine, phase' \in {phase, "gone"}
       PROVE  half' => /\ turn' \in DOMAIN Alerts
                       /\ phase' = "work" => Decides(log', Alerts[turn'], Verdict(turn)'.to)
  <2>0. CASE ~half \/ phase # "work" BY <1>30, <2>0 DEF engine, FileInv
  <2>. SUFFICES ASSUME phase = "work", half
                PROVE  turn' \in DOMAIN Alerts /\ Decides(log', Alerts[turn'], Verdict(turn)'.to)
    BY <1>30, <2>0 DEF engine
  <2>1. PICK c, w : c = Alerts[turn] /\ w = Verdict(turn).to OBVIOUS
  <2>2. turn \in DOMAIN Alerts /\ Decides(log, c, w) BY <2>1 DEF FileInv
  <2>3. Decides(log', c, w) BY <2>2, DecidesForGood
  <2>4. turn' = turn /\ label' = label BY <1>30, LabelStays DEF engine
  <2>5. Verdict(turn)' = Verdict(turn) BY <2>4, VerdictStays
  <2>. QED BY <2>1, <2>2, <2>3, <2>4, <2>5
<1>3. ASSUME file' = file, click'.step # "file", phase' \in {phase, "gone"}, UNCHANGED engine
      PROVE  FileInv'
  BY <1>2, <1>3, <1>30 DEF FileInv
<1>4. CASE OpenCase
  <2>1. PICK c : c = Alerts[turn] OBVIOUS
  <2>2. /\ file' = file \/ file' = [file EXCEPT ![c] = "open"]
        /\ click' = click /\ phase' = "open" /\ (half' => turn' \in DOMAIN Alerts)
    BY <1>4, <2>1 DEF OpenCase, desk
  <2>4. \A b \in Cases : file'[b] \notin {"none", "open"} => Decides(log', b, file'[b])
    BY <1>1, <1>2, <2>2
  <2>. QED BY <1>20, <2>2, <2>4 DEF FileInv
<1>5. CASE WorkCase
  <2>1. PICK c, w, event : c = Alerts[turn] /\ w = Verdict(turn).to /\ event = Verdict(turn).event
    OBVIOUS
  <2>2. turn \in DOMAIN Alerts /\ click' = click /\ label' = label BY <1>5 DEF WorkCase, desk
  <2>3. CASE ~half
    <3>1. log' = Append(log, Row(c, event, w)) /\ file' = file /\ turn' = turn
      BY <1>5, <2>1, <2>3 DEF WorkCase
    <3>2. Row(c, event, w) \in LogRow /\ event # "case_opened" BY <2>1, <2>2, EngineRows
    <3>3. PICK e \in LogRow : log' = Append(log, e) /\ e.case = c /\ e.to = w /\ e.event # "case_opened"
      BY <3>1, <3>2 DEF Row
    <3>4. Decides(log', c, w) BY <1>1, <3>3, DecidesGrows
    <3>5. Verdict(turn)' = Verdict(turn) BY <2>2, <3>1, VerdictStays
    <3>6. turn' \in DOMAIN Alerts /\ Decides(log', Alerts[turn'], Verdict(turn)'.to)
      BY <2>1, <2>2, <3>1, <3>4, <3>5
    <3>. QED BY <1>2, <1>20, <2>2, <3>1, <3>6 DEF FileInv
  <2>4. CASE half
    <3>1. log' = log /\ file' = [file EXCEPT ![c] = w] /\ ~half'
      BY <1>5, <2>1, <2>4 DEF WorkCase, TypeOK
    <3>2. Decides(log', c, w) BY <1>5, <2>1, <2>4, <3>1 DEF FileInv, WorkCase
    <3>3. \A b \in Cases : file'[b] \notin {"none", "open"} => Decides(log', b, file'[b])
      BY <1>1, <1>2, <3>1, <3>2
    <3>. QED BY <1>20, <2>2, <3>1, <3>3 DEF FileInv
  <2>. QED BY <2>3, <2>4
<1>6. CASE AppendDecision
  <2>1. PICK t, w, e : /\ t = Target /\ w = click.to
                       /\ e = Row(t, click.event, w)
                       /\ log' = Append(log, e)
    BY <1>6 DEF AppendDecision
  <2>2. e \in LogRow /\ e.case = t /\ e.to = w /\ e.event # "case_opened"
    <3>1. /\ click \in ClickShape /\ t \in Cases /\ w \in Words
          /\ click.event # "case_opened"
          /\ (click.event = "escalated_to_sar" => click.to \in FilingQueues)
      BY <1>6, <2>1, ClickInProgress DEF AppendDecision
    <3>2. click.event \in Events BY <3>1 DEF ClickShape
    <3>. QED BY <2>1, <3>1, <3>2, RowIsLogRow
  <2>3. Decides(log', t, w) BY <1>1, <2>1, <2>2, DecidesGrows
  <2>4. click \in ClickShape BY <1>6, ClickInProgress DEF AppendDecision
  <2>5. Target' = t /\ click'.to = w /\ file' = file
    BY <1>6, <2>1, <2>4 DEF AppendDecision, Target, ClickShape
  <2>6. UNCHANGED engine /\ phase' = phase BY <1>6 DEF AppendDecision
  <2>. QED BY <1>2, <1>30, <2>3, <2>5, <2>6 DEF FileInv
<1>7. CASE WriteFile
  <2>1. PICK t, w : t = Target /\ w = click.to OBVIOUS
  <2>2. click.step = "file" /\ file' = [file EXCEPT ![t] = w] /\ log' = log
    BY <1>7, <2>1 DEF WriteFile
  <2>3. click \in ClickShape /\ t \in Cases BY <2>1, <2>2, ClickInProgress
  <2>4. click'.step # "file" BY <1>7, <2>3 DEF WriteFile, ClickShape
  <2>5. Decides(log', t, w) BY <2>1, <2>2 DEF FileInv
  <2>6. UNCHANGED engine /\ phase' = phase BY <1>7 DEF WriteFile
  <2>7. \A b \in Cases : file'[b] \notin {"none", "open"} => Decides(log', b, file'[b])
    BY <1>1, <1>2, <2>2, <2>5
  <2>. QED BY <1>30, <2>4, <2>6, <2>7 DEF FileInv
<1>8. CASE ShowDecision
  <2>1. click \in ClickShape BY <1>8, ClickInProgress DEF ShowDecision
  <2>. QED BY <1>3, <1>8, <2>1 DEF ShowDecision, Idle, ClickShape
<1>9. CASE StopScript \/ Die BY <1>3, <1>9 DEF StopScript, Die, Idle
<1>10. ASSUME NEW page, NEW cases, NEW d, Press(page, cases, d) PROVE FileInv'
  BY <1>3, <1>10 DEF Press
<1>11. ASSUME Tick \/ \E c \in Cases, a \in NarrativeActions, p \in PkycActions : Narrate(c, a, p)
       PROVE  FileInv'
  <2>1. file' = file /\ click' = click /\ click = Idle /\ UNCHANGED engine /\ phase' = phase
    BY <1>11 DEF Tick, Narrate
  <2>. QED BY <1>3, <2>1 DEF Idle
<1>12. CASE UNCHANGED vars
  <2>1. file' = file /\ click' = click /\ log' = log /\ UNCHANGED engine /\ phase' = phase
    BY <1>12 DEF vars, engine
  <2>. QED BY <1>2, <1>20, <1>30, <2>1 DEF FileInv
<1>13. CASE AllOpened \/ Load
  <2>1. /\ file' = file /\ click' = click /\ log' = log /\ ~half'
    BY <1>13 DEF AllOpened, Load, engine, desk, FileInv
  <2>. QED BY <1>2, <1>20, <2>1 DEF FileInv
<1>. QED BY <1>4, <1>5, <1>6, <1>7, <1>8, <1>9, <1>10, <1>11, <1>12, <1>13
     DEF Next, PressCase, PressBulk

(* The engine and the single-case page write the log, then the file, and    *)
(* die or are stopped in between: the status on a case file was decided in the log,   *)
(* for any number of alerts, of clicks and of interruptions.               *)
THEOREM FilesFollowTheLog == Spec => []FileFollowsLog
<1>1. Init => FileInv BY DEF Init, FileInv, Idle
<1>2. FileInv => FileFollowsLog
  BY DEF FileInv, FileFollowsLog, Decides, DecisionsOf
<1>. QED BY <1>1, <1>2, FileStep, TypeCorrect, PTL DEF Spec

----------------------------------------------------------------------------
(* The rows of the log l that resolve case c, and how many they are.       *)
ResRows(l, c) == {k \in DOMAIN l : l[k].case = c /\ l[k].to \in Resolved}
Times(l, c) == Cardinality(ResRows(l, c))

LEMMA TimesIsNat ==
    ASSUME NEW l \in Seq(LogRow), NEW c
    PROVE  IsFiniteSet(ResRows(l, c)) /\ Times(l, c) \in Nat
<1>1. IsFiniteSet(1..Len(l)) BY FS_Interval
<1>2. ResRows(l, c) \subseteq 1..Len(l) BY DEF ResRows
<1>. QED BY <1>1, <1>2, FS_Subset, FS_CardinalityType DEF Times

(* A row counts once, for its own case, and only when it resolves it.      *)
LEMMA TimesGrow ==
    ASSUME NEW l \in Seq(LogRow), NEW e \in LogRow, NEW c
    PROVE  /\ Times(Append(l, e), c) <= Times(l, c) + 1
           /\ ~(e.case = c /\ e.to \in Resolved) => Times(Append(l, e), c) = Times(l, c)
<1>. DEFINE more == Append(l, e)
<1>1. /\ DOMAIN more = DOMAIN l \cup {Len(l) + 1} /\ more[Len(l) + 1] = e
      /\ \A k \in DOMAIN l : more[k] = l[k]
  BY LogGrows
<1>. HIDE DEF more
<1>2. CASE e.case = c /\ e.to \in Resolved
  <2>1. ResRows(more, c) = ResRows(l, c) \cup {Len(l) + 1} BY <1>1, <1>2 DEF ResRows
  <2>2. IsFiniteSet(ResRows(l, c)) /\ Times(l, c) \in Nat BY TimesIsNat
  <2>3. Cardinality(ResRows(more, c)) \in {Times(l, c), Times(l, c) + 1}
    BY <2>1, <2>2, FS_AddElement DEF Times
  <2>4. Times(more, c) <= Times(l, c) + 1 BY <2>2, <2>3 DEF Times
  <2>. QED BY <1>2, <2>4 DEF more
<1>3. CASE ~(e.case = c /\ e.to \in Resolved)
  <2>1. ResRows(more, c) = ResRows(l, c) BY <1>1, <1>3 DEF ResRows
  <2>. QED BY <1>3, <2>1, TimesIsNat DEF Times, more
<1>. QED BY <1>2, <1>3

(* What stands behind ResolvedOnce.  The i-th turn of the engine's second  *)
(* loop resolves its case, if at all, in the row Len(Alerts) + i: a case   *)
(* has as many such rows as it was listed, and one fewer when its file     *)
(* does not show it resolved.  On the desk a case was resolved no more     *)
(* often than it was listed and scripts were stopped, and less when its    *)
(* view does not show it nor the click in progress is about to: a click    *)
(* works on cases, each one once, that its view does not show resolved.    *)
Listings(c) == {i \in DOMAIN Alerts : Alerts[i] = c}
ResolvedAt(l, k) == k \in DOMAIN l /\ l[k].to \in Resolved

OpenInv ==
    phase = "open" =>
        /\ turn \in 1..(Len(Alerts) + 1) /\ Len(log) = turn - 1
        /\ half => turn \in DOMAIN Alerts
        /\ \A k \in DOMAIN log : log[k].to \notin Resolved

WorkInv ==
    phase = "work" =>
        /\ half => Len(log) = Len(Alerts) + turn
        /\ ~half => Len(log) = Len(Alerts) + turn - 1
        /\ \A k \in DOMAIN log : log[k].to \in Resolved =>
              k - Len(Alerts) \in DOMAIN Alerts /\ log[k].case = Alerts[k - Len(Alerts)]
        /\ half => turn \in DOMAIN Alerts /\ log[Len(log)].to = Verdict(turn).to
        /\ \A c \in Cases : \/ file[c] \in Resolved
                            \/ half /\ c = Alerts[turn]
                            \/ \E i \in Listings(c) : ~ResolvedAt(log, Len(Alerts) + i)

Showing(c) == \/ view[c] \in Resolved
              \/ click.step \in {"file", "view"} /\ Target = c /\ click.to \in Resolved

CountInv ==
    phase = "desk" =>
        \A c \in Cases : /\ Times(log, c) <= stops + Listed(c)
                         /\ ~Showing(c) => Times(log, c) < stops + Listed(c)

PendingInv ==
    click.step # "idle" =>
        /\ \A k \in DOMAIN click.cases : view[click.cases[k]] \notin Resolved
        /\ \A j, k \in DOMAIN click.cases : click.cases[j] = click.cases[k] => j = k

GoneInv == phase = "gone" => \A c \in Cases : Times(log, c) <= stops + Listed(c)
CalmInv == phase # "desk" => click = Idle

EngineInv == OpenInv /\ WorkInv
ResolvedInv == EngineInv /\ CountInv /\ PendingInv /\ GoneInv /\ CalmInv

LEMMA ListedIsNat ==
    ASSUME NEW c
    PROVE  /\ IsFiniteSet(Listings(c)) /\ Listed(c) = Cardinality(Listings(c)) /\ Listed(c) \in Nat
<1>1. IsFiniteSet(1..Len(Alerts)) BY FactsShape, FS_Interval
<1>2. Listings(c) \subseteq 1..Len(Alerts) BY FactsShape DEF Listings
<1>. QED BY <1>1, <1>2, FS_Subset, FS_CardinalityType DEF Listed, Listings

(* The engine alone resolves a case at most as often as it is listed, and  *)
(* less often when its file does not show it.                              *)
LEMMA EngineResolves ==
    ASSUME TypeOK, EngineInv, phase \in {"open", "work"}, NEW c \in Cases
    PROVE  /\ Times(log, c) <= Listed(c)
           /\ (phase = "work" /\ ~half /\ file[c] \notin Resolved) => Times(log, c) < Listed(c)
<1>. DEFINE n == Len(Alerts)
            S == {i \in Listings(c) : ResolvedAt(log, n + i)}
            f == [i \in S |-> n + i]
            T == ResRows(log, c)
<1>1. log \in Seq(LogRow) /\ n \in Nat BY FactsShape DEF TypeOK
<1>2. \A k \in T : k \in Int /\ k - n \in DOMAIN Alerts /\ Alerts[k - n] = c /\ ResolvedAt(log, k)
  <2>1. DOMAIN log = 1..Len(log) /\ Len(log) \in Nat BY <1>1
  <2>. QED BY <2>1 DEF EngineInv, OpenInv, WorkInv, ResRows, ResolvedAt
<1>3. \A k \in T : k - n \in S /\ n + (k - n) = k
  BY <1>1, <1>2 DEF Listings
<1>4. \A i \in S : n + i \in T
  <2>. SUFFICES ASSUME NEW i \in S PROVE n + i \in T
    OBVIOUS
  <2>1. i \in DOMAIN Alerts /\ Alerts[i] = c /\ ResolvedAt(log, n + i) /\ i \in Nat
    BY FactsShape DEF Listings
  <2>2. log[n + i].case = Alerts[(n + i) - n]
    BY <2>1 DEF EngineInv, OpenInv, WorkInv, ResolvedAt
  <2>3. (n + i) - n = i BY <1>1, <2>1
  <2>. QED BY <2>1, <2>2, <2>3 DEF ResRows, ResolvedAt
<1>5. IsFiniteSet(S) /\ Cardinality(S) <= Listed(c) /\ Cardinality(S) \in Nat
  <2>1. S \subseteq Listings(c) OBVIOUS
  <2>. QED BY <2>1, ListedIsNat, FS_Subset, FS_CardinalityType
<1>6. f \in Surjection(S, T)
  <2>. HIDE DEF S, T, n
  <2>1. f \in [S -> T] BY <1>4
  <2>2. \A k \in T : \E i \in S : f[i] = k BY <1>3
  <2>. QED BY <2>1, <2>2 DEF Surjection
<1>7. Cardinality(T) <= Cardinality(S) /\ Cardinality(T) \in Nat
  <2>. HIDE DEF S, T, f
  <2>. QED BY <1>5, <1>6, FS_Surjection, FS_CardinalityType
<1>8. ASSUME phase = "work", ~half, file[c] \notin Resolved PROVE Cardinality(S) < Listed(c)
  <2>1. PICK i \in Listings(c) : ~ResolvedAt(log, n + i) BY <1>8 DEF EngineInv, WorkInv
  <2>2. S \subseteq Listings(c) \ {i} BY <2>1
  <2>3. IsFiniteSet(Listings(c) \ {i}) /\ Cardinality(Listings(c) \ {i}) = Listed(c) - 1
    BY <2>1, ListedIsNat, FS_RemoveElement
  <2>4. Cardinality(S) <= Listed(c) - 1 BY <2>2, <2>3, FS_Subset
  <2>. QED BY <2>4, <1>5, ListedIsNat
<1>9. Listed(c) \in Nat BY ListedIsNat
<1>. HIDE DEF S, T, n, f
<1>10. Times(log, c) = Cardinality(T) BY DEF Times, T
<1>. QED BY <1>5, <1>7, <1>8, <1>9, <1>10

LEMMA OpenKeepsResolved == TypeOK /\ ResolvedInv /\ OpenCase => ResolvedInv'
<1>. SUFFICES ASSUME TypeOK, ResolvedInv, OpenCase PROVE ResolvedInv'
  OBVIOUS
<1>1. /\ log \in Seq(LogRow) /\ turn \in DOMAIN Alerts /\ turn \in Nat
      /\ Len(Alerts) \in Nat /\ DOMAIN Alerts = 1..Len(Alerts)
  BY FactsShape DEF TypeOK, OpenCase
<1>2. /\ phase = "open" /\ phase' = "open" /\ click' = click /\ click = Idle
  BY DEF OpenCase, desk, ResolvedInv, CalmInv
<1>3. Len(log) = turn - 1 /\ \A k \in DOMAIN log : log[k].to \notin Resolved
  BY <1>2 DEF ResolvedInv, EngineInv, OpenInv
<1>4. CASE ~half
  <2>1. log' = log /\ turn' = turn BY <1>4 DEF OpenCase
  <2>. QED BY <1>1, <1>2, <1>3, <2>1
       DEF ResolvedInv, EngineInv, OpenInv, WorkInv, CountInv, GoneInv, CalmInv, PendingInv, Idle
<1>5. CASE half
  <2>1. log' = Append(log, Row(Alerts[turn], "case_opened", "none")) /\ turn' = turn + 1 /\ ~half'
    BY <1>5 DEF OpenCase
  <2>2. PICK e \in LogRow : e.to = "none" /\ log' = Append(log, e)
    BY <1>1, <2>1, EngineRows DEF Row
  <2>3. /\ Len(log') = Len(log) + 1 /\ DOMAIN log' = DOMAIN log \cup {Len(log) + 1}
        /\ log'[Len(log) + 1] = e /\ \A k \in DOMAIN log : log'[k] = log[k]
    BY <1>1, <2>2, LogGrows
  <2>4. e.to \notin Resolved BY <2>2 DEF Resolved, FilingQueues
  <2>5. OpenInv' BY <1>1, <1>3, <2>1, <2>3, <2>4 DEF OpenInv
  <2>. QED BY <1>2, <2>5
       DEF ResolvedInv, EngineInv, WorkInv, CountInv, GoneInv, CalmInv, PendingInv, Idle
<1>. QED BY <1>4, <1>5

(* As the second loop starts nothing is resolved, and every case is listed. *)
LEMMA AllOpenedKeepsResolved == TypeOK /\ ResolvedInv /\ AllOpened => ResolvedInv'
<1>. SUFFICES ASSUME TypeOK, ResolvedInv, AllOpened PROVE ResolvedInv'
  OBVIOUS
<1>1. /\ log \in Seq(LogRow) /\ turn \notin DOMAIN Alerts
      /\ Len(Alerts) \in Nat /\ DOMAIN Alerts = 1..Len(Alerts)
  BY FactsShape DEF TypeOK, AllOpened
<1>2. /\ phase = "open" /\ phase' = "work" /\ turn' = 1 /\ log' = log /\ file' = file
      /\ half' = half /\ click' = click /\ click = Idle
  BY DEF AllOpened, desk, ResolvedInv, CalmInv
<1>3. /\ turn = Len(Alerts) + 1 /\ Len(log) = Len(Alerts) /\ ~half
      /\ \A k \in DOMAIN log : log[k].to \notin Resolved
  BY <1>1, <1>2 DEF ResolvedInv, EngineInv, OpenInv
<1>4. \A c \in Cases : \E i \in Listings(c) : ~ResolvedAt(log, Len(Alerts) + i)
  <2>. SUFFICES ASSUME NEW c \in Cases PROVE \E i \in Listings(c) : ~ResolvedAt(log, Len(Alerts) + i)
    OBVIOUS
  <2>1. PICK i \in Listings(c) : TRUE BY AlertsAssumption DEF Listings
  <2>. QED BY <1>3, <2>1 DEF ResolvedAt
<1>5. WorkInv'
  <2>1. ~half' BY <1>2, <1>3
  <2>2. Len(log') = Len(Alerts) + turn' - 1 BY <1>1, <1>2, <1>3
  <2>3. \A c \in Cases : \E i \in Listings(c) : ~ResolvedAt(log', Len(Alerts) + i) BY <1>2, <1>4
  <2>4. \A k \in DOMAIN log' : log'[k].to \notin Resolved BY <1>2, <1>3
  <2>. QED BY <2>1, <2>2, <2>3, <2>4 DEF WorkInv
<1>. QED BY <1>2, <1>5 DEF ResolvedInv, EngineInv, OpenInv, CountInv, GoneInv, CalmInv, PendingInv, Idle

LEMMA WorkKeepsResolved == TypeOK /\ ResolvedInv /\ WorkCase => ResolvedInv'
<1>. SUFFICES ASSUME TypeOK, ResolvedInv, WorkCase PROVE ResolvedInv'
  OBVIOUS
<1>. DEFINE n == Len(Alerts)
<1>1. /\ log \in Seq(LogRow) /\ turn \in DOMAIN Alerts /\ turn \in Nat /\ turn >= 1
      /\ n \in Nat /\ DOMAIN Alerts = 1..n /\ file \in [Cases -> Words]
  BY FactsShape DEF TypeOK, WorkCase
<1>2. PICK c, w, event : c = Alerts[turn] /\ w = Verdict(turn).to /\ event = Verdict(turn).event
  OBVIOUS
<1>3. /\ phase = "work" /\ phase' = "work" /\ click' = click /\ click = Idle /\ label' = label
      /\ c \in Cases
  BY <1>1, <1>2, FactsShape DEF WorkCase, desk, ResolvedInv, CalmInv
<1>4. WorkInv BY DEF ResolvedInv, EngineInv
<1>. HIDE DEF n
<1>5. CASE ~half
  <2>1. /\ log' = Append(log, Row(c, event, w)) /\ file' = file /\ turn' = turn /\ half'
        /\ Row(c, event, w) \in LogRow
    BY <1>1, <1>2, <1>5, EngineRows DEF WorkCase
  <2>2. PICK e \in LogRow : e.to = w /\ e.case = c /\ log' = Append(log, e)
    BY <2>1 DEF Row
  <2>3. /\ Len(log') = Len(log) + 1 /\ DOMAIN log' = DOMAIN log \cup {Len(log) + 1}
        /\ log'[Len(log) + 1] = e /\ \A k \in DOMAIN log : log'[k] = log[k]
    BY <1>1, <2>2, LogGrows
  <2>4. Len(log) + 1 = n + turn /\ Len(log) \in Nat
    <3>1. Len(log) = n + turn - 1 BY <1>3, <1>4, <1>5 DEF WorkInv, n
    <3>. QED BY <1>1, <3>1
  <2>5. \A k \in DOMAIN log' : log'[k].to \in Resolved =>
           k - n \in DOMAIN Alerts /\ log'[k].case = Alerts[k - n]
    <3>. SUFFICES ASSUME NEW k \in DOMAIN log', log'[k].to \in Resolved
                  PROVE  k - n \in DOMAIN Alerts /\ log'[k].case = Alerts[k - n]
      OBVIOUS
    <3>1. CASE k = n + turn
      <4>1. k - n = turn BY <1>1, <3>1
      <4>. QED BY <1>1, <1>2, <2>2, <2>3, <2>4, <3>1, <4>1
    <3>2. CASE k \in DOMAIN log BY <1>3, <1>4, <2>3, <3>2 DEF WorkInv, n
    <3>. QED BY <2>3, <2>4, <3>1, <3>2
  <2>6. ASSUME NEW b \in Cases, file[b] \notin Resolved, b # c
        PROVE  \E i \in Listings(b) : ~ResolvedAt(log', n + i)
    <3>1. PICK i \in Listings(b) : ~ResolvedAt(log, n + i)
      BY <1>3, <1>4, <1>5, <2>6 DEF WorkInv, n
    <3>2. i # turn /\ i \in Nat BY <1>1, <1>2, <2>6 DEF Listings
    <3>3. n + i # n + turn BY <1>1, <3>2
    <3>. QED BY <2>3, <2>4, <3>1, <3>3 DEF ResolvedAt
  <2>7. Verdict(turn)' = Verdict(turn) BY <1>3, <2>1, VerdictStays
  <2>8. log'[Len(log')].to = Verdict(turn)'.to BY <1>2, <2>2, <2>3, <2>7
  <2>9. WorkInv' BY <1>1, <1>2, <2>1, <2>3, <2>4, <2>5, <2>6, <2>8 DEF WorkInv, n
  <2>. QED BY <1>3, <2>9 DEF ResolvedInv, EngineInv, OpenInv, CountInv, GoneInv, CalmInv, PendingInv, Idle
<1>6. CASE half
  <2>1. log' = log /\ file' = [file EXCEPT ![c] = w] /\ turn' = turn + 1 /\ ~half'
    BY <1>2, <1>6 DEF WorkCase
  <2>2. Len(log) = n + turn /\ log[Len(log)].to = w BY <1>1, <1>2, <1>3, <1>4, <1>6 DEF WorkInv, n
  <2>3. ASSUME NEW b \in Cases, file'[b] \notin Resolved
        PROVE  \E i \in Listings(b) : ~ResolvedAt(log, n + i)
    <3>1. CASE b = c
      <4>1. turn \in Listings(b) BY <1>1, <1>2, <3>1 DEF Listings
      <4>2. w \notin Resolved BY <1>1, <1>3, <2>1, <2>3, <3>1
      <4>. QED BY <2>2, <4>1, <4>2 DEF ResolvedAt
    <3>2. CASE b # c
      <4>1. file[b] \notin Resolved BY <1>1, <1>3, <2>1, <2>3, <3>2
      <4>. QED BY <1>2, <1>3, <1>4, <3>2, <4>1 DEF WorkInv, n
    <3>. QED BY <3>1, <3>2
  <2>4. \A k \in DOMAIN log : log[k].to \in Resolved =>
           k - n \in DOMAIN Alerts /\ log[k].case = Alerts[k - n]
    BY <1>3, <1>4 DEF WorkInv, n
  <2>5. WorkInv' BY <1>1, <2>1, <2>2, <2>3, <2>4 DEF WorkInv, n
  <2>. QED BY <1>3, <2>5 DEF ResolvedInv, EngineInv, OpenInv, CountInv, GoneInv, CalmInv, PendingInv, Idle
<1>. QED BY <1>5, <1>6

LEMMA LoadKeepsResolved == TypeOK /\ ResolvedInv /\ Load => ResolvedInv'
<1>. SUFFICES ASSUME TypeOK, ResolvedInv, Load PROVE ResolvedInv'
  OBVIOUS
<1>1. log \in Seq(LogRow) /\ stops \in Nat BY DEF TypeOK
<1>2. /\ phase = "work" /\ phase' = "desk" /\ log' = log /\ view' = file /\ stops' = stops
      /\ click' = click /\ click = Idle /\ turn \notin DOMAIN Alerts
  BY DEF Load, ResolvedInv, CalmInv
<1>0. ~half BY <1>2 DEF ResolvedInv, EngineInv, WorkInv
<1>3. ASSUME NEW c \in Cases
      PROVE  /\ Times(log, c) <= stops + Listed(c)
             /\ ~Showing(c)' => Times(log, c) < stops + Listed(c)
  <2>1. Times(log, c) <= Listed(c) /\ (file[c] \notin Resolved => Times(log, c) < Listed(c))
    BY <1>0, <1>2, EngineResolves DEF ResolvedInv
  <2>2. Times(log, c) \in Nat /\ Listed(c) \in Nat BY <1>1, TimesIsNat, ListedIsNat
  <2>3. file[c] \in Resolved => Showing(c)' BY <1>2 DEF Showing
  <2>. QED BY <1>1, <2>1, <2>2, <2>3
<1>4. CountInv' BY <1>2, <1>3 DEF CountInv
<1>5. EngineInv' /\ GoneInv' /\ CalmInv' BY <1>2 DEF EngineInv, OpenInv, WorkInv, GoneInv, CalmInv
<1>6. PendingInv' BY <1>2 DEF PendingInv, Idle
<1>. QED BY <1>4, <1>5, <1>6 DEF ResolvedInv

(* A button is offered for cases the view shows unresolved, each one once. *)
LEMMA PressKeepsResolved ==
    ASSUME TypeOK, ResolvedInv, NEW page, NEW cases \in Seq(Cases), NEW d, Press(page, cases, d),
           \A k \in DOMAIN cases : view[cases[k]] \notin Resolved,
           \A j, k \in DOMAIN cases : cases[j] = cases[k] => j = k
    PROVE  ResolvedInv'
<1>1. /\ phase = "desk" /\ phase' = phase /\ log' = log /\ view' = view /\ file' = file
      /\ stops' = stops /\ click = Idle /\ click'.cases = cases /\ click'.step = "append"
  BY DEF Press
<1>2. PendingInv' BY <1>1 DEF PendingInv
<1>3. CountInv' BY <1>1 DEF ResolvedInv, CountInv, Showing, Idle
<1>4. EngineInv' /\ GoneInv' /\ CalmInv' BY <1>1 DEF EngineInv, OpenInv, WorkInv, GoneInv, CalmInv
<1>. QED BY <1>2, <1>3, <1>4 DEF ResolvedInv

LEMMA NarrateKeepsResolved ==
    ASSUME TypeOK, ResolvedInv, NEW c \in Cases, NEW a \in NarrativeActions, NEW p \in PkycActions,
           Narrate(c, a, p)
    PROVE  ResolvedInv'
<1>1. log \in Seq(LogRow) BY DEF TypeOK
<1>2. /\ phase = "desk" /\ phase' = phase /\ view' = view /\ stops' = stops
      /\ click = Idle /\ click' = click
  BY DEF Narrate
<1>3. ASSUME NEW b, NEW e \in LogRow, e.to \notin Resolved,
             NEW more \in LogRow, more.to \notin Resolved
      PROVE  /\ Times(Append(log, e), b) = Times(log, b)
             /\ Times(Append(Append(log, e), more), b) = Times(log, b)
  <2>1. Append(log, e) \in Seq(LogRow) BY <1>1, LogGrows
  <2>2. Times(Append(log, e), b) = Times(log, b) BY <1>1, <1>3, TimesGrow
  <2>. DEFINE s == Append(log, e)
  <2>. HIDE DEF s
  <2>3. Times(Append(s, more), b) = Times(s, b) BY <1>3, <2>1, TimesGrow DEF s
  <2>. QED BY <2>2, <2>3 DEF s
<1>4. \A b : Times(log', b) = Times(log, b)
  BY <1>3, NarrateShape
<1>5. CountInv' BY <1>2, <1>4 DEF ResolvedInv, CountInv, Showing, Idle
<1>6. EngineInv' /\ GoneInv' /\ CalmInv' BY <1>2 DEF EngineInv, OpenInv, WorkInv, GoneInv, CalmInv
<1>7. PendingInv' BY <1>2 DEF PendingInv, Idle
<1>. QED BY <1>5, <1>6, <1>7 DEF ResolvedInv

(* The click's decision is counted from the moment it is appended.         *)
LEMMA AppendKeepsResolved == TypeOK /\ ResolvedInv /\ AppendDecision => ResolvedInv'
<1>. SUFFICES ASSUME TypeOK, ResolvedInv, AppendDecision PROVE ResolvedInv'
  OBVIOUS
<1>1. log \in Seq(LogRow) /\ stops \in Nat BY DEF TypeOK
<1>2. PICK t, w, e : /\ t = Target /\ w = click.to
                     /\ e = Row(t, click.event, w)
                     /\ log' = Append(log, e)
  BY DEF AppendDecision
<1>3. click.step = "append" /\ click \in ClickShape /\ t \in Cases /\ t = click.cases[1]
      /\ 1 \in DOMAIN click.cases
  BY <1>2, ClickInProgress DEF AppendDecision
<1>4. e \in LogRow /\ e.case = t /\ e.to = w
  <2>1. /\ w \in Words /\ click.event # "case_opened"
        /\ (click.event = "escalated_to_sar" => w \in FilingQueues)
    BY <1>2, <1>3, ClickInProgress
  <2>2. click.event \in Events BY <1>3 DEF ClickShape
  <2>. QED BY <1>2, <1>3, <2>1, <2>2, RowIsLogRow
<1>5. /\ phase' = phase /\ file' = file /\ view' = view /\ stops' = stops
      /\ Target' = t /\ click'.to = w /\ click'.cases = click.cases
      /\ click'.step \in {"file", "view"}
  BY <1>2, <1>3 DEF AppendDecision, ClickShape, Target
<1>6. phase = "desk" BY <1>3 DEF ResolvedInv, CalmInv, Idle
<1>7. view[t] \notin Resolved BY <1>3 DEF ResolvedInv, PendingInv
<1>8. ASSUME NEW c \in Cases
      PROVE  /\ Times(log', c) <= stops + Listed(c)
             /\ ~Showing(c)' => Times(log', c) < stops + Listed(c)
  <2>1. /\ Times(log', c) <= Times(log, c) + 1
        /\ ~(e.case = c /\ e.to \in Resolved) => Times(log', c) = Times(log, c)
    BY <1>1, <1>2, <1>4, TimesGrow
  <2>2. Times(log, c) \in Nat /\ Times(log', c) \in Nat /\ Listed(c) \in Nat
    BY <1>1, <1>2, <1>4, TimesIsNat, LogGrows, ListedIsNat
  <2>3. Times(log, c) <= stops + Listed(c) /\ (~Showing(c) => Times(log, c) < stops + Listed(c))
    BY <1>6 DEF ResolvedInv, CountInv
  <2>4. Showing(c)' = (view[c] \in Resolved \/ (t = c /\ w \in Resolved))
    BY <1>5 DEF Showing
  <2>5. Showing(c) => view[c] \in Resolved
    BY <1>3 DEF Showing
  <2>6. CASE t = c /\ w \in Resolved
    <3>1. Times(log, c) < stops + Listed(c) BY <1>7, <2>3, <2>5, <2>6
    <3>2. Showing(c)' BY <2>4, <2>6
    <3>. QED BY <1>1, <2>1, <2>2, <3>1, <3>2
  <2>7. CASE ~(t = c /\ w \in Resolved)
    BY <1>1, <1>4, <2>1, <2>2, <2>3, <2>4, <2>5, <2>7
  <2>. QED BY <2>6, <2>7
<1>9. CountInv' BY <1>5, <1>8 DEF CountInv
<1>10. EngineInv' /\ GoneInv' /\ CalmInv' BY <1>5, <1>6 DEF EngineInv, OpenInv, WorkInv, GoneInv, CalmInv
<1>11. PendingInv' BY <1>3, <1>5 DEF ResolvedInv, PendingInv
<1>. QED BY <1>9, <1>10, <1>11 DEF ResolvedInv

LEMMA WriteKeepsResolved == TypeOK /\ ResolvedInv /\ WriteFile => ResolvedInv'
<1>. SUFFICES ASSUME TypeOK, ResolvedInv, WriteFile PROVE ResolvedInv'
  OBVIOUS
<1>1. click.step = "file" /\ click \in ClickShape
  BY ClickInProgress DEF WriteFile
<1>2. /\ phase' = phase /\ log' = log /\ view' = view /\ stops' = stops
      /\ Target' = Target /\ click'.to = click.to /\ click'.cases = click.cases
      /\ click'.step = "view"
  BY <1>1 DEF WriteFile, ClickShape, Target
<1>3. phase = "desk" BY <1>1 DEF ResolvedInv, CalmInv, Idle
<1>4. ASSUME NEW c \in Cases PROVE Showing(c)' = Showing(c)
  BY <1>1, <1>2 DEF Showing
<1>5. CountInv' BY <1>2, <1>4 DEF ResolvedInv, CountInv
<1>6. EngineInv' /\ GoneInv' /\ CalmInv' BY <1>2, <1>3 DEF EngineInv, OpenInv, WorkInv, GoneInv, CalmInv
<1>7. PendingInv' BY <1>1, <1>2 DEF ResolvedInv, PendingInv
<1>. QED BY <1>5, <1>6, <1>7 DEF ResolvedInv

(* The view shows what was counted before the bulk action goes on.         *)
LEMMA ShowKeepsResolved == TypeOK /\ ResolvedInv /\ ShowDecision => ResolvedInv'
<1>. SUFFICES ASSUME TypeOK, ResolvedInv, ShowDecision PROVE ResolvedInv'
  OBVIOUS
<1>1. stops \in Nat /\ view \in [Cases -> Words] /\ log \in Seq(LogRow) BY DEF TypeOK
<1>2. PICK t, w, q : t = Target /\ w = click.to /\ q = click.cases OBVIOUS
<1>3. /\ click.step = "view" /\ click \in ClickShape /\ t \in Cases /\ t = q[1]
      /\ q \in Seq(Cases) /\ Len(q) \in Nat /\ Len(q) >= 1
  BY <1>2, ClickInProgress DEF ShowDecision
<1>4. /\ phase' = phase /\ log' = log /\ file' = file /\ stops' = stops
      /\ view' = [view EXCEPT ![t] = w]
      /\ \/ click' = Idle
         \/ Len(q) # 1 /\ click'.step = "append" /\ click'.cases = Tail(q)
  BY <1>2, <1>3 DEF ShowDecision, ClickShape
<1>5. phase = "desk" BY <1>3 DEF ResolvedInv, CalmInv, Idle
<1>6. ASSUME NEW c \in Cases
      PROVE  /\ Times(log, c) <= stops + Listed(c)
             /\ ~Showing(c)' => Times(log, c) < stops + Listed(c)
  <2>1. Times(log, c) <= stops + Listed(c) /\ (~Showing(c) => Times(log, c) < stops + Listed(c))
    BY <1>5 DEF ResolvedInv, CountInv
  <2>2. Showing(c) = (view[c] \in Resolved \/ (t = c /\ w \in Resolved))
    BY <1>2, <1>3 DEF Showing
  <2>3. view'[c] \in Resolved => Showing(c)' BY DEF Showing
  <2>4. view'[c] = IF c = t THEN w ELSE view[c] BY <1>1, <1>3, <1>4
  <2>5. view[t] \notin Resolved BY <1>2, <1>3 DEF ResolvedInv, PendingInv
  <2>. QED BY <2>1, <2>2, <2>3, <2>4, <2>5
<1>7. CountInv' BY <1>4, <1>6 DEF CountInv
<1>8. EngineInv' /\ GoneInv' /\ CalmInv' BY <1>4, <1>5 DEF EngineInv, OpenInv, WorkInv, GoneInv, CalmInv
<1>9. PendingInv'
  <2>1. CASE click' = Idle BY <2>1 DEF PendingInv, Idle
  <2>2. CASE Len(q) # 1 /\ click'.step = "append" /\ click'.cases = Tail(q)
    <3>1. /\ Len(Tail(q)) = Len(q) - 1 /\ DOMAIN Tail(q) = 1..(Len(q) - 1)
          /\ \A k \in 1..(Len(q) - 1) : Tail(q)[k] = q[k + 1]
      BY <1>3, <2>2
    <3>2. \A j, k \in 1..Len(q) : q[j] = q[k] => j = k
      BY <1>2, <1>3 DEF ResolvedInv, PendingInv
    <3>3. \A k \in 1..Len(q) : q[k] \in Cases /\ view[q[k]] \notin Resolved
      BY <1>2, <1>3 DEF ResolvedInv, PendingInv
    <3>4. ASSUME NEW k \in 1..(Len(q) - 1)
          PROVE  k + 1 \in 1..Len(q) /\ q[k + 1] # t /\ view'[q[k + 1]] \notin Resolved
      <4>1. k + 1 \in 1..Len(q) /\ 1 \in 1..Len(q) /\ k + 1 # 1 BY <1>3
      <4>2. q[k + 1] # t BY <1>3, <3>2, <4>1
      <4>. QED BY <1>1, <1>4, <3>3, <4>1, <4>2
    <3>5. \A j, k \in 1..(Len(q) - 1) : q[j + 1] = q[k + 1] => j = k
      BY <1>3, <3>2
    <3>6. \A k \in DOMAIN Tail(q) : view'[Tail(q)[k]] \notin Resolved
      BY <3>1, <3>4
    <3>7. \A j, k \in DOMAIN Tail(q) : Tail(q)[j] = Tail(q)[k] => j = k
      BY <3>1, <3>5
    <3>. QED BY <2>2, <3>6, <3>7 DEF PendingInv
  <2>. QED BY <1>4, <2>1, <2>2
<1>. QED BY <1>7, <1>8, <1>9 DEF ResolvedInv

(* The user's next click costs at most the view of the one it interrupts.  *)
LEMMA StopKeepsResolved == TypeOK /\ ResolvedInv /\ StopScript => ResolvedInv'
<1>. SUFFICES ASSUME TypeOK, ResolvedInv, StopScript PROVE ResolvedInv'
  OBVIOUS
<1>1. stops \in Nat /\ log \in Seq(LogRow) BY DEF TypeOK
<1>2. /\ phase' = phase /\ log' = log /\ view' = view /\ stops' = stops + 1 /\ click' = Idle
      /\ click.step = "view"
  BY DEF StopScript
<1>3. phase = "desk" BY <1>2 DEF ResolvedInv, CalmInv, Idle
<1>4. ASSUME NEW c \in Cases PROVE Times(log, c) <= stops + Listed(c) /\ Times(log, c) \in Nat
                                   /\ Listed(c) \in Nat
  BY <1>1, <1>3, TimesIsNat, ListedIsNat DEF ResolvedInv, CountInv
<1>5. CountInv' BY <1>1, <1>2, <1>4 DEF CountInv
<1>6. EngineInv' /\ GoneInv' /\ CalmInv' BY <1>2, <1>3 DEF EngineInv, OpenInv, WorkInv, GoneInv, CalmInv
<1>7. PendingInv' BY <1>2 DEF PendingInv, Idle
<1>. QED BY <1>5, <1>6, <1>7 DEF ResolvedInv

LEMMA DieKeepsResolved == TypeOK /\ ResolvedInv /\ Die => ResolvedInv'
<1>. SUFFICES ASSUME TypeOK, ResolvedInv, Die PROVE ResolvedInv'
  OBVIOUS
<1>1. phase # "gone" /\ phase' = "gone" /\ log' = log /\ stops' = stops /\ click' = Idle
  BY DEF Die
<1>2. ASSUME NEW c \in Cases PROVE Times(log, c) <= stops + Listed(c)
  <2>1. Times(log, c) \in Nat /\ Listed(c) \in Nat /\ stops \in Nat
    BY TimesIsNat, ListedIsNat DEF TypeOK
  <2>2. CASE phase = "desk" BY <2>2 DEF ResolvedInv, CountInv
  <2>3. CASE phase \in {"open", "work"}
    <3>1. Times(log, c) <= Listed(c) BY <2>3, EngineResolves DEF ResolvedInv
    <3>. QED BY <2>1, <3>1
  <2>. QED BY <1>1, <2>2, <2>3 DEF TypeOK
<1>3. GoneInv' BY <1>1, <1>2 DEF GoneInv
<1>4. EngineInv' /\ CountInv' /\ CalmInv' BY <1>1 DEF EngineInv, OpenInv, WorkInv, CountInv, CalmInv
<1>5. PendingInv' BY <1>1 DEF PendingInv, Idle
<1>. QED BY <1>3, <1>4, <1>5 DEF ResolvedInv

LEMMA ResolvedStep == TypeOK /\ ResolvedInv /\ [Next]_vars => ResolvedInv'
<1>. SUFFICES ASSUME TypeOK, ResolvedInv, [Next]_vars PROVE ResolvedInv'
  OBVIOUS
<1>1. ASSUME NEW c \in Cases, NEW d \in CaseActions, PressCase(c, d) PROVE ResolvedInv'
  <2>. DEFINE cases == <<c>>
  <2>1. /\ cases \in Seq(Cases)
        /\ \A k \in DOMAIN cases : cases[k] = c
        /\ \A j, k \in DOMAIN cases : j = k
    OBVIOUS
  <2>2. view[c] \notin Resolved /\ Press("case", cases, d) BY <1>1 DEF PressCase
  <2>. HIDE DEF cases
  <2>. QED BY <2>1, <2>2, PressKeepsResolved
<1>2. ASSUME NEW cases \in Seq(Cases), NEW d, PressBulk(cases, d),
             \A j, k \in DOMAIN cases : cases[j] = cases[k] => j = k
      PROVE  ResolvedInv'
  BY <1>2, PressKeepsResolved DEF PressBulk
<1>3. ASSUME NEW c \in Cases, NEW d, PressBulk(<<c>>, d) PROVE ResolvedInv'
  <2>1. <<c>> \in Seq(Cases) /\ \A j, k \in DOMAIN <<c>> : j = k OBVIOUS
  <2>. QED BY <1>2, <1>3, <2>1
<1>4. ASSUME NEW b \in Cases, NEW c \in Cases, b < c, NEW d, PressBulk(<<b, c>>, d)
      PROVE  ResolvedInv'
  <2>. DEFINE cases == <<b, c>>
  <2>1. b \in Int /\ c \in Int BY FactsShape
  <2>2. b # c BY <1>4, <2>1
  <2>3. cases \in Seq(Cases) /\ \A j, k \in DOMAIN cases : cases[j] = cases[k] => j = k
    BY <2>2
  <2>. HIDE DEF cases
  <2>. QED BY <1>2, <1>4, <2>3 DEF cases
<1>5. ASSUME Tick PROVE ResolvedInv'
  <2>1. phase' = phase /\ phase = "desk" /\ UNCHANGED <<log, view, click, stops>>
    BY <1>5 DEF Tick
  <2>. QED BY <2>1 DEF ResolvedInv, EngineInv, OpenInv, WorkInv, CountInv, PendingInv, GoneInv, CalmInv,
                       Showing, Target
<1>6. ASSUME UNCHANGED vars PROVE ResolvedInv'
  <2>1. UNCHANGED <<label, phase, turn, half, log, file, view, click, stops>> BY <1>6 DEF vars
  <2>2. Verdict(turn)' = Verdict(turn) BY <2>1, VerdictStays
  <2>3. OpenInv' /\ WorkInv' BY <2>1, <2>2 DEF ResolvedInv, EngineInv, OpenInv, WorkInv
  <2>. QED BY <2>1, <2>3 DEF ResolvedInv, EngineInv, CountInv, PendingInv, GoneInv, CalmInv, Showing, Target
<1>. QED BY <1>1, <1>3, <1>4, <1>5, <1>6, OpenKeepsResolved, AllOpenedKeepsResolved,
            WorkKeepsResolved, LoadKeepsResolved,
            NarrateKeepsResolved, AppendKeepsResolved, WriteKeepsResolved, ShowKeepsResolved,
            StopKeepsResolved, DieKeepsResolved
     DEF Next

(* The engine, the single-case page and the bulk page write to one log with *)
(* a view each of what is resolved: whatever their order, a case is closed  *)
(* or handed to a filing queue at most as often as the engine listed it,    *)
(* and once more for each script that Streamlit stopped between its write   *)
(* and its view.  The Review Queue hands a case to no queue and is not      *)
(* counted.                                                                 *)
THEOREM ResolvedOncePerStop == Spec => []ResolvedOnce
<1>1. Init => ResolvedInv
  <2>. SUFFICES ASSUME Init PROVE ResolvedInv
    OBVIOUS
  <2>1. phase = "open" /\ click = Idle /\ log = <<>> /\ turn = 1 /\ ~half BY DEF Init
  <2>2. EngineInv BY <2>1, FactsShape DEF EngineInv, OpenInv, WorkInv
  <2>3. CountInv /\ GoneInv /\ CalmInv BY <2>1 DEF CountInv, GoneInv, CalmInv
  <2>4. PendingInv BY <2>1 DEF PendingInv, Idle
  <2>. QED BY <2>2, <2>3, <2>4 DEF ResolvedInv
<1>2. TypeOK /\ ResolvedInv => ResolvedOnce
  <2>. SUFFICES ASSUME TypeOK, ResolvedInv, NEW c \in Cases
                PROVE  Times(log, c) <= Listed(c) + stops
    BY DEF ResolvedOnce, Times, ResRows
  <2>1. stops \in Nat /\ Times(log, c) \in Nat /\ Listed(c) \in Nat
    BY TimesIsNat, ListedIsNat DEF TypeOK
  <2>2. CASE phase \in {"open", "work"}
    <3>1. Times(log, c) <= Listed(c) BY <2>2, EngineResolves DEF ResolvedInv
    <3>. QED BY <2>1, <3>1
  <2>3. CASE phase \in {"desk", "gone"}
    <3>1. Times(log, c) <= stops + Listed(c) BY <2>3 DEF ResolvedInv, CountInv, GoneInv
    <3>. QED BY <2>1, <3>1
  <2>. QED BY <2>2, <2>3 DEF TypeOK
<1>. QED BY <1>1, <1>2, ResolvedStep, TypeCorrect, PTL DEF Spec

----------------------------------------------------------------------------
(* The queue.  A score is a number, whatever the time and the deadline.     *)
LEMMA ScoreIsNumber ==
    ASSUME clock \in Int, NEW c \in Cases
    PROVE  /\ Urgency(c) \in {25, 50, 75, 100}
           /\ Weight[Facts[c].severity] \in Int /\ Weight[Facts[c].risk] \in Int
           /\ Score(c) \in Int
<1>1. /\ Facts[c].severity \in Severities /\ Facts[c].risk \in Risks
      /\ Facts[c].end \in Int /\ Hours(c) \in Nat
  <2>. DEFINE Fact == [severity : Severities, risk : Risks, queue : Queues, dated : BOOLEAN, end : Int]
  <2>1. \A a \in Fact : /\ a.severity \in Severities /\ a.risk \in Risks
                        /\ a.end \in Int
    OBVIOUS
  <2>2. Facts \in Seq(Fact) BY FactsAssumption
  <2>. HIDE DEF Fact
  <2>3. Facts[c] \in Fact BY <2>2, FactsShape, SeqRange
  <2>. QED BY <2>1, <2>3, FactsShape DEF Hours
<1>2. Urgency(c) \in {25, 50, 75, 100}
  <2>1. Remaining(c) \in Int BY <1>1 DEF Remaining
  <2>. HIDE DEF Remaining, Hours
  <2>. QED BY <1>1, <2>1 DEF Urgency
<1>3. Weight[Facts[c].severity] \in Int /\ Weight[Facts[c].risk] \in Int
  BY <1>1 DEF Weight, Severities, Risks
<1>4. Score(c) \in Int
  BY <1>2, <1>3 DEF Score
<1>. QED BY <1>2, <1>3, <1>4

(* The sort key orders the cases strictly and totally.                      *)
LEMMA AheadIsOrder ==
    ASSUME clock \in Int
    PROVE  /\ \A a \in Cases : ~Ahead(a, a)
           /\ \A a, b, c \in Cases : Ahead(a, b) /\ Ahead(b, c) => Ahead(a, c)
           /\ \A a, b \in Cases : a = b \/ Ahead(a, b) \/ Ahead(b, a)
<1>1. \A c \in Cases : Score(c) \in Int /\ c \in Int
  BY ScoreIsNumber, FactsShape
<1>. QED BY <1>1 DEF Ahead

(* Who is ahead has the smaller place.                                      *)
LEMMA AheadIsBefore ==
    ASSUME clock \in Int, NEW b \in Cases, NEW c \in Cases, Ahead(c, b)
    PROVE  Place(c) < Place(b)
<1>1. IsFiniteSet(Cases) BY FactsShape, FS_Interval
<1>2. IsFiniteSet(UpTo(b)) /\ IsFiniteSet(UpTo(c)) BY <1>1, FS_Subset DEF UpTo
<1>3. b \in UpTo(b) BY DEF UpTo
<1>4. UpTo(c) \subseteq UpTo(b) \ {b} BY AheadIsOrder DEF UpTo
<1>5. /\ IsFiniteSet(UpTo(b) \ {b})
      /\ Cardinality(UpTo(b) \ {b}) = Cardinality(UpTo(b)) - 1
  BY <1>2, <1>3, FS_RemoveElement
<1>6. Cardinality(UpTo(c)) <= Cardinality(UpTo(b) \ {b}) BY <1>4, <1>5, FS_Subset
<1>7. Cardinality(UpTo(b)) \in Nat /\ Cardinality(UpTo(c)) \in Nat
  BY <1>2, FS_CardinalityType
<1>. QED BY <1>5, <1>6, <1>7 DEF Place

(* Every place of the list is taken by one case.                            *)
PlacesAreTaken ==
    \A i \in 1..Len(Facts) : \E c \in Cases : /\ Place(c) = i
                                               /\ \A b \in Cases : Place(b) = i => b = c

LEMMA PlacesTaken == ASSUME clock \in Int PROVE PlacesAreTaken
<1>. DEFINE n == Len(Facts)
            place == [c \in Cases |-> Place(c)]
<1>1. n \in Nat /\ Cases = 1..n BY FactsShape
<1>2. IsFiniteSet(Cases) /\ Cardinality(Cases) = n
  <2>. HIDE DEF n
  <2>1. IsFiniteSet(1..n) /\ Cardinality(1..n) = IF 1 > n THEN 0 ELSE n - 1 + 1
    BY <1>1, FS_Interval
  <2>. QED BY <1>1, <2>1
<1>3. \A c \in Cases : Place(c) \in 1..n
  <2>. SUFFICES ASSUME NEW c \in Cases PROVE Place(c) \in 1..n
    OBVIOUS
  <2>1. UpTo(c) \subseteq Cases /\ c \in UpTo(c) BY DEF UpTo
  <2>2. /\ IsFiniteSet(UpTo(c)) /\ Cardinality(UpTo(c)) <= n BY <1>2, <2>1, FS_Subset
  <2>3. Cardinality(UpTo(c)) \in Nat /\ Cardinality(UpTo(c)) # 0
    BY <2>1, <2>2, FS_CardinalityType, FS_EmptySet
  <2>. QED BY <1>1, <2>2, <2>3 DEF Place
<1>4. \A b, c \in Cases : Place(b) = Place(c) => b = c
  <2>. SUFFICES ASSUME NEW b \in Cases, NEW c \in Cases, b # c PROVE Place(b) # Place(c)
    OBVIOUS
  <2>1. Ahead(b, c) \/ Ahead(c, b) BY AheadIsOrder
  <2>2. Place(b) < Place(c) \/ Place(c) < Place(b) BY <2>1, AheadIsBefore
  <2>. QED BY <1>1, <1>3, <2>2
<1>5. place \in Injection(Cases, 1..n)
  BY <1>3, <1>4 DEF Injection, IsInjective
<1>6. IsFiniteSet(1..n) /\ Cardinality(1..n) = n BY <1>1, <1>2
<1>7. place \in Surjection(Cases, 1..n)
  <2>. HIDE DEF place, n
  <2>. QED BY <1>2, <1>5, <1>6, FS_Injection
<1>. QED BY ZenonT(30), <1>4, <1>7 DEF Surjection, PlacesAreTaken

(* `aml queue-rank` lists every case once: whatever the clock says, the     *)
(* sort key leaves no tie.                                                  *)
THEOREM QueueListsEachOnce == Spec => []PlacesAreTaken
<1>1. TypeOK => PlacesAreTaken BY PlacesTaken DEF TypeOK
<1>. QED BY <1>1, TypeCorrect, PTL

(* In that list a case stands before every other that has no less time left *)
(* relative to its deadline's bands, a lower severity and no riskier a      *)
(* customer.                                                                *)
THEOREM NeverOvertaken == Spec => []NoOvertaking
<1>1. TypeOK => NoOvertaking
  <2>. SUFFICES ASSUME TypeOK, NEW b \in Cases, NEW c \in Cases,
                       Weight[Facts[c].severity] > Weight[Facts[b].severity],
                       Weight[Facts[c].risk] >= Weight[Facts[b].risk],
                       Urgency(c) >= Urgency(b)
                PROVE  ~(Place(b) < Place(c))
    BY DEF NoOvertaking
  <2>1. clock \in Int BY DEF TypeOK
  <2>2. Score(c) > Score(b)
    <3>1. /\ Urgency(b) \in Int /\ Urgency(c) \in Int
          /\ Weight[Facts[b].severity] \in Int /\ Weight[Facts[b].risk] \in Int
          /\ Weight[Facts[c].severity] \in Int /\ Weight[Facts[c].risk] \in Int
      BY <2>1, ScoreIsNumber
    <3>. HIDE DEF Urgency, Weight
    <3>. QED BY <3>1 DEF Score
  <2>3. Score(b) \in Int /\ Score(c) \in Int BY <2>1, ScoreIsNumber
  <2>4. Ahead(c, b) BY <2>2, <2>3 DEF Ahead
  <2>5. Place(c) < Place(b) BY <2>1, <2>4, AheadIsBefore
  <2>6. Place(b) \in Int /\ Place(c) \in Int
    <3>1. IsFiniteSet(Cases) BY FactsShape, FS_Interval
    <3>2. IsFiniteSet(UpTo(b)) /\ IsFiniteSet(UpTo(c)) BY <3>1, FS_Subset DEF UpTo
    <3>. QED BY <3>2, FS_CardinalityType DEF Place
  <2>. QED BY <2>5, <2>6
<1>. QED BY <1>1, TypeCorrect, PTL
============================================================================
