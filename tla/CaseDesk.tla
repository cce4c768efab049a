------------------------------ MODULE CaseDesk ------------------------------
(***************************************************************************)
(* One run's cases from the alert to the reports about them: the engine    *)
(* opens and works them, the analyst of the dashboard session decides them *)
(* on three pages that write different subsets of {log, case file, session *)
(* view}, and readers count what the log says or rank what is left.        *)
(* A case is named after its rule, customer and window, so that two alerts *)
(* may be one case: its file is written twice and the engine works it      *)
(* twice.  Times are hours since the run's as_of; the hash chain over the  *)
(* log is in EngineRun.                                                    *)
(***************************************************************************)
EXTENDS Integers, Sequences, SequencesExt

CONSTANTS
    Facts,       \* the cases of the run, in the order of their ids, each with what
                 \* its id fixes: [severity, risk, queue, dated, end]
    Alerts,      \* the case of every alert of the run, in the order the rules raise them
    Sla,         \* queue -> its SLA in hours
    MaxClock, MaxClicks, MaxStops       \* bounds

Severities == {"critical", "high", "medium", "low"}
Risks == {"critical", "high", "medium", "low"}
Queues == {"l1_analyst", "l2_investigator"}
Cases == DOMAIN Facts

(* dated: whether the alert says when its window closed, and so whether the *)
(* live queue knows when the case was opened.                               *)
ASSUME FactsAssumption ==
    Facts \in Seq([severity : Severities, risk : Risks, queue : Queues, dated : BOOLEAN, end : Int])
ASSUME AlertsAssumption ==
    Alerts \in Seq(Cases) /\ \A c \in Cases : \E i \in DOMAIN Alerts : Alerts[i] = c
ASSUME SlaAssumption == \A q \in Queues : Sla[q] \in Nat \ {0}

Labels == {"str", "sar"}        \* what the jurisdiction calls a filing

VARIABLES
    label,      \* the word on the "File" button: "str" in Canada, else "sar"
    phase,      \* "open", "work", "desk", or "gone" when the process died
    turn,       \* the alert the engine's loop has come to
    half,       \* the engine has done the first of the two writes of this turn
    log,        \* decisions.jsonl: [event, case, to]
    file,       \* case -> the status in cases/<id>.json
    view,       \* case -> the status in the session's data frame
    click,      \* the button press being served
    clock, clicks, stops

vars == <<label, phase, turn, half, log, file, view, click, clock, clicks, stops>>
engine == <<turn, half>>
desk == <<view, click, clock, clicks, stops>>

Idle == [page |-> "none", cases |-> <<>>, event |-> "none", to |-> "none", step |-> "idle"]

----------------------------------------------------------------------------
(* The workflow of the example banks: L1 hands to L2, L2 files.             *)
FilingQueue == IF label = "str" THEN "str_filing" ELSE "sar_filing"
FilingEvent == IF label = "str" THEN "escalated_to_str" ELSE "escalated_to_sar"
FilingQueues == {"str_filing", "sar_filing"}
NextQueues(q) == CASE q = "l1_analyst" -> <<"l2_investigator", "closed_no_action">>
                   [] q = "l2_investigator" -> <<FilingQueue, "closed_no_action">>

NotClosing(q) == q # "closed_no_action"

(* What the simulated analyst does with the i-th id of the run's list, whose *)
(* queue hands on to those of next.                                         *)
Disposition(i, next) ==
    LET filing == SelectSeq(next, LAMBDA q : q \in FilingQueues)
        onward == SelectSeq(next, NotClosing)
        Close == [event |-> "closed", to |-> "closed_no_action"] IN
    IF Facts[Alerts[i]].severity \in {"high", "critical"}
    THEN IF filing # <<>> THEN [event |-> "escalated_to_str", to |-> filing[1]]
         ELSE [event |-> "escalated", to |-> next[1]]
    ELSE IF (i - 1) % 3 = 0 /\ onward # <<>>
         THEN [event |-> "escalated", to |-> onward[1]]
         ELSE Close

Row(c, event, to) == [event |-> event, case |-> c, to |-> to]

(* _open_cases_for_alerts writes the case file, over the one of an earlier  *)
(* alert of the same case, then the event, for each alert in turn ...       *)
OpenCase ==
    /\ phase = "open" /\ turn \in DOMAIN Alerts
    /\ IF ~half
       THEN file' = [file EXCEPT ![Alerts[turn]] = "open"] /\ UNCHANGED <<log, turn>>
       ELSE /\ log' = Append(log, Row(Alerts[turn], "case_opened", "none"))
            /\ turn' = turn + 1 /\ UNCHANGED file
    /\ half' = ~half
    /\ UNCHANGED <<label, phase, desk>>

AllOpened ==
    /\ phase = "open" /\ turn \notin DOMAIN Alerts
    /\ phase' = "work" /\ turn' = 1
    /\ UNCHANGED <<label, half, log, file, desk>>

(* ... and _simulate_case_resolution the event, then the file.  It walks    *)
(* the list of ids as it is: a case that is listed twice is worked twice,   *)
(* and by its place in the list may be closed once and handed on once.      *)
Verdict(i) == Disposition(i, NextQueues(Facts[Alerts[i]].queue))
WorkCase ==
    /\ phase = "work" /\ turn \in DOMAIN Alerts
    /\ IF ~half
       THEN /\ log' = Append(log, Row(Alerts[turn], Verdict(turn).event, Verdict(turn).to))
            /\ UNCHANGED <<file, turn>>
       ELSE /\ file' = [file EXCEPT ![Alerts[turn]] = Verdict(turn).to]
            /\ turn' = turn + 1 /\ UNCHANGED log
    /\ half' = ~half
    /\ UNCHANGED <<label, phase, desk>>

(* The run is over and the dashboard loads its case files.                  *)
Load ==
    /\ phase = "work" /\ turn \notin DOMAIN Alerts
    /\ view' = file
    /\ phase' = "desk"
    /\ UNCHANGED <<label, engine, log, file, click, clock, clicks, stops>>

----------------------------------------------------------------------------
(* The pages.  Case Investigation offers its buttons for a case its view    *)
(* does not show resolved; Alert Queue offers bulk actions on those its     *)
(* view shows neither closed nor filed; the Review Queue asks nothing.      *)
Resolved == {"closed_no_action"} \cup FilingQueues

CaseActions == {<<"escalated", "l2_investigator">>, <<FilingEvent, FilingQueue>>,
                <<"closed", "closed_no_action">>, <<"edd_requested", "edd_review">>}
BulkActions == {<<"closed", "closed_no_action">>, <<"escalated", "l2_investigator">>}

Press(page, cases, d) ==
    /\ phase = "desk" /\ click = Idle /\ clicks < MaxClicks
    /\ click' = [page |-> page, cases |-> cases, event |-> d[1], to |-> d[2],
                 step |-> "append"]
    /\ clicks' = clicks + 1
    /\ UNCHANGED <<label, phase, engine, log, file, view, clock, stops>>

(* Mutant: the buttons are there whatever the view says.                    *)
PressCaseAlways(c, d) == Press("case", <<c>>, d)

PressCase(c, d) == view[c] \notin Resolved /\ Press("case", <<c>>, d)
PressBulk(cases, d) ==
    (\A k \in DOMAIN cases : view[cases[k]] \notin Resolved) /\ Press("bulk", cases, d)

(* The Review Queue's row: the narrative's event, then one per pKYC trigger,*)
(* to the log alone.                                                        *)
NarrativeEvent(action) ==
    IF action = "escalate_to_str" THEN "escalated_to_str" ELSE "narrative_review"
PkycEvent(action) == IF action = "approve_escalate" THEN "escalated" ELSE "pkyc_review"
Narrate(c, action, pkyc) ==
    /\ phase = "desk" /\ click = Idle /\ clicks < MaxClicks
    /\ log' = Append(log, Row(c, NarrativeEvent(action), action))
                \o [k \in DOMAIN pkyc |-> Row(c, PkycEvent(pkyc[k]), pkyc[k])]
    /\ clicks' = clicks + 1
    /\ UNCHANGED <<label, phase, engine, file, view, click, clock, stops>>

Target == Head(click.cases)

(* Mutant: the case file is rewritten before the decision is appended.      *)
FileFirst ==
    /\ click.step = "append"
    /\ file' = [file EXCEPT ![Target] = click.to]
    /\ click' = [click EXCEPT !.step = "file"]
    /\ UNCHANGED <<label, phase, engine, log, view, clock, clicks, stops>>

(* Either page appends first; only Case Investigation rewrites the file.    *)
AppendDecision ==
    /\ click.step = "append"
    /\ log' = Append(log, Row(Target, click.event, click.to))
    /\ click' = [click EXCEPT !.step = IF click.page = "case" THEN "file" ELSE "view"]
    /\ UNCHANGED <<label, phase, engine, file, view, clock, clicks, stops>>

WriteFile ==
    /\ click.step = "file"
    /\ file' = [file EXCEPT ![Target] = click.to]
    /\ click' = [click EXCEPT !.step = "view"]
    /\ UNCHANGED <<label, phase, engine, log, view, clock, clicks, stops>>

ShowDecision ==
    /\ click.step = "view"
    /\ view' = [view EXCEPT ![Target] = click.to]
    /\ click' = IF Len(click.cases) = 1 THEN Idle
                ELSE [click EXCEPT !.step = "append", !.cases = Tail(@)]
    /\ UNCHANGED <<label, phase, engine, log, file, clock, clicks, stops>>

(* The user clicks elsewhere: the script stops at its next use of the       *)
(* session state, which is before the view is written.                      *)
StopScript ==
    /\ click.step = "view" /\ stops < MaxStops
    /\ click' = Idle /\ stops' = stops + 1
    /\ UNCHANGED <<label, phase, engine, log, file, view, clock, clicks>>

(* The process dies, the engine's or the server's; the run directory stays. *)
Die == /\ phase # "gone" /\ phase' = "gone" /\ click' = Idle
       /\ UNCHANGED <<label, engine, log, file, view, clock, clicks, stops>>

Tick == /\ phase = "desk" /\ click = Idle /\ clock < MaxClock /\ clock' = clock + 1
        /\ UNCHANGED <<label, phase, engine, log, file, view, click, clicks, stops>>

Init ==
    /\ label \in Labels /\ phase = "open" /\ turn = 1 /\ half = FALSE /\ log = <<>>
    /\ file = [c \in Cases |-> "none"] /\ view = file
    /\ click = Idle /\ clock = 0 /\ clicks = 0 /\ stops = 0

PkycActions == {<<>>, <<"approve_escalate">>, <<"approve_monitor">>}
NarrativeActions == {"accept", "escalate_to_str"}

Next ==
    \/ OpenCase \/ AllOpened \/ WorkCase \/ Load
    \/ \E c \in Cases, d \in CaseActions : PressCase(c, d)
    \/ \E c \in Cases, d \in BulkActions : PressBulk(<<c>>, d)
    \/ \E b, c \in Cases, d \in BulkActions : b < c /\ PressBulk(<<b, c>>, d)
    \/ \E c \in Cases, a \in NarrativeActions, p \in PkycActions : Narrate(c, a, p)
    \/ AppendDecision \/ WriteFile \/ ShowDecision \/ StopScript \/ Die \/ Tick

Spec == Init /\ [][Next]_vars

----------------------------------------------------------------------------
DecisionsOf(c) == {log[k] : k \in {j \in DOMAIN log :
                      log[j].case = c /\ log[j].event # "case_opened"}}

(* The readers of the log.  compute_outcomes tests a disposition's text for *)
(* "str", "sar" or "filing", the audit pack for "str" alone.                *)
FiledEvents == {"escalated_to_str", "str_filed", "sar_filed", "filed_with_regulator"}
ClosedEvents == {"closed_no_action", "closed_false_positive", "case_closed"}
NamesStr == {"str_filing", "escalate_to_str"}

(* Mutant: only the event counts. *)
FiledByEvent(c) == \E d \in DecisionsOf(c) : d.event \in FiledEvents

Filed(c) == \E d \in DecisionsOf(c) :
                d.event \in FiledEvents \/ d.to \in NamesStr \cup FilingQueues
ClosedCount(c) == ~Filed(c) /\ \E d \in DecisionsOf(c) : d.event \in ClosedEvents

PackFiledEvents == {"str_filed", "sar_filed", "escalated_to_str"}
PackFiled(c) == \E d \in DecisionsOf(c) : d.event \in PackFiledEvents \/ d.to \in NamesStr

(* The live queue: where a case stands against its queue's SLA.             *)
Hours(c) == Sla[Facts[c].queue]
Remaining(c) == Hours(c) - (clock - Facts[c].end)

Urgency(c) ==
    LET left == Remaining(c)
        hours == Hours(c) IN
    CASE ~Facts[c].dated -> 50
      [] Facts[c].dated /\ left <= 0 -> 100
      [] Facts[c].dated /\ left > 0 /\ 10 * left <= hours -> 75
      [] Facts[c].dated /\ 10 * left > hours /\ 2 * left <= hours -> 50
      [] OTHER -> 25

Weight == [critical |-> 100, high |-> 75, medium |-> 50, low |-> 25]
Score(c) == 40 * Urgency(c) + 30 * Weight[Facts[c].severity]
              + 20 * Weight[Facts[c].risk] + 10 * 50

(* Mutant: the lowest score comes first.                                    *)
AheadAscending(b, c) == LET lead == Score(b) - Score(c) IN lead < 0 \/ (lead = 0 /\ b < c)

(* Sorted by score, ties by case_id: a case's place in the list is the      *)
(* number of those ahead of it, itself included.                            *)
Ahead(b, c) == LET lead == Score(b) - Score(c) IN lead > 0 \/ (lead = 0 /\ b < c)
UpTo(c) == {b \in Cases : b = c \/ Ahead(b, c)}
Place(c) == Cardinality(UpTo(c))

----------------------------------------------------------------------------
(* A status on a case file was decided in the log: a crash between the two  *)
(* writes of the engine or of _record_action leaves the file behind, never  *)
(* ahead.                                                                   *)
FileFollowsLog ==
    \A c \in Cases : file[c] \notin {"none", "open"} =>
        \E d \in DecisionsOf(c) : d.to = file[c]

(* The engine, the single-case page and the bulk page between them close a  *)
(* case or hand it to a filing queue at most as often as the engine listed  *)
(* it, and once more for each click the user interrupted: a page adds a     *)
(* resolution only where the engine's last word was none.  The Review       *)
(* Queue, which asks nothing, is not bounded: its escalate_to_str names no  *)
(* queue and is not counted.                                                *)
Listed(c) == Cardinality({i \in DOMAIN Alerts : Alerts[i] = c})
ResolvedOnce ==
    \A c \in Cases :
        Cardinality({k \in DOMAIN log : log[k].case = c /\ log[k].to \in Resolved})
            <= Listed(c) + stops

(* Every filing, under either of its names and from any page, is in the     *)
(* AMLA funnel; the audit pack never shows one that the funnel does not.    *)
FilingsReachTheFunnel ==
    \A c \in Cases :
        /\ (\E d \in DecisionsOf(c) : d.event \in {"escalated_to_str", "escalated_to_sar"})
              => Filed(c)
        /\ PackFiled(c) => Filed(c)

(* `aml queue-rank`: a case is never ranked behind one that has as much     *)
(* time left and a lower severity and no riskier a customer.                *)
NoOvertaking ==
    ~ \E b, c \in Cases :
        /\ Weight[Facts[c].severity] > Weight[Facts[b].severity]
        /\ Weight[Facts[c].risk] >= Weight[Facts[b].risk]
        /\ Urgency(c) >= Urgency(b)
        /\ Place(b) < Place(c)

(* Claimed of metrics/outcomes.py ("Mirrors engine/constants.py:Event       *)
(* values"): a case someone closed is not counted as still pending.         *)
ClosedIsCounted ==
    \A c \in Cases :
        (\E d \in DecisionsOf(c) : d.event = "closed") => Filed(c) \/ ClosedCount(c)
=============================================================================
