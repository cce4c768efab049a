-------------------------- MODULE EngineRunProofs --------------------------
(* Theorems about EngineRun, for any spec, any input and any bound.        *)
EXTENDS EngineRun, TLAPS

USE DEF Rules

(* The helpers build events of the declared shape. *)
LEMMA EventShapes ==
    /\ \A k \in EventKinds, r \in 0..N : RuleEvent(k, r) \in Event
    /\ \A k \in EventKinds, c \in CaseId, s \in Statuses : CaseEvent(k, c, s) \in Event
    /\ \A q \in Checks : CheckEvent(q) \in Event
BY NAssumption DEF RuleEvent, CaseEvent, CheckEvent, Event, EventKinds, Statuses, CaseId

LEMMA BatchesAreSequences == AlertBatches \subseteq Seq(Keys)
BY MaxAlertsAssumption DEF AlertBatches

LEMMA DispositionShape ==
    ASSUME NEW r \in Rules, NEW idx \in Nat, rules \in [Rules -> RuleSpecs]
    PROVE  /\ Disposition(r, idx).event \in {"escalated_to_str", "escalated", "closed"}
           /\ Disposition(r, idx).to \in {"filing", "review", "closed"}
<1>1. rules[r].next \in NextQueues
  BY RuleSpecsAssumption DEF RuleShape
<1>. QED
  BY <1>1, SMTT(30) DEF Disposition, NextQueues

(* Type correctness: whatever the spec, the input and the interleaving of  *)
(* failures, every artifact keeps the shape its readers parse.             *)
LEMMA TypeInit == Init => TypeOK
<1>. SUFFICES ASSUME Init PROVE TypeOK
  OBVIOUS
<1>1. alerts \in Outputs BY DEF Init, Outputs
<1>2. cases \in [CaseId -> Statuses] BY DEF Init, Statuses
<1>3. ri \in 1..(N + 1) BY NAssumption DEF Init
<1>4. caseIds \in Seq(CaseId) /\ log \in Seq(Event) BY DEF Init
<1>5. tickets \in Tickets \cup {None} /\ manifest \in Manifest \cup {None} BY DEF Init
<1>6. found \subseteq Checks /\ failures \subseteq Rules BY DEF Init
<1>. QED BY <1>1, <1>2, <1>3, <1>4, <1>5, <1>6 DEF Init, TypeOK

LEMMA TypeStep == TypeOK /\ [Next]_vars => TypeOK'
<1>. SUFFICES ASSUME TypeOK, [Next]_vars PROVE TypeOK'
  OBVIOUS
<1>. USE NAssumption
<1>1. ASSUME NEW q \in Checks, ReportCheck(q) PROVE TypeOK'
  <2>1. CheckEvent(q) \in Event BY EventShapes
  <2>. QED BY <1>1, <2>1 DEF TypeOK, ReportCheck, Say, config, walk, snapshot
<1>2. CASE WriteQualityArtifacts
  BY <1>2 DEF TypeOK, WriteQualityArtifacts, WriteTickets, Tickets, Goto, config, walk, memory
<1>3. CASE BuildWarehouse
  BY <1>3 DEF TypeOK, BuildWarehouse, Goto, config, walk, memory, disk, snapshot
<1>4. CASE ContractViolation
  <2>1. RuleEvent("contract_violation", 0) \in Event BY EventShapes DEF EventKinds
  <2>. QED BY <1>4, <2>1 DEF TypeOK, ContractViolation, Say, Abort, config, walk, memory, snapshot
<1>5. CASE ScanFreshness
  <2>1. RuleEvent("pkyc_trigger", 0) \in Event BY EventShapes DEF EventKinds
  <2>2. log' \in Seq(Event)
    <3>1. log \in Seq(Event) BY DEF TypeOK
    <3>2. log' = log \/ log' = Append(log, RuleEvent("pkyc_trigger", 0))
      BY <1>5 DEF ScanFreshness, Say
    <3>. QED BY <2>1, <3>1, <3>2
  <2>. QED BY <1>5, <2>2 DEF TypeOK, ScanFreshness, Goto, config, walk, memory, snapshot
<1>6. CASE SkipInactive
  BY <1>6 DEF TypeOK, SkipInactive, NextRule, config, walk, memory, disk, snapshot
<1>7. CASE ConsultEnvironmentGate
  <2>. DEFINE k == IF rules[ri].envApproved THEN "env_gate_approved"
                   ELSE IF strictGating THEN "env_gate_blocked" ELSE "env_gate_warn_only"
  <2>1. k \in EventKinds BY DEF EventKinds
  <2>2. ri \in Rules BY <1>7 DEF ConsultEnvironmentGate
  <2>3. RuleEvent(k, ri) \in Event BY <2>1, <2>2, EventShapes
  <2>4. log' = Append(log, RuleEvent(k, ri)) BY <1>7 DEF ConsultEnvironmentGate, Say
  <2>5. phase' \in {"aborted", "approval"} BY <1>7 DEF ConsultEnvironmentGate, Abort, Goto
  <2>6. UNCHANGED <<config, ri, walk, memory, snapshot>> BY <1>7 DEF ConsultEnvironmentGate
  <2>. HIDE DEF k
  <2>. QED BY <2>2, <2>3, <2>4, <2>5, <2>6 DEF TypeOK, config, walk, memory, snapshot
<1>8. CASE ConsultApprovalGate
  <2>1. ri \in Rules BY <1>8 DEF ConsultApprovalGate, TypeOK
  <2>2. \A k \in {"approval_gate_approved", "approval_gate_blocked"} : RuleEvent(k, ri) \in Event
    BY <2>1, EventShapes DEF EventKinds
  <2>3. log' \in Seq(Event)
    <3>1. log \in Seq(Event) BY DEF TypeOK
    <3>2. \/ UNCHANGED log
          \/ Say(RuleEvent("approval_gate_approved", ri))
          \/ Say(RuleEvent("approval_gate_blocked", ri))
      BY <1>8 DEF ConsultApprovalGate
    <3>. QED BY <2>2, <3>1, <3>2 DEF Say
  <2>4. phase' \in {"execute", "aborted"} BY <1>8 DEF ConsultApprovalGate, Goto, Abort
  <2>5. UNCHANGED <<config, ri, walk, memory, snapshot>> BY <1>8 DEF ConsultApprovalGate
  <2>. QED BY <2>1, <2>3, <2>4, <2>5 DEF TypeOK, config, walk, memory, snapshot
<1>9. CASE RejectCallable
  BY <1>9 DEF TypeOK, RejectCallable, Abort, config, walk, memory, disk, snapshot
<1>10. CASE ScorerFails
  <2>1. ri \in Rules BY <1>10 DEF ScorerFails, TypeOK
  <2>2. RuleEvent("rule_failed", ri) \in Event BY <2>1, EventShapes DEF EventKinds
  <2>3. alerts' \in Outputs BY <1>10, <2>1 DEF ScorerFails, TypeOK, Outputs
  <2>4. log' \in Seq(Event) /\ failures' \subseteq Rules
    BY <1>10, <2>1, <2>2 DEF TypeOK, ScorerFails, Say
  <2>5. phase' = "failing" BY <1>10 DEF ScorerFails, Goto
  <2>6. UNCHANGED <<config, ri, walk, found, tickets, cases, manifest, frozen>>
    BY <1>10 DEF ScorerFails, walk
  <2>. QED BY <2>1, <2>3, <2>4, <2>5, <2>6 DEF TypeOK, config, walk
<1>11. CASE TicketFailure
  BY <1>11 DEF TypeOK, TicketFailure, WriteTickets, Tickets, Abort, NextRule, config, walk, memory
<1>12. ASSUME NEW batch \in AlertBatches, RecordAlerts(batch) PROVE TypeOK'
  <2>1. ri \in Rules BY <1>12 DEF RecordAlerts, TypeOK
  <2>2. batch \in Seq(Keys) BY BatchesAreSequences
  <2>3. alerts' \in Outputs /\ alerts'[ri] = batch
    BY <1>12, <2>1, <2>2 DEF RecordAlerts, TypeOK, Outputs
  <2>. QED BY <1>12, <2>1, <2>2, <2>3 DEF TypeOK, RecordAlerts, Goto, config, memory
<1>13. CASE RecordUnexecutable
  <2>1. ri \in Rules BY <1>13 DEF RecordUnexecutable, TypeOK
  <2>2. alerts' \in Outputs BY <1>13, <2>1 DEF RecordUnexecutable, TypeOK, Outputs
  <2>. QED BY <1>13, <2>1, <2>2 DEF TypeOK, RecordUnexecutable, NextRule, config, walk, memory
<1>14. CASE OpenCase
  <2>. DEFINE c == [rule |-> ri, key |-> alerts[ri][opened + 1]]
  <2>1. ri \in Rules /\ alerts[ri] \in Seq(Keys) BY <1>14 DEF OpenCase, TypeOK
  <2>2. opened + 1 \in DOMAIN alerts[ri] /\ alerts[ri][opened + 1] \in Keys
    BY <1>14, <2>1 DEF OpenCase, TypeOK
  <2>3. c \in CaseId BY <2>1, <2>2 DEF CaseId
  <2>5. /\ cases' = [cases EXCEPT ![c] = "open"] /\ caseIds' = Append(caseIds, c)
        /\ opened' = opened + 1 /\ phase' = "announcing"
    BY <1>14 DEF OpenCase, Goto
  <2>6. UNCHANGED <<config, ri, resolved, memory, log, tickets, alerts, manifest, frozen>>
    BY <1>14 DEF OpenCase
  <2>. HIDE DEF c
  <2>. QED BY <2>1, <2>2, <2>3, <2>5, <2>6 DEF TypeOK, config, memory, Statuses
<1>27. CASE AnnounceCase
  <2>. DEFINE c == [rule |-> ri, key |-> alerts[ri][opened]]
  <2>1. ri \in Rules /\ alerts[ri] \in Seq(Keys) /\ opened \in DOMAIN alerts[ri]
    BY <1>27 DEF AnnounceCase, TypeOK
  <2>2. c \in CaseId BY <2>1 DEF CaseId
  <2>3. CaseEvent("case_opened", c, "open") \in Event
    BY <2>2, EventShapes DEF EventKinds, Statuses
  <2>4. log' = Append(log, CaseEvent("case_opened", c, "open")) /\ phase' = "opening"
    BY <1>27 DEF AnnounceCase, Say, Goto
  <2>5. UNCHANGED <<config, ri, walk, memory, snapshot>> BY <1>27 DEF AnnounceCase
  <2>. HIDE DEF c
  <2>. QED BY <2>1, <2>3, <2>4, <2>5 DEF TypeOK, config, walk, memory, snapshot
<1>15. CASE RuleDone
  BY <1>15 DEF TypeOK, RuleDone, NextRule, config, walk, memory, disk, snapshot
<1>16. CASE RaisesSilently
  BY <1>16 DEF TypeOK, RaisesSilently, Abort, config, walk, memory, disk, snapshot
<1>17. CASE RulesDone
  BY <1>17 DEF TypeOK, RulesDone, Goto, config, walk, memory, disk, snapshot
<1>18. CASE ResolveCase
  <2>. DEFINE c == caseIds[resolved + 1]
              d == Disposition(c.rule, resolved)
  <2>1. c \in CaseId /\ resolved < Len(caseIds) BY <1>18 DEF ResolveCase, TypeOK
  <2>2. d.event \in EventKinds /\ d.to \in Statuses
    BY <2>1, DispositionShape DEF TypeOK, CaseId, EventKinds, Statuses
  <2>3. CaseEvent(d.event, c, d.to) \in Event BY <2>1, <2>2, EventShapes
  <2>4. log' = Append(log, CaseEvent(d.event, c, d.to)) /\ phase' = "settling"
    BY <1>18 DEF ResolveCase, Say, Goto
  <2>5. UNCHANGED <<config, ri, walk, memory, snapshot>> BY <1>18 DEF ResolveCase
  <2>. HIDE DEF c, d
  <2>. QED BY <2>1, <2>3, <2>4, <2>5 DEF TypeOK, config, walk, memory, snapshot
<1>28. CASE SettleCase
  <2>. DEFINE c == caseIds[resolved + 1]
              d == Disposition(c.rule, resolved)
  <2>1. c \in CaseId BY <1>28 DEF SettleCase, TypeOK
  <2>2. d.to \in Statuses
    BY <2>1, DispositionShape DEF TypeOK, CaseId, Statuses
  <2>4. /\ cases' = [cases EXCEPT ![c] = d.to] /\ resolved' = resolved + 1
        /\ phase' = "simulate"
    BY <1>28 DEF SettleCase, Goto
  <2>5. UNCHANGED <<config, ri, opened, caseIds, memory, log, tickets, alerts, manifest, frozen>>
    BY <1>28 DEF SettleCase
  <2>. HIDE DEF c, d
  <2>. QED BY <2>1, <2>2, <2>4, <2>5 DEF TypeOK, config, memory
<1>19. CASE SimulationDone
  BY <1>19 DEF TypeOK, SimulationDone, Goto, config, walk, memory, disk, snapshot
<1>20. CASE WriteReports
  BY <1>20 DEF TypeOK, WriteReports, WriteTickets, Tickets, Goto, config, walk, memory
<1>21. CASE Finalize
  <2>1. manifest' \in Manifest
    <3>1. log \in Seq(Event) /\ tickets \in Tickets /\ alerts \in Outputs
      BY <1>21 DEF TypeOK, Finalize
    <3>2. manifest' = [decisions |-> log, tickets |-> tickets, outputs |-> alerts,
                       failures |-> None]
      BY <1>21 DEF Finalize
    <3>. QED BY <3>1, <3>2 DEF Manifest
  <2>. QED BY <1>21, <2>1 DEF TypeOK, Finalize, Goto, config, walk, memory
<1>22. CASE StampManifest
  BY <1>22 DEF TypeOK, StampManifest, Goto, Manifest, config, walk, memory
<1>23. CASE Freeze
  BY <1>23 DEF TypeOK, Freeze, Goto, config, walk, memory
<1>24. CASE Killed
  BY <1>24 DEF TypeOK, Killed, Goto, config, walk, memory, disk, snapshot
<1>25. ASSUME NEW c \in CaseId, AnalystDecides(c) PROVE TypeOK'
  <2>1. CaseEvent("analyst", c, cases[c]) \in Event
    BY EventShapes DEF TypeOK, EventKinds
  <2>. QED BY <1>25, <2>1 DEF TypeOK, AnalystDecides, Say, config, call, walk, memory, snapshot
<1>29. ASSUME NEW r \in Rules, SweepRule(r) PROVE TypeOK'
  <2>1. RuleEvent("tuning_run", r) \in Event BY EventShapes DEF EventKinds
  <2>. QED BY <1>29, <2>1 DEF TypeOK, SweepRule, Say, config, call, walk, memory, snapshot
<1>26. CASE UNCHANGED vars
  BY <1>26 DEF TypeOK, vars, config, call, walk, memory, disk, snapshot
<1>. QED
  BY <1>1, <1>2, <1>3, <1>4, <1>5, <1>6, <1>7, <1>8, <1>9, <1>10, <1>11, <1>12, <1>13, <1>14,
     <1>15, <1>16, <1>17, <1>18, <1>19, <1>20, <1>21, <1>22, <1>23, <1>24, <1>25, <1>26,
     <1>27, <1>28, <1>29
  DEF Next, Engine

THEOREM TypeCorrect == Spec => []TypeOK
<1>. QED BY TypeInit, TypeStep, PTL DEF Spec

----------------------------------------------------------------------------
(* Appending one event adds what that event reports, and nothing else.     *)
LEMMA AppendReports ==
    ASSUME TypeOK, NEW e \in Event, log' = Append(log, e)
    PROVE  /\ ReportedChecks' = ReportedChecks \cup
                 {q \in Checks : e.kind = "dq_exception" /\ e.key = q}
           /\ ReportedFailures' = ReportedFailures \cup
                 {r \in Rules : e.kind = "rule_failed" /\ e.rule = r}
<1>1. log \in Seq(Event) BY DEF TypeOK
<1>2. /\ Len(log') = Len(log) + 1 /\ DOMAIN log' = 1..(Len(log) + 1) /\ DOMAIN log = 1..Len(log)
      /\ Len(log) \in Nat
      /\ \A i \in 1..Len(log) : log'[i] = log[i]
      /\ log'[Len(log) + 1] = e
  BY <1>1
<1>3. ReportedChecks' = ReportedChecks \cup {q \in Checks : e.kind = "dq_exception" /\ e.key = q}
  BY <1>2 DEF ReportedChecks
<1>4. ReportedFailures' = ReportedFailures \cup {r \in Rules : e.kind = "rule_failed" /\ e.rule = r}
  BY <1>2 DEF ReportedFailures
<1>. QED BY <1>3, <1>4

LEMMA QuietAppend ==
    ASSUME TypeOK, NEW e \in Event, log' = Append(log, e),
           e.kind \notin {"dq_exception", "rule_failed"}
    PROVE  ReportedChecks' = ReportedChecks /\ ReportedFailures' = ReportedFailures
BY AppendReports

LEMMA QuietStep ==
    ASSUME log' = log
    PROVE  ReportedChecks' = ReportedChecks /\ ReportedFailures' = ReportedFailures
BY DEF ReportedChecks, ReportedFailures

(* The accumulators of the call agree with the log, and the defect log with *)
(* the accumulators - except between a scorer's failure and its ticket, and *)
(* while there is no defect log yet.                                        *)
TicketInv ==
    /\ found = ReportedChecks /\ failures = ReportedFailures
    /\ phase = "inputs" => tickets = None
    /\ tickets = None =>
          /\ phase \in {"inputs", "aborted", "killed"} /\ failures = {}
          /\ \A i \in DOMAIN log : log[i].kind = "dq_exception"
    /\ tickets # None =>
          /\ tickets.checks = found /\ tickets.failures \subseteq failures
          /\ failures \ tickets.failures \subseteq {ri}
          /\ phase \notin {"failing", "killed"} => tickets.failures = failures

LEMMA TicketInit == Init => TicketInv
BY DEF Init, TicketInv, ReportedChecks, ReportedFailures

LEMMA TicketStep == TypeOK /\ TicketInv /\ [Next]_vars => TicketInv'
<1>. SUFFICES ASSUME TypeOK, TicketInv, [Next]_vars PROVE TicketInv'
  OBVIOUS
<1>0. /\ found = ReportedChecks /\ failures = ReportedFailures
      /\ found \subseteq Checks /\ failures \subseteq Rules
  BY DEF TicketInv, TypeOK
<1>a. ASSUME found' = found, failures' = failures, tickets' = tickets,
             ReportedChecks' = ReportedChecks, ReportedFailures' = ReportedFailures,
             phase \notin {"inputs", "failing", "aborted", "killed"}, phase' # "inputs"
      PROVE  TicketInv'
  BY <1>0, <1>a DEF TicketInv
<1>b. ASSUME tickets' = [checks |-> found, failures |-> failures],
             found' = found, failures' = failures, log' = log, phase' # "inputs"
      PROVE  TicketInv'
  <2>1. tickets' # None
    BY <1>0, <1>b, NoneAssumption DEF Tickets
  <2>. QED BY <1>0, <1>b, <2>1, QuietStep DEF TicketInv
<1>c. ASSUME NEW e \in Event, log' = Append(log, e),
             e.kind \notin {"dq_exception", "rule_failed"},
             found' = found, failures' = failures, tickets' = tickets,
             phase \notin {"inputs", "failing", "aborted", "killed"}, phase' # "inputs"
      PROVE  TicketInv'
  BY <1>a, <1>c, QuietAppend
<1>d. ASSUME UNCHANGED <<found, failures, tickets, log, ri>>, phase' \in {"aborted", "killed"},
             phase \in {"failing", "killed"} => phase' = "killed"
      PROVE  TicketInv'
  BY <1>0, <1>d, QuietStep DEF TicketInv
<1>1. ASSUME NEW q \in Checks, ReportCheck(q) PROVE TicketInv'
  <2>1. CheckEvent(q) \in Event BY EventShapes
  <2>2. CheckEvent(q).kind = "dq_exception" /\ CheckEvent(q).key = q BY DEF CheckEvent
  <2>3. log' = Append(log, CheckEvent(q)) BY <1>1 DEF ReportCheck, Say
  <2>4. ReportedChecks' = ReportedChecks \cup {q} /\ ReportedFailures' = ReportedFailures
    BY <2>1, <2>2, <2>3, AppendReports
  <2>5. /\ phase = "inputs" /\ phase' = phase /\ found' = found \cup {q}
        /\ UNCHANGED <<failures, tickets>>
    BY <1>1 DEF ReportCheck, snapshot
  <2>6. tickets = None /\ failures = {} /\ \A i \in DOMAIN log : log[i].kind = "dq_exception"
    BY <2>5 DEF TicketInv
  <2>7. \A i \in DOMAIN log' : log'[i].kind = "dq_exception"
    <3>1. log \in Seq(Event) BY DEF TypeOK
    <3>. QED BY <2>1, <2>2, <2>3, <2>6, <3>1
  <2>. QED BY <1>0, <2>4, <2>5, <2>6, <2>7 DEF TicketInv
<1>2. CASE WriteQualityArtifacts
  BY <1>2, <1>b DEF WriteQualityArtifacts, WriteTickets, Goto, memory, TicketInv
<1>3. CASE BuildWarehouse
  BY <1>3, <1>a, QuietStep DEF BuildWarehouse, Goto, memory, disk, snapshot
<1>4. CASE ContractViolation
  <2>1. RuleEvent("contract_violation", 0) \in Event BY EventShapes, NAssumption DEF EventKinds
  <2>. QED BY <1>4, <1>c, <2>1 DEF ContractViolation, Say, Abort, memory, snapshot, RuleEvent
<1>5. CASE ScanFreshness
  <2>1. RuleEvent("pkyc_trigger", 0) \in Event BY EventShapes, NAssumption DEF EventKinds
  <2>2. /\ found' = found /\ failures' = failures /\ tickets' = tickets
        /\ phase = "freshness" /\ phase' = "rules"
        /\ UNCHANGED log \/ log' = Append(log, RuleEvent("pkyc_trigger", 0))
    BY <1>5 DEF ScanFreshness, Say, Goto, memory, snapshot
  <2>3. RuleEvent("pkyc_trigger", 0).kind = "pkyc_trigger" BY DEF RuleEvent
  <2>4. CASE UNCHANGED log BY <1>a, <2>2, <2>4, QuietStep
  <2>5. CASE log' = Append(log, RuleEvent("pkyc_trigger", 0)) BY <1>c, <2>1, <2>2, <2>3, <2>5
  <2>. QED BY <2>2, <2>4, <2>5
<1>6. CASE SkipInactive
  BY <1>6, <1>a, QuietStep DEF SkipInactive, NextRule, memory, disk, snapshot
<1>7. CASE ConsultEnvironmentGate
  <2>1. PICK k \in {"env_gate_approved", "env_gate_blocked", "env_gate_warn_only"} :
           log' = Append(log, RuleEvent(k, ri))
    BY <1>7 DEF ConsultEnvironmentGate, Say
  <2>2. RuleEvent(k, ri) \in Event /\ RuleEvent(k, ri).kind = k
    BY <1>7, EventShapes DEF EventKinds, RuleEvent, ConsultEnvironmentGate
  <2>3. /\ found' = found /\ failures' = failures /\ tickets' = tickets
        /\ phase = "rules" /\ phase' # "inputs"
    BY <1>7 DEF ConsultEnvironmentGate, Abort, Goto, memory, snapshot
  <2>. QED BY <1>c, <2>1, <2>2, <2>3
<1>8. CASE ConsultApprovalGate
  <2>1. /\ found' = found /\ failures' = failures /\ tickets' = tickets
        /\ phase = "approval" /\ phase' # "inputs"
        /\ \/ UNCHANGED log
           \/ \E k \in {"approval_gate_approved", "approval_gate_blocked"} :
                 log' = Append(log, RuleEvent(k, ri))
    BY <1>8 DEF ConsultApprovalGate, Say, Abort, Goto, memory, snapshot
  <2>2. ri \in Rules BY <2>1 DEF TypeOK
  <2>3. CASE UNCHANGED log BY <1>a, <2>1, <2>3, QuietStep
  <2>4. ASSUME NEW k \in {"approval_gate_approved", "approval_gate_blocked"},
               log' = Append(log, RuleEvent(k, ri))
        PROVE  TicketInv'
    <3>1. RuleEvent(k, ri) \in Event /\ RuleEvent(k, ri).kind = k
      BY <2>2, EventShapes DEF EventKinds, RuleEvent
    <3>. QED BY <1>c, <2>1, <2>4, <3>1
  <2>. QED BY <2>1, <2>3, <2>4
<1>9. CASE RejectCallable
  BY <1>9, <1>a, QuietStep DEF RejectCallable, Abort, memory, disk, snapshot
<1>10. CASE ScorerFails
  <2>1. ri \in Rules /\ phase = "execute" BY <1>10 DEF ScorerFails, TypeOK
  <2>2. /\ RuleEvent("rule_failed", ri) \in Event
        /\ RuleEvent("rule_failed", ri).kind = "rule_failed" /\ RuleEvent("rule_failed", ri).rule = ri
    BY <2>1, EventShapes DEF EventKinds, RuleEvent
  <2>3. log' = Append(log, RuleEvent("rule_failed", ri)) BY <1>10 DEF ScorerFails, Say
  <2>4. ReportedChecks' = ReportedChecks /\ ReportedFailures' = ReportedFailures \cup {ri}
    BY <2>1, <2>2, <2>3, AppendReports
  <2>5. /\ failures' = failures \cup {ri} /\ UNCHANGED <<ri, found, tickets>>
        /\ phase' = "failing"
    BY <1>10 DEF ScorerFails, Goto
  <2>6. tickets # None /\ tickets.checks = found /\ tickets.failures = failures
    BY <2>1 DEF TicketInv
  <2>. QED BY <1>0, <2>4, <2>5, <2>6 DEF TicketInv
<1>11. CASE TicketFailure
  BY <1>11, <1>b DEF TicketFailure, WriteTickets, Abort, NextRule, memory
<1>12. ASSUME NEW batch \in AlertBatches, RecordAlerts(batch) PROVE TicketInv'
  BY <1>12, <1>a, QuietStep DEF RecordAlerts, Goto, memory
<1>13. CASE RecordUnexecutable
  BY <1>13, <1>a, QuietStep DEF RecordUnexecutable, NextRule, memory
<1>14. CASE OpenCase
  BY <1>14, <1>a, QuietStep DEF OpenCase, Goto, memory
<1>27. CASE AnnounceCase
  <2>. DEFINE c == [rule |-> ri, key |-> alerts[ri][opened]]
  <2>1. ri \in Rules /\ alerts[ri] \in Seq(Keys) /\ opened \in DOMAIN alerts[ri]
    BY <1>27 DEF AnnounceCase, TypeOK
  <2>3. c \in CaseId BY <2>1 DEF CaseId
  <2>4. /\ CaseEvent("case_opened", c, "open") \in Event
        /\ CaseEvent("case_opened", c, "open").kind = "case_opened"
    BY <2>3, EventShapes DEF EventKinds, Statuses, CaseEvent
  <2>5. /\ log' = Append(log, CaseEvent("case_opened", c, "open"))
        /\ UNCHANGED <<found, failures, tickets>> /\ phase = "announcing" /\ phase' = "opening"
    BY <1>27 DEF AnnounceCase, Say, Goto, memory, snapshot
  <2>. QED BY <1>c, <2>4, <2>5
<1>15. CASE RuleDone
  BY <1>15, <1>a, QuietStep DEF RuleDone, NextRule, memory, disk, snapshot
<1>16. CASE RaisesSilently
  BY <1>16, <1>d DEF RaisesSilently, Abort, memory, disk, snapshot
<1>17. CASE RulesDone
  BY <1>17, <1>a, QuietStep DEF RulesDone, Goto, memory, disk, snapshot
<1>18. CASE ResolveCase
  <2>. DEFINE c == caseIds[resolved + 1]
              d == Disposition(c.rule, resolved)
  <2>1. c \in CaseId BY <1>18 DEF ResolveCase, TypeOK
  <2>2. d.event \in {"escalated_to_str", "escalated", "closed"} /\ d.to \in Statuses
    BY <2>1, DispositionShape DEF TypeOK, CaseId, Statuses
  <2>3. CaseEvent(d.event, c, d.to) \in Event /\ CaseEvent(d.event, c, d.to).kind = d.event
    BY <2>1, <2>2, EventShapes DEF EventKinds, CaseEvent
  <2>4. /\ log' = Append(log, CaseEvent(d.event, c, d.to))
        /\ UNCHANGED <<found, failures, tickets>> /\ phase = "simulate" /\ phase' = "settling"
    BY <1>18 DEF ResolveCase, Say, Goto, memory, snapshot
  <2>. QED BY <1>c, <2>2, <2>3, <2>4
<1>28. CASE SettleCase
  BY <1>28, <1>a, QuietStep DEF SettleCase, Goto, memory
<1>19. CASE SimulationDone
  BY <1>19, <1>a, QuietStep DEF SimulationDone, Goto, memory, disk, snapshot
<1>20. CASE WriteReports
  BY <1>20, <1>b DEF WriteReports, WriteTickets, Goto, memory
<1>21. CASE Finalize
  BY <1>21, <1>a, QuietStep DEF Finalize, Goto, memory
<1>22. CASE StampManifest
  BY <1>22, <1>a, QuietStep DEF StampManifest, Goto, memory
<1>23. CASE Freeze
  BY <1>23, <1>a, QuietStep DEF Freeze, Goto, memory
<1>24. CASE Killed
  BY <1>24, <1>d DEF Killed, Goto, memory, disk, snapshot
<1>25. ASSUME NEW c \in CaseId, AnalystDecides(c) PROVE TicketInv'
  <2>1. /\ CaseEvent("analyst", c, cases[c]) \in Event
        /\ CaseEvent("analyst", c, cases[c]).kind = "analyst"
    BY EventShapes DEF TypeOK, EventKinds, CaseEvent
  <2>. QED BY <1>25, <1>c, <2>1 DEF AnalystDecides, Say, call, memory, snapshot
<1>29. ASSUME NEW r \in Rules, SweepRule(r) PROVE TicketInv'
  <2>1. /\ RuleEvent("tuning_run", r) \in Event
        /\ RuleEvent("tuning_run", r).kind = "tuning_run"
    BY EventShapes DEF EventKinds, RuleEvent
  <2>. QED BY <1>29, <1>c, <2>1 DEF SweepRule, Say, call, memory, snapshot
<1>26. CASE UNCHANGED vars
  BY <1>0, <1>26, QuietStep DEF TicketInv, vars, config, call, walk, memory, disk, snapshot
<1>. QED
  BY <1>1, <1>2, <1>3, <1>4, <1>5, <1>6, <1>7, <1>8, <1>9, <1>10, <1>11, <1>12, <1>13, <1>14,
     <1>15, <1>16, <1>17, <1>18, <1>19, <1>20, <1>21, <1>22, <1>23, <1>24, <1>25, <1>26,
     <1>27, <1>28, <1>29
  DEF Next, Engine

----------------------------------------------------------------------------
(* Sealing.  The steps of the call before finalize() neither touch the      *)
(* manifest nor freeze anything.                                            *)
Working == {"inputs", "warehouse", "freshness", "rules", "approval", "execute",
            "failing", "opening", "announcing", "simulate", "settling", "report"}

Work ==
    \/ \E q \in Checks : ReportCheck(q)
    \/ WriteQualityArtifacts \/ BuildWarehouse \/ ContractViolation
    \/ ScanFreshness
    \/ SkipInactive \/ ConsultEnvironmentGate \/ ConsultApprovalGate
    \/ RejectCallable \/ ScorerFails \/ TicketFailure
    \/ \E batch \in AlertBatches : RecordAlerts(batch)
    \/ RecordUnexecutable \/ OpenCase \/ AnnounceCase \/ RuleDone \/ RaisesSilently
    \/ RulesDone \/ ResolveCase \/ SettleCase \/ SimulationDone \/ WriteReports

LEMMA WorkLeavesSeal ==
    ASSUME Work
    PROVE  /\ phase \in Working /\ UNCHANGED <<manifest, frozen>>
           /\ phase' \in Working \cup {"finalize", "aborted"}
<1>1. ASSUME NEW q \in Checks, ReportCheck(q)
      PROVE  phase = "inputs" /\ UNCHANGED <<phase, manifest, frozen>>
  BY <1>1 DEF ReportCheck, snapshot
<1>2. CASE WriteQualityArtifacts BY <1>2 DEF WriteQualityArtifacts, Goto, Working
<1>3. CASE BuildWarehouse BY <1>3 DEF BuildWarehouse, Goto, disk, snapshot, Working
<1>4. CASE ContractViolation BY <1>4 DEF ContractViolation, Abort, snapshot, Working
<1>5. CASE ScanFreshness BY <1>5 DEF ScanFreshness, Goto, snapshot, Working
<1>6. CASE SkipInactive BY <1>6 DEF SkipInactive, NextRule, disk, snapshot, Working
<1>7. CASE ConsultEnvironmentGate
  BY <1>7 DEF ConsultEnvironmentGate, Goto, Abort, snapshot, Working
<1>8. CASE ConsultApprovalGate BY <1>8 DEF ConsultApprovalGate, Goto, Abort, snapshot, Working
<1>9. CASE RejectCallable BY <1>9 DEF RejectCallable, Abort, disk, snapshot, Working
<1>10. CASE ScorerFails BY <1>10 DEF ScorerFails, Goto, Working
<1>11. CASE TicketFailure BY <1>11 DEF TicketFailure, NextRule, Abort, Working
<1>12. ASSUME NEW batch \in AlertBatches, RecordAlerts(batch)
       PROVE  phase = "execute" /\ phase' = "opening" /\ UNCHANGED <<manifest, frozen>>
  BY <1>12 DEF RecordAlerts, Goto
<1>13. CASE RecordUnexecutable BY <1>13 DEF RecordUnexecutable, NextRule, Working
<1>14. CASE OpenCase BY <1>14 DEF OpenCase, Goto, Working
<1>27. CASE AnnounceCase BY <1>27 DEF AnnounceCase, Goto, snapshot, Working
<1>15. CASE RuleDone BY <1>15 DEF RuleDone, NextRule, disk, snapshot, Working
<1>16. CASE RaisesSilently BY <1>16 DEF RaisesSilently, Abort, disk, snapshot, Working
<1>17. CASE RulesDone BY <1>17 DEF RulesDone, Goto, disk, snapshot, Working
<1>18. CASE ResolveCase BY <1>18 DEF ResolveCase, Goto, snapshot, Working
<1>28. CASE SettleCase BY <1>28 DEF SettleCase, Goto, Working
<1>19. CASE SimulationDone BY <1>19 DEF SimulationDone, Goto, disk, snapshot, Working
<1>20. CASE WriteReports BY <1>20 DEF WriteReports, Goto, Working
<1>. QED
  BY <1>1, <1>2, <1>3, <1>4, <1>5, <1>6, <1>7, <1>8, <1>9, <1>10, <1>11, <1>12, <1>13, <1>14,
     <1>15, <1>16, <1>17, <1>18, <1>19, <1>20, <1>27, <1>28 DEF Work, Working

(* decisions.jsonl is only ever opened for appending, one event at a time. *)
LEMMA OnlyAppends ==
    ASSUME [Next]_vars
    PROVE  log' = log \/ \E e : log' = Append(log, e)
<1>. USE DEF Say
<1>1. ASSUME NEW q \in Checks, ReportCheck(q) PROVE \E e : log' = Append(log, e)
  BY <1>1 DEF ReportCheck
<1>2. CASE WriteQualityArtifacts BY <1>2 DEF WriteQualityArtifacts
<1>3. CASE BuildWarehouse BY <1>3 DEF BuildWarehouse, disk
<1>4. CASE ContractViolation BY <1>4 DEF ContractViolation
<1>5. CASE ScanFreshness BY <1>5 DEF ScanFreshness
<1>6. CASE SkipInactive BY <1>6 DEF SkipInactive, disk
<1>7. CASE ConsultEnvironmentGate BY <1>7 DEF ConsultEnvironmentGate
<1>8. CASE ConsultApprovalGate BY <1>8 DEF ConsultApprovalGate
<1>9. CASE RejectCallable BY <1>9 DEF RejectCallable, disk
<1>10. CASE ScorerFails BY <1>10 DEF ScorerFails
<1>11. CASE TicketFailure BY <1>11 DEF TicketFailure
<1>12. ASSUME NEW batch \in AlertBatches, RecordAlerts(batch) PROVE log' = log
  BY <1>12 DEF RecordAlerts
<1>13. CASE RecordUnexecutable BY <1>13 DEF RecordUnexecutable
<1>14. CASE OpenCase BY <1>14 DEF OpenCase
<1>27. CASE AnnounceCase BY <1>27 DEF AnnounceCase
<1>15. CASE RuleDone BY <1>15 DEF RuleDone, disk
<1>16. CASE RaisesSilently BY <1>16 DEF RaisesSilently, disk
<1>17. CASE RulesDone BY <1>17 DEF RulesDone, disk
<1>18. CASE ResolveCase BY <1>18 DEF ResolveCase
<1>28. CASE SettleCase BY <1>28 DEF SettleCase
<1>19. CASE SimulationDone BY <1>19 DEF SimulationDone, disk
<1>20. CASE WriteReports BY <1>20 DEF WriteReports
<1>21. CASE Finalize BY <1>21 DEF Finalize
<1>22. CASE StampManifest BY <1>22 DEF StampManifest
<1>23. CASE Freeze BY <1>23 DEF Freeze
<1>24. CASE Killed BY <1>24 DEF Killed, disk
<1>25. ASSUME NEW c \in CaseId, AnalystDecides(c) PROVE \E e : log' = Append(log, e)
  BY <1>25 DEF AnalystDecides
<1>29. ASSUME NEW r \in Rules, SweepRule(r) PROVE \E e : log' = Append(log, e)
  BY <1>29 DEF SweepRule
<1>26. CASE UNCHANGED vars BY <1>26 DEF vars, disk
<1>. QED
  BY <1>1, <1>2, <1>3, <1>4, <1>5, <1>6, <1>7, <1>8, <1>9, <1>10, <1>11, <1>12, <1>13, <1>14,
     <1>15, <1>16, <1>17, <1>18, <1>19, <1>20, <1>21, <1>22, <1>23, <1>24, <1>25, <1>26,
     <1>27, <1>28, <1>29
  DEF Next, Engine

(* The manifest exists only from finalize() on, and what it pins is what is *)
(* on disk.                                                                 *)
SealInv ==
    /\ phase \in Working \cup {"finalize", "aborted"} => manifest = None /\ ~frozen
    /\ frozen => phase = "done"
    /\ phase \in {"stamped", "done"} => manifest.failures = ReportedFailures
    /\ PinnedArtifactsHold

LEMMA SealInit == Init => SealInv
BY DEF Init, SealInv, PinnedArtifactsHold

LEMMA SealStep == TypeOK /\ TicketInv /\ SealInv /\ [Next]_vars => SealInv'
<1>. SUFFICES ASSUME TypeOK, TicketInv, SealInv, [Next]_vars PROVE SealInv'
  OBVIOUS
<1>0. log \in Seq(Event) BY DEF TypeOK
<1>1. CASE Work
  BY <1>1, WorkLeavesSeal DEF SealInv, PinnedArtifactsHold, Working
<1>2. CASE Finalize
  <2>1. /\ phase = "finalize" /\ phase' = "pinned" /\ UNCHANGED <<log, tickets, alerts, frozen>>
        /\ manifest' = [decisions |-> log, tickets |-> tickets, outputs |-> alerts,
                        failures |-> None]
    BY <1>2 DEF Finalize, Goto
  <2>2. ~frozen BY <2>1 DEF SealInv
  <2>. QED BY <1>0, <2>1, <2>2 DEF SealInv, PinnedArtifactsHold, Working
<1>3. CASE StampManifest
  <2>1. /\ phase = "pinned" /\ phase' = "stamped" /\ UNCHANGED <<log, tickets, alerts, frozen>>
        /\ manifest' = [manifest EXCEPT !.failures = failures]
    BY <1>3 DEF StampManifest, Goto
  <2>2. manifest \in Manifest /\ manifest # None
    BY <2>1, NoneAssumption DEF TypeOK
  <2>3. /\ manifest'.decisions = manifest.decisions /\ manifest'.tickets = manifest.tickets
        /\ manifest'.outputs = manifest.outputs /\ manifest'.failures = failures
    BY <2>1, <2>2 DEF Manifest
  <2>4. failures = ReportedFailures /\ ReportedFailures' = ReportedFailures
    BY <2>1, QuietStep DEF TicketInv
  <2>. QED BY <2>1, <2>2, <2>3, <2>4 DEF SealInv, PinnedArtifactsHold, Working
<1>4. CASE Freeze
  <2>1. /\ phase = "stamped" /\ phase' = "done" /\ frozen' = TRUE
        /\ UNCHANGED <<log, tickets, alerts, manifest>>
    BY <1>4 DEF Freeze, Goto
  <2>2. manifest # None /\ manifest.failures = ReportedFailures
    BY <2>1, NoneAssumption DEF TypeOK, SealInv
  <2>. QED BY <2>1, <2>2, QuietStep DEF SealInv, PinnedArtifactsHold, Working
<1>5. CASE Killed
  BY <1>5, QuietStep DEF Killed, Goto, SealInv, PinnedArtifactsHold, Working, disk, snapshot
<1>8. ASSUME NEW e \in Event, e.kind \in LaterKinds, phase = "done", log' = Append(log, e),
             UNCHANGED <<phase, manifest, tickets, alerts, frozen>>
      PROVE  SealInv'
  <2>3. ReportedFailures' = ReportedFailures BY <1>8, QuietAppend DEF LaterKinds
  <2>4. /\ Len(log') = Len(log) + 1 /\ log'[Len(log) + 1].kind \in LaterKinds
        /\ \A i \in 1..Len(log) : log'[i] = log[i]
        /\ DOMAIN log' = 1..(Len(log) + 1) /\ DOMAIN log = 1..Len(log) /\ Len(log) \in Nat
    BY <1>0, <1>8
  <2>5. manifest \in Manifest /\ manifest # None BY <1>8, NoneAssumption DEF TypeOK
  <2>6. Len(manifest.decisions) \in Nat /\ Len(manifest.decisions) <= Len(log)
    BY <2>5 DEF SealInv, PinnedArtifactsHold, Manifest
  <2>7. \A i \in DOMAIN log' : IF i <= Len(manifest.decisions) THEN log'[i] = manifest.decisions[i]
                               ELSE log'[i].kind \in LaterKinds
    BY <2>4, <2>5, <2>6 DEF SealInv, PinnedArtifactsHold
  <2>. QED BY <1>8, <2>3, <2>4, <2>5, <2>6, <2>7
    DEF SealInv, PinnedArtifactsHold, Working, LaterKinds
<1>6. ASSUME NEW c \in CaseId, AnalystDecides(c) PROVE SealInv'
  <2>1. CaseEvent("analyst", c, cases[c]) \in Event /\ CaseEvent("analyst", c, cases[c]).kind = "analyst"
    BY EventShapes DEF TypeOK, EventKinds, CaseEvent
  <2>. QED BY <1>6, <1>8, <2>1 DEF AnalystDecides, Say, call, snapshot, LaterKinds
<1>9. ASSUME NEW r \in Rules, SweepRule(r) PROVE SealInv'
  <2>1. RuleEvent("tuning_run", r) \in Event /\ RuleEvent("tuning_run", r).kind = "tuning_run"
    BY EventShapes DEF EventKinds, RuleEvent
  <2>. QED BY <1>9, <1>8, <2>1 DEF SweepRule, Say, call, snapshot, LaterKinds
<1>7. CASE UNCHANGED vars
  BY <1>7, QuietStep DEF vars, call, disk, snapshot, SealInv, PinnedArtifactsHold
<1>. QED BY <1>1, <1>2, <1>3, <1>4, <1>5, <1>6, <1>7, <1>9 DEF Next, Engine, Work

(* However a run ends, its defect log has a ticket for every issue its log *)
(* reports, up to the scorer failure being written; only a run stopped     *)
(* before there is a defect log lacks them, and that run is never sealed.  *)
THEOREM IssuesTicketed == Spec => []EveryIssueTicketed
<1>1. TypeOK /\ TicketInv /\ SealInv => EveryIssueTicketed
  <2>. SUFFICES ASSUME TypeOK, TicketInv, SealInv PROVE EveryIssueTicketed
    OBVIOUS
  <2>1. tickets = None => manifest = None
    BY NoneAssumption DEF SealInv, PinnedArtifactsHold, TypeOK, Manifest
  <2>. QED BY <2>1 DEF TicketInv, EveryIssueTicketed
<1>. QED BY <1>1, TypeInit, TypeStep, TicketInit, TicketStep, SealInit, SealStep, PTL DEF Spec

(* From finalize() on, the manifest's pins and the artifacts on disk agree, *)
(* whatever the dashboard appends afterwards, and no snapshot is frozen     *)
(* under a manifest that lacks the scorer failures.                         *)
THEOREM PinsHold == Spec => []PinnedArtifactsHold
<1>1. SealInv => PinnedArtifactsHold BY DEF SealInv
<1>. QED
  BY <1>1, TypeInit, TypeStep, TicketInit, TicketStep, SealInit, SealStep, PTL DEF Spec

(* The run directory implements the seal-once, append-only evidence log.    *)
THEOREM RefinesEvidenceLog == Spec => ImplementsEvidenceLog
<1>1. Init => Evidence!Init
  BY DEF Init, Evidence!Init
<1>2. TypeOK /\ SealInv /\ [Next]_vars => [Evidence!Next]_(Evidence!vars)
  <2>. SUFFICES ASSUME TypeOK, SealInv, [Next]_vars PROVE Evidence!Next \/ UNCHANGED Evidence!vars
    OBVIOUS
  <2>1. Evidence!Continues(log, log')
    <3>1. log \in Seq(Event) BY DEF TypeOK
    <3>2. CASE log' = log BY <3>1, <3>2 DEF Evidence!Continues
    <3>3. ASSUME NEW e, log' = Append(log, e) PROVE Evidence!Continues(log, log')
      BY <3>1, <3>3 DEF Evidence!Continues
    <3>. QED BY <3>2, <3>3, OnlyAppends
  <2>2. CASE UNCHANGED manifest
    BY <2>1, <2>2 DEF Evidence!Next, Evidence!Grow
  <2>3. CASE Finalize
    <3>1. manifest = None BY <2>3 DEF Finalize, SealInv
    <3>2. /\ manifest' = [decisions |-> log, tickets |-> tickets, outputs |-> alerts,
                         failures |-> None]
          /\ log' = log
      BY <2>3 DEF Finalize
    <3>3. manifest' \in Manifest
      <4>1. log \in Seq(Event) /\ tickets \in Tickets /\ alerts \in Outputs
        BY <2>3 DEF TypeOK, Finalize
      <4>. QED BY <3>2, <4>1 DEF Manifest
    <3>4. manifest' # None /\ manifest'.decisions = log BY <3>2, <3>3, NoneAssumption
    <3>. QED BY <3>1, <3>2, <3>4 DEF Evidence!Next, Evidence!Seal
  <2>4. CASE StampManifest
    <3>1. manifest \in Manifest /\ manifest' = [manifest EXCEPT !.failures = failures]
      BY <2>4 DEF TypeOK, StampManifest
    <3>2. failures \subseteq Rules BY DEF TypeOK
    <3>3. manifest' \in Manifest /\ manifest'.decisions = manifest.decisions
      BY <3>1, <3>2 DEF Manifest
    <3>. QED BY <2>1, <3>1, <3>3, NoneAssumption DEF Evidence!Next, Evidence!Grow
  <2>5. ASSUME ~Finalize, ~StampManifest PROVE UNCHANGED manifest
    <3>1. CASE Work BY <3>1, WorkLeavesSeal
    <3>2. CASE Freeze BY <3>2 DEF Freeze
    <3>3. CASE Killed BY <3>3 DEF Killed, disk, snapshot
    <3>4. ASSUME NEW c \in CaseId, AnalystDecides(c) PROVE UNCHANGED manifest
      BY <3>4 DEF AnalystDecides, snapshot
    <3>5. CASE UNCHANGED vars BY <3>5 DEF vars, disk, snapshot
    <3>6. ASSUME NEW r \in Rules, SweepRule(r) PROVE UNCHANGED manifest
      BY <3>6 DEF SweepRule, snapshot
    <3>. QED BY <2>5, <3>1, <3>2, <3>3, <3>4, <3>5, <3>6 DEF Next, Engine, Work
  <2>. QED BY <2>2, <2>3, <2>4, <2>5
<1>. QED
  BY <1>1, <1>2, TypeInit, TypeStep, TicketInit, TicketStep, SealInit, SealStep, PTL
  DEF Spec, ImplementsEvidenceLog, Evidence!Spec

----------------------------------------------------------------------------
(* What a step may do to the end of the log: only a contract violation, a  *)
(* blocked gate and a scorer failure append an event that can stop a run,  *)
(* and the first two abort at once.                                        *)
LEMMA EndsOfLogs ==
    ASSUME TypeOK, SealInv, [Next]_vars
    PROVE  \/ UNCHANGED <<log, manifest, phase, strictPy>>
           \/ /\ phase \notin {"aborted", "killed"} /\ strictPy' = strictPy
              /\ phase = "failing" =>
                    /\ UNCHANGED <<log, manifest>>
                    /\ strictPy => phase' \in {"aborted", "killed"}
              /\ \/ log' = log
                 \/ \E e \in Event :
                       /\ log' = Append(log, e)
                       /\ e.kind \in Stopping =>
                             manifest' = None /\ phase' \in {"aborted", "failing"}
                       /\ e.kind \in Stopping /\ phase' = "failing" => strictPy
<1>. DEFINE Goal ==
        /\ phase \notin {"aborted", "killed"} /\ strictPy' = strictPy
        /\ phase = "failing" =>
              /\ UNCHANGED <<log, manifest>>
              /\ strictPy => phase' \in {"aborted", "killed"}
        /\ \/ log' = log
           \/ \E e \in Event :
                 /\ log' = Append(log, e)
                 /\ e.kind \in Stopping => manifest' = None /\ phase' \in {"aborted", "failing"}
                 /\ e.kind \in Stopping /\ phase' = "failing" => strictPy
<1>. SUFFICES Goal \/ UNCHANGED <<log, manifest, phase, strictPy>>
  OBVIOUS
<1>q. ASSUME strictPy' = strictPy, log' = log, phase \notin {"aborted", "killed", "failing"}
      PROVE  Goal
  BY <1>q
<1>s. ASSUME NEW e \in Event, log' = Append(log, e), strictPy' = strictPy,
             e.kind \in {"dq_exception", "pkyc_trigger", "env_gate_approved",
                         "env_gate_warn_only", "approval_gate_approved", "case_opened",
                         "escalated_to_str", "escalated", "closed", "analyst",
                         "tuning_run"},
             phase \notin {"aborted", "killed", "failing"}
      PROVE  Goal
  BY <1>s DEF Stopping
<1>1. ASSUME NEW q \in Checks, ReportCheck(q) PROVE Goal
  <2>1. CheckEvent(q) \in Event /\ CheckEvent(q).kind = "dq_exception"
    BY EventShapes DEF CheckEvent
  <2>. HIDE DEF Goal
  <2>. QED BY <1>1, <2>1, <1>s DEF ReportCheck, Say, config
<1>2. CASE WriteQualityArtifacts BY <1>2, <1>q DEF WriteQualityArtifacts, config
<1>3. CASE BuildWarehouse BY <1>3, <1>q DEF BuildWarehouse, config, disk
<1>4. CASE ContractViolation
  <2>1. RuleEvent("contract_violation", 0) \in Event BY EventShapes, NAssumption DEF EventKinds
  <2>2. manifest = None /\ manifest' = manifest
    BY <1>4 DEF ContractViolation, SealInv, Working, snapshot
  <2>. QED BY <1>4, <2>1, <2>2 DEF ContractViolation, Say, Abort, config
<1>5. CASE ScanFreshness
  <2>1. RuleEvent("pkyc_trigger", 0) \in Event /\ RuleEvent("pkyc_trigger", 0).kind = "pkyc_trigger"
    BY EventShapes, NAssumption DEF EventKinds, RuleEvent
  <2>2. phase = "freshness" /\ strictPy' = strictPy
        /\ (log' = log \/ log' = Append(log, RuleEvent("pkyc_trigger", 0)))
    BY <1>5 DEF ScanFreshness, Say, config
  <2>3. CASE log' = log BY <2>2, <2>3, <1>q
  <2>4. CASE log' = Append(log, RuleEvent("pkyc_trigger", 0))
    <3>. HIDE DEF Goal
    <3>. QED BY <2>1, <2>2, <2>4, <1>s
  <2>. QED BY <2>2, <2>3, <2>4
<1>6. CASE SkipInactive BY <1>6, <1>q DEF SkipInactive, config, disk
<1>7. CASE ConsultEnvironmentGate
  <2>1. PICK k \in {"env_gate_approved", "env_gate_blocked", "env_gate_warn_only"} :
           /\ log' = Append(log, RuleEvent(k, ri))
           /\ k = "env_gate_blocked" => phase' = "aborted"
    BY <1>7 DEF ConsultEnvironmentGate, Say, Abort
  <2>2. RuleEvent(k, ri) \in Event /\ RuleEvent(k, ri).kind = k
    BY <1>7, EventShapes DEF EventKinds, RuleEvent, ConsultEnvironmentGate
  <2>3. phase = "rules" /\ manifest = None /\ manifest' = manifest /\ strictPy' = strictPy
    BY <1>7 DEF ConsultEnvironmentGate, SealInv, Working, snapshot, config
  <2>4. phase' # "failing" BY <1>7 DEF ConsultEnvironmentGate, Abort, Goto
  <2>. QED BY <2>1, <2>2, <2>3, <2>4 DEF Stopping
<1>8. CASE ConsultApprovalGate
  <2>1. phase = "approval" /\ manifest = None /\ manifest' = manifest /\ strictPy' = strictPy
    BY <1>8 DEF ConsultApprovalGate, SealInv, Working, snapshot, config
  <2>2. phase' # "failing" BY <1>8 DEF ConsultApprovalGate, Abort, Goto
  <2>3. \/ log' = log
        \/ \E k \in {"approval_gate_approved", "approval_gate_blocked"} :
              /\ log' = Append(log, RuleEvent(k, ri))
              /\ k = "approval_gate_blocked" => phase' = "aborted"
    BY <1>8 DEF ConsultApprovalGate, Say, Abort
  <2>4. \A k \in {"approval_gate_approved", "approval_gate_blocked"} :
           RuleEvent(k, ri) \in Event /\ RuleEvent(k, ri).kind = k
    BY <2>1, EventShapes DEF EventKinds, RuleEvent, TypeOK
  <2>. QED BY <2>1, <2>2, <2>3, <2>4 DEF Stopping
<1>9. CASE RejectCallable BY <1>9, <1>q DEF RejectCallable, config, disk
<1>10. CASE ScorerFails
  <2>1. ri \in Rules /\ phase = "execute" /\ phase' = "failing" /\ strictPy' = strictPy
        /\ log' = Append(log, RuleEvent("rule_failed", ri)) /\ manifest' = manifest
    BY <1>10 DEF ScorerFails, TypeOK, Say, Goto, config
  <2>2. RuleEvent("rule_failed", ri) \in Event /\ RuleEvent("rule_failed", ri).kind = "rule_failed"
    BY <2>1, EventShapes DEF EventKinds, RuleEvent
  <2>3. manifest = None BY <2>1 DEF SealInv, Working
  <2>. QED BY <2>1, <2>2, <2>3 DEF Stopping
<1>11. CASE TicketFailure
  BY <1>11 DEF TicketFailure, Abort, config
<1>12. ASSUME NEW batch \in AlertBatches, RecordAlerts(batch) PROVE Goal
  BY <1>12, <1>q DEF RecordAlerts, config
<1>13. CASE RecordUnexecutable BY <1>13, <1>q DEF RecordUnexecutable, config
<1>14. CASE OpenCase BY <1>14, <1>q DEF OpenCase, config
<1>27. CASE AnnounceCase
  <2>. DEFINE c == [rule |-> ri, key |-> alerts[ri][opened]]
  <2>1. ri \in Rules /\ alerts[ri] \in Seq(Keys) /\ opened \in DOMAIN alerts[ri]
    BY <1>27 DEF AnnounceCase, TypeOK
  <2>2. c \in CaseId BY <2>1 DEF CaseId
  <2>3. /\ CaseEvent("case_opened", c, "open") \in Event
        /\ CaseEvent("case_opened", c, "open").kind = "case_opened"
    BY <2>2, EventShapes DEF EventKinds, Statuses, CaseEvent
  <2>4. /\ log' = Append(log, CaseEvent("case_opened", c, "open"))
        /\ phase = "announcing" /\ strictPy' = strictPy
    BY <1>27 DEF AnnounceCase, Say, config
  <2>5. PICK e \in Event : e.kind = "case_opened" /\ log' = Append(log, e)
    BY <2>3, <2>4
  <2>. HIDE DEF Goal, c
  <2>. QED BY <2>4, <2>5, <1>s
<1>15. CASE RuleDone BY <1>15, <1>q DEF RuleDone, config, disk
<1>16. CASE RaisesSilently BY <1>16, <1>q DEF RaisesSilently, config, disk
<1>17. CASE RulesDone BY <1>17, <1>q DEF RulesDone, config, disk
<1>18. CASE ResolveCase
  <2>. DEFINE c == caseIds[resolved + 1]
              d == Disposition(c.rule, resolved)
  <2>1. c \in CaseId BY <1>18 DEF ResolveCase, TypeOK
  <2>2. d.event \in {"escalated_to_str", "escalated", "closed"} /\ d.to \in Statuses
    BY <2>1, DispositionShape DEF TypeOK, CaseId, Statuses
  <2>3. CaseEvent(d.event, c, d.to) \in Event /\ CaseEvent(d.event, c, d.to).kind = d.event
    BY <2>1, <2>2, EventShapes DEF EventKinds, CaseEvent
  <2>4. /\ log' = Append(log, CaseEvent(d.event, c, d.to))
        /\ phase = "simulate" /\ strictPy' = strictPy
    BY <1>18 DEF ResolveCase, Say, config
  <2>5. PICK e \in Event : /\ e.kind \in {"escalated_to_str", "escalated", "closed"}
                           /\ log' = Append(log, e)
    BY <2>2, <2>3, <2>4
  <2>. HIDE DEF Goal, c, d
  <2>. QED BY <2>4, <2>5, <1>s
<1>28. CASE SettleCase BY <1>28, <1>q DEF SettleCase, config
<1>19. CASE SimulationDone BY <1>19, <1>q DEF SimulationDone, config, disk
<1>20. CASE WriteReports BY <1>20, <1>q DEF WriteReports, config
<1>21. CASE Finalize BY <1>21, <1>q DEF Finalize, config
<1>22. CASE StampManifest BY <1>22, <1>q DEF StampManifest, config
<1>23. CASE Freeze BY <1>23, <1>q DEF Freeze, config
<1>24. CASE Killed BY <1>24 DEF Killed, Goto, config, disk, snapshot
<1>25. ASSUME NEW c \in CaseId, AnalystDecides(c) PROVE Goal
  <2>1. /\ CaseEvent("analyst", c, cases[c]) \in Event
        /\ CaseEvent("analyst", c, cases[c]).kind = "analyst"
    BY EventShapes DEF TypeOK, EventKinds, CaseEvent
  <2>. HIDE DEF Goal
  <2>. QED BY <1>25, <2>1, <1>s DEF AnalystDecides, Say, config
<1>29. ASSUME NEW r \in Rules, SweepRule(r) PROVE Goal
  <2>1. /\ RuleEvent("tuning_run", r) \in Event
        /\ RuleEvent("tuning_run", r).kind = "tuning_run"
    BY EventShapes DEF EventKinds, RuleEvent
  <2>. HIDE DEF Goal
  <2>. QED BY <1>29, <2>1, <1>s DEF SweepRule, Say, config
<1>26. CASE UNCHANGED vars BY <1>26 DEF vars, config, call, disk, snapshot
<1>. HIDE DEF Goal
<1>. QED
  BY <1>1, <1>2, <1>3, <1>4, <1>5, <1>6, <1>7, <1>8, <1>9, <1>10, <1>11, <1>12, <1>13, <1>14,
     <1>15, <1>16, <1>17, <1>18, <1>19, <1>20, <1>21, <1>22, <1>23, <1>24, <1>25, <1>26,
     <1>27, <1>28, <1>29
  DEF Next, Engine

(* A run with a stopping event in its log is over, or has only the ticket   *)
(* of a strict scorer failure left to write.                                *)
StopInv ==
    \A i \in DOMAIN log : log[i].kind \in Stopping =>
        /\ i = Len(log) /\ manifest = None
        /\ \/ phase \in {"aborted", "killed"}
           \/ phase = "failing" /\ strictPy

LEMMA StopInit == Init => StopInv
BY DEF Init, StopInv

LEMMA StopStep == TypeOK /\ SealInv /\ StopInv /\ [Next]_vars => StopInv'
<1>. SUFFICES ASSUME TypeOK, SealInv, StopInv, [Next]_vars PROVE StopInv'
  OBVIOUS
<1>0. log \in Seq(Event) BY DEF TypeOK
<1>1. CASE UNCHANGED <<log, manifest, phase, strictPy>>
  BY <1>1 DEF StopInv, Stopping
<1>2. ASSUME phase \notin {"aborted", "killed"}, strictPy' = strictPy,
             phase = "failing" => /\ UNCHANGED <<log, manifest>>
                                  /\ strictPy => phase' \in {"aborted", "killed"},
             \/ log' = log
             \/ \E e \in Event :
                   /\ log' = Append(log, e)
                   /\ e.kind \in Stopping => manifest' = None /\ phase' \in {"aborted", "failing"}
                   /\ e.kind \in Stopping /\ phase' = "failing" => strictPy
      PROVE  StopInv'
  <2>1. Stopping' = Stopping BY <1>2 DEF Stopping
  <2>2. CASE phase = "failing" BY <1>2, <2>1, <2>2 DEF StopInv
  <2>3. CASE phase # "failing"
    <3>1. \A i \in DOMAIN log : log[i].kind \notin Stopping BY <1>2, <2>3 DEF StopInv
    <3>2. CASE log' = log BY <2>1, <3>1, <3>2 DEF StopInv
    <3>3. ASSUME NEW e \in Event, log' = Append(log, e),
                 e.kind \in Stopping => manifest' = None /\ phase' \in {"aborted", "failing"},
                 e.kind \in Stopping /\ phase' = "failing" => strictPy
          PROVE  StopInv'
      <4>1. /\ Len(log') = Len(log) + 1 /\ log'[Len(log) + 1] = e
            /\ DOMAIN log' = 1..(Len(log) + 1) /\ DOMAIN log = 1..Len(log) /\ Len(log) \in Nat
            /\ \A i \in 1..Len(log) : log'[i] = log[i]
        BY <1>0, <3>3
      <4>2. \A i \in DOMAIN log' : log'[i].kind \in Stopping => i = Len(log')
        BY <3>1, <4>1
      <4>. QED BY <1>2, <2>1, <3>3, <4>1, <4>2 DEF StopInv
    <3>. QED BY <1>2, <3>2, <3>3
  <2>. QED BY <2>2, <2>3
<1>. QED BY <1>1, <1>2, EndsOfLogs

(* The event that stops a run is its last, and no manifest is ever written  *)
(* for it: a blocked or violated run cannot pass for a finished one.        *)
THEOREM StopsAreFinal == Spec => []StopIsFinal
<1>1. StopInv => StopIsFinal BY DEF StopInv, StopIsFinal
<1>. QED
  BY <1>1, TypeInit, TypeStep, TicketInit, TicketStep, SealInit, SealStep,
     StopInit, StopStep, PTL DEF Spec

----------------------------------------------------------------------------
(* What the gates have said of a rule so far.                              *)
Firing == {"case_opened", "rule_failed"}
Spoken(r, kinds) == \E j \in DOMAIN log : log[j].rule = r /\ log[j].kind \in kinds
EnvKinds == IF strictGating THEN {"env_gate_approved"}
            ELSE {"env_gate_approved", "env_gate_warn_only"}
Cleared(r) == \A kinds \in Clearances(r) : Spoken(r, kinds)

(* The rule the loop is at was cleared by the gates the loop has passed.   *)
GateInv ==
    /\ GatesPrecedeFiring
    /\ phase = "approval" => Spoken(ri, EnvKinds)
    /\ phase \in {"execute", "opening", "announcing"} => Cleared(ri)

(* The spec and the switches of the run are read once.                     *)
LEMMA ConfigIsFixed == [Next]_vars => UNCHANGED config
BY DEF Next, Engine, vars, ReportCheck, WriteQualityArtifacts, BuildWarehouse, ContractViolation,
       ScanFreshness, SkipInactive, ConsultEnvironmentGate, ConsultApprovalGate, RejectCallable,
       ScorerFails, TicketFailure, RecordAlerts, RecordUnexecutable, OpenCase,
       AnnounceCase, RuleDone, RaisesSilently, RulesDone, ResolveCase, SettleCase, SimulationDone,
       WriteReports, Finalize, StampManifest, Freeze, Killed, AnalystDecides, SweepRule

(* What was said stays said: no step retracts a gate's approval.           *)
LEMMA GateKeeps ==
    ASSUME TypeOK, GatesPrecedeFiring, UNCHANGED config,
           \/ log' = log
           \/ \E e \in Event : /\ log' = Append(log, e)
                               /\ e.kind \in Firing => Cleared(e.rule)
    PROVE  GatesPrecedeFiring' /\ \A r : Cleared(r) => Cleared(r)'
<1>0. log \in Seq(Event) BY DEF TypeOK
<1>c. \A r : Clearances(r)' = Clearances(r) BY DEF Clearances, ApprovalGateApplies, config
<1>1. CASE log' = log
  <2>1. \A r, kinds : Spoken(r, kinds)' = Spoken(r, kinds) BY <1>1 DEF Spoken
  <2>2. GatesPrecedeFiring' BY <1>1, <1>c DEF GatesPrecedeFiring
  <2>. QED BY <2>1, <2>2, <1>c DEF Cleared
<1>2. ASSUME NEW e \in Event, log' = Append(log, e), e.kind \in Firing => Cleared(e.rule)
      PROVE  GatesPrecedeFiring' /\ \A r : Cleared(r) => Cleared(r)'
  <2>1. /\ log'[Len(log) + 1] = e /\ Len(log) \in Nat
        /\ DOMAIN log' = 1..(Len(log) + 1) /\ DOMAIN log = 1..Len(log)
        /\ \A i \in 1..Len(log) : log'[i] = log[i]
    BY <1>0, <1>2
  <2>2. \A r, kinds : Spoken(r, kinds) => Spoken(r, kinds)' BY <2>1 DEF Spoken
  <2>3. ASSUME NEW i \in DOMAIN log', log'[i].kind \in Firing,
               NEW kinds \in Clearances(log'[i].rule)
        PROVE  \E j \in 1..(i - 1) : log'[j].rule = log'[i].rule /\ log'[j].kind \in kinds
    <3>1. CASE i \in 1..Len(log)
      <4>1. i \in DOMAIN log /\ log[i].kind \in Firing /\ kinds \in Clearances(log[i].rule)
        BY <3>1, <2>1, <2>3
      <4>2. PICK j \in 1..(i - 1) : log[j].rule = log[i].rule /\ log[j].kind \in kinds
        BY <4>1 DEF GatesPrecedeFiring, Firing
      <4>3. j \in 1..Len(log) BY <2>1, <3>1, <4>2
      <4>. QED BY <2>1, <3>1, <4>2, <4>3
    <3>2. CASE i = Len(log) + 1
      <4>1. Spoken(e.rule, kinds) BY <1>2, <2>1, <2>3, <3>2 DEF Cleared
      <4>2. PICK j \in 1..Len(log) : log[j].rule = e.rule /\ log[j].kind \in kinds
        BY <2>1, <4>1 DEF Spoken
      <4>. QED BY <2>1, <3>2, <4>2
    <3>. QED BY <2>1, <3>1, <3>2
  <2>4. GatesPrecedeFiring' BY <1>c, <2>3 DEF GatesPrecedeFiring, Firing
  <2>. QED BY <1>c, <2>2, <2>4 DEF Cleared
<1>. QED BY <1>1, <1>2

LEMMA GateInit == Init => GateInv
BY DEF Init, GateInv, GatesPrecedeFiring

LEMMA GateStep == TypeOK /\ GateInv /\ [Next]_vars => GateInv'
<1>. SUFFICES ASSUME TypeOK, GateInv, [Next]_vars PROVE GateInv'
  OBVIOUS
<1>c. UNCHANGED config BY ConfigIsFixed
<1>g. GatesPrecedeFiring BY DEF GateInv
<1>t. log \in Seq(Event) /\ (phase \in {"approval", "execute", "opening", "announcing"} => ri \in Rules)
  BY DEF TypeOK
<1>. DEFINE Keeps == GatesPrecedeFiring' /\ \A r : Cleared(r) => Cleared(r)'
<1>q. log' = log => Keeps BY <1>c, <1>g, GateKeeps
<1>a. \A e \in Event : log' = Append(log, e) /\ e.kind \notin Firing => Keeps
  BY <1>c, <1>g, GateKeeps
<1>. HIDE DEF Keeps
<1>k. ASSUME Keeps, phase' # "approval",
             phase' \in {"execute", "opening", "announcing"} =>
                phase \in {"execute", "opening", "announcing"} /\ ri' = ri
      PROVE  GateInv'
  <2>1. GatesPrecedeFiring' BY <1>k DEF Keeps
  <2>2. ASSUME phase' \in {"execute", "opening", "announcing"} PROVE Cleared(ri)'
    <3>1. PICK r : r = ri OBVIOUS
    <3>2. Cleared(r) BY <1>k, <2>2, <3>1 DEF GateInv
    <3>3. Cleared(r)' BY <1>k, <3>2 DEF Keeps
    <3>4. ri' = r BY <1>k, <2>2, <3>1
    <3>. QED BY <3>3, <3>4 DEF Cleared
  <2>. QED BY <1>k, <2>1, <2>2 DEF GateInv
<1>1. ASSUME NEW q \in Checks, ReportCheck(q) PROVE GateInv'
  <2>1. CheckEvent(q) \in Event /\ CheckEvent(q).kind \notin Firing
    BY EventShapes DEF CheckEvent, Firing
  <2>2. log' = Append(log, CheckEvent(q)) /\ phase = "inputs" /\ phase' = phase
    BY <1>1 DEF ReportCheck, Say
  <2>. QED BY <1>a, <1>k, <2>1, <2>2
<1>2. CASE WriteQualityArtifacts BY <1>2, <1>q, <1>k DEF WriteQualityArtifacts, Goto
<1>3. CASE BuildWarehouse BY <1>3, <1>q, <1>k DEF BuildWarehouse, Goto, disk
<1>4. CASE ContractViolation
  <2>1. /\ RuleEvent("contract_violation", 0) \in Event
        /\ RuleEvent("contract_violation", 0).kind \notin Firing
    BY EventShapes, NAssumption DEF EventKinds, RuleEvent, Firing
  <2>2. log' = Append(log, RuleEvent("contract_violation", 0)) /\ phase' = "aborted"
    BY <1>4 DEF ContractViolation, Say, Abort
  <2>. QED BY <1>a, <1>k, <2>1, <2>2
<1>5. CASE ScanFreshness
  <2>1. RuleEvent("pkyc_trigger", 0) \in Event /\ RuleEvent("pkyc_trigger", 0).kind \notin Firing
    BY EventShapes, NAssumption DEF EventKinds, RuleEvent, Firing
  <2>2. /\ phase' = "rules"
        /\ log' = log \/ log' = Append(log, RuleEvent("pkyc_trigger", 0))
    BY <1>5 DEF ScanFreshness, Say, Goto
  <2>3. Keeps BY <1>a, <1>q, <2>1, <2>2
  <2>. QED BY <1>k, <2>2, <2>3
<1>6. CASE SkipInactive BY <1>6, <1>q, <1>k DEF SkipInactive, NextRule, disk
<1>7. CASE ConsultEnvironmentGate
  <2>1. PICK k \in {"env_gate_approved", "env_gate_blocked", "env_gate_warn_only"} :
           /\ log' = Append(log, RuleEvent(k, ri))
           /\ \/ phase' = "aborted"
              \/ phase' = "approval" /\ k \in EnvKinds
    BY <1>7 DEF ConsultEnvironmentGate, Say, Abort, Goto, EnvKinds
  <2>2. ri \in Rules /\ ri' = ri /\ EnvKinds' = EnvKinds
    BY <1>7, <1>c DEF ConsultEnvironmentGate, EnvKinds, config
  <2>3. /\ RuleEvent(k, ri) \in Event /\ RuleEvent(k, ri).kind = k /\ k \notin Firing
        /\ RuleEvent(k, ri).rule = ri
    BY <2>2, EventShapes DEF EventKinds, RuleEvent, Firing
  <2>4. Keeps BY <1>a, <2>1, <2>3
  <2>5. CASE phase' = "aborted" BY <1>k, <2>4, <2>5
  <2>6. CASE phase' = "approval" /\ k \in EnvKinds
    <3>1. /\ log'[Len(log) + 1] = RuleEvent(k, ri)
          /\ Len(log) + 1 \in DOMAIN log'
      BY <1>t, <2>1, <2>3
    <3>2. Spoken(ri, EnvKinds)' BY <2>2, <2>3, <2>6, <3>1 DEF Spoken
    <3>. QED BY <2>4, <2>6, <3>2 DEF GateInv, Keeps
  <2>. QED BY <2>1, <2>5, <2>6
<1>8. CASE ConsultApprovalGate
  <2>1. phase = "approval" /\ ri \in Rules /\ ri' = ri
    BY <1>8, <1>t DEF ConsultApprovalGate
  <2>2. \A k \in {"approval_gate_approved", "approval_gate_blocked"} :
           /\ RuleEvent(k, ri) \in Event /\ RuleEvent(k, ri).kind = k /\ k \notin Firing
           /\ RuleEvent(k, ri).rule = ri
    BY <2>1, EventShapes DEF EventKinds, RuleEvent, Firing
  <2>3. \/ phase' = "aborted" /\ log' = Append(log, RuleEvent("approval_gate_blocked", ri))
        \/ /\ phase' = "execute" /\ ApprovalGateApplies(ri)
           /\ log' = Append(log, RuleEvent("approval_gate_approved", ri))
        \/ phase' = "execute" /\ ~ApprovalGateApplies(ri) /\ log' = log
    BY <1>8 DEF ConsultApprovalGate, Say, Abort, Goto
  <2>4. Keeps BY <1>a, <1>q, <2>2, <2>3
  <2>5. CASE phase' = "aborted" BY <1>k, <2>4, <2>5
  <2>6. CASE phase' = "execute"
    <3>1. PICK r : r = ri OBVIOUS
    <3>2. Spoken(r, EnvKinds) BY <2>1, <3>1 DEF GateInv
    <3>3. Clearances(r) =
             {EnvKinds} \cup (IF ApprovalGateApplies(r) THEN {{"approval_gate_approved"}} ELSE {})
      BY DEF Clearances, EnvKinds
    <3>4. Clearances(r)' = Clearances(r)
      BY <1>c DEF Clearances, ApprovalGateApplies, config
    <3>5. Spoken(r, EnvKinds)'
      <4>1. EnvKinds' = EnvKinds BY <1>c DEF EnvKinds, config
      <4>2. PICK j \in DOMAIN log : log[j].rule = r /\ log[j].kind \in EnvKinds
        BY <3>2 DEF Spoken
      <4>3. j \in DOMAIN log' /\ log'[j] = log[j]
        BY <1>t, <2>2, <2>3, <4>2
      <4>. QED BY <4>1, <4>2, <4>3 DEF Spoken
    <3>6. ASSUME ApprovalGateApplies(r) PROVE Spoken(r, {"approval_gate_approved"})'
      <4>1. log' = Append(log, RuleEvent("approval_gate_approved", ri))
        BY <2>3, <2>6, <3>1, <3>6
      <4>2. /\ log'[Len(log) + 1] = RuleEvent("approval_gate_approved", ri)
            /\ Len(log) + 1 \in DOMAIN log'
        BY <1>t, <2>2, <4>1
      <4>. QED BY <2>2, <3>1, <4>2 DEF Spoken
    <3>7. \A kinds \in Clearances(r) : Spoken(r, kinds)'
      <4>1. EnvKinds' = EnvKinds BY <1>c DEF EnvKinds, config
      <4>. QED BY <3>3, <3>5, <3>6, <4>1
    <3>8. Cleared(r)' BY <3>4, <3>7 DEF Cleared
    <3>9. Cleared(ri)' BY <2>1, <3>1, <3>8 DEF Cleared
    <3>. QED BY <2>4, <2>6, <3>9 DEF GateInv, Keeps
  <2>. QED BY <2>3, <2>5, <2>6
<1>9. CASE RejectCallable BY <1>9, <1>q, <1>k DEF RejectCallable, Abort, disk
<1>10. CASE ScorerFails
  <2>1. ri \in Rules /\ phase = "execute" /\ phase' = "failing"
        /\ log' = Append(log, RuleEvent("rule_failed", ri))
    BY <1>10, <1>t DEF ScorerFails, Say, Goto
  <2>2. RuleEvent("rule_failed", ri) \in Event /\ RuleEvent("rule_failed", ri).rule = ri
    BY <2>1, EventShapes DEF EventKinds, RuleEvent
  <2>3. Cleared(ri) BY <2>1 DEF GateInv
  <2>4. Keeps BY <1>c, <1>g, <2>1, <2>2, <2>3, GateKeeps DEF Keeps
  <2>. QED BY <1>k, <2>1, <2>4
<1>11. CASE TicketFailure BY <1>11, <1>q, <1>k DEF TicketFailure, Abort, NextRule
<1>12. ASSUME NEW batch \in AlertBatches, RecordAlerts(batch) PROVE GateInv'
  BY <1>12, <1>q, <1>k DEF RecordAlerts, Goto
<1>13. CASE RecordUnexecutable BY <1>13, <1>q, <1>k DEF RecordUnexecutable, NextRule
<1>14. CASE OpenCase BY <1>14, <1>q, <1>k DEF OpenCase, Goto
<1>27. CASE AnnounceCase
  <2>. DEFINE c == [rule |-> ri, key |-> alerts[ri][opened]]
              e == CaseEvent("case_opened", c, "open")
  <2>1. ri \in Rules /\ alerts[ri] \in Seq(Keys) /\ opened \in DOMAIN alerts[ri]
    BY <1>27 DEF AnnounceCase, TypeOK
  <2>2. c \in CaseId BY <2>1 DEF CaseId
  <2>3. e \in Event /\ e.rule = ri
    BY <2>2, EventShapes DEF EventKinds, Statuses, CaseEvent
  <2>4. log' = Append(log, e) /\ phase = "announcing" /\ phase' = "opening" /\ ri' = ri
    BY <1>27 DEF AnnounceCase, Say, Goto
  <2>5. Cleared(ri) BY <2>4 DEF GateInv
  <2>. HIDE DEF c, e
  <2>6. Keeps BY <1>c, <1>g, <2>3, <2>4, <2>5, GateKeeps DEF Keeps
  <2>. QED BY <1>k, <2>4, <2>6
<1>15. CASE RuleDone BY <1>15, <1>q, <1>k DEF RuleDone, NextRule, disk
<1>16. CASE RaisesSilently BY <1>16, <1>q, <1>k DEF RaisesSilently, Abort, disk
<1>17. CASE RulesDone BY <1>17, <1>q, <1>k DEF RulesDone, Goto, disk
<1>18. CASE ResolveCase
  <2>. DEFINE c == caseIds[resolved + 1]
              d == Disposition(c.rule, resolved)
              e == CaseEvent(d.event, c, d.to)
  <2>1. c \in CaseId BY <1>18 DEF ResolveCase, TypeOK
  <2>2. d.event \in {"escalated_to_str", "escalated", "closed"} /\ d.to \in Statuses
    BY <2>1, DispositionShape DEF TypeOK, CaseId, Statuses
  <2>3. e \in Event /\ e.kind \notin Firing
    BY <2>1, <2>2, EventShapes DEF EventKinds, CaseEvent, Firing
  <2>4. log' = Append(log, e) /\ phase' = "settling"
    BY <1>18 DEF ResolveCase, Say, Goto
  <2>. HIDE DEF e
  <2>. QED BY <1>a, <1>k, <2>3, <2>4
<1>28. CASE SettleCase BY <1>28, <1>q, <1>k DEF SettleCase, Goto
<1>19. CASE SimulationDone BY <1>19, <1>q, <1>k DEF SimulationDone, Goto, disk
<1>20. CASE WriteReports BY <1>20, <1>q, <1>k DEF WriteReports, Goto
<1>21. CASE Finalize BY <1>21, <1>q, <1>k DEF Finalize, Goto
<1>22. CASE StampManifest BY <1>22, <1>q, <1>k DEF StampManifest, Goto
<1>23. CASE Freeze BY <1>23, <1>q, <1>k DEF Freeze, Goto
<1>24. CASE Killed BY <1>24, <1>q, <1>k DEF Killed, Goto, disk
<1>25. ASSUME NEW c \in CaseId, AnalystDecides(c) PROVE GateInv'
  <2>1. /\ CaseEvent("analyst", c, cases[c]) \in Event
        /\ CaseEvent("analyst", c, cases[c]).kind \notin Firing
    BY EventShapes DEF TypeOK, EventKinds, CaseEvent, Firing
  <2>2. /\ log' = Append(log, CaseEvent("analyst", c, cases[c]))
        /\ phase = "done" /\ phase' = phase
    BY <1>25 DEF AnalystDecides, Say, call
  <2>. QED BY <1>a, <1>k, <2>1, <2>2
<1>29. ASSUME NEW r \in Rules, SweepRule(r) PROVE GateInv'
  <2>1. RuleEvent("tuning_run", r) \in Event /\ RuleEvent("tuning_run", r).kind \notin Firing
    BY EventShapes DEF EventKinds, RuleEvent, Firing
  <2>2. log' = Append(log, RuleEvent("tuning_run", r)) /\ phase = "done" /\ phase' = phase
    BY <1>29 DEF SweepRule, Say, call
  <2>. QED BY <1>a, <1>k, <2>1, <2>2
<1>26. CASE UNCHANGED vars
  <2>1. log' = log /\ phase' = phase /\ ri' = ri BY <1>26 DEF vars, call, disk
  <2>2. EnvKinds' = EnvKinds BY <1>c DEF EnvKinds, config
  <2>3. Keeps BY <1>q, <2>1
  <2>4. phase = "approval" => Spoken(ri, EnvKinds)'
    BY <2>1, <2>2 DEF GateInv, Spoken
  <2>5. phase # "approval" => GateInv' BY <1>k, <2>1, <2>3
  <2>. QED BY <2>1, <2>3, <2>4, <2>5 DEF GateInv, Keeps
<1>. QED
  BY <1>1, <1>2, <1>3, <1>4, <1>5, <1>6, <1>7, <1>8, <1>9, <1>10, <1>11, <1>12, <1>13, <1>14,
     <1>15, <1>16, <1>17, <1>18, <1>19, <1>20, <1>21, <1>22, <1>23, <1>24, <1>25, <1>26,
     <1>27, <1>28, <1>29
  DEF Next, Engine

(* No rule leaves a trace before the gates that guard it spoke for it, for  *)
(* every spec and every setting of the two gates.                           *)
THEOREM GatesHold == Spec => []GatesPrecedeFiring
<1>1. GateInv => GatesPrecedeFiring BY DEF GateInv
<1>. QED BY <1>1, TypeInit, TypeStep, GateInit, GateStep, PTL DEF Spec

----------------------------------------------------------------------------
(* Where the cases of a run stand while it goes on.                        *)
Looping == {"inputs", "warehouse", "freshness", "rules", "approval", "execute"}
Opening == {"opening", "announcing"}
After == {"report", "finalize", "pinned", "stamped", "done"}
Broken == {"aborted", "killed"}

OpenedCase(c) == \E k \in DOMAIN caseIds : caseIds[k] = c
AlertedCase(c) ==
    /\ alerts[c.rule] # None
    /\ \E i \in DOMAIN alerts[c.rule] :
          alerts[c.rule][i] = c.key /\ (phase \in Opening /\ c.rule = ri => i <= opened)
(* The one case whose file and event are being written.                    *)
Current(c) == \/ phase = "announcing" /\ c = [rule |-> ri, key |-> alerts[ri][opened]]
              \/ phase = "settling" /\ c = caseIds[resolved + 1]
(* The log's last word on c is a disposition.                              *)
Taken(c) == \E i \in Mentions(c) : LastMention(c, i) /\ log[i].kind # "case_opened"
Said(c, to) == \E i \in Mentions(c) : LastMention(c, i) /\ log[i].to = to

(* The simulation walks the opened cases in order, after the rules.        *)
WalkInv ==
    /\ resolved <= Len(caseIds)
    /\ phase \in After \/ manifest # None => resolved = Len(caseIds)
    /\ phase \in Looping \cup Opening \cup {"failing"} => resolved = 0
(* Rules the loop has not reached left nothing on disk.                    *)
UnrunInv ==
    /\ phase \in Looping => \A r \in Rules : r >= ri => alerts[r] = None
    /\ phase \in Opening \cup {"failing"} => \A r \in Rules : r > ri => alerts[r] = None
(* The cases opened so far are those of the alerts walked so far, ...      *)
OpenInv ==
    phase \notin Broken \/ manifest # None =>
        \A c \in CaseId : OpenedCase(c) <=> AlertedCase(c)
(* ... a case never opened has no file and no event, ...                   *)
UntouchedInv == \A c \in CaseId : OpenedCase(c) \/ (cases[c] = "absent" /\ Mentions(c) = {})
(* ... every case walked was taken further, and ...                        *)
TakenInv ==
    /\ \A k \in 1..resolved : Taken(caseIds[k])
    /\ phase = "settling" =>
          /\ Taken(caseIds[resolved + 1])
          /\ Said(caseIds[resolved + 1], Disposition(caseIds[resolved + 1].rule, resolved).to)
(* ... only the case being written can disagree with the log.              *)
AgreeInv ==
    /\ phase \notin Broken \/ manifest # None => \A c \in CaseId : Agrees(c) \/ Current(c)
    /\ \A c, d \in CaseId : Agrees(c) \/ Agrees(d) \/ c = d
    /\ phase = "announcing" => \A c \in CaseId : Current(c) => cases[c] = "open"

CaseInv == WalkInv /\ UnrunInv /\ OpenInv /\ UntouchedInv /\ TakenInv /\ AgreeInv

LEMMA CaseInit == Init => CaseInv
<1>. SUFFICES ASSUME Init PROVE CaseInv
  OBVIOUS
<1>1. caseIds = << >> /\ log = << >> /\ resolved = 0 /\ phase = "inputs" /\ manifest = None
  BY DEF Init
<1>2. \A r \in Rules : alerts[r] = None BY DEF Init
<1>3. \A c \in CaseId : cases[c] = "absent" /\ c.rule \in Rules BY DEF Init, CaseId
<1>4. \A c : ~OpenedCase(c) BY <1>1 DEF OpenedCase
<1>5. \A c \in CaseId : ~AlertedCase(c) BY <1>2, <1>3 DEF AlertedCase
<1>6. \A c : Mentions(c) = {} BY <1>1 DEF Mentions
<1>7. \A c \in CaseId : Agrees(c) BY <1>3, <1>6 DEF Agrees
<1>. QED
  BY <1>1, <1>2, <1>3, <1>4, <1>5, <1>6, <1>7
  DEF CaseInv, WalkInv, UnrunInv, OpenInv, UntouchedInv, TakenInv, AgreeInv, Looping, After, Opening

(* Events that are no disposition leave what the log says of a case alone. *)
LEMMA MentionsStay ==
    ASSUME TypeOK, \/ log' = log
                   \/ \E e \in Event : e.kind \notin Dispositions /\ log' = Append(log, e)
    PROVE  \A c : /\ Mentions(c)' = Mentions(c)
                  /\ \A i \in Mentions(c) : log'[i] = log[i]
<1>0. log \in Seq(Event) BY DEF TypeOK
<1>1. CASE log' = log BY <1>1 DEF Mentions
<1>2. ASSUME NEW e \in Event, e.kind \notin Dispositions, log' = Append(log, e)
      PROVE  \A c : Mentions(c)' = Mentions(c) /\ \A i \in Mentions(c) : log'[i] = log[i]
  <2>1. /\ log'[Len(log) + 1] = e /\ Len(log) \in Nat
        /\ DOMAIN log' = 1..(Len(log) + 1) /\ DOMAIN log = 1..Len(log)
        /\ \A i \in 1..Len(log) : log'[i] = log[i]
    BY <1>0, <1>2
  <2>2. Dispositions' = Dispositions BY DEF Dispositions
  <2>3. ASSUME NEW c PROVE Mentions(c)' = Mentions(c)
    <3>1. ASSUME NEW i \in Mentions(c)' PROVE i \in Mentions(c)
      <4>1. i \in DOMAIN log' /\ log'[i].kind \in Dispositions
        BY <2>2, <3>1 DEF Mentions
      <4>2. i \in 1..Len(log)
        <5>1. i # Len(log) + 1
          <6>. SUFFICES ASSUME i = Len(log) + 1 PROVE FALSE
            OBVIOUS
          <6>1. log'[i] = e BY <2>1
          <6>. QED BY <1>2, <4>1, <6>1
        <5>. QED BY <2>1, <4>1, <5>1
      <4>. QED BY <2>1, <2>2, <3>1, <4>2 DEF Mentions
    <3>2. ASSUME NEW i \in Mentions(c) PROVE i \in Mentions(c)'
      BY <2>1, <2>2, <3>2 DEF Mentions
    <3>. QED BY <3>1, <3>2
  <2>. QED BY <2>1, <2>3 DEF Mentions
<1>. QED BY <1>1, <1>2

(* A disposition event is the last mention of its case, and of no other.   *)
LEMMA MentionAdded ==
    ASSUME TypeOK, NEW e \in Event, log' = Append(log, e), e.kind \in Dispositions
    PROVE  /\ log'[Len(log) + 1] = e
           /\ \A c : /\ \A i \in Mentions(c) : i <= Len(log) /\ log'[i] = log[i]
                     /\ e.rule = c.rule /\ e.key = c.key =>
                           Mentions(c)' = Mentions(c) \cup {Len(log) + 1}
                     /\ ~(e.rule = c.rule /\ e.key = c.key) => Mentions(c)' = Mentions(c)
<1>0. log \in Seq(Event) BY DEF TypeOK
<1>1. /\ log'[Len(log) + 1] = e /\ Len(log) \in Nat
      /\ DOMAIN log' = 1..(Len(log) + 1) /\ DOMAIN log = 1..Len(log)
      /\ \A i \in 1..Len(log) : log'[i] = log[i]
  BY <1>0
<1>2. Dispositions' = Dispositions BY DEF Dispositions
<1>3. \A c : \A i \in Mentions(c) : i \in 1..Len(log) /\ log'[i] = log[i]
  BY <1>1 DEF Mentions
<1>4. \A c : \A i : i \in Mentions(c)' <=>
         \/ i \in Mentions(c)
         \/ i = Len(log) + 1 /\ e.rule = c.rule /\ e.key = c.key
  <2>. SUFFICES ASSUME NEW c, NEW i
                PROVE  i \in Mentions(c)' <=>
                          \/ i \in Mentions(c)
                          \/ i = Len(log) + 1 /\ e.rule = c.rule /\ e.key = c.key
    OBVIOUS
  <2>1. CASE i = Len(log) + 1 BY <1>1, <1>2, <2>1 DEF Mentions
  <2>2. CASE i # Len(log) + 1 BY <1>1, <1>2, <2>2 DEF Mentions
  <2>. QED BY <2>1, <2>2
<1>5. \A c : /\ e.rule = c.rule /\ e.key = c.key => Mentions(c)' = Mentions(c) \cup {Len(log) + 1}
             /\ ~(e.rule = c.rule /\ e.key = c.key) => Mentions(c)' = Mentions(c)
  <2>. SUFFICES ASSUME NEW c
                PROVE  /\ e.rule = c.rule /\ e.key = c.key =>
                             Mentions(c)' = Mentions(c) \cup {Len(log) + 1}
                       /\ ~(e.rule = c.rule /\ e.key = c.key) => Mentions(c)' = Mentions(c)
    OBVIOUS
  <2>1. \A i : i \in Mentions(c)' <=>
           \/ i \in Mentions(c)
           \/ i = Len(log) + 1 /\ e.rule = c.rule /\ e.key = c.key
    BY <1>4
  <2>2. CASE e.rule = c.rule /\ e.key = c.key
    <3>1. \A i : i \in Mentions(c)' <=> i \in Mentions(c) \cup {Len(log) + 1}
      BY <2>1, <2>2
    <3>. QED BY <2>2, <3>1
  <2>3. CASE ~(e.rule = c.rule /\ e.key = c.key)
    <3>1. \A i : i \in Mentions(c)' <=> i \in Mentions(c) BY <2>1, <2>3
    <3>. QED BY <2>3, <3>1
  <2>. QED BY <2>2, <2>3
<1>. QED BY <1>1, <1>3, <1>5

----------------------------------------------------------------------------
(* Most steps neither open nor resolve a case; they only move the call on. *)
Calm ==
    /\ UNCHANGED <<cases, caseIds, alerts, resolved>>
    /\ \/ log' = log
       \/ \E e \in Event : e.kind \notin Dispositions /\ log' = Append(log, e)
Flow ==
    \/ phase' = phase /\ ri' = ri /\ opened' = opened /\ manifest' = manifest
    \/ phase' \in Broken /\ manifest' = manifest
    \/ phase \in Looping /\ phase' \in Looping /\ ri' \in {ri, ri + 1} /\ manifest' = manifest
    \/ phase = "failing" /\ phase' = "rules" /\ ri' = ri + 1 /\ manifest' = manifest
    \/ /\ phase = "opening" /\ phase' = "rules" /\ ri' = ri + 1 /\ manifest' = manifest
       /\ opened = Len(alerts[ri])
    \/ phase = "rules" /\ phase' = "simulate" /\ manifest' = manifest
    \/ phase = "simulate" /\ phase' = "report" /\ resolved = Len(caseIds) /\ manifest' = manifest
    \/ phase \in After /\ phase' \in After

(* The steps that open, resolve or record alerts.                          *)
Stir == \/ ScorerFails \/ RecordUnexecutable
        \/ OpenCase \/ AnnounceCase \/ ResolveCase \/ SettleCase
        \/ \E batch \in AlertBatches : RecordAlerts(batch)

LEMMA CalmSteps ==
    ASSUME TypeOK, [Next]_vars, ~Stir
    PROVE  Calm /\ Flow
<1>q. ASSUME UNCHANGED <<cases, caseIds, alerts, resolved, log>> PROVE Calm
  BY <1>q DEF Calm
<1>a. ASSUME NEW e \in Event, e.kind \notin Dispositions, log' = Append(log, e),
             UNCHANGED <<cases, caseIds, alerts, resolved>>
      PROVE  Calm
  BY <1>a DEF Calm
<1>. USE DEF Goto, Abort, NextRule, Flow, Looping, After, Broken
<1>1. ASSUME NEW q \in Checks, ReportCheck(q) PROVE Calm /\ Flow
  <2>1. PICK e \in Event : e.kind \notin Dispositions /\ log' = Append(log, e)
    BY <1>1, EventShapes DEF ReportCheck, Say, CheckEvent, Dispositions
  <2>2. Calm BY <1>1, <1>a, <2>1 DEF ReportCheck, walk, snapshot
  <2>. QED BY <1>1, <2>2 DEF ReportCheck, walk, snapshot
<1>2. CASE WriteQualityArtifacts BY <1>2, <1>q DEF WriteQualityArtifacts, walk
<1>3. CASE BuildWarehouse BY <1>3, <1>q DEF BuildWarehouse, walk, disk, snapshot
<1>4. CASE ContractViolation
  <2>1. PICK e \in Event : e.kind \notin Dispositions /\ log' = Append(log, e)
    BY <1>4, EventShapes, NAssumption DEF ContractViolation, Say, RuleEvent, Dispositions, EventKinds
  <2>2. Calm BY <1>4, <1>a, <2>1 DEF ContractViolation, walk, snapshot
  <2>. QED BY <1>4, <2>2 DEF ContractViolation, walk, snapshot
<1>5. CASE ScanFreshness
  <2>1. /\ RuleEvent("pkyc_trigger", 0) \in Event
        /\ RuleEvent("pkyc_trigger", 0).kind \notin Dispositions
    BY EventShapes, NAssumption DEF RuleEvent, Dispositions, EventKinds
  <2>2. Calm BY <1>5, <2>1 DEF Calm, ScanFreshness, Say, walk, snapshot
  <2>. QED BY <1>5, <2>2 DEF ScanFreshness, walk, snapshot
<1>6. CASE SkipInactive BY <1>6, <1>q DEF SkipInactive, walk, disk, snapshot
<1>7. CASE ConsultEnvironmentGate
  <2>1. PICK k \in {"env_gate_approved", "env_gate_blocked", "env_gate_warn_only"} :
           log' = Append(log, RuleEvent(k, ri))
    BY <1>7 DEF ConsultEnvironmentGate, Say
  <2>2. RuleEvent(k, ri) \in Event /\ RuleEvent(k, ri).kind \notin Dispositions
    BY <1>7, EventShapes DEF ConsultEnvironmentGate, RuleEvent, Dispositions, EventKinds
  <2>3. Calm BY <1>7, <2>1, <2>2 DEF Calm, ConsultEnvironmentGate, walk, snapshot
  <2>4. phase' \in {"aborted", "approval"} /\ phase = "rules" /\ ri' = ri /\ manifest' = manifest
    BY <1>7 DEF ConsultEnvironmentGate, snapshot
  <2>. QED BY <2>3, <2>4
<1>8. CASE ConsultApprovalGate
  <2>1. phase = "approval" /\ ri \in Rules BY <1>8 DEF ConsultApprovalGate, TypeOK
  <2>2. \A k \in {"approval_gate_approved", "approval_gate_blocked"} :
           RuleEvent(k, ri) \in Event /\ RuleEvent(k, ri).kind \notin Dispositions
    BY <2>1, EventShapes DEF RuleEvent, Dispositions, EventKinds
  <2>3. \/ log' = log
        \/ \E k \in {"approval_gate_approved", "approval_gate_blocked"} :
              log' = Append(log, RuleEvent(k, ri))
    BY <1>8 DEF ConsultApprovalGate, Say
  <2>4. Calm BY <1>8, <2>2, <2>3 DEF Calm, ConsultApprovalGate, walk, snapshot
  <2>5. phase' \in {"aborted", "execute"} /\ ri' = ri /\ manifest' = manifest
    BY <1>8 DEF ConsultApprovalGate, snapshot
  <2>. QED BY <2>1, <2>4, <2>5
<1>9. CASE RejectCallable BY <1>9, <1>q DEF RejectCallable, walk, disk, snapshot
<1>11. CASE TicketFailure BY <1>11, <1>q DEF TicketFailure, walk
<1>15. CASE RuleDone BY <1>15, <1>q DEF RuleDone, walk, disk, snapshot
<1>16. CASE RaisesSilently BY <1>16, <1>q DEF RaisesSilently, walk, disk, snapshot
<1>17. CASE RulesDone BY <1>17, <1>q DEF RulesDone, walk, disk, snapshot
<1>19. CASE SimulationDone BY <1>19, <1>q DEF SimulationDone, walk, disk, snapshot
<1>20. CASE WriteReports BY <1>20, <1>q DEF WriteReports, walk
<1>21. CASE Finalize BY <1>21, <1>q DEF Finalize, walk
<1>22. CASE StampManifest BY <1>22, <1>q DEF StampManifest, walk
<1>23. CASE Freeze BY <1>23, <1>q DEF Freeze, walk
<1>24. CASE Killed BY <1>24, <1>q DEF Killed, walk, disk, snapshot
<1>25. ASSUME NEW c \in CaseId, AnalystDecides(c) PROVE Calm /\ Flow
  <2>1. PICK e \in Event : e.kind \notin Dispositions /\ log' = Append(log, e)
    BY <1>25, EventShapes
    DEF TypeOK, AnalystDecides, Say, CaseEvent, Dispositions, EventKinds
  <2>2. Calm BY <1>25, <1>a, <2>1 DEF AnalystDecides, call, walk, snapshot
  <2>. QED BY <1>25, <2>2 DEF AnalystDecides, call, walk, snapshot
<1>29. ASSUME NEW r \in Rules, SweepRule(r) PROVE Calm /\ Flow
  <2>1. PICK e \in Event : e.kind \notin Dispositions /\ log' = Append(log, e)
    BY <1>29, EventShapes DEF SweepRule, Say, RuleEvent, Dispositions, EventKinds
  <2>2. Calm BY <1>29, <1>a, <2>1 DEF SweepRule, call, walk, snapshot
  <2>. QED BY <1>29, <2>2 DEF SweepRule, call, walk, snapshot
<1>26. CASE UNCHANGED vars
  BY <1>26, <1>q DEF vars, call, walk, disk, snapshot
<1>. QED
  BY <1>1, <1>2, <1>3, <1>4, <1>5, <1>6, <1>7, <1>8, <1>9, <1>11, <1>15, <1>16, <1>17, <1>19,
     <1>20, <1>21, <1>22, <1>23, <1>24, <1>25, <1>26, <1>29
  DEF Next, Engine, Stir

LEMMA CalmKeepsCases ==
    ASSUME TypeOK, SealInv, CaseInv, Calm, Flow, UNCHANGED config
    PROVE  CaseInv'
<1>. USE DEF Calm, Looping, After, Broken, Opening
<1>t. /\ caseIds \in Seq(CaseId) /\ ri \in Nat /\ resolved \in Nat /\ opened \in Nat
      /\ phase \in Opening => ri \in Rules /\ alerts[ri] \in Seq(Keys)
      /\ alerts \in Outputs
  BY NAssumption DEF TypeOK
<1>m. \A c : /\ Mentions(c)' = Mentions(c)
             /\ \A i \in Mentions(c) : log'[i] = log[i]
  BY MentionsStay
<1>o. phase \in Working => manifest = None BY DEF SealInv
<1>1. WalkInv'
  BY <1>o, <1>t DEF CaseInv, WalkInv, Flow, Working
<1>2. UnrunInv'
  <2>1. CASE phase' = phase /\ ri' = ri BY <2>1 DEF CaseInv, UnrunInv
  <2>2. CASE phase \in Looping /\ phase' \in Looping /\ ri' \in {ri, ri + 1}
    <3>1. \A r \in Rules : r >= ri' => r >= ri BY <1>t, <2>2
    <3>. QED BY <2>2, <3>1 DEF CaseInv, UnrunInv
  <2>3. CASE phase \in Opening \cup {"failing"} /\ phase' = "rules" /\ ri' = ri + 1
    <3>1. \A r \in Rules : r >= ri' => r > ri BY <1>t, <2>3
    <3>. QED BY <2>3, <3>1 DEF CaseInv, UnrunInv
  <2>4. CASE phase' \notin Looping \cup Opening \cup {"failing"} BY <2>4 DEF UnrunInv
  <2>. QED BY <2>1, <2>2, <2>3, <2>4 DEF Flow
<1>3. OpenInv'
  <2>1. SUFFICES ASSUME phase' \notin Broken \/ manifest' # None, NEW c \in CaseId
                 PROVE  OpenedCase(c)' <=> AlertedCase(c)'
    BY DEF OpenInv
  <2>2. OpenedCase(c)' <=> OpenedCase(c) BY DEF OpenedCase
  <2>3. OpenedCase(c) <=> AlertedCase(c)
    BY <2>1, <1>o DEF CaseInv, OpenInv, Flow, Working
  <2>4. AlertedCase(c)' <=> AlertedCase(c)
    <3>1. CASE phase' = phase /\ ri' = ri /\ opened' = opened
      BY <3>1 DEF AlertedCase
    <3>2. CASE phase \notin Opening /\ phase' \notin Opening
      BY <3>2 DEF AlertedCase
    <3>3. CASE phase = "opening" /\ phase' \notin Opening /\ opened = Len(alerts[ri])
      <4>1. \A i \in DOMAIN alerts[ri] : i <= opened BY <1>t, <3>3
      <4>. QED BY <3>3, <4>1 DEF AlertedCase
    <3>. QED BY <2>1, <3>1, <3>2, <3>3, <1>o DEF Flow, Working
  <2>. QED BY <2>2, <2>3, <2>4
<1>4. UntouchedInv'
  <2>1. \A c : OpenedCase(c)' <=> OpenedCase(c) BY DEF OpenedCase
  <2>. QED BY <1>m, <2>1 DEF CaseInv, UntouchedInv
<1>5. TakenInv'
  <2>1. \A c : Taken(c) => Taken(c)'
    <3>. SUFFICES ASSUME NEW c, Taken(c) PROVE Taken(c)'
      OBVIOUS
    <3>1. PICK i \in Mentions(c) : LastMention(c, i) /\ log[i].kind # "case_opened" BY DEF Taken
    <3>. QED BY <1>m, <3>1 DEF Taken, LastMention
  <2>2. \A c, to : Said(c, to) => Said(c, to)'
    <3>. SUFFICES ASSUME NEW c, NEW to, Said(c, to) PROVE Said(c, to)'
      OBVIOUS
    <3>1. PICK i \in Mentions(c) : LastMention(c, i) /\ log[i].to = to BY DEF Said
    <3>. QED BY <1>m, <3>1 DEF Said, LastMention
  <2>3. TakenInv BY DEF CaseInv
  <2>4. ASSUME NEW k \in 1..resolved' PROVE Taken(caseIds[k])'
    <3>1. PICK c : c = caseIds[k] OBVIOUS
    <3>2. Taken(c)' BY <2>1, <2>3, <2>4, <3>1 DEF TakenInv
    <3>3. caseIds'[k] = c BY <3>1
    <3>. QED BY <3>2, <3>3 DEF Taken, LastMention, Mentions
  <2>5. ASSUME phase' = "settling"
        PROVE  /\ Taken(caseIds[resolved + 1])'
               /\ Said(caseIds[resolved + 1], Disposition(caseIds[resolved + 1].rule, resolved).to)'
    <3>1. phase = "settling" BY <2>5 DEF Flow
    <3>2. PICK c : c = caseIds[resolved + 1] OBVIOUS
    <3>3. PICK to : to = Disposition(c.rule, resolved).to OBVIOUS
    <3>4. Taken(c)' /\ Said(c, to)' BY <2>1, <2>2, <2>3, <3>1, <3>2, <3>3 DEF TakenInv
    <3>5. caseIds'[resolved' + 1] = c BY <3>2
    <3>6. Disposition(caseIds[resolved + 1].rule, resolved)'.to = to
      <4>1. resolved' = resolved /\ rules' = rules /\ caseIds' = caseIds BY DEF config
      <4>. QED BY <3>2, <3>3, <4>1 DEF Disposition
    <3>. QED BY <3>4, <3>5, <3>6 DEF Taken, Said, LastMention, Mentions
  <2>. QED BY <2>4, <2>5 DEF TakenInv
<1>6. AgreeInv'
  <2>1. \A c : Agrees(c)' <=> Agrees(c)
    <3>. SUFFICES ASSUME NEW c PROVE Agrees(c)' <=> Agrees(c)
      OBVIOUS
    <3>1. Mentions(c)' = Mentions(c) /\ \A i \in Mentions(c) : log'[i] = log[i] BY <1>m
    <3>. QED BY <3>1 DEF Agrees, LastMention
  <2>2. AgreeInv BY DEF CaseInv
  <2>3. ASSUME phase' = phase, ri' = ri, opened' = opened, manifest' = manifest PROVE AgreeInv'
    <3>1. \A c : Current(c)' <=> Current(c) BY <2>3 DEF Current
    <3>. QED BY <2>1, <2>2, <2>3, <3>1 DEF AgreeInv
  <2>4. ASSUME phase' \in Broken, manifest' = manifest PROVE AgreeInv'
    <3>1. manifest # None => phase \notin {"announcing", "settling"} BY <1>o DEF Working
    <3>2. manifest # None => \A c \in CaseId : Agrees(c) BY <2>2, <3>1 DEF AgreeInv, Current
    <3>. QED BY <2>1, <2>2, <2>4, <3>2 DEF AgreeInv
  <2>5. ASSUME phase \notin Broken \cup {"announcing", "settling"},
               phase' \notin {"announcing", "settling"}
        PROVE  AgreeInv'
    <3>1. \A c \in CaseId : Agrees(c) BY <2>2, <2>5 DEF AgreeInv, Current
    <3>. QED BY <2>1, <2>5, <3>1 DEF AgreeInv
  <2>. QED BY <2>3, <2>4, <2>5 DEF Flow
<1>. QED BY <1>1, <1>2, <1>3, <1>4, <1>5, <1>6 DEF CaseInv

LEMMA StirKeepsCases ==
    ASSUME TypeOK, SealInv, CaseInv, Stir
    PROVE  CaseInv'
<1>t. /\ caseIds \in Seq(CaseId) /\ ri \in Nat /\ resolved \in Nat /\ opened \in Nat
      /\ log \in Seq(Event) /\ alerts \in Outputs
      /\ phase \in Opening \cup {"execute"} => ri \in Rules
      /\ phase \in Opening => alerts[ri] \in Seq(Keys)
      /\ cases \in [CaseId -> Statuses]
  BY NAssumption DEF TypeOK, Opening
<1>o. phase \in Working => manifest = None BY DEF SealInv
<1>v. WalkInv /\ UnrunInv /\ OpenInv /\ UntouchedInv /\ TakenInv /\ AgreeInv BY DEF CaseInv
<1>a. phase \in {"execute", "opening", "simulate"} => \A c \in CaseId : Agrees(c)
  BY <1>v DEF AgreeInv, Current, Broken
(* No event and no file of a case moves: nothing comes to disagree.        *)
<1>s. ASSUME phase = "execute", phase' \in {"failing", "rules", "opening"}, cases' = cases,
             \A c : Mentions(c)' = Mentions(c) /\ \A i \in Mentions(c) : log'[i] = log[i]
      PROVE  AgreeInv'
  <2>1. \A c \in CaseId : Agrees(c)'
    <3>. SUFFICES ASSUME NEW c \in CaseId PROVE Agrees(c)'
      OBVIOUS
    <3>1. Agrees(c) BY <1>a, <1>s
    <3>2. Mentions(c)' = Mentions(c) /\ \A i \in Mentions(c) : log'[i] = log[i] BY <1>s
    <3>. QED BY <1>s, <3>1, <3>2 DEF Agrees, LastMention
  <2>. QED BY <1>s, <2>1 DEF AgreeInv
(* A rule that recorded no alert adds no case.                             *)
<1>1. ASSUME ri \in Rules, phase = "execute", alerts' = [alerts EXCEPT ![ri] = << >>],
             (phase' = "failing" /\ ri' = ri) \/ (phase' = "rules" /\ ri' = ri + 1),
             UNCHANGED <<cases, caseIds, resolved, manifest>>,
             \/ log' = log
             \/ \E e \in Event : e.kind \notin Dispositions /\ log' = Append(log, e)
      PROVE  CaseInv'
  <2>1. \A r \in Rules : r # ri => alerts'[r] = alerts[r] BY <1>1, <1>t DEF Outputs
  <2>2. alerts'[ri] = << >> /\ alerts[ri] = None /\ manifest = None
    BY <1>1, <1>t, <1>o, <1>v DEF Outputs, UnrunInv, Looping, Working
  <2>3. \A c \in CaseId : AlertedCase(c)' <=> AlertedCase(c)
    <3>. SUFFICES ASSUME NEW c \in CaseId PROVE AlertedCase(c)' <=> AlertedCase(c)
      OBVIOUS
    <3>1. CASE c.rule = ri BY <1>1, <2>2, <3>1 DEF AlertedCase, Opening
    <3>2. CASE c.rule # ri
      <4>1. alerts'[c.rule] = alerts[c.rule] BY <2>1, <3>2 DEF CaseId
      <4>. QED BY <1>1, <4>1 DEF AlertedCase, Opening
    <3>. QED BY <3>1, <3>2
  <2>4. \A c : OpenedCase(c)' <=> OpenedCase(c) BY <1>1 DEF OpenedCase
  <2>5. OpenInv' BY <1>1, <1>v, <2>3, <2>4 DEF OpenInv, Broken
  <2>6. \A c : /\ Mentions(c)' = Mentions(c)
               /\ \A i \in Mentions(c) : log'[i] = log[i]
    BY <1>1, MentionsStay
  <2>7. UntouchedInv' BY <1>1, <1>v, <2>4, <2>6 DEF UntouchedInv
  <2>8. resolved' = 0 /\ WalkInv'
    BY <1>1, <1>t, <1>v, <2>2 DEF WalkInv, Looping, After, Opening
  <2>9. TakenInv' BY <2>8, <1>1 DEF TakenInv
  <2>11. AgreeInv' BY <1>1, <1>s, <2>6
  <2>10. UnrunInv'
    <3>1. \A r \in Rules : r > ri => alerts'[r] = None
      BY <1>1, <1>t, <1>v, <2>1 DEF UnrunInv, Looping, Opening
    <3>. QED BY <1>1, <1>t, <3>1 DEF UnrunInv, Looping, Opening
  <2>. QED BY <2>5, <2>7, <2>8, <2>9, <2>10, <2>11 DEF CaseInv
<1>2. CASE ScorerFails
  <2>1. ri \in Rules /\ phase = "execute" /\ phase' = "failing" /\ ri' = ri
        /\ alerts' = [alerts EXCEPT ![ri] = << >>]
        /\ UNCHANGED <<cases, caseIds, resolved, manifest>>
    BY <1>2, <1>t DEF ScorerFails, Goto, walk
  <2>2. \E e \in Event : e.kind \notin Dispositions /\ log' = Append(log, e)
    BY <1>2, <2>1, EventShapes DEF ScorerFails, Say, RuleEvent, Dispositions, EventKinds
  <2>3. \/ log' = log
        \/ \E e \in Event : e.kind \notin Dispositions /\ log' = Append(log, e)
    BY <2>2
  <2>4. (phase' = "failing" /\ ri' = ri) \/ (phase' = "rules" /\ ri' = ri + 1)
    BY <2>1
  <2>. QED BY <1>1, <2>1, <2>3, <2>4
<1>3. CASE RecordUnexecutable
  BY <1>1, <1>3, <1>t DEF RecordUnexecutable, NextRule, walk
<1>4. ASSUME NEW batch \in AlertBatches, RecordAlerts(batch) PROVE CaseInv'
  <2>1. /\ ri \in Rules /\ phase = "execute" /\ phase' = "opening" /\ ri' = ri /\ opened' = 0
        /\ alerts' = [alerts EXCEPT ![ri] = batch]
        /\ UNCHANGED <<cases, caseIds, resolved, manifest, log>>
    BY <1>4, <1>t DEF RecordAlerts, Goto
  <2>2. \A r \in Rules : r # ri => alerts'[r] = alerts[r] BY <1>t, <2>1 DEF Outputs
  <2>3. /\ alerts'[ri] = batch /\ batch \in Seq(Keys)
        /\ alerts[ri] = None /\ manifest = None
    BY <1>t, <1>o, <1>v, <2>1, BatchesAreSequences DEF Outputs, UnrunInv, Looping, Working
  <2>4. \A c \in CaseId : AlertedCase(c)' <=> AlertedCase(c)
    <3>. SUFFICES ASSUME NEW c \in CaseId PROVE AlertedCase(c)' <=> AlertedCase(c)
      OBVIOUS
    <3>1. CASE c.rule = ri
      <4>1. \A i \in DOMAIN batch : ~(i <= 0) BY <2>3
      <4>. QED BY <2>1, <2>3, <3>1, <4>1 DEF AlertedCase, Opening
    <3>2. CASE c.rule # ri
      <4>1. alerts'[c.rule] = alerts[c.rule] BY <2>2, <3>2 DEF CaseId
      <4>. QED BY <2>1, <3>2, <4>1 DEF AlertedCase, Opening
    <3>. QED BY <3>1, <3>2
  <2>5. \A c : OpenedCase(c)' <=> OpenedCase(c) BY <2>1 DEF OpenedCase
  <2>6. OpenInv' BY <1>v, <2>1, <2>4, <2>5 DEF OpenInv, Broken
  <2>7. UntouchedInv' BY <1>v, <2>1, <2>5 DEF UntouchedInv, Mentions
  <2>8. resolved' = 0 /\ WalkInv' BY <1>t, <1>v, <2>1, <2>3 DEF WalkInv, Looping, After, Opening
  <2>9. TakenInv' BY <2>1, <2>8 DEF TakenInv
  <2>11. AgreeInv' BY <1>s, <2>1 DEF Mentions
  <2>10. UnrunInv'
    <3>1. \A r \in Rules : r > ri => alerts'[r] = None
      BY <1>t, <1>v, <2>1, <2>2 DEF UnrunInv, Looping, Opening
    <3>. QED BY <2>1, <3>1 DEF UnrunInv, Looping, Opening
  <2>. QED BY <2>6, <2>7, <2>8, <2>9, <2>10, <2>11 DEF CaseInv
(* The file of the next alert's case is written; its event is not yet.     *)
<1>5. CASE OpenCase
  <2>. DEFINE d == [rule |-> ri, key |-> alerts[ri][opened + 1]]
  <2>1. /\ ri \in Rules /\ alerts[ri] \in Seq(Keys) /\ phase = "opening"
        /\ opened + 1 \in DOMAIN alerts[ri]
        /\ phase' = "announcing" /\ ri' = ri /\ opened' = opened + 1
        /\ UNCHANGED <<alerts, resolved, manifest, log>>
    BY <1>5, <1>t DEF OpenCase, Goto, Opening
  <2>2. d \in CaseId /\ d.rule = ri /\ d.key = alerts[ri][opened + 1]
    BY <2>1 DEF CaseId
  <2>4. caseIds' = Append(caseIds, d) /\ cases' = [cases EXCEPT ![d] = "open"]
    BY <1>5 DEF OpenCase
  <2>3. d = [rule |-> ri', key |-> alerts'[ri'][opened']] BY <2>1
  <2>d. PICK f : f = d OBVIOUS
  <2>. HIDE DEF d
  <2>5. /\ \A k \in 1..Len(caseIds) : caseIds'[k] = caseIds[k]
        /\ caseIds'[Len(caseIds) + 1] = f /\ Len(caseIds) \in Nat
        /\ DOMAIN caseIds' = 1..(Len(caseIds) + 1) /\ DOMAIN caseIds = 1..Len(caseIds)
        /\ Len(caseIds') = Len(caseIds) + 1
    BY <1>t, <2>2, <2>4, <2>d
  <2>6. \A c : OpenedCase(c)' <=> OpenedCase(c) \/ c = f
    <3>. SUFFICES ASSUME NEW c PROVE OpenedCase(c)' <=> OpenedCase(c) \/ c = f
      OBVIOUS
    <3>1. ASSUME OpenedCase(c)' PROVE OpenedCase(c) \/ c = f
      BY <2>5, <3>1 DEF OpenedCase
    <3>2. ASSUME OpenedCase(c) PROVE OpenedCase(c)'
      BY <2>5, <3>2 DEF OpenedCase
    <3>3. c = f => OpenedCase(c)' BY <2>5 DEF OpenedCase
    <3>. QED BY <3>1, <3>2, <3>3
  <2>7. \A c \in CaseId : AlertedCase(c)' <=> AlertedCase(c) \/ c = f
    <3>. SUFFICES ASSUME NEW c \in CaseId PROVE AlertedCase(c)' <=> AlertedCase(c) \/ c = f
      OBVIOUS
    <3>1. CASE c.rule = ri
      <4>1. c = f <=> c.key = alerts[ri][opened + 1]
        BY <2>2, <2>d, <3>1 DEF CaseId
      <4>2. AlertedCase(c) <=> \E i \in DOMAIN alerts[ri] : alerts[ri][i] = c.key /\ i <= opened
        BY <2>1, <3>1, NoneAssumption DEF AlertedCase, Opening
      <4>3. AlertedCase(c)' <=>
               \E i \in DOMAIN alerts[ri] : alerts[ri][i] = c.key /\ i <= opened + 1
        BY <2>1, <3>1, NoneAssumption DEF AlertedCase, Opening
      <4>4. \A i \in DOMAIN alerts[ri] : i <= opened + 1 <=> i <= opened \/ i = opened + 1
        BY <1>t, <2>1
      <4>. QED BY <2>1, <4>1, <4>2, <4>3, <4>4
    <3>2. CASE c.rule # ri
      <4>1. c # f BY <2>2, <2>d, <3>2
      <4>. QED BY <2>1, <3>2, <4>1 DEF AlertedCase
    <3>. QED BY <3>1, <3>2
  <2>8. OpenInv' BY <1>v, <2>1, <2>6, <2>7 DEF OpenInv, Broken
  <2>9. UntouchedInv'
    <3>. SUFFICES ASSUME NEW c \in CaseId, ~OpenedCase(c)'
                  PROVE  cases'[c] = "absent" /\ Mentions(c)' = {}
      BY DEF UntouchedInv
    <3>1. c # f /\ ~OpenedCase(c) BY <2>6
    <3>2. cases[c] = "absent" /\ Mentions(c) = {} BY <1>v, <3>1 DEF UntouchedInv
    <3>3. cases'[c] = cases[c] BY <1>t, <2>4, <2>d, <3>1
    <3>4. Mentions(c)' = Mentions(c) BY <2>1 DEF Mentions
    <3>. QED BY <3>2, <3>3, <3>4
  <2>10. resolved' = 0 /\ WalkInv'
    BY <1>t, <1>o, <1>v, <2>1, <2>5 DEF WalkInv, Looping, After, Working, Opening
  <2>11. TakenInv' BY <2>1, <2>10 DEF TakenInv
  <2>12. UnrunInv' BY <1>v, <2>1 DEF UnrunInv, Looping, Opening
  <2>13. \A c \in CaseId : c # f => Agrees(c)'
    <3>. SUFFICES ASSUME NEW c \in CaseId, c # f PROVE Agrees(c)'
      OBVIOUS
    <3>1. Agrees(c) BY <1>a, <2>1
    <3>2. cases'[c] = cases[c] BY <1>t, <2>4, <2>d
    <3>3. Mentions(c)' = Mentions(c) BY <2>1 DEF Mentions
    <3>. QED BY <2>1, <3>1, <3>2, <3>3 DEF Agrees, LastMention
  <2>14. f \in CaseId /\ cases'[f] = "open" BY <1>t, <2>2, <2>4, <2>d
  <2>15. \A c : Current(c)' <=> c = f BY <2>1, <2>3, <2>d DEF Current
  <2>16. AgreeInv' BY <2>13, <2>14, <2>15 DEF AgreeInv
  <2>. QED BY <2>8, <2>9, <2>10, <2>11, <2>12, <2>16 DEF CaseInv
(* Its event follows: the log says what the file says.                     *)
<1>7. CASE AnnounceCase
  <2>. DEFINE d == [rule |-> ri, key |-> alerts[ri][opened]]
              e == CaseEvent("case_opened", d, "open")
  <2>1. /\ ri \in Rules /\ alerts[ri] \in Seq(Keys) /\ phase = "announcing"
        /\ opened \in DOMAIN alerts[ri]
        /\ phase' = "opening" /\ UNCHANGED <<ri, opened, caseIds, cases, alerts, resolved, manifest>>
    BY <1>7, <1>t DEF AnnounceCase, Goto, TypeOK, walk, snapshot, Opening
  <2>2. d \in CaseId BY <2>1 DEF CaseId
  <2>3. /\ e \in Event /\ e.kind \in Dispositions /\ e.rule = d.rule /\ e.key = d.key
        /\ e.to = "open"
    BY <2>2, EventShapes DEF EventKinds, Statuses, CaseEvent, Dispositions
  <2>4. log' = Append(log, e) BY <1>7 DEF AnnounceCase, Say
  <2>5. Current(d) /\ \A c : Current(c) => c = d BY <2>1 DEF Current
  <2>d. PICK f : f = d OBVIOUS
  <2>e. PICK g : g = e OBVIOUS
  <2>. HIDE DEF d, e
  <2>6. /\ g \in Event /\ log' = Append(log, g) /\ g.kind \in Dispositions /\ g.to = "open"
        /\ g.rule = f.rule /\ g.key = f.key /\ f \in CaseId /\ cases[f] = "open"
        /\ \A c \in CaseId : c # f => ~(g.rule = c.rule /\ g.key = c.key) /\ Agrees(c)
    <3>1. f \in CaseId /\ g.rule = f.rule /\ g.key = f.key BY <2>2, <2>3, <2>d, <2>e
    <3>2. \A c \in CaseId : c # f => ~(g.rule = c.rule /\ g.key = c.key) BY <3>1 DEF CaseId
    <3>3. cases[f] = "open" /\ \A c \in CaseId : c # f => Agrees(c)
      BY <1>v, <2>1, <2>2, <2>5, <2>d DEF AgreeInv, Broken
    <3>. QED BY <2>3, <2>4, <2>e, <3>1, <3>2, <3>3
  <2>7. /\ log'[Len(log) + 1] = g
        /\ \A c : /\ \A i \in Mentions(c) : i <= Len(log) /\ log'[i] = log[i]
                  /\ g.rule = c.rule /\ g.key = c.key =>
                        Mentions(c)' = Mentions(c) \cup {Len(log) + 1}
                  /\ ~(g.rule = c.rule /\ g.key = c.key) => Mentions(c)' = Mentions(c)
    BY <2>6, MentionAdded
  <2>8. Agrees(f)'
    <3>1. Mentions(f)' = Mentions(f) \cup {Len(log) + 1} BY <2>6, <2>7
    <3>2. \A j \in Mentions(f)' : j <= Len(log) + 1 BY <1>t, <2>7, <3>1 DEF Mentions
    <3>. QED BY <2>1, <2>6, <2>7, <3>1, <3>2 DEF Agrees, LastMention
  <2>9. \A c \in CaseId : Agrees(c)'
    <3>. SUFFICES ASSUME NEW c \in CaseId, c # f PROVE Agrees(c)'
      BY <2>8
    <3>1. Agrees(c) /\ Mentions(c)' = Mentions(c) /\ \A i \in Mentions(c) : log'[i] = log[i]
      BY <2>6, <2>7
    <3>. QED BY <2>1, <3>1 DEF Agrees, LastMention
  <2>10. AgreeInv' BY <2>1, <2>9 DEF AgreeInv
  <2>11. \A c : OpenedCase(c)' <=> OpenedCase(c) BY <2>1 DEF OpenedCase
  <2>12. \A c : AlertedCase(c)' <=> AlertedCase(c) BY <2>1 DEF AlertedCase, Opening
  <2>13. OpenInv' BY <1>v, <2>1, <2>11, <2>12 DEF OpenInv, Broken
  <2>14. OpenedCase(f)
    <3>1. AlertedCase(f)
      <4>1. f.rule = ri /\ f.key = alerts[ri][opened] BY <2>d DEF d
      <4>2. alerts[ri] # None BY <2>1, NoneAssumption
      <4>. QED BY <1>t, <2>1, <4>1, <4>2 DEF AlertedCase
    <3>. QED BY <1>v, <2>1, <2>6, <3>1 DEF OpenInv, Broken
  <2>15. UntouchedInv'
    <3>. SUFFICES ASSUME NEW c \in CaseId, ~OpenedCase(c)'
                  PROVE  cases'[c] = "absent" /\ Mentions(c)' = {}
      BY DEF UntouchedInv
    <3>1. c # f /\ ~OpenedCase(c) BY <2>11, <2>14
    <3>2. cases[c] = "absent" /\ Mentions(c) = {} BY <1>v, <3>1 DEF UntouchedInv
    <3>. QED BY <2>1, <2>6, <2>7, <3>1, <3>2
  <2>16. resolved' = 0 /\ WalkInv'
    BY <1>t, <1>o, <1>v, <2>1 DEF WalkInv, Looping, After, Working, Opening
  <2>17. TakenInv' BY <2>1, <2>16 DEF TakenInv
  <2>18. UnrunInv' BY <1>v, <2>1 DEF UnrunInv, Looping, Opening
  <2>. QED BY <2>10, <2>13, <2>15, <2>16, <2>17, <2>18 DEF CaseInv
(* The disposition is logged; the file still has the old status.           *)
<1>6. CASE ResolveCase
  <2>. DEFINE x == caseIds[resolved + 1]
              d == Disposition(x.rule, resolved)
              e == CaseEvent(d.event, x, d.to)
  <2>1. /\ phase = "simulate" /\ phase' = "settling" /\ resolved < Len(caseIds)
        /\ UNCHANGED <<ri, opened, resolved, cases, alerts, caseIds, manifest, rules>>
    BY <1>6 DEF ResolveCase, Goto, walk, snapshot, config
  <2>2. x \in CaseId BY <1>t, <2>1
  <2>3. d.event \in {"escalated_to_str", "escalated", "closed"} /\ d.to \in Statuses
    BY <1>t, <2>2, DispositionShape DEF TypeOK, CaseId, Statuses
  <2>4. /\ e \in Event /\ e.kind \in Dispositions /\ e.kind # "case_opened"
        /\ e.rule = x.rule /\ e.key = x.key /\ e.to = d.to
    BY <2>2, <2>3, EventShapes DEF EventKinds, CaseEvent, Dispositions
  <2>5. log' = Append(log, e) BY <1>6 DEF ResolveCase, Say
  <2>t. PICK to : to = d.to OBVIOUS
  <2>s. caseIds'[resolved' + 1] = x /\ Disposition(caseIds[resolved + 1].rule, resolved)'.to = to
    BY <2>1, <2>t DEF Disposition
  <2>d. PICK f : f = x OBVIOUS
  <2>e. PICK g : g = e OBVIOUS
  <2>. HIDE DEF d, e, x
  <2>6. /\ g \in Event /\ log' = Append(log, g) /\ g.kind \in Dispositions /\ g.to = to
        /\ g.kind # "case_opened" /\ g.rule = f.rule /\ g.key = f.key /\ f \in CaseId
        /\ \A c \in CaseId : c # f => ~(g.rule = c.rule /\ g.key = c.key)
    <3>1. f \in CaseId /\ g.rule = f.rule /\ g.key = f.key BY <2>2, <2>4, <2>d, <2>e
    <3>2. \A c \in CaseId : c # f => ~(g.rule = c.rule /\ g.key = c.key) BY <3>1 DEF CaseId
    <3>. QED BY <2>4, <2>5, <2>e, <2>t, <3>1, <3>2
  <2>7. /\ log'[Len(log) + 1] = g
        /\ \A c : /\ \A i \in Mentions(c) : i <= Len(log) /\ log'[i] = log[i]
                  /\ g.rule = c.rule /\ g.key = c.key =>
                        Mentions(c)' = Mentions(c) \cup {Len(log) + 1}
                  /\ ~(g.rule = c.rule /\ g.key = c.key) => Mentions(c)' = Mentions(c)
    BY <2>6, MentionAdded
  <2>8. Taken(f)' /\ Said(f, to)'
    <3>1. Mentions(f)' = Mentions(f) \cup {Len(log) + 1} BY <2>6, <2>7
    <3>2. \A j \in Mentions(f)' : j <= Len(log) + 1 BY <1>t, <2>7, <3>1 DEF Mentions
    <3>. QED BY <2>6, <2>7, <3>1, <3>2 DEF Taken, Said, LastMention
  <2>9. \A c \in CaseId : c # f /\ Taken(c) => Taken(c)'
    <3>. SUFFICES ASSUME NEW c \in CaseId, c # f, Taken(c) PROVE Taken(c)'
      OBVIOUS
    <3>1. Mentions(c)' = Mentions(c) /\ \A i \in Mentions(c) : log'[i] = log[i] BY <2>6, <2>7
    <3>. QED BY <3>1 DEF Taken, LastMention
  <2>10. \A c \in CaseId : c # f => Agrees(c)'
    <3>. SUFFICES ASSUME NEW c \in CaseId, c # f PROVE Agrees(c)'
      OBVIOUS
    <3>1. Agrees(c) BY <1>a, <2>1
    <3>2. Mentions(c)' = Mentions(c) /\ \A i \in Mentions(c) : log'[i] = log[i] BY <2>6, <2>7
    <3>. QED BY <2>1, <3>1, <3>2 DEF Agrees, LastMention
  <2>11. TakenInv'
    <3>1. ASSUME NEW k \in 1..resolved' PROVE Taken(caseIds[k])'
      <4>1. PICK c : c = caseIds[k] OBVIOUS
      <4>2. c \in CaseId /\ caseIds'[k] = c BY <1>t, <2>1, <3>1, <4>1
      <4>3. Taken(c) BY <1>v, <2>1, <3>1, <4>1 DEF TakenInv
      <4>4. Taken(c)' BY <2>8, <2>9, <4>2, <4>3
      <4>. QED BY <4>2, <4>4 DEF Taken, LastMention, Mentions
    <3>2. Taken(caseIds[resolved + 1])' BY <2>s, <2>d, <2>8 DEF Taken, LastMention, Mentions
    <3>3. Said(caseIds[resolved + 1], Disposition(caseIds[resolved + 1].rule, resolved).to)'
      BY <2>s, <2>d, <2>8 DEF Said, LastMention, Mentions
    <3>. QED BY <3>1, <3>2, <3>3 DEF TakenInv
  <2>12. \A c : Current(c)' <=> c = f BY <2>1, <2>s, <2>d DEF Current
  <2>13. AgreeInv' BY <2>1, <2>10, <2>12 DEF AgreeInv
  <2>14. \A c : OpenedCase(c)' <=> OpenedCase(c) BY <2>1 DEF OpenedCase
  <2>15. OpenedCase(f)
    <3>1. resolved + 1 \in DOMAIN caseIds BY <1>t, <2>1
    <3>. QED BY <2>d, <3>1 DEF OpenedCase, x
  <2>16. UntouchedInv'
    <3>. SUFFICES ASSUME NEW c \in CaseId, ~OpenedCase(c)'
                  PROVE  cases'[c] = "absent" /\ Mentions(c)' = {}
      BY DEF UntouchedInv
    <3>1. c # f /\ ~OpenedCase(c) BY <2>14, <2>15
    <3>2. cases[c] = "absent" /\ Mentions(c) = {} BY <1>v, <3>1 DEF UntouchedInv
    <3>. QED BY <2>1, <2>6, <2>7, <3>1, <3>2
  <2>17. OpenInv'
    <3>1. \A c : AlertedCase(c)' <=> AlertedCase(c) BY <2>1 DEF AlertedCase, Opening
    <3>. QED BY <1>v, <2>1, <2>14, <3>1 DEF OpenInv, Broken
  <2>18. WalkInv' /\ UnrunInv'
    BY <1>t, <1>o, <1>v, <2>1 DEF WalkInv, UnrunInv, Looping, After, Working, Opening
  <2>. QED BY <2>11, <2>13, <2>16, <2>17, <2>18 DEF CaseInv
(* The file catches up.                                                    *)
<1>8. CASE SettleCase
  <2>. DEFINE x == caseIds[resolved + 1]
              to == Disposition(x.rule, resolved).to
  <2>1. /\ phase = "settling" /\ phase' = "simulate" /\ resolved < Len(caseIds)
        /\ resolved' = resolved + 1 /\ cases' = [cases EXCEPT ![x] = to]
        /\ UNCHANGED <<ri, opened, log, alerts, caseIds, manifest>>
    BY <1>8 DEF SettleCase, Goto, TypeOK
  <2>2. x \in CaseId BY <1>t, <2>1
  <2>3. Taken(x) /\ Said(x, to) BY <1>v, <2>1 DEF TakenInv
  <2>4. \A c : Current(c) => c = x BY <2>1 DEF Current
  <2>d. PICK f : f = x OBVIOUS
  <2>t. PICK new : new = to OBVIOUS
  <2>5. \A k \in 1..resolved' : k \in 1..resolved \/ caseIds[k] = f
    BY <1>t, <2>1, <2>d
  <2>6. OpenedCase(f)
    <3>1. resolved + 1 \in DOMAIN caseIds BY <1>t, <2>1
    <3>. QED BY <2>d, <3>1 DEF OpenedCase
  <2>. HIDE DEF x, to
  <2>7. \A c : Mentions(c)' = Mentions(c) BY <2>1 DEF Mentions
  <2>8. Agrees(f)'
    <3>1. PICK i \in Mentions(f) : LastMention(f, i) /\ log[i].to = new
      BY <2>3, <2>d, <2>t DEF Said
    <3>2. cases'[f] = new BY <1>t, <2>1, <2>2, <2>d, <2>t
    <3>. QED BY <2>1, <2>7, <3>1, <3>2 DEF Agrees, LastMention
  <2>9. \A c \in CaseId : Agrees(c)'
    <3>. SUFFICES ASSUME NEW c \in CaseId, c # f PROVE Agrees(c)'
      BY <2>8
    <3>1. Agrees(c) BY <1>v, <2>1, <2>4, <2>d DEF AgreeInv, Broken
    <3>2. cases'[c] = cases[c] BY <1>t, <2>1, <2>d
    <3>. QED BY <2>1, <2>7, <3>1, <3>2 DEF Agrees, LastMention
  <2>10. AgreeInv' BY <2>1, <2>9 DEF AgreeInv
  <2>11. TakenInv'
    <3>1. ASSUME NEW k \in 1..resolved' PROVE Taken(caseIds[k])'
      <4>1. PICK c : c = caseIds[k] OBVIOUS
      <4>2. Taken(c) BY <1>v, <2>3, <2>5, <2>d, <3>1, <4>1 DEF TakenInv
      <4>3. caseIds'[k] = c /\ log' = log BY <2>1, <4>1
      <4>. QED BY <2>7, <4>2, <4>3 DEF Taken, LastMention, Mentions
    <3>. QED BY <2>1, <3>1 DEF TakenInv
  <2>12. \A c : OpenedCase(c)' <=> OpenedCase(c) BY <2>1 DEF OpenedCase
  <2>13. UntouchedInv'
    <3>. SUFFICES ASSUME NEW c \in CaseId, ~OpenedCase(c)'
                  PROVE  cases'[c] = "absent" /\ Mentions(c)' = {}
      BY DEF UntouchedInv
    <3>1. c # f /\ ~OpenedCase(c) BY <2>6, <2>12
    <3>2. cases[c] = "absent" /\ Mentions(c) = {} BY <1>v, <3>1 DEF UntouchedInv
    <3>3. cases'[c] = cases[c] BY <1>t, <2>1, <2>d, <3>1
    <3>. QED BY <2>7, <3>2, <3>3
  <2>14. OpenInv'
    <3>1. \A c : AlertedCase(c)' <=> AlertedCase(c) BY <2>1 DEF AlertedCase, Opening
    <3>. QED BY <1>v, <2>1, <2>12, <3>1 DEF OpenInv, Broken
  <2>15. WalkInv' /\ UnrunInv'
    BY <1>t, <1>o, <1>v, <2>1 DEF WalkInv, UnrunInv, Looping, After, Working, Opening
  <2>. QED BY <2>10, <2>11, <2>13, <2>14, <2>15 DEF CaseInv
<1>. QED BY <1>2, <1>3, <1>4, <1>5, <1>6, <1>7, <1>8 DEF Stir

LEMMA CaseStep == TypeOK /\ SealInv /\ CaseInv /\ [Next]_vars => CaseInv'
BY CalmSteps, CalmKeepsCases, StirKeepsCases, ConfigIsFixed

(* Log and case files never drift apart by more than the case being        *)
(* written, and a sealed run has exactly the cases of its alerts, each in  *)
(* the status of its last event and taken further than its opening.        *)
THEOREM SealedCasesMatchLog == Spec => []CasesMatchLog
<1>1. TypeOK /\ SealInv /\ CaseInv => CasesMatchLog
  <2>. SUFFICES ASSUME TypeOK, SealInv, CaseInv PROVE CasesMatchLog
    OBVIOUS
  <2>0. WalkInv /\ OpenInv /\ UntouchedInv /\ TakenInv /\ AgreeInv BY DEF CaseInv
  <2>1. ASSUME manifest # None, NEW c \in CaseId
        PROVE  /\ Agrees(c)
               /\ Alerted(c) <=> Mentions(c) # {}
               /\ \A i \in Mentions(c) : LastMention(c, i) => log[i].kind # "case_opened"
    <3>1. phase \notin {"opening", "announcing", "settling"} BY <2>1 DEF SealInv, Working
    <3>2. Agrees(c) BY <2>0, <2>1, <3>1 DEF AgreeInv, Current
    <3>3. AlertedCase(c) <=> Alerted(c) BY <3>1 DEF AlertedCase, Alerted, Opening
    <3>4. OpenedCase(c) <=> Alerted(c) BY <2>0, <2>1, <3>3 DEF OpenInv
    <3>5. OpenedCase(c) => Taken(c)
      <4>1. resolved = Len(caseIds) /\ caseIds \in Seq(CaseId)
        BY <2>0, <2>1 DEF WalkInv, TypeOK
      <4>. QED BY <2>0, <4>1 DEF TakenInv, OpenedCase
    <3>6. Alerted(c) <=> Mentions(c) # {}
      BY <2>0, <3>4, <3>5 DEF UntouchedInv, Taken
    <3>7. ASSUME NEW i \in Mentions(c), LastMention(c, i) PROVE log[i].kind # "case_opened"
      <4>1. PICK j \in Mentions(c) : LastMention(c, j) /\ log[j].kind # "case_opened"
        BY <3>4, <3>5, <3>6, <3>7 DEF Taken
      <4>2. i \in Nat /\ j \in Nat BY <3>7, <4>1 DEF Mentions, TypeOK
      <4>3. i = j BY <3>7, <4>1, <4>2 DEF LastMention
      <4>. QED BY <4>1, <4>3
    <3>. QED BY <3>2, <3>6, <3>7
  <2>. QED BY <2>0, <2>1 DEF CasesMatchLog, AgreeInv
<1>. QED
  BY <1>1, TypeInit, TypeStep, TicketInit, TicketStep, SealInit, SealStep, CaseInit, CaseStep, PTL
  DEF Spec
============================================================================
