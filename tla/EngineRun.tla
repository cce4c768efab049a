----------------------------- MODULE EngineRun -----------------------------
(***************************************************************************)
(* One engine run: engine/runner.py run_spec and _finalize_run over the    *)
(* run directory that engine/audit.py AuditLedger writes.  A state is what *)
(* is on disk plus the accumulators of the call; a step is the code        *)
(* between two points where the run can raise, be killed, or be observed.  *)
(* Alert payloads, SQL and metrics are abstracted; what is kept of an      *)
(* alert is the identity its case file gets.                               *)
(***************************************************************************)
EXTENDS Integers, Sequences, FiniteSets

CONSTANTS N,            \* rules in the spec, executed in spec order
          RuleSpecs,    \* the rule declarations a spec may hold
          Keys,         \* (customer_id, window_end) pairs an alert may carry
          Checks,       \* data-quality exceptions the input may raise
          MaxAlerts,    \* bound: alerts of one rule
          MaxAnalyst,   \* bound: events the dashboard appends after the run
          None          \* no key / nothing recorded / no manifest

Rules == 1..N

Logic == {"python_ref", "query", "other"}
NextQueues == {"filing", "review", "closing", "none"}

RuleShape == [active: BOOLEAN, logic: Logic, callableAllowed: BOOLEAN,
              envApproved: BOOLEAN, material: BOOLEAN, modelApproved: BOOLEAN,
              high: BOOLEAN, next: NextQueues]

ASSUME NAssumption == N \in Nat
ASSUME RuleSpecsAssumption == RuleSpecs \subseteq RuleShape
ASSUME MaxAlertsAssumption == MaxAlerts \in Nat
ASSUME MaxAnalystAssumption == MaxAnalyst \in Nat
ASSUME KeysAreNotChecks == Keys \cap Checks = {}

VARIABLES
    rules,          \* Rules -> RuleSpecs, the validated spec
    strictGating,   \* program.strict_environment_gating
    approvalGate,   \* require_approval_before_prod and environment = prod
    strictPy,       \* _is_strict_python_ref(...)
    phase, ri,      \* where the call is, and the rule it is at
    opened,         \* alerts of rule ri that already have their case
    resolved,       \* case ids already walked by the simulation
    found,          \* dq_exceptions
    failures,       \* python_ref_failures
    caseIds,        \* case_ids, one entry per alert
    log,            \* decisions.jsonl
    tickets,        \* defect_log.jsonl: what its tickets are about, or None
    alerts,         \* alerts/<rule>.jsonl, or None
    cases,          \* cases/<id>.json: the status field, "absent" if no file
    manifest,       \* manifest.json, or None
    frozen          \* the snapshot files are read-only

config == <<rules, strictGating, approvalGate, strictPy>>
walk == <<opened, resolved, caseIds>>
memory == <<found, failures>>
call == <<phase, ri, walk, memory>>
snapshot == <<tickets, alerts, cases, manifest, frozen>>
disk == <<log, snapshot>>
vars == <<config, call, disk>>

EventKinds == {"dq_exception", "contract_violation", "pkyc_trigger",
               "env_gate_approved", "env_gate_warn_only", "env_gate_blocked",
               "approval_gate_approved", "approval_gate_blocked",
               "rule_failed", "case_opened", "escalated_to_str", "escalated",
               "closed", "analyst", "tuning_run"}
Statuses == {"absent", "open", "filing", "review", "closed"}

Event == [kind: EventKinds, rule: 0..N, key: Keys \cup Checks \cup {None},
          to: Statuses]
CaseId == [rule: Rules, key: Keys]
Tickets == [checks: SUBSET Checks, failures: SUBSET Rules]
Outputs == [Rules -> Seq(Keys) \cup {None}]
Manifest == [decisions: Seq(Event), tickets: Tickets, outputs: Outputs,
             failures: (SUBSET Rules) \cup {None}]

ASSUME NoneAssumption == /\ None \notin Keys /\ None \notin Checks
                         /\ None \notin Seq(Keys) /\ None \notin Seq(Event)
                         /\ None \notin Tickets /\ None \notin Manifest

RuleEvent(k, r) == [kind |-> k, rule |-> r, key |-> None, to |-> "absent"]
CaseEvent(k, c, s) == [kind |-> k, rule |-> c.rule, key |-> c.key, to |-> s]
CheckEvent(q) == [kind |-> "dq_exception", rule |-> 0, key |-> q, to |-> "absent"]

(* What decisions.jsonl says: the checks it reports, the rules it reports failed. *)
ReportedChecks == {q \in Checks : \E i \in DOMAIN log :
                      log[i].kind = "dq_exception" /\ log[i].key = q}
ReportedFailures == {r \in Rules : \E i \in DOMAIN log :
                        log[i].kind = "rule_failed" /\ log[i].rule = r}

AlertBatches == UNION {[1..n -> Keys] : n \in 0..MaxAlerts}

(* AuditLedger.create: a fresh directory, an empty decisions.jsonl. *)
Init ==
    /\ rules \in [Rules -> RuleSpecs]
    /\ strictGating \in BOOLEAN
    /\ approvalGate \in BOOLEAN
    /\ strictPy \in BOOLEAN
    /\ phase = "inputs" /\ ri = 1 /\ opened = 0 /\ resolved = 0
    /\ found = {} /\ failures = {} /\ caseIds = << >>
    /\ log = << >> /\ tickets = None /\ manifest = None /\ frozen = FALSE
    /\ alerts = [r \in Rules |-> None]
    /\ cases = [c \in CaseId |-> "absent"]

Abort == phase' = "aborted"
Goto(p) == phase' = p
NextRule == phase' = "rules" /\ ri' = ri + 1
Say(e) == log' = Append(log, e)

----------------------------------------------------------------------------
(* Before any rule: data quality, warehouse, freshness.                    *)

(* evaluate_contract_checks found q; one dq_exception event per finding. *)
ReportCheck(q) ==
    /\ phase = "inputs" /\ q \notin found
    /\ found' = found \cup {q}
    /\ Say(CheckEvent(q))
    /\ UNCHANGED <<config, phase, ri, walk, failures, snapshot>>

(* _write_defect_log_snapshot with what the call knows so far. *)
WriteTickets(fails) ==
    tickets' = [checks |-> found, failures |-> fails]

(* dq_exceptions.jsonl, the defect log and field_lineage.jsonl land before *)
(* the warehouse is built, so that an abort below leaves them behind.      *)
WriteQualityArtifacts ==
    /\ phase = "inputs"
    /\ WriteTickets({})
    /\ Goto("warehouse")
    /\ UNCHANGED <<config, ri, walk, memory, log, alerts, cases, manifest, frozen>>

BuildWarehouse ==
    /\ phase = "warehouse"
    /\ Goto("freshness")
    /\ UNCHANGED <<config, ri, walk, memory, disk>>

(* Mutant: the violation is logged and the run goes on. *)
SwallowedViolation ==
    /\ phase = "warehouse"
    /\ Say(RuleEvent("contract_violation", 0))
    /\ Goto("freshness")
    /\ UNCHANGED <<config, ri, walk, memory, snapshot>>

(* A required column is missing: the event is appended, then re-raised. *)
ContractViolation ==
    /\ phase = "warehouse"
    /\ Say(RuleEvent("contract_violation", 0))
    /\ Abort
    /\ UNCHANGED <<config, ri, walk, memory, snapshot>>

(* At most one stale contract is enough to interleave the event. *)
ScanFreshness ==
    /\ phase = "freshness"
    /\ \/ UNCHANGED log
       \/ Say(RuleEvent("pkyc_trigger", 0))
    /\ Goto("rules")
    /\ UNCHANGED <<config, ri, walk, memory, snapshot>>

----------------------------------------------------------------------------
(* The rule loop.                                                          *)

SkipInactive ==
    /\ phase = "rules" /\ ri \in Rules /\ ~rules[ri].active
    /\ NextRule
    /\ UNCHANGED <<config, walk, memory, disk>>

(* is_rule_approved_for_environment; the event is recorded either way. *)
ConsultEnvironmentGate ==
    /\ phase = "rules" /\ ri \in Rules /\ rules[ri].active
    /\ LET ok == rules[ri].envApproved
           outcome == IF ok THEN "env_gate_approved"
                      ELSE IF strictGating THEN "env_gate_blocked"
                      ELSE "env_gate_warn_only"
       IN  /\ Say(RuleEvent(outcome, ri))
           /\ IF ~ok /\ strictGating THEN Abort ELSE Goto("approval")
    /\ UNCHANGED <<config, ri, walk, memory, snapshot>>

(* model_approval_gate_applies: opted in, prod, strict gating, material tier. *)
ApprovalGateApplies(r) == approvalGate /\ strictGating /\ rules[r].material

(* Mutant: the gate speaks only when it blocks. *)
SilentApproval ==
    /\ phase = "approval"
    /\ IF ApprovalGateApplies(ri) /\ ~rules[ri].modelApproved
       THEN Say(RuleEvent("approval_gate_blocked", ri)) /\ Abort
       ELSE UNCHANGED log /\ Goto("execute")
    /\ UNCHANGED <<config, ri, walk, memory, snapshot>>

ConsultApprovalGate ==
    /\ phase = "approval"
    /\ IF ApprovalGateApplies(ri)
       THEN IF rules[ri].modelApproved
            THEN Say(RuleEvent("approval_gate_approved", ri)) /\ Goto("execute")
            ELSE Say(RuleEvent("approval_gate_blocked", ri)) /\ Abort
       ELSE UNCHANGED log /\ Goto("execute")
    /\ UNCHANGED <<config, ri, walk, memory, snapshot>>

(* A python_ref outside the allowed module prefixes: ValueError, no event. *)
RejectCallable ==
    /\ phase = "execute" /\ rules[ri].logic = "python_ref"
    /\ ~rules[ri].callableAllowed
    /\ Abort
    /\ UNCHANGED <<config, ri, walk, memory, disk>>

(* The scorer raised: zero alerts and a rule_failed event ... *)
ScorerFails ==
    /\ phase = "execute" /\ rules[ri].logic = "python_ref"
    /\ rules[ri].callableAllowed
    /\ alerts' = [alerts EXCEPT ![ri] = << >>]
    /\ Say(RuleEvent("rule_failed", ri))
    /\ failures' = failures \cup {ri}
    /\ Goto("failing")
    /\ UNCHANGED <<config, ri, walk, found, tickets, cases, manifest, frozen>>

(* Mutant: strict mode raises before the defect log is emitted again. *)
RaiseBeforeTicket ==
    /\ phase = "failing"
    /\ IF strictPy THEN Abort /\ UNCHANGED <<ri, tickets>>
                   ELSE WriteTickets(failures) /\ NextRule
    /\ UNCHANGED <<config, walk, memory, log, alerts, cases, manifest, frozen>>

(* ... then the defect log again, and in strict mode PythonRefFailure. *)
TicketFailure ==
    /\ phase = "failing"
    /\ WriteTickets(failures)
    /\ IF strictPy THEN Abort /\ UNCHANGED ri ELSE NextRule
    /\ UNCHANGED <<config, walk, memory, log, alerts, cases, manifest, frozen>>

Executable(r) == \/ rules[r].logic = "query"
                 \/ rules[r].logic = "python_ref" /\ rules[r].callableAllowed

RecordAlerts(batch) ==
    /\ phase = "execute" /\ Executable(ri)
    /\ alerts' = [alerts EXCEPT ![ri] = batch]
    /\ opened' = 0
    /\ Goto("opening")
    /\ UNCHANGED <<config, ri, resolved, caseIds, memory, log>>
    /\ UNCHANGED <<tickets, cases, manifest, frozen>>

(* A logic type the reference engine does not execute records no alert. *)
RecordUnexecutable ==
    /\ phase = "execute" /\ rules[ri].logic = "other"
    /\ alerts' = [alerts EXCEPT ![ri] = << >>]
    /\ NextRule
    /\ UNCHANGED <<config, walk, memory, log, tickets, cases, manifest, frozen>>

(* _open_cases_for_alerts, one alert: record_case writes the file named by *)
(* rule, customer and window end over whatever had that name ...           *)
OpenCase ==
    /\ phase = "opening" /\ opened < Len(alerts[ri])
    /\ LET c == [rule |-> ri, key |-> alerts[ri][opened + 1]]
       IN  /\ cases' = [cases EXCEPT ![c] = "open"]
           /\ caseIds' = Append(caseIds, c)
    /\ opened' = opened + 1
    /\ Goto("announcing")
    /\ UNCHANGED <<config, ri, resolved, memory, log, tickets, alerts, manifest, frozen>>

(* ... and then case_opened is logged, every time.                         *)
AnnounceCase ==
    /\ phase = "announcing"
    /\ Say(CaseEvent("case_opened", [rule |-> ri, key |-> alerts[ri][opened]], "open"))
    /\ Goto("opening")
    /\ UNCHANGED <<config, ri, walk, memory, snapshot>>

RuleDone ==
    /\ phase = "opening" /\ opened = Len(alerts[ri])
    /\ NextRule
    /\ UNCHANGED <<config, walk, memory, disk>>

(* An exception no handler logs: a check that cannot evaluate its rows, the *)
(* warehouse, the freshness scan, entity resolution (before the first rule),*)
(* a query or the stamping of alerts, a queue's SLA, a report or a metric.  *)
RaisesSilently ==
    /\ \/ phase \in {"inputs", "warehouse", "freshness", "simulate", "report"}
       \/ phase = "rules" /\ ri = 1
       \/ phase = "execute" /\ rules[ri].logic # "other"
    /\ Abort
    /\ UNCHANGED <<config, ri, walk, memory, disk>>

----------------------------------------------------------------------------
(* After the rules: simulated dispositions, reports, seal.                 *)

RulesDone ==
    /\ phase = "rules" /\ ri \notin Rules
    /\ Goto("simulate")
    /\ UNCHANGED <<config, ri, walk, memory, disk>>

(* _decide_disposition for a rule of this severity and queue, idx from 0. *)
Disposition(r, idx) ==
    LET nxt == rules[r].next IN
    IF rules[r].high
    THEN CASE nxt = "filing"  -> [event |-> "escalated_to_str", to |-> "filing"]
           [] nxt = "review"  -> [event |-> "escalated", to |-> "review"]
           [] nxt = "closing" -> [event |-> "escalated", to |-> "closed"]
           [] nxt = "none"    -> [event |-> "closed", to |-> "closed"]
    ELSE IF idx % 3 = 0 /\ nxt \in {"filing", "review"}
         THEN [event |-> "escalated", to |-> nxt]
         ELSE [event |-> "closed", to |-> "closed"]

(* One iteration of _simulate_case_resolution logs the disposition ...     *)
ResolveCase ==
    /\ phase = "simulate" /\ resolved < Len(caseIds)
    /\ LET c == caseIds[resolved + 1]
           d == Disposition(c.rule, resolved)
       IN  Say(CaseEvent(d.event, c, d.to))
    /\ Goto("settling")
    /\ UNCHANGED <<config, ri, walk, memory, snapshot>>

(* Mutant: the case file keeps its old status. *)
SettleInLogOnly ==
    /\ phase = "settling"
    /\ resolved' = resolved + 1
    /\ Goto("simulate")
    /\ UNCHANGED <<config, ri, opened, caseIds, memory, disk>>

(* ... and then rewrites the case file with its new status.                *)
SettleCase ==
    /\ phase = "settling"
    /\ LET c == caseIds[resolved + 1]
       IN  cases' = [cases EXCEPT ![c] = Disposition(c.rule, resolved).to]
    /\ resolved' = resolved + 1
    /\ Goto("simulate")
    /\ UNCHANGED <<config, ri, opened, caseIds, memory, log>>
    /\ UNCHANGED <<tickets, alerts, manifest, frozen>>

SimulationDone ==
    /\ phase = "simulate" /\ resolved = Len(caseIds)
    /\ Goto("report")
    /\ UNCHANGED <<config, ri, walk, memory, disk>>

(* _finalize_run up to finalize(): every report is written, and the defect *)
(* log once more from the accumulators.                                    *)
WriteReports ==
    /\ phase = "report"
    /\ WriteTickets(failures)
    /\ Goto("finalize")
    /\ UNCHANGED <<config, ri, walk, memory, log, alerts, cases, manifest, frozen>>

(* AuditLedger.finalize pins each artifact as it is on disk now. *)
Finalize ==
    /\ phase = "finalize"
    /\ manifest' = [decisions |-> log, tickets |-> tickets, outputs |-> alerts,
                    failures |-> None]
    /\ Goto("pinned")
    /\ UNCHANGED <<config, ri, walk, memory, log, tickets, alerts, cases, frozen>>

(* _finalize_run rewrites the manifest with metrics and python_ref_failures ... *)
StampManifest ==
    /\ phase = "pinned"
    /\ manifest' = [manifest EXCEPT !.failures = failures]
    /\ Goto("stamped")
    /\ UNCHANGED <<config, ri, walk, memory, log, tickets, alerts, cases, frozen>>

(* Mutant: the snapshot is frozen by finalize(), before the rewrite. *)
FreezeFirst ==
    /\ phase = "pinned"
    /\ frozen' = TRUE
    /\ Goto("stamped")
    /\ UNCHANGED <<config, ri, walk, memory, log, tickets, alerts, cases, manifest>>

(* ... and only then freezes the snapshot; decisions.jsonl stays writable. *)
Freeze ==
    /\ phase = "stamped"
    /\ frozen' = TRUE
    /\ Goto("done")
    /\ UNCHANGED <<config, ri, walk, memory, log, tickets, alerts, cases, manifest>>

(* append_to_run_dir on a run the engine has handed over.                  *)
LaterKinds == {"analyst", "tuning_run"}
Later == {i \in DOMAIN log : log[i].kind \in LaterKinds}

(* Mutant: the decision is written over the last line. *)
AnalystOverwrites(c) ==
    /\ phase = "done" /\ Cardinality(Later) < MaxAnalyst
    /\ cases[c] # "absent"
    /\ log' = [log EXCEPT ![Len(log)] = CaseEvent("analyst", c, cases[c])]
    /\ UNCHANGED <<config, call, snapshot>>

(* An analyst decides on a case.  What the page goes on to do to the case  *)
(* file is CaseDesk's.                                                     *)
AnalystDecides(c) ==
    /\ phase = "done" /\ Cardinality(Later) < MaxAnalyst
    /\ cases[c] # "absent"
    /\ Say(CaseEvent("analyst", c, cases[c]))
    /\ UNCHANGED <<config, call, snapshot>>

(* The Tuning Lab sweeps a rule of the run and, unless the box is unticked, *)
(* says so in the run's log; no case is involved.                           *)
SweepRule(r) ==
    /\ phase = "done" /\ Cardinality(Later) < MaxAnalyst
    /\ Say(RuleEvent("tuning_run", r))
    /\ UNCHANGED <<config, call, snapshot>>

(* The process dies, or a write of it fails.                               *)
Killed ==
    /\ phase \notin {"done", "aborted", "killed"}
    /\ Goto("killed")
    /\ UNCHANGED <<config, ri, walk, memory, disk>>

Engine ==
    \/ \E q \in Checks : ReportCheck(q)
    \/ WriteQualityArtifacts \/ BuildWarehouse \/ ContractViolation
    \/ ScanFreshness
    \/ SkipInactive \/ ConsultEnvironmentGate \/ ConsultApprovalGate
    \/ RejectCallable \/ ScorerFails \/ TicketFailure
    \/ \E batch \in AlertBatches : RecordAlerts(batch)
    \/ RecordUnexecutable \/ OpenCase \/ AnnounceCase \/ RuleDone \/ RaisesSilently
    \/ RulesDone \/ ResolveCase \/ SettleCase \/ SimulationDone
    \/ WriteReports \/ Finalize \/ StampManifest \/ Freeze

Next ==
    \/ Engine \/ Killed
    \/ \E c \in CaseId : AnalystDecides(c)
    \/ \E r \in Rules : SweepRule(r)

Spec == Init /\ [][Next]_vars

----------------------------------------------------------------------------
(* What the run must guarantee.                                            *)

(* Every variable keeps the shape the code gives it. *)
TypeOK ==
    /\ rules \in [Rules -> RuleSpecs]
    /\ strictGating \in BOOLEAN /\ approvalGate \in BOOLEAN
    /\ strictPy \in BOOLEAN /\ frozen \in BOOLEAN
    /\ phase \in {"inputs", "warehouse", "freshness", "rules", "approval",
                  "execute", "failing", "opening", "announcing", "simulate",
                  "settling", "report", "finalize", "pinned", "stamped", "done", "aborted", "killed"}
    /\ ri \in 1..(N + 1) /\ opened \in Nat /\ resolved \in Nat
    /\ phase \in {"approval", "execute", "failing", "opening", "announcing"} => ri \in Rules
    /\ found \subseteq Checks /\ failures \subseteq Rules
    /\ caseIds \in Seq(CaseId)
    /\ log \in Seq(Event)
    /\ tickets \in Tickets \cup {None}
    /\ alerts \in Outputs
    /\ phase \in {"opening", "announcing"} => alerts[ri] \in Seq(Keys)
    /\ phase = "announcing" => opened \in DOMAIN alerts[ri]
    /\ phase = "settling" => resolved < Len(caseIds)
    /\ cases \in [CaseId -> Statuses]
    /\ manifest \in Manifest \cup {None}
    /\ phase \in {"finalize", "pinned", "stamped", "done"} => tickets \in Tickets
    /\ phase \in {"pinned", "stamped", "done"} => manifest \in Manifest

(* Once the defect log exists it has a ticket for every problem the log    *)
(* reports, however the run ends, up to the one scorer failure being       *)
(* written.  A run without one stopped while its inputs were checked:      *)
(* nothing but check findings is in its log, and it is never sealed.       *)
EveryIssueTicketed ==
    /\ tickets = None =>
          /\ phase \in {"inputs", "aborted", "killed"} /\ manifest = None
          /\ \A i \in DOMAIN log : log[i].kind = "dq_exception"
    /\ tickets # None =>
          /\ tickets.checks = ReportedChecks
          /\ tickets.failures \subseteq ReportedFailures
          /\ \A r, s \in ReportedFailures \ tickets.failures : r = s
          /\ phase \notin {"failing", "killed"} => tickets.failures = ReportedFailures

(* No rule leaves a trace - a failure or a case - before the gates that     *)
(* guard it were consulted, recorded, and let it through.                   *)
Clearances(r) ==
    {IF strictGating THEN {"env_gate_approved"}
                     ELSE {"env_gate_approved", "env_gate_warn_only"}}
    \cup (IF ApprovalGateApplies(r) THEN {{"approval_gate_approved"}} ELSE {})
GatesPrecedeFiring ==
    \A i \in DOMAIN log :
        log[i].kind \in {"case_opened", "rule_failed"} =>
            \A kinds \in Clearances(log[i].rule) :
                \E j \in 1..(i - 1) : log[j].rule = log[i].rule /\ log[j].kind \in kinds

(* The event that stops a run is the last word of its log, and such a run   *)
(* never gets a manifest.                                                   *)
Stopping == {"contract_violation", "env_gate_blocked", "approval_gate_blocked"}
            \cup (IF strictPy THEN {"rule_failed"} ELSE {})
StopIsFinal ==
    \A i \in DOMAIN log :
        log[i].kind \in Stopping => i = Len(log) /\ manifest = None

(* Log and case files never drift apart: at any moment, a kill included,   *)
(* at most one case's file differs from what the log said of it last.      *)
Dispositions == {"case_opened", "escalated_to_str", "escalated", "closed"}
Mentions(c) == {i \in DOMAIN log : /\ log[i].kind \in Dispositions
                                   /\ log[i].rule = c.rule /\ log[i].key = c.key}
LastMention(c, i) == i \in Mentions(c) /\ \A j \in Mentions(c) : j <= i
Agrees(c) == IF Mentions(c) = {} THEN cases[c] = "absent"
             ELSE \E i \in Mentions(c) : LastMention(c, i) /\ log[i].to = cases[c]
(* A sealed run accounts for every alert: exactly the alerts recorded on   *)
(* disk have a case, every case agrees with the log, and each was taken    *)
(* further than its opening.                                               *)
Alerted(c) == /\ alerts[c.rule] # None
              /\ \E i \in DOMAIN alerts[c.rule] : alerts[c.rule][i] = c.key
CasesMatchLog ==
    /\ \A c, d \in CaseId : Agrees(c) \/ Agrees(d) \/ c = d
    /\ manifest # None =>
          \A c \in CaseId :
              /\ Agrees(c)
              /\ Alerted(c) <=> Mentions(c) # {}
              /\ \A i \in Mentions(c) : LastMention(c, i) => log[i].kind # "case_opened"

(* What the manifest pins is what is on disk, for good: reports, tickets   *)
(* and outputs never move again, the log only gains what the dashboard     *)
(* appends, and nothing is frozen before the manifest has the failures.    *)
PinnedArtifactsHold ==
    /\ frozen => manifest # None /\ manifest.failures = ReportedFailures
    /\ manifest # None =>
          /\ manifest.tickets = tickets /\ manifest.outputs = alerts
          /\ Len(manifest.decisions) <= Len(log)
          /\ \A i \in DOMAIN log :
                IF i <= Len(manifest.decisions) THEN log[i] = manifest.decisions[i]
                ELSE log[i].kind \in LaterKinds

(* The run directory implements the append-only, seal-once log. *)
Evidence == INSTANCE EvidenceLog
              WITH entries <- log, NoSeal <- None,
                   seal <- IF manifest = None THEN None ELSE manifest.decisions
ImplementsEvidenceLog == Evidence!Spec
============================================================================
