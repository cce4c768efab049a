# A verification development for the AML framework

The repository is a Python framework that runs a *declared* anti-money-laundering
programme. A YAML spec names data contracts, rules, queues and gates; the engine
validates it, loads the data into an in-memory DuckDB warehouse, executes the
rules, opens a case per alert and leaves a directory of evidence that examiners
read later. Around the engine live an HTTP API with a database, a ledger of
officer attestations, a cache of sanctions lists, periodic customer re-rating,
case workflow (triage, decisions, filing), mule-ring search, a comparison with the
legacy system, some twenty commands that turn a run into evidence, and a dashboard.

This directory holds TLA+ models of the parts of that system that keep state or
take several steps, TLC configurations that check them on small instances, and
TLAPS proofs of what matters most. Every definition names the lines it stands
for in `PROJECT.json` (`map`).

## Inventory

| component | state | operations | what makes it correct |
|---|---|---|---|
| Engine run (`engine/runner.py`) | accumulators of one call: findings, python_ref failures, case ids; the run directory | data-quality scan, warehouse build, freshness scan, the rule loop (environment gate, approval gate, scorer, SQL, case opening), simulated dispositions, reports, finalize, stamp, freeze | no rule produces anything before its gates let it through; every reported issue has a ticket, however the run ends, once its inputs were checked; a stopped run is never sealed; the sealed files are the files on disk |
| Audit ledger (`engine/audit.py`) | `decisions.jsonl`, `manifest.json`, the read-only bits | append, finalize, freeze, append after the run, verify | append-only, sealed once; a check that fails is explained by what was written since |
| Promotion gates (`engine/promotion.py`) | the spec's approvals | environment gate, model-approval gate | the decision is recorded whether or not it blocks |
| Defect log (`engine/defect_log.py`, `defect_lifecycle.py`) | `defect_log.jsonl`, the append-only update log | rebuilt three times per run; status updates afterwards | one ticket per issue |
| Attestations (`attestations/`) | `attestations.jsonl`, hash-chained | append, latest for a spec, verify; `aml run --strict` | what runs in strict mode is what was signed; an unedited ledger verifies |
| Sanctions cache (`sanctions/`) | `<list>.csv` and its `.meta.json` | sync: compare, write CSV, write meta | "unchanged" is only said when the CSV holds the payload |
| Case workflow (`engine/runner.py`, `cases/`, three dashboard pages) | the decision log, the case files, the session's view of them | open, simulate, decide on a page, count, rank | a status was decided in the log; a case is resolved as often as the engine listed it; a filing is counted as one |
| pKYC (`pkyc/`) | customer ratings, the evidence a scan reads | scan, recompute, persist | adverse evidence does not lower a rating; repeated scans settle; a newly listed name is flagged |
| Run commands (`cli.py`, `auditor.py`, `generators/`) | none; they read a run directory others write | some twenty commands, each a sequence of reads | what a bundle states is backed by what it carries |
| API and run store (`api/main.py`, `api/db.py`) | runs, metrics, alerts, spec versions per tenant; SQL or Cosmos | store run, list, store spec version, webhooks | a tenant sees its own runs, all parts of a run or none of it |
| API gate (`api/auth.py`, `api/main.py`) | two cached documents of the identity provider; request times per client | check a token, fetch, admit or refuse, evict | a revoked key is refused and a new one honoured in bounded time; a client never gets more than the limit per window |
| Section explanations (`dashboard/section_explainer.py`) | one process's cache of replies, calls in flight, failures and a thread pool, shared by all its sessions; `ai_interactions.jsonl` per run | render a section (cache, failure, dispatch), poll and promote, audit row | a call is dispatched once at a time, promoted and audited once, in the run it was asked from; a failure is shown as one |
| Mule rings (`engine/mule_ring.py`) | a union-find forest | union with path compression, report | the rings are the dense connected communities |
| Equivalence (`engine/equivalence.py`) | an index of new alerts, the ones paired | index, walk the legacy side, the rest | every alert in one cell, whatever the order of the exports |
| Service-level monitors, travel rule, regulatory watch, rules, metrics, generators, parsers, other pages | none beyond one call, or one file | pure functions, rendering, one-shot commands | not modelled |

How they interact: the CLI, the API and the dashboard each call `run_spec`; each
then reads or appends to the run directory it returned, and the dashboard's decisions
and tuning sweeps and the commands of the CLI meet there. The strict CLI consults
the attestation ledger first. The sanctions cache writes the lists the rule
executors read. The API copies a finished run into its store, and prior runs feed
the monitoring digest of the next one. There are no threads inside the engine;
concurrency comes from several processes (CLI invocations, API workers,
dashboard sessions) sharing directories and tables, from asynchronous request
handlers sharing module-level dictionaries, and from processes that die between
two writes.

### What is hard here

`PROJECT.json` lists every hazard at the line where it bites, with the
properties that would catch it. In short:

* **One long call, many exits.** `run_spec` can raise at a contract violation, at
  either promotion gate, at a strict scorer failure, and anywhere silently; it can
  be killed between any two writes. Each artifact has to be on disk before the
  exit that needs it, and nothing may be sealed after a stop.
* **Read, then write, with no lock.** The attestation ledger, the sanctions cache,
  the spec versions of the run store.
* **Two writes that belong together.** The list file and its meta file; an opening's
  or a disposition's event, the case file and the session's view; a run document, its alerts and
  its metrics in Cosmos; `manifest.json`, written, read back, stamped, frozen.
* **A file read several times.** `aml run --strict` reads the spec four times; the
  API reads it a third time after the run to store its text.
* **Many readers of one directory.** Commands read case files, log and manifest in
  turn, while runs fill it, die in it or share it and an analyst decides a case or
  tunes a rule.
* **Caches of caches.** Token keys come through two documents of different ages,
  and a limiter forgets clients at its cap.
* **Results that must not depend on order.** Union-find over pairs, pairing of rows.
* **Tables shared by sessions** of one dashboard process, only one of them under a
  lock, and answers drained by a session other than the one that asked.
* **Identity by construction.** Case ids, run ids and run directories are computed
  from fields or drawn at random, and can be computed or drawn twice.

## Modules

```
EvidenceLog        what a run directory promises            abstract
  ^ implemented by (ImplementsEvidenceLog; LoneRunIsEvidence for OperatorCommands)
EngineRun          one call of run_spec over its directory
  MCEngineRun      declarations for TLC
  EngineRunProofs

AttestationLedger  officers appending to one hash-chained ledger
  ^ extended by
AttestedRun        `aml run --strict` and an author beside them
  AttestedRunProofs

SanctionsCache     syncs of one list
  MCSanctionsCache
CustomerRating     repeated pKYC scans while their evidence moves
  MCCustomerRating
ScreeningProofs    theorems about these two

RunPublication     what a client of the run API may rely on  abstract
  ^ implemented by (Publication), when the backend is SQL
RunStore           POST /runs and the store, both backends
  MCRunStore
ApiGate            rate limit and token check of one worker
  MCApiGate
ApiProofs          theorems about these two

SectionExplainer   sessions, shared tables, worker pool
  MCSectionExplainer, SectionExplainerProofs

CaseDesk           cases from the alert to the pages and the counts
  MCCaseDesk, CaseDeskProofs
OperatorCommands   runs, an analyst and a command over one directory
  MCOperatorCommands, OperatorCommandsProofs

MuleRing           the union-find search
  MCMuleRing
Equivalence        the comparison with the legacy system
  MCEquivalence
AnalysisProofs     theorems about these two

Rows               picking rows by a condition, for ApiGate and Equivalence
```

A definition that begins "Mutant:" (or "A mutant:") is the faulty variant of
another, kept to show that a property can fail; no specification uses it.

### EngineRun - `engine/runner.py`, `engine/audit.py`, `engine/promotion.py`, `engine/defect_log.py`

State: the validated spec and the three switches that decide strictness
(`config`), the accumulators of the call (`found`, `failures`, `caseIds`), the
position (`phase`, `ri`, `opened`, `resolved`), and the run directory: `log` is
`decisions.jsonl`, `tickets` is `defect_log.jsonl`, `alerts` and `cases` are the
files in those directories, `manifest` and `frozen` are what finalize and freeze
leave.

| actions | code |
|---|---|
| `ReportCheck`, `WriteQualityArtifacts` | the data-quality scan and the artifacts that must land before the warehouse |
| `BuildWarehouse`, `ContractViolation`, `ScanFreshness` | the warehouse, its contract violation, the freshness scan |
| `SkipInactive`, `ConsultEnvironmentGate`, `ConsultApprovalGate` | the head of the rule loop; a blocked gate logs and raises |
| `RejectCallable`, `ScorerFails`, `TicketFailure` | `python_ref` outside the allowed modules; a scorer that raises, then the rewritten defect log and, in strict mode, the abort |
| `RecordAlerts`, `RecordUnexecutable`, `OpenCase`, `AnnounceCase`, `RuleDone` | alerts written; for each alert a case file, then its event; next rule |
| `RaisesSilently` | an exception nothing in `run_spec` handles, from the checks of the inputs to the reports |
| `RulesDone`, `ResolveCase`, `SettleCase`, `SimulationDone` | the simulated dispositions: the event, then the case file |
| `WriteReports`, `Finalize`, `StampManifest`, `Freeze` | `_finalize_run` |
| `AnalystDecides`, `SweepRule` | `append_to_run_dir` on a finished run: a case decision, a sweep of the Tuning Lab |
| `Killed` | the process dies at any point |

Abstracted: what a rule's SQL or scorer computes (any batch of alerts up to
`MaxAlerts`, any of them twice), what the reports say, time. Kept of an alert is
the pair its case id is built from. The chain hash is the log it was taken over.

### AttestationLedger and AttestedRun - `attestations/__init__.py`, `cli.py`

`aml attest` is `HashSpec` (hash the file), `ReadHead` (read the whole ledger, take
the head and build the entry, whose time and so whose identity are fixed there) and
`WriteLine` (append one line) or `TearLine` (a write cut short:
a fragment, or a line without its newline). `Written` says what a later append
does to such a line: it is glued to it, and the two no longer parse. `Verify` is
the walk of `AttestationLedger.verify`. `AttestedRun` adds the strict command:
`Load`, `GateHash`, `GateLookup`, `Stamp`, `Snapshot`, the four reads of the spec
file in their order, and `Edit`, an author who saves it.

### SanctionsCache - `sanctions/cache.py`, `sanctions/sync.py`

A sync is `Start` (fetch any payload; read the meta file, and raise if it does not
parse), `Compare` ("unchanged", or read the old rows), `OpenCsv`, `FillCsv`,
`OpenMeta`, `Finish`. Opening a file for writing truncates it, so a list or meta
file is a set of rows and whether it is whole; two writers that both opened one may
leave a mixture, which for the meta file is text that no later sync can parse. `view` is a reader who applies
each returned delta. `lone` and `disturbed` are history: whether a sync has
written alone, and whether syncs overlapped or died after a first write.

### RunStore - `api/main.py`, `api/db.py`

`Create` is the request from the finished engine run on; `StoreSql` is the one
transaction of PostgreSQL and SQLite, `UpsertRun`, `UpsertAlerts` and
`UpsertMetrics` the documents of Cosmos; `CheckVersion` and `InsertVersion` are
`store_spec_version`, `Fire` the webhooks and the answer. `Raise` is a store that
fails, `Restart` a worker that dies. Reads are operators (`GetRun`, `PartsOf`,
`Fetch`). `RunPublication` says what a client may rely on: a run appears whole, in
one step, to one tenant, and stays.

### SectionExplainer - `dashboard/section_explainer.py`

A render is three steps per section (`Look` at the cache, `Pop` a failure, `Ask`
under the lock), because only the table of calls in flight is under the lock. A
poll is `Claim` (under the lock) and then `Promote` and `Log` for each claimed
call, in the order of the table; `WriteRow` appends the audit row or, when that
fails, drops it with a warning (`dropped`). `Work` is the pool. `Visit` is a page load or a
click, which may switch the session to another run; `Close` shuts the tab.

### CaseDesk - `engine/runner.py`, `cases/`, `dashboard/pages/3, 4 and 22`, `metrics/outcomes.py`

`Alerts` names the case of each alert and `Facts` what a case's id fixes: two alerts
of one rule, customer and window are one case, listed twice. The engine opens and
works the list entry by entry, two writes each (`OpenCase`: file, event; `WorkCase`:
event, file; `half` is between them), with the simulated analyst's choice in
`Disposition`, and `Load` hands the case files to one dashboard session. A click is
`PressCase`, `PressBulk` or `Narrate`, and `_record_action` is
`AppendDecision`, `WriteFile`, `ShowDecision`, which the bulk page enters without
the second and the Review Queue with the first only. `StopScript` is Streamlit
interrupting a script, `Die` the end of the engine's or the server's process. The
readers are operators: `Filed`, `ClosedCount`, `PackFiled`, and `Ahead` and `Place` for
the ranked queue: a sort is modelled by the order it sorts by. The queues are
those of the example specs. Scores are multiplied by 100 to stay whole.

### OperatorCommands - `cli.py`, `auditor.py`, `generators/`, `engine/audit.py`, `engine/tuning.py`

A directory is the case file's status, the log, the log the manifest's chain was
taken over, and the read-only bits. One case stands for all of a run, and a run may
have none and so an empty log; a run is the writes of `EngineRun` that a reader can
tell apart, with the chain taken (`TakeHash`) before the manifest is written
(`WriteManifest`). `Runs` are the calls of one second, which share the directory
(`AuditLedger.create` accepts one that exists). `DecideEvent`, `DecideFile` and
`SweepRule` are the dashboard on a finished run; `aml tune --audit-run-dir`, which
appends the same event, is taken to name a finished one as well. A command is the
sequence of files it reads (`AuditPack`, `Replay`, ...), one per step; `must` is a
manifest without which it exits, `check` the read that is hashed against the manifest
just read. A file write is one step: torn reads of one file are left out.

### CustomerRating - `pkyc/`

`Scan` is `aml pkyc-scan`: four detectors, `Recompute`, `RatingChanges`. The
command writes no rating and no delta; `Persist` and the saving of a sync's result
are its caller's and marked external, like the changes of countries, alerts, and
time between scans. `added` is history: what was listed since the last scan.

### ApiGate - `api/auth.py`, `api/main.py`

`Refuse` and `Admit` are the middleware, with the eviction at the cap; `lost` is
history, what evictions forgot. `CheckCached`, `Check`, `FetchConfig`, `FetchKeys`,
`FetchFails` are `_validate_oidc_token`: a fetch takes up to `MaxLag` ticks and
yields to nobody. `Publish`, `Withdraw`, `Move` are the provider. Times are ages.

### MuleRing - `engine/mule_ring.py`

`Init` is any graph of links, which is what the six linking attributes can give.
`Union` is one pair of the sorted loop, both finds with their path compression
included; a find is not recursive here, its result is the root among the nodes
above (`Above`: those that no set closed under the forest leaves out). `Report`
gathers members and links by root.

### Equivalence - `engine/equivalence.py`

`Index` is the loop over the new rows (and the deduplication of both sides), `Walk`
one legacy row, `Rest` what was not paired. Python object identity of a kept alert
is the alert itself, as kept alerts differ in place or rule. A list comprehension
with a condition is `Picked` of `Rows`: the elements at the positions that meet it,
the i-th of them being the one with i positions up to it.

## What the runs check

`tlc -config <cfg> <module>` repeats any of them.

| run | shows |
|---|---|
| `engine_run` | The engine in every combination of two declared rules. `EveryIssueTicketed`: once there is a defect log, log and defect log name the same problems whatever ends the run, a killed process being at most one scorer failure behind; a run without one ended while its inputs were checked. `GatesPrecedeFiring`: no failure or case before every applicable gate has recorded its approval. `StopIsFinal`: the event that stops a run is its last and there is no manifest. `CasesMatchLog`: at any moment at most one case's file is not what the log last said of it, and in a sealed run there is a case file exactly for the alerts on disk, with the last disposition the log gives it. `PinnedArtifactsHold`: what the manifest pins is on disk for good, the log grows only by what the dashboard appends, and nothing is frozen under a manifest that lacks the failures. `ImplementsEvidenceLog`: the directory refines the append-only, seal-once log. |
| `attested_run` | `SerialSigningVerifies`: officers who do not overlap leave a ledger that verifies, torn writes included. `LostOnlyByTears`: each torn write costs at most one recorded attestation. `ClearedIsSigned`: what the gate looked up is signed; it takes a save between load and gate to execute an unsigned version, and a second one after the gate to leave manifest or snapshot unsigned as well. |
| `sanctions_cache` | `MetaDescribesList`, `DeltasAddUp`, `UnchangedIsCurrent`: while nothing disturbed the list. `LoneSyncRestores`: whatever came before, a sync that writes alone repairs list and meta file. |
| `run_store` | Both backends, with ids drawn twice, outages and restarts. `ToldIsWhole`: a client answered 200 and a webhook's receiver find the run whole. `MetricsComeLast`: what a client of Cosmos, where a run is visible in parts, can wait for. `TenantsSeeTheirOwn`. `Publication`: over SQL the store refines `RunPublication`. |
| `section_explainer` | `OneOwner`: a call is in flight, in one poller's hands, or accounted for by one audit row or by the warning that it was dropped. `LoggedToAsker`: its row is in the run it was asked in. `FailureVisible`: a reply is shown only if one was given, an error only if there was one. `EveryCallSettles`: as long as somebody has a page open, calls are answered and audited, or dropped with the warning. |
| `case_desk` | `FileFollowsLog`: no case file shows a status nobody decided, whatever write of engine or page is interrupted. `ResolvedOnce`: engine, single-case page and bulk page close a case or hand it to filing no more often than the engine listed it, and once more per interrupted click; the Review Queue, which asks nothing, is not counted. `FilingsReachTheFunnel`: every filing, by either name and from any page, is counted, and the audit pack shows none the funnel does not. `NoOvertaking`: the queue ranks no case behind one with as much time left, less severe and no riskier. |
| `closed_is_pending` | violated: `ClosedIsCounted`. `outcomes.py:40-46` says its sets mirror the engine's event names; the event of a closed case, `closed`, is not among them, so closed cases are reported as pending and none is ever counted closed. |
| `operator_commands` | Each command, read by read. `StatusIsBacked`: a decided status read from a case file is in every log read after it. `SealedIsSettled`: with a manifest in hand every case the sealed log opened is seen, and none still open, unless two runs share the directory. `VerifiedLogIsTheEvidence`: what is copied after verification extends what verified. `FailureIsExplained`: where verification fails, the log was sealed empty, or an analyst has decided a case or swept a rule since, or two runs share the directory. |
| `customer_rating` | `FallsOnlyFromTheTop`: evidence lowers a rating in one case, critical to high, and not with a hit. `SettlesInTwo`: repeated scans climb for two rounds. `NewlyListedAreFlagged`: namesakes too, if the list changed once between scans. |
| `api_gate` | `RevokedSoonRefused`, `RotatedSoonAccepted`: within one cache lifetime, two if the provider moved its keys. `ForgottenForNewer`: a client's window is forgotten only for `MaxTracked` others admitted since. |
| `mule_rings` | `RootsAreCommunities`: after each union two customers have one root exactly if the pairs so far connect them. `RingsAreDenseCommunities`: the report is exactly the maximal connected sets that are large and dense enough. |
| `equivalence` | `ReportIgnoresOrder`: every alert of either side is in one cell, none is one-sided that had a partner, and the legacy alert takes the new one that agrees with it: all stated of the exports as sets. The last part supposes no side reports one cell with two severities; there the first row wins. |

### Limits the models show

Behaviours of the code that the properties have to make room for. Each is why a
property has the condition it has.

* Case ids: all `list_match` alerts of a run share one window end, so two matching
  rows of a customer get one case id (`engine/runner.py:269`); the second overwrites
  the file of the first, and the case is worked once per alert: by its places in the
  list it can be closed and then handed on, or the reverse (`engine/runner.py:824`).
* An exception in the data-quality checks ends the run with `dq_exception` events in
  its log and no defect log (`engine/runner.py:1138`; a value that cannot be hashed
  under a unique check raises at `engine/dq.py:370`). The comment at
  `engine/runner.py:1167-1171` has any abort below it leave its tickets behind; the
  checks come before it.
* Verification hashes the whole log, which stays writable: it reports tampering
  after a legitimate decision, and after the Tuning Lab was merely opened on the run,
  which appends `tuning_run` unless its box is unticked (`engine/audit.py:724`,
  `engine/tuning.py:299`). A run that logged nothing has the empty string for its
  chain and never verifies (`engine/audit.py:704`, `728`).
* Cases are opened at the run's as_of and the service-level report and the backlog
  of the same run measure from it (`engine/runner.py:1644`): their ages are zero and
  nothing is ever late or old, whereas `cases/sla.py:9-13` and
  `engine/whistleblower_audit.py:9-10` say late cases are reported, and
  `test_engine_sla.py:174-193` and `test_whistleblower_audit.py:105-123` test these
  functions with cases of other dates. No property states this: it follows from the
  two times being one.
* A pack that asks for no manifest (`audit-pack`, `outcomes-pack`, `case-pack`,
  `queue-rank`) is drawn from a half-filled directory without a word.
* Racing officers fork the attestation chain (`attestations/__init__.py:120`). A
  save between `load_spec` and the gate's hash lets an unsigned version run.
* "Unchanged" is answered over a partial list if syncs overlap or one died between
  its two writes (`sanctions/cache.py:134`); overlapping writers of the meta file can
  leave text at which every later sync raises (`sanctions/cache.py:166`).
* A placeholder whose call another session's poller drained is repainted only when
  its own page next reruns (`section_explainer.py:728`). An audit row that cannot be
  written is dropped with a warning (`section_explainer.py:339`).
* Two runs in one second share a directory: the second one's defect log replaces
  the first's, and after the first freezes the second gets `PermissionError`.
  Commands without `--run-dir` take the newest directory, finished or not.
* The audit pack's case summary misses the US event `escalated_to_sar`. Bulk
  decisions and the Review Queue leave the case file as it was, and the Review Queue
  files a case as often as its button is pressed.
* A customer hit by a sanctions list whose country is high-risk falls to high at
  the next scan whose delta lacks the name; a delta overwritten before a scan is
  lost; a critical customer with one high trigger becomes high.
* A revoked token key is honoured for one cache lifetime, two if the endpoint
  moved, and a new key is refused as long, as an unknown key triggers no refresh.
  Refused requests do not renew a client's place at the limiter's cap.
* A second new rule mapped to one legacy rule is NEW_ONLY where the legacy alert
  was taken by the first. One new row without a customer fails the whole report.

### Bounds, and why they are enough

| run | bounds |
|---|---|
| `engine_run` | Two rules, each any of seven declarations that between them take every branch of the loop; two alert keys, two alerts per rule (so one key twice, or two keys); one data-quality exception; one decision or sweep afterwards. A second rule is needed for what one rule leaves to the next; rules interact only through the accumulators, so a third adds no new kind of interaction. |
| `attested_run` | Two officers, two versions, three entries, one torn write, two saves. Three entries let a fork be followed by an append that has to choose a head; a second save can restore the first version. |
| `sanctions_cache` | Two processes, three syncs, one death, three rows of which two are one name with different aliases. The third sync sees what two overlapping ones, or one that died, left behind. |
| `run_store` | Two workers, two tenants, two requests over two run ids, so that an id may repeat; two rules, so that alerts can be half stored; one edit, two faults (an outage and a restart). |
| `section_explainer` | Two sessions, two pages sharing a section, one worker so that calls queue, two visits, one failing call, one dropped row. |
| `case_desk` | Eight alerts of five cases that between them take every branch of the simulation: two cases the engine files, one of them listed twice, one it hands on, and two, listed twice, that it closes and hands on in either order, so that a bulk action has two cases to act on; two clicks, one interruption, two ticks, which is enough to cross a band. |
| `operator_commands` | Two runs of one second, each with a case or with none, one decision, one sweep, one command. Commands only read what others write, so two do not meet; `Serving` does not continue a state in which the command has ended. |
| `customer_rating` | Two customers of one name, every initial rating, the detector's five review ages, three changes of evidence. |
| `api_gate` | Three clients of whom two are tracked, two requests per two ticks, a lifetime of two ticks, checks that take up to one. |
| `mule_rings` | Every graph on five customers, with the default thresholds of three and one half: two communities, chains, cliques and sparse sets occur. |
| `equivalence` | Three new and two legacy rows over two places, two rules on each side, all maps of rules: a repeated row, a second candidate and a miss meet. |

`SYMMETRY` is declared over workers, tenants, ids and rules in the store, over the
sync processes, over the clients of the API and over places and legacy rules in the
comparison, in runs that check no liveness. Nothing in those modules distinguishes
the values; the one choice of an order among them, that of the last cells of the
comparison, no property looks at. Deadlock is not checked where commands end or an
idle system with its bounds used up may stop; `customer_rating` checks it.

### Fairness

Safety needs none. `EveryCallSettles`, the one liveness property, assumes weak
fairness of each session's script and of the pool: a script runs on, an open page
ticks every 1.2 s, a free thread takes the next call and HTTP calls time out.
Nobody has to visit a page, close one, kill a process or decide anything.

## What is proved

TLAPS checks these for every value of the constants, within the assumptions the
modules name. Those say that bounds, counts and thresholds are naturals, that the
marker values (`None`, `Junk`, `NoPlace`) are none of the values they stand beside,
that the limiter sees finitely many clients, that declarations, alerts and deadlines have their shape, that pages are non-empty and
there is a worker, and that alert keys are not names of checks. One restricts the
configuration: `LagAssumption` has a token check take no longer than one cache
lifetime: its two fetches time out after 5 s each (`auth.py:151`) and the lifetime
defaults to 300 s (`OIDC_CACHE_SECONDS`, `auth.py:22`). Were the lifetime configured
shorter than that, the old place's keys could be honoured for a lifetime and a fetch.

* **EngineRunProofs.** `TypeCorrect`. `IssuesTicketed` rests on `TicketInv`: the
  accumulators equal what the log reports, and the tickets, once there are any, equal
  the accumulators except between a `rule_failed` event and the rewrite, where they
  lack at most rule `ri`. (`EveryIssueTicketed` alone says nothing of the accumulators
  the next rewrite uses.) `PinsHold` rests on `SealInv`: before finalize there is no
  manifest; after it nothing is written to the log but decisions and sweeps.
  `RefinesEvidenceLog` then needs that every
  step appends or seals. `StopsAreFinal` (`StopInv`): with a stopping event in the
  log the run is over, or owes the ticket of one strict failure. `GatesHold`
  (`GateInv`): the rule the loop is at was cleared by the gates the loop has passed,
  as an earlier rule was by all of its own. `SealedCasesMatchLog` (`CaseInv`): the
  cases opened are those of the alerts walked, a case never opened has neither file
  nor event, every case walked was taken further, and only the case between its two
  writes can differ from its last event.
* **AttestedRunProofs.** `TypeCorrect`, `SerialSigning`, `ClearedSigned`,
  `LossIsBounded`. `SerialInv` adds that at most one
  officer is between reading and writing, and that the head it read is still the
  latest entry. `GateInv` ties a torn line to the count of torn writes, `DriftInv` how
  far each read of the spec lies from the gate's to the number of saves. `FreshInv`:
  an entry still to be written is nobody else's and not recorded. `TearInv`
  counts an open last line as a torn write whose toll is still due, and knows that
  such a line was never reported as recorded.
* **ScreeningProofs.** Of the list: `TypeCorrect`, `QuietListHolds`, `DeltasHold`,
  `UnchangedHolds`, `LoneSyncHolds` from one invariant `SyncInv`: undisturbed syncs
  come one at a time; a writer alone since it opened the list still sees what it
  wrote; between writers list, meta file and `view` agree; what a sync read is still
  on disk. Of the ratings: `RatingsFallFromTheTop`, `RatingsSettle`,
  `NewNamesAreFlagged`. `Reads` reduces a recomputation to five facts about a
  customer. `RoundInv` is why two rounds suffice: the first leaves open only what the
  second lifts from medium to high. `ListingInv`: after at most one sync the names
  listed since the last scan are in the saved delta.
* **ApiProofs.** Of the store: `TypeCorrect`; `SqlPublishes`, over SQL, where the
  parts stored are those of the runs stored, so the one transaction maps to
  `Publish` and every other step leaves all reads alone; `TenantsAreApart`: whatever
  is stored or sent was computed for a recorded request (`MadeInv`), and over SQL a
  run id is a key; `MetricsAreLast`: documents never lose their key, and a worker past
  a write finds its key there, two runs of one id included (`LastInv`);
  `ToldRunsAreWhole`: a worker about to answer finds its run and its spec version
  whole, or somebody drew its id (`WorkInv`, `ToldInv`). Of the gate:
  `RevocationIsBounded` and `RotationIsBounded`. What changed at the new place is
  younger than a discovery document that does not name it (`ConfigAge`), younger than
  that document's lifetime and the lag when keys are fetched by it (`FetchAge`), and
  ages with the keys from there on (`KeysAge`). `ForgottenAreOldest`: windows
  stay sorted by age (`LimiterTypes`), so that their last request is their newest; an
  eviction leaves the cap's worth of clients, none of whom is older there than one it
  drops; and a request, counted or forgotten, stays as long as it is recent.
* **SectionExplainerProofs.** `TypeCorrect`, `OwnedOnce`, `AuditedToAsker`,
  `AskedOnceAtATime` from `Inv`: a session in the middle of a page is at one of its
  sections, each table entry is a call of its own key with the directory of its
  asker, a claimed call is resolved and owned once, and an unanswered call is in
  the table of its key. The last is what makes `OneUnanswered` inductive.
  `FailuresShow` adds `SeenInv`: cache, failures and screens show a key only what a
  call for it ended with.
* **CaseDeskProofs.** `TypeCorrect`, `FilingsAreCounted` (each row that files has a
  word the funnel knows), `FilesFollowTheLog` (a status on file was decided in the log
  before; the log only grows), and `ResolvedOncePerStop`. Its `ResolvedInv` ties each
  row of the engine to the entry of the list it worked (`EngineInv`), so that a case
  has at most as many resolving rows as listings, and fewer if its file ends
  unresolved. From there (`CountInv`) it has at most listings and stops together, and
  strictly fewer unless the session, or the click at work, shows it as resolved, so
  that no further click starts. Cases of a bulk action are distinct and not shown as
  resolved (`PendingInv`).
  `QueueListsEachOnce`, `NeverOvertaken`: `Ahead` is a strict total order on the cases,
  ties broken by position, so the number of cases up to one is a place nobody else has
  (`PlacesAreTaken`; an injection of a finite set into one as large is onto), and a
  case ahead of another has the smaller one.
* **OperatorCommandsProofs.** `TypeCorrect`, `StatusesAreBacked`, `SealsAreSettled`,
  `VerifiedIsEvidence`, `FailuresAreExplained`, for any number of runs, decisions,
  sweeps and commands. `BackedInv` and `SoloInv` speak of the directory: a worked
  status is in the log, and a case in the log has its file; alone, an open case belongs
  to a run at work or dead, a chain taken is that of the log there is, and a sealed log
  is followed by decisions and sweeps only. `PlanInv` of the order of a command's
  reads, `ReadInv` of what it has read: a log it read begins the log there is, a
  status it read is in it, and a manifest it read is that of a sealed run.
  `LoneRunIsEvidence`: the directory refines `EvidenceLog`, which `EngineRun` refines
  too, so that a command reads what a run promises. The step that seals is the only
  one that changes the manifest, since the copy `Freeze` writes again is the one on
  disk; with a second run in the directory it need not be, and only the growth of the
  log remains.
* **AnalysisProofs.** Of the rings, `RootsCorrect`: in the invariant no node's parent is larger than
  the node, and a map `R` gives a node and its parent the same root; a compression
  leaves `R` as it is, a union sends one class to the other's root. Roots exist because
  the naturals are well founded; that `R` identifies exactly what the pairs connect is
  argued with cuts, which need no induction over paths. `RingsCorrect`: with no pair
  left a root's class is a connected set and every connected set is one, so what is
  reported is exactly those that pass the thresholds. Of the comparison,
  `OrderIsIgnored`, for exports of any length: in `CompareInv` the first cells answer
  the legacy rows walked, each with the best alert of its pool (`FrontInv`), what is
  consumed is what they name, and at the end the other cells are those of the alerts
  nobody took, one each (`TailInv`). No alert of a row's pool can be taken when its
  turn comes, since the rows kept differ in place or rule; hence the pairing, which the
  code does row by row, is a function of the two sets. What deduplication and the
  comprehensions keep is argued by counting positions (`PositionFacts`), not by
  induction over the rows.

Theorems also cover what no run repeats: `OneUnanswered`, `PlacesAreTaken`, the
refinement `LoneRunIsEvidence` and the type invariants.

Model-checked only, and why:

* `EveryCallSettles`: liveness under fairness is beyond the prover.
* `ClosedIsCounted` is false; its run shows it.

## What is not modelled

* Rule SQL, scorers, generators, parsers and reports compute one result from one
  input; their results are inputs here. This is most of the code by length.
* YAML validation: a pure function of one file; the engine's model starts from the
  validated spec.
* Pages other than the three that decide cases, layout, charts, wizards, outbound
  integrations, deployment. Case grouping (`cases/aggregator.py`) is a pure
  function; its docstring (lines 27-29) promises that alerts 25 days apart share an
  investigation, which fixed 30-day buckets do not give when they straddle a border.
* The service-level report and the backlog (`engine/sla.py`): pure functions of a
  run's cases and log, see the limits above. Status updates of defects
  (`engine/defect_lifecycle.py`): a file of its own that no modelled command reads.
* `integrations/travel_rule_adapter.py`: nothing calls `accept_enrichment` but its
  tests. Its one statement fills NULLs only, so the first answer decides, blanks and
  the text "None" included.
* `compliance/regwatch.py`: one command that compares or overwrites one file.
  `--update` drops pages it could not reach; two specs share the default file.
* Masking of personal data (with `AML_PII_MASKING=1` the pattern detector finds no
  customer by id), lineage files and the read-only API endpoints.
* In `SectionExplainer`, Streamlit's interruption of a script between two of its
  statements: when it happens is decided by a library outside this repository.
* Rate limits across workers: each worker counts for itself.

## Plan

1. `EngineRun` mapped to the run of `OperatorCommands` step by step. Both refine
   `EvidenceLog` today, which says nothing of case files.
2. `SanctionsCache` feeding `CustomerRating`, so that a scan reads the delta of a
   sync that other syncs race.
