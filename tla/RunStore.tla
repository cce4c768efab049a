------------------------------ MODULE RunStore ------------------------------
(***************************************************************************)
(* POST /api/v1/runs from the finished run_spec on, over the two kinds of  *)
(* store of api/db.py: one transaction per function in PostgreSQL and      *)
(* SQLite, one upsert per document in Cosmos.  create_run never awaits, so *)
(* a worker process serves one run at a time; several workers share the    *)
(* store.  A run's manifest, alerts and metrics are abstracted to the      *)
(* request ("tag") they were computed for, a spec hash to the file version *)
(* hashed.  Run ids are eight hex digits and may be drawn twice.           *)
(***************************************************************************)
EXTENDS Integers, FiniteSets

CONSTANTS Workers, Tenants, RunIds, Rules,
          Backends,     \* the kinds of store, among "sql" and "cosmos"
          MaxRequests, MaxEdits, MaxFaults      \* bounds

ASSUME BackendsAssumption == Backends \subseteq {"sql", "cosmos"}
ASSUME BoundsAssumption ==
    MaxRequests \in Nat /\ MaxEdits \in Nat /\ MaxFaults \in Nat

VARIABLES
    backend,    \* the store this deployment was configured with
    file,       \* version of the spec file
    runs, alerts, metrics,      \* the stored documents
    specs,      \* the stored spec versions, each with the request that wrote it
    hooks,      \* worker -> tenants with a webhook registered there
    got,        \* events the tenants' webhooks received
    pc, req,    \* worker -> where its request is, and the request
    asked,      \* the requests accepted
    ended,      \* tag -> "open", 200 or 500
    faults

store == <<runs, alerts, metrics>>
vars == <<backend, file, store, specs, hooks, got, pc, req, asked, ended, faults>>

Tags == 1..MaxRequests
Versions == 1..(MaxEdits + 1)
NoReq == [tag |-> 0, left |-> {}]

Init ==
    /\ backend \in Backends /\ file = 1
    /\ runs = {} /\ alerts = {} /\ metrics = {} /\ specs = {}
    /\ hooks = [w \in Workers |-> {}] /\ got = {}
    /\ pc = [w \in Workers |-> "idle"] /\ req = [w \in Workers |-> NoReq]
    /\ asked = {} /\ ended = [n \in Tags |-> "open"] /\ faults = 0

----------------------------------------------------------------------------
(* What GET /runs/{id}, /alerts and /metrics return to a tenant: Cosmos     *)
(* reads the tenant's partition, SQL joins the parts to the tenant's run.   *)
GetRun(t, id) == {d.tag : d \in {e \in runs : e.id = id /\ e.tenant = t}}

PartsOf(docs, t, id) ==
    {d \in docs : /\ d.id = id
                  /\ IF backend = "cosmos" THEN d.tenant = t ELSE GetRun(t, id) # {}}

Fetch(t, id) == [run |-> GetRun(t, id),
                 alerts |-> {<<d.rule, d.tag>> : d \in PartsOf(alerts, t, id)},
                 metrics |-> {d.tag : d \in PartsOf(metrics, t, id)}]

WholeRun(tag) == [run |-> {tag}, alerts |-> Rules \X {tag}, metrics |-> {tag}]

----------------------------------------------------------------------------
Current(w) == CHOOSE r \in asked : r.tag = req[w].tag
SameKey(d, r) == d.id = r.id /\ (backend = "cosmos" => d.tenant = r.tenant)
Upsert(docs, d) == {e \in docs : ~SameKey(e, d)} \cup {d}

Goto(w, l) == pc' = [pc EXCEPT ![w] = l]
End(w, status) ==
    /\ Goto(w, "idle") /\ req' = [req EXCEPT ![w] = NoReq]
    /\ ended' = [ended EXCEPT ![req[w].tag] = status]

(* A request arrives and run_spec runs; its manifest has the file's hash.   *)
Create(w, t, id) ==
    LET n == Cardinality(asked) + 1 IN
    /\ pc[w] = "idle" /\ n \in Tags
    /\ asked' = asked \cup {[tag |-> n, tenant |-> t, id |-> id, hash |-> file]}
    /\ req' = [req EXCEPT ![w] = [tag |-> n, left |-> Rules]]
    /\ Goto(w, "store")
    /\ UNCHANGED <<backend, file, store, specs, hooks, got, ended, faults>>

Doc(r) == [id |-> r.id, tenant |-> r.tenant, tag |-> r.tag]
AlertDoc(r, rule) == [id |-> r.id, tenant |-> r.tenant, rule |-> rule, tag |-> r.tag]

(* Mutant: every statement is committed by itself, the run last; an id in   *)
(* use is only found out then.                                              *)
StoreSqlPiecewise(w) ==
    LET r == Current(w) IN
    /\ backend = "sql" /\ pc[w] = "store"
    /\ alerts' = alerts \cup {AlertDoc(r, rule) : rule \in Rules}
    /\ metrics' = metrics \cup {Doc(r)}
    /\ IF \E d \in runs : SameKey(d, r)
       THEN End(w, "500") /\ UNCHANGED runs
       ELSE runs' = runs \cup {Doc(r)} /\ Goto(w, "version") /\ UNCHANGED <<req, ended>>
    /\ UNCHANGED <<backend, file, specs, hooks, got, asked, faults>>

(* SQL: one transaction; a run id already in use violates the primary key.  *)
StoreSql(w) ==
    LET r == Current(w) IN
    /\ backend = "sql" /\ pc[w] = "store"
    /\ IF \E d \in runs : SameKey(d, r)
       THEN End(w, "500") /\ UNCHANGED store
       ELSE /\ runs' = runs \cup {Doc(r)}
            /\ alerts' = alerts \cup {AlertDoc(r, rule) : rule \in Rules}
            /\ metrics' = metrics \cup {Doc(r)}
            /\ Goto(w, "version") /\ UNCHANGED <<req, ended>>
    /\ UNCHANGED <<backend, file, specs, hooks, got, asked, faults>>

(* Cosmos: the run, then its alerts rule by rule, then its metrics.         *)
UpsertRun(w) ==
    LET r == Current(w) IN
    /\ backend = "cosmos" /\ pc[w] = "store"
    /\ runs' = Upsert(runs, Doc(r))
    /\ Goto(w, "alerts")
    /\ UNCHANGED <<backend, file, alerts, metrics, specs, hooks, got, req, asked, ended, faults>>

UpsertAlerts(w, rule) ==
    LET r == Current(w) IN
    /\ pc[w] = "alerts" /\ rule \in req[w].left
    /\ alerts' = {e \in alerts : ~(SameKey(e, r) /\ e.rule = rule)} \cup {AlertDoc(r, rule)}
    /\ req' = [req EXCEPT ![w].left = @ \ {rule}]
    /\ UNCHANGED <<backend, file, runs, metrics, specs, hooks, got, pc, asked, ended, faults>>

(* Mutant: the metrics do not wait for the alerts. *)
UpsertMetricsEarly(w) ==
    /\ pc[w] = "alerts"
    /\ metrics' = Upsert(metrics, Doc(Current(w)))
    /\ Goto(w, "version")
    /\ UNCHANGED <<backend, file, runs, alerts, specs, hooks, got, req, asked, ended, faults>>

UpsertMetrics(w) ==
    /\ pc[w] = "alerts" /\ req[w].left = {}
    /\ metrics' = Upsert(metrics, Doc(Current(w)))
    /\ Goto(w, "version")
    /\ UNCHANGED <<backend, file, runs, alerts, specs, hooks, got, req, asked, ended, faults>>

HasVersion(r) == \E v \in specs : v.hash = r.hash /\ v.tenant = r.tenant

(* store_spec_version: the file is read again, the version looked up ...    *)
CheckVersion(w) ==
    /\ pc[w] = "version"
    /\ IF HasVersion(Current(w)) THEN Goto(w, "fire") /\ UNCHANGED req
       ELSE Goto(w, "insert") /\ req' = [req EXCEPT ![w].left = {file}]
    /\ UNCHANGED <<backend, file, store, specs, hooks, got, asked, ended, faults>>

(* ... and inserted.  Cosmos refuses a second item with its id.             *)
InsertVersion(w) ==
    LET r == Current(w) IN
    /\ pc[w] = "insert"
    /\ IF backend = "cosmos" /\ HasVersion(r)
       THEN End(w, "500") /\ UNCHANGED specs
       ELSE /\ specs' = specs \cup {[hash |-> r.hash, tenant |-> r.tenant, by |-> r.tag,
                                     content |-> CHOOSE v \in req[w].left : TRUE]}
            /\ Goto(w, "fire") /\ UNCHANGED <<req, ended>>
    /\ UNCHANGED <<backend, file, store, hooks, got, asked, faults>>

(* Mutant: every registered webhook is called. *)
FireAll(w) ==
    LET r == Current(w) IN
    /\ pc[w] = "fire"
    /\ \E hit \in SUBSET hooks[w] :
            got' = got \cup {[to |-> t, tag |-> r.tag] : t \in hit}
    /\ End(w, "200")
    /\ UNCHANGED <<backend, file, store, specs, hooks, asked, faults>>

(* Mutant: the webhooks do not wait for the spec version. *)
FireEarly(w) ==
    LET r == Current(w) IN
    /\ pc[w] \in {"version", "fire"}
    /\ \E hit \in SUBSET (hooks[w] \cap {r.tenant}) :
            got' = got \cup {[to |-> t, tag |-> r.tag] : t \in hit}
    /\ End(w, "200")
    /\ UNCHANGED <<backend, file, store, specs, hooks, asked, faults>>

(* The tenant's webhooks in this worker are called; a failing call is only  *)
(* logged.  The request is answered.                                        *)
Fire(w) ==
    LET r == Current(w) IN
    /\ pc[w] = "fire"
    /\ \E hit \in SUBSET (hooks[w] \cap {r.tenant}) :
            got' = got \cup {[to |-> t, tag |-> r.tag] : t \in hit}
    /\ End(w, "200")
    /\ UNCHANGED <<backend, file, store, specs, hooks, asked, faults>>

(* A call to the store raises (outage, throttling): the request is a 500.   *)
Raise(w) ==
    /\ pc[w] \notin {"idle", "fire"} /\ faults < MaxFaults
    /\ faults' = faults + 1
    /\ End(w, "500")
    /\ UNCHANGED <<backend, file, store, specs, hooks, got, asked>>

(* The worker dies and is restarted: its request is never answered and its  *)
(* webhooks are forgotten.                                                  *)
Restart(w) ==
    /\ faults < MaxFaults /\ faults' = faults + 1
    /\ Goto(w, "idle") /\ req' = [req EXCEPT ![w] = NoReq]
    /\ hooks' = [hooks EXCEPT ![w] = {}]
    /\ UNCHANGED <<backend, file, store, specs, got, asked, ended>>

Register(w, t) ==
    /\ pc[w] = "idle"
    /\ hooks' = [hooks EXCEPT ![w] = @ \cup {t}]
    /\ UNCHANGED <<backend, file, store, specs, got, pc, req, asked, ended, faults>>

(* An author saves the spec file. *)
Edit ==
    /\ file < MaxEdits + 1
    /\ file' = file + 1
    /\ UNCHANGED <<backend, store, specs, hooks, got, pc, req, asked, ended, faults>>

Store(w) == \/ StoreSql(w) \/ UpsertRun(w)
            \/ \E rule \in Rules : UpsertAlerts(w, rule)
            \/ UpsertMetrics(w)

Next == \/ \E w \in Workers :
              \/ \E t \in Tenants, id \in RunIds : Create(w, t, id)
              \/ Store(w) \/ CheckVersion(w) \/ InsertVersion(w) \/ Fire(w)
              \/ Raise(w) \/ Restart(w)
              \/ \E t \in Tenants : Register(w, t)
        \/ Edit

Spec == Init /\ [][Next]_vars

----------------------------------------------------------------------------
(* Every variable keeps its shape. *)
TypeOK ==
    LET Docs == [id : RunIds, tenant : Tenants, tag : Tags] IN
    /\ backend \in Backends /\ file \in Versions
    /\ alerts \subseteq [id : RunIds, tenant : Tenants, tag : Tags, rule : Rules]
    /\ runs \subseteq Docs /\ metrics \subseteq Docs
    /\ specs \subseteq [hash : Versions, tenant : Tenants, by : Tags, content : Versions]
    /\ hooks \in [Workers -> SUBSET Tenants]
    /\ got \subseteq [to : Tenants, tag : Tags]
    /\ pc \in [Workers -> {"idle", "store", "alerts", "version", "insert", "fire"}]
    /\ asked \subseteq [tag : Tags, tenant : Tenants, id : RunIds, hash : Versions]
    /\ \A w \in Workers : pc[w] # "idle" => req[w].tag \in {r.tag : r \in asked}
    /\ ended \in [Tags -> {"open", "200", "500"}]
    /\ faults \in 0..MaxFaults

OnlyOneDrew(r) == \A s \in asked : s.id = r.id => s = r

(* A run whose client was answered 200, or a receiver told of by a webhook, *)
(* can be fetched whole, with every rule's alerts and its metrics, and its  *)
(* spec version is on file; in Cosmos, unless another run drew the same id. *)
ToldIsWhole ==
    \A r \in asked :
        (ended[r.tag] = "200" \/ \E e \in got : e.tag = r.tag) /\ (backend = "sql" \/ OnlyOneDrew(r))
            => Fetch(r.tenant, r.id) = WholeRun(r.tag) /\ HasVersion(r)

(* Metrics are only there when the run and all its alerts are, so a client  *)
(* that waits for them reads a complete run.                                *)
MetricsComeLast ==
    \A t \in Tenants, id \in RunIds :
        LET f == Fetch(t, id) IN
        f.metrics # {} => f.run # {} /\ {a[1] : a \in f.alerts} = Rules

(* Nothing a tenant can fetch was computed for another tenant's request,    *)
(* and a webhook hears of its own tenant's runs only.                       *)
TenantsSeeTheirOwn ==
    LET owns(t, tag) == \E r \in asked : r.tag = tag /\ r.tenant = t IN
    /\ \A t \in Tenants, id \in RunIds :
          LET f == Fetch(t, id) IN
          \A tag \in f.run \cup f.metrics \cup {a[2] : a \in f.alerts} : owns(t, tag)
    /\ \A e \in got : owns(e.to, e.tag)

(* With SQL every run appears in one step, whole, and stays as it is.       *)
Shown == [k \in Tenants \X RunIds |-> Fetch(k[1], k[2])]
Published == INSTANCE RunPublication WITH shown <- Shown
Publication ==
    /\ backend = "sql" => Published!Init
    /\ [][backend = "sql" => Published!Next]_Shown
=============================================================================
