----------------------------- MODULE ApiProofs -----------------------------
(* Theorems about the two halves of the API: the store behind it (RunStore) *)
(* and the gate before it (ApiGate).                                        *)
(*                                                                          *)
(* The store, for any workers, tenants, ids, rules and bounds: over SQL it  *)
(* implements RunPublication; over both stores a run that was told of is    *)
(* whole, metrics come last and tenants see their own.  The gate, for any   *)
(* cache lifetime and lag: keys are honoured and refused in bounded time;   *)
(* for any limit, window and cap: who is forgotten, and for whom.           *)
EXTENDS RunStore, ApiGate, FiniteSetTheorems, TLAPS

----------------------------------------------------------------------------
(* The store.                                                               *)

(* The requests a worker may be serving are recorded under their tags. *)
ReqsKnown ==
    /\ \A r \in asked : r.id \in RunIds /\ r.tenant \in Tenants /\ r.tag \in Tags
    /\ pc \in [Workers -> {"idle", "store", "alerts", "version", "insert", "fire"}]
    /\ req = [w \in Workers |-> req[w]]
    /\ \A w \in Workers : pc[w] # "idle" => \E r \in asked : r.tag = req[w].tag

(* The primary key: an id names one run. *)
IdsUnique == \A d, e \in runs : d.id = e.id => d = e

(* The parts on file are those of the runs on file, none missing. *)
PartsMatchRuns ==
    /\ alerts = {[id |-> d.id, tenant |-> d.tenant, rule |-> rule, tag |-> d.tag] :
                    d \in runs, rule \in Rules}
    /\ metrics = {[id |-> d.id, tenant |-> d.tenant, tag |-> d.tag] : d \in runs}

SqlInv == /\ backend = "sql" /\ ReqsKnown
          /\ \A w \in Workers : pc[w] # "alerts"
          /\ IdsUnique /\ PartsMatchRuns

LEMMA CurrentIsAsked ==
    ASSUME ReqsKnown, NEW w \in Workers, pc[w] # "idle"
    PROVE Current(w) \in asked
  BY DEF ReqsKnown, Current

LEMMA ReqsStayKnown ==
    ASSUME ReqsKnown, NEW w \in Workers, NEW q, asked' = asked,
           NEW l \in {"idle", "store", "version", "insert", "fire"},
           pc' = [pc EXCEPT ![w] = l], req' = [req EXCEPT ![w] = q],
           l # "idle" => pc[w] # "idle" /\ q.tag = req[w].tag
    PROVE ReqsKnown'
  <1>1. pc' \in [Workers -> {"idle", "store", "alerts", "version", "insert", "fire"}]
    BY DEF ReqsKnown
  <1>2. req' = [v \in Workers |-> req'[v]] BY DEF ReqsKnown
  <1>3. ASSUME NEW v \in Workers, pc'[v] # "idle" PROVE \E r \in asked' : r.tag = req'[v].tag
    <2>1. CASE v = w
      <3>1. pc'[w] = l /\ req'[w] = q BY DEF ReqsKnown
      <3> QED BY <1>3, <2>1, <3>1 DEF ReqsKnown
    <2>2. CASE v # w
      <3>1. pc'[v] = pc[v] /\ req'[v] = req[v] BY <2>2 DEF ReqsKnown
      <3> QED BY <1>3, <3>1 DEF ReqsKnown
    <2> QED BY <2>1, <2>2
  <1> QED BY <1>1, <1>2, <1>3 DEF ReqsKnown

LEMMA BackendStays == [Next]_vars => backend' = backend
  BY DEF Next, Store, Create, StoreSql, UpsertRun, UpsertAlerts, UpsertMetrics, CheckVersion,
     InsertVersion, Fire, Raise, Restart, Register, Edit, vars

LEMMA SqlInit == backend = "sql" /\ Init => SqlInv
  BY DEF Init, SqlInv, ReqsKnown, IdsUnique, PartsMatchRuns

LEMMA SqlStep == SqlInv /\ [Next]_vars => SqlInv'
  <1> SUFFICES ASSUME SqlInv, [Next]_vars PROVE SqlInv' OBVIOUS
  <1>0. backend' = "sql" BY BackendStays DEF SqlInv
  <1> USE DEF SqlInv
  <1>1. ASSUME NEW w \in Workers, NEW t \in Tenants, NEW id \in RunIds, Create(w, t, id) PROVE SqlInv'
    <2>1. ReqsKnown' /\ \A v \in Workers : pc'[v] # "alerts"
      <3> DEFINE n == Cardinality(asked) + 1
                 new == [tag |-> n, tenant |-> t, id |-> id, hash |-> file]
      <3>1. /\ n \in Tags /\ asked' = asked \cup {new}
            /\ req' = [req EXCEPT ![w] = [tag |-> n, left |-> Rules]]
            /\ pc' = [pc EXCEPT ![w] = "store"]
        BY <1>1 DEF Create, Goto
      <3>2. new.id = id /\ new.tenant = t /\ new.tag = n OBVIOUS
      <3> HIDE DEF n, new
      <3>3. \A r \in asked' : r.id \in RunIds /\ r.tenant \in Tenants /\ r.tag \in Tags
        BY <3>1, <3>2 DEF ReqsKnown
      <3>4. ASSUME NEW v \in Workers, pc'[v] # "idle" PROVE \E r \in asked' : r.tag = req'[v].tag
        <4>1. CASE v = w
          <5>1. req'[w].tag = n BY <3>1 DEF ReqsKnown
          <5> QED BY <4>1, <5>1, <3>1, <3>2
        <4>2. CASE v # w
          <5>1. pc'[v] = pc[v] /\ req'[v] = req[v] BY <3>1, <4>2 DEF ReqsKnown
          <5> QED BY <3>1, <3>4, <5>1 DEF ReqsKnown
        <4> QED BY <4>1, <4>2
      <3> QED BY <3>1, <3>3, <3>4 DEF ReqsKnown
    <2> QED BY <1>1, <2>1 DEF Create, store, IdsUnique, PartsMatchRuns
  <1>2. ASSUME NEW w \in Workers, StoreSql(w) PROVE SqlInv'
    <2> DEFINE r == Current(w)
    <2>1. ReqsKnown' /\ \A v \in Workers : pc'[v] # "alerts"
      BY <1>2 DEF StoreSql, Goto, End, NoReq, ReqsKnown
    <2>2. CASE \E d \in runs : SameKey(d, r)
      BY <1>2, <2>1, <2>2 DEF StoreSql, store, IdsUnique, PartsMatchRuns
    <2>3. CASE ~\E d \in runs : SameKey(d, r)
      <3>1. /\ runs' = runs \cup {Doc(r)}
            /\ alerts' = alerts \cup {AlertDoc(r, rule) : rule \in Rules}
            /\ metrics' = metrics \cup {Doc(r)}
        BY <1>2, <2>3 DEF StoreSql
      <3> HIDE DEF r
      <3>2. IdsUnique'
        BY <2>3, <3>1 DEF IdsUnique, SameKey, Doc
      <3>3. PartsMatchRuns'
        <4>1. Doc(r).id = r.id /\ Doc(r).tenant = r.tenant /\ Doc(r).tag = r.tag
          BY DEF Doc
        <4>2. metrics' = {[id |-> d.id, tenant |-> d.tenant, tag |-> d.tag] : d \in runs'}
          BY <3>1, <4>1 DEF PartsMatchRuns, Doc
        <4>3. alerts' = {[id |-> d.id, tenant |-> d.tenant, rule |-> rule, tag |-> d.tag] :
                            d \in runs', rule \in Rules}
          BY <3>1, <4>1 DEF PartsMatchRuns, AlertDoc
        <4> QED BY <4>2, <4>3 DEF PartsMatchRuns
      <3> QED BY <1>0, <2>1, <3>2, <3>3
    <2> QED BY <2>2, <2>3
  <1>3. ASSUME NEW w \in Workers, CheckVersion(w) \/ InsertVersion(w) \/ Fire(w) \/ Raise(w) PROVE SqlInv'
    <2>1. ReqsKnown' /\ \A v \in Workers : pc'[v] # "alerts"
      <3>1. CASE CheckVersion(w)
        <4>1. CASE HasVersion(Current(w))
          <5>1. req' = [req EXCEPT ![w] = req[w]] BY <3>1, <4>1 DEF CheckVersion, ReqsKnown
          <5>2. pc' = [pc EXCEPT ![w] = "fire"] /\ asked' = asked /\ pc[w] = "version"
            BY <3>1, <4>1 DEF CheckVersion, Goto
          <5>3. ReqsKnown' BY <5>1, <5>2, ReqsStayKnown
          <5> QED BY <5>2, <5>3 DEF ReqsKnown
        <4>2. CASE ~HasVersion(Current(w))
          <5>1. req' = [req EXCEPT ![w] = [req[w] EXCEPT !.left = {file}]]
            BY <3>1, <4>2 DEF CheckVersion
          <5>2. pc' = [pc EXCEPT ![w] = "insert"] /\ asked' = asked /\ pc[w] = "version"
            BY <3>1, <4>2 DEF CheckVersion, Goto
          <5>3. [req[w] EXCEPT !.left = {file}].tag = req[w].tag OBVIOUS
          <5>4. ReqsKnown' BY <5>1, <5>2, <5>3, ReqsStayKnown
          <5> QED BY <5>2, <5>4 DEF ReqsKnown
        <4> QED BY <4>1, <4>2
      <3>2. CASE InsertVersion(w)
        <4>1. CASE pc' = [pc EXCEPT ![w] = "fire"] /\ req' = req
          <5>1. req' = [req EXCEPT ![w] = req[w]] BY <4>1 DEF ReqsKnown
          <5>2. asked' = asked /\ pc[w] = "insert" BY <3>2 DEF InsertVersion
          <5>3. ReqsKnown' BY <4>1, <5>1, <5>2, ReqsStayKnown
          <5> QED BY <4>1, <5>3 DEF ReqsKnown
        <4>2. CASE pc' = [pc EXCEPT ![w] = "idle"] /\ req' = [req EXCEPT ![w] = NoReq]
          <5>1. asked' = asked BY <3>2 DEF InsertVersion
          <5>2. ReqsKnown' BY <4>2, <5>1, ReqsStayKnown
          <5> QED BY <4>2, <5>2 DEF ReqsKnown
        <4> QED BY <3>2, <4>1, <4>2 DEF InsertVersion, Goto, End
      <3>3. CASE Fire(w) \/ Raise(w)
        <4>1. /\ asked' = asked /\ pc' = [pc EXCEPT ![w] = "idle"]
              /\ req' = [req EXCEPT ![w] = NoReq]
          BY <3>3 DEF Fire, Raise, Goto, End
        <4>2. ReqsKnown' BY <4>1, ReqsStayKnown
        <4> QED BY <4>1, <4>2 DEF ReqsKnown
      <3> QED BY <1>3, <3>1, <3>2, <3>3
    <2> QED BY <1>3, <2>1 DEF CheckVersion, InsertVersion, Fire, Raise, store, IdsUnique, PartsMatchRuns
  <1>4. ASSUME NEW w \in Workers, Restart(w) PROVE SqlInv'
    <2>1. /\ asked' = asked /\ pc' = [pc EXCEPT ![w] = "idle"]
          /\ req' = [req EXCEPT ![w] = NoReq]
      BY <1>4 DEF Restart, Goto
    <2>2. ReqsKnown' BY <2>1, ReqsStayKnown
    <2>3. \A v \in Workers : pc'[v] # "alerts" BY <2>1 DEF ReqsKnown
    <2> QED BY <1>4, <2>2, <2>3 DEF Restart, store, IdsUnique, PartsMatchRuns
  <1>5. ASSUME NEW w \in Workers, NEW t \in Tenants, Register(w, t) PROVE SqlInv'
    BY <1>5 DEF Register, ReqsKnown, store, IdsUnique, PartsMatchRuns
  <1>6. CASE Edit \/ UNCHANGED vars
    BY <1>6 DEF Edit, vars, ReqsKnown, store, IdsUnique, PartsMatchRuns
  <1>7. ASSUME NEW w \in Workers, UpsertRun(w) \/ (\E rule \in Rules : UpsertAlerts(w, rule)) \/ UpsertMetrics(w)
        PROVE FALSE
    BY <1>7 DEF UpsertRun, UpsertAlerts, UpsertMetrics
  <1> QED BY <1>1, <1>2, <1>3, <1>4, <1>5, <1>6, <1>7 DEF Next, Store

(* The invariant of a deployment over SQL. *)
OverSql == backend = "sql" => SqlInv

LEMMA OverSqlHolds == Spec => []OverSql
  <1>1. Init => OverSql BY SqlInit DEF OverSql
  <1>2. OverSql /\ [Next]_vars => OverSql' BY SqlStep, BackendStays DEF OverSql
  <1> QED BY <1>1, <1>2, PTL DEF Spec

(* A tenant fetches one of its runs whole, and of any other id nothing.     *)
FetchFacts ==
    backend = "sql" /\ IdsUnique /\ PartsMatchRuns =>
        \A t \in Tenants, id \in RunIds :
            /\ \A d \in runs : d.id = id /\ d.tenant = t => Fetch(t, id) = WholeRun(d.tag)
            /\ (~\E d \in runs : d.id = id /\ d.tenant = t) => Fetch(t, id) = Published!Nothing

LEMMA FetchFactsHold == FetchFacts
  <1> SUFFICES ASSUME backend = "sql", IdsUnique, PartsMatchRuns, NEW t \in Tenants, NEW id \in RunIds
               PROVE /\ \A d \in runs : d.id = id /\ d.tenant = t => Fetch(t, id) = WholeRun(d.tag)
                     /\ (~\E d \in runs : d.id = id /\ d.tenant = t)
                            => Fetch(t, id) = Published!Nothing
    BY DEF FetchFacts
  <1>1. ASSUME NEW d \in runs, d.id = id, d.tenant = t PROVE Fetch(t, id) = WholeRun(d.tag)
    <2>1. GetRun(t, id) = {d.tag} BY <1>1 DEF GetRun, IdsUnique
    <2>2. PartsOf(metrics, t, id) = {[id |-> d.id, tenant |-> d.tenant, tag |-> d.tag]}
      BY <1>1, <2>1 DEF PartsOf, PartsMatchRuns, IdsUnique
    <2>3. PartsOf(alerts, t, id) =
             {[id |-> d.id, tenant |-> d.tenant, rule |-> rule, tag |-> d.tag] : rule \in Rules}
      BY <1>1, <2>1 DEF PartsOf, PartsMatchRuns, IdsUnique
    <2>4. {e.tag : e \in PartsOf(metrics, t, id)} = {d.tag} BY <2>2
    <2>5. {<<e.rule, e.tag>> : e \in PartsOf(alerts, t, id)} = Rules \X {d.tag}
      <3> DEFINE doc(rule) == [id |-> d.id, tenant |-> d.tenant, rule |-> rule, tag |-> d.tag]
      <3>0. /\ PartsOf(alerts, t, id) = {doc(rule) : rule \in Rules}
            /\ \A rule \in Rules : doc(rule).rule = rule /\ doc(rule).tag = d.tag
        BY <2>3
      <3> HIDE DEF doc
      <3>1. {<<e.rule, e.tag>> : e \in PartsOf(alerts, t, id)} = {<<rule, d.tag>> : rule \in Rules}
        BY <3>0
      <3>2. {<<rule, d.tag>> : rule \in Rules} = Rules \X {d.tag} OBVIOUS
      <3> QED BY <3>1, <3>2
    <2> QED BY <2>1, <2>4, <2>5 DEF Fetch, WholeRun
  <1>2. ASSUME ~\E d \in runs : d.id = id /\ d.tenant = t PROVE Fetch(t, id) = Published!Nothing
    <2>1. GetRun(t, id) = {} BY <1>2 DEF GetRun
    <2>2. PartsOf(metrics, t, id) = {} /\ PartsOf(alerts, t, id) = {} BY <2>1 DEF PartsOf
    <2> QED BY <2>1, <2>2 DEF Fetch, Published!Nothing
  <1> QED BY <1>1, <1>2

LEMMA ShownAt ==
    ASSUME NEW t \in Tenants, NEW id \in RunIds PROVE Shown[<<t, id>>] = Fetch(t, id)
  BY DEF Shown

(* Storing a run publishes it: every other key shows what it showed.        *)
LEMMA StorePublishes ==
    ASSUME SqlInv, SqlInv', NEW w \in Workers, StoreSql(w), store' # store
    PROVE Published!Next
  <1>0. /\ Current(w) \in asked
        /\ Current(w).tenant \in Tenants /\ Current(w).id \in RunIds /\ Current(w).tag \in Tags
    <2>1. pc[w] # "idle" /\ ReqsKnown BY DEF StoreSql, SqlInv
    <2> QED BY <2>1, CurrentIsAsked DEF ReqsKnown
  <1>1. PICK bank \in Tenants, new \in RunIds, tag \in Tags :
            Current(w).tenant = bank /\ Current(w).id = new /\ Current(w).tag = tag
    BY <1>0
  <1>2. PICK doc : /\ doc.id = new /\ doc.tenant = bank /\ doc.tag = tag
                   /\ runs' = runs \cup {doc}
    BY <1>1 DEF StoreSql, Doc, store
  <1>3. ~\E d \in runs : d.id = new
    BY <1>1 DEF StoreSql, SameKey, store
  <1>4. FetchFacts BY FetchFactsHold
  <1>5. FetchFacts' BY FetchFactsHold, PTL
  <1>6. \A u \in Tenants : Fetch(u, new) = Published!Nothing
    BY <1>3, <1>4 DEF FetchFacts, SqlInv
  <1>7. Fetch(bank, new)' = Published!WholeRun(tag)
    <2>1. doc \in runs' BY <1>2
    <2>2. Fetch(bank, new)' = WholeRun(doc.tag)
      BY <1>2, <1>5, <2>1 DEF FetchFacts, SqlInv, WholeRun
    <2> QED BY <1>2, <2>2 DEF WholeRun, Published!WholeRun
  <1>8. ASSUME NEW t \in Tenants, NEW id \in RunIds, <<t, id>> # <<bank, new>>
        PROVE Fetch(t, id)' = Fetch(t, id)
    <2>1. CASE \E d \in runs : d.id = id /\ d.tenant = t
      <3>1. PICK d \in runs : d.id = id /\ d.tenant = t BY <2>1
      <3>2. Fetch(t, id) = WholeRun(d.tag) BY <3>1, <1>4 DEF FetchFacts, SqlInv
      <3>3. Fetch(t, id)' = WholeRun(d.tag)
        BY <3>1, <1>2, <1>5 DEF FetchFacts, SqlInv, WholeRun
      <3> QED BY <3>2, <3>3
    <2>2. CASE ~\E d \in runs : d.id = id /\ d.tenant = t
      <3>1. ~\E d \in runs' : d.id = id /\ d.tenant = t BY <2>2, <1>2, <1>8
      <3>2. Fetch(t, id)' = Published!Nothing
        BY <3>1, <1>5 DEF FetchFacts, SqlInv, Published!Nothing
      <3>3. Fetch(t, id) = Published!Nothing BY <2>2, <1>4 DEF FetchFacts, SqlInv
      <3> QED BY <3>2, <3>3
    <2> QED BY <2>1, <2>2
  <1>9. Shown' = [Shown EXCEPT ![<<bank, new>>] = Published!WholeRun(tag)]
    <2>1. ASSUME NEW k \in Tenants \X RunIds
          PROVE Shown'[k] = IF k = <<bank, new>> THEN Published!WholeRun(tag) ELSE Shown[k]
      <3>1. PICK t \in Tenants, id \in RunIds : k = <<t, id>> OBVIOUS
      <3>2. Shown'[k] = Fetch(t, id)' /\ Shown[k] = Fetch(t, id) BY <3>1 DEF Shown
      <3>3. CASE k = <<bank, new>>
        <4>1. t = bank /\ id = new BY <3>1, <3>3
        <4> QED BY <3>2, <3>3, <4>1, <1>7
      <3>4. CASE k # <<bank, new>> BY <3>1, <3>2, <3>4, <1>8
      <3> QED BY <3>3, <3>4
    <2> QED BY <2>1 DEF Shown
  <1>10. \A u \in Tenants : Shown[<<u, new>>] = Published!Nothing
    BY <1>6, ShownAt
  <1>11. Published!Publish(bank, new, tag)
    BY <1>9, <1>10 DEF Published!Publish, Shown
  <1> QED BY <1>11 DEF Published!Next

(* Over SQL the store never shows part of a run, never lets one replace     *)
(* another and never shows a tenant somebody else's: store_run is one       *)
(* transaction, a run id is its primary key, and the parts are joined to    *)
(* the tenant's run.                                                        *)
THEOREM SqlPublishes == Spec => Publication
  <1>1. Init => (backend = "sql" => Published!Init)
    <2> SUFFICES ASSUME Init, backend = "sql" PROVE Published!Init OBVIOUS
    <2>1. IdsUnique /\ PartsMatchRuns /\ runs = {} BY SqlInit DEF SqlInv, Init
    <2>2. \A t \in Tenants, id \in RunIds : Fetch(t, id) = Published!Nothing
      BY <2>1, FetchFactsHold DEF FetchFacts
    <2>3. \A k \in Tenants \X RunIds : Fetch(k[1], k[2]) = Published!Nothing BY <2>2
    <2> QED BY <2>3 DEF Published!Init, Shown
  <1>2. OverSql /\ OverSql' /\ [Next]_vars => [backend = "sql" => Published!Next]_Shown
    <2> SUFFICES ASSUME OverSql, OverSql', [Next]_vars, backend = "sql"
                 PROVE [Published!Next]_Shown
      OBVIOUS
    <2>0. SqlInv /\ SqlInv' /\ backend' = "sql" BY BackendStays DEF OverSql
    <2>1. CASE store' = store
      BY <2>0, <2>1 DEF Shown, Fetch, GetRun, PartsOf, store
    <2>2. CASE store' # store
      <3>1. PICK w \in Workers : StoreSql(w)
        BY <2>0, <2>2 DEF Next, Store, Create, UpsertRun, UpsertAlerts, UpsertMetrics, CheckVersion,
           InsertVersion, Fire, Raise, Restart, Register, Edit, vars, SqlInv
      <3> QED BY <2>0, <2>2, <3>1, StorePublishes
    <2> QED BY <2>1, <2>2
  <1> QED BY <1>1, <1>2, OverSqlHolds, PTL DEF Spec, Publication

----------------------------------------------------------------------------
(* Both kinds of store: the requests, and what each worker is serving.     *)
Labels == {"idle", "store", "alerts", "version", "insert", "fire"}
Requests == [tag : 0..MaxRequests, left : SUBSET (Rules \cup Versions)]
Asks == [tag : Tags, tenant : Tenants, id : RunIds, hash : Versions]

ServerInv ==
    /\ pc \in [Workers -> Labels] /\ req \in [Workers -> Requests]
    /\ file \in Versions
    /\ asked \subseteq Asks /\ IsFiniteSet(asked)
    /\ \A r \in asked : r.tag <= Cardinality(asked)
    /\ \A r, s \in asked : r.tag = s.tag => r = s
    /\ \A w \in Workers : pc[w] # "idle" => \E r \in asked : r.tag = req[w].tag
    /\ \A w \in Workers : pc[w] = "insert" => \E v \in Versions : req[w].left = {v}
    /\ \A w \in Workers : pc[w] = "store" => req[w].left = Rules

(* The request of a busy worker is the one with its tag.                   *)
LEMMA Serving ==
    ASSUME ServerInv, NEW w \in Workers, pc[w] # "idle"
    PROVE  /\ Current(w) \in asked /\ Current(w).tag = req[w].tag
           /\ \A s \in asked : s.tag = req[w].tag => s = Current(w)
  <1>1. \E r \in asked : r.tag = req[w].tag BY DEF ServerInv
  <1>2. Current(w) \in asked /\ Current(w).tag = req[w].tag BY <1>1 DEF Current
  <1> QED BY <1>2 DEF ServerInv

(* What a step of a request does to its worker.                            *)
Moves(w, l, q) ==
    /\ pc' = [pc EXCEPT ![w] = l] /\ req' = [req EXCEPT ![w] = q]
    /\ l # "idle" => pc[w] # "idle" /\ q.tag = req[w].tag
    /\ l # "store"
    /\ l = "insert" => \E v \in Versions : q.left = {v}

LEMMA MovesKeepServer ==
    ASSUME ServerInv, NEW w \in Workers, NEW l \in Labels, NEW q \in Requests, Moves(w, l, q),
           asked' = asked, file' \in Versions
    PROVE  ServerInv'
  <1>1. pc' \in [Workers -> Labels] /\ req' \in [Workers -> Requests] BY DEF ServerInv, Moves
  <1>2. ASSUME NEW v \in Workers
        PROVE  /\ pc'[v] # "idle" => \E r \in asked' : r.tag = req'[v].tag
               /\ pc'[v] = "insert" => \E u \in Versions : req'[v].left = {u}
               /\ pc'[v] = "store" => req'[v].left = Rules
    <2>1. CASE v = w
      <3>1. pc'[w] = l /\ req'[w] = q BY DEF ServerInv, Moves
      <3> QED BY <2>1, <3>1 DEF ServerInv, Moves
    <2>2. CASE v # w
      <3>1. pc'[v] = pc[v] /\ req'[v] = req[v] BY <2>2 DEF ServerInv, Moves
      <3> QED BY <3>1 DEF ServerInv
    <2> QED BY <2>1, <2>2
  <1> QED BY <1>1, <1>2 DEF ServerInv

(* Every step of a request but its arrival is such a move.                 *)
Serve(w) == \/ StoreSql(w) \/ UpsertRun(w) \/ (\E rule \in Rules : UpsertAlerts(w, rule))
            \/ UpsertMetrics(w) \/ CheckVersion(w) \/ InsertVersion(w) \/ Fire(w)
            \/ Raise(w) \/ Restart(w)

LEMMA ServeMoves ==
    ASSUME ServerInv, NEW w \in Workers, Serve(w)
    PROVE  /\ \E l \in Labels, q \in Requests : Moves(w, l, q)
           /\ asked' = asked /\ file' = file
  <1> USE DEF ServerInv
  <1>1. req = [req EXCEPT ![w] = req[w]] /\ req[w] \in Requests /\ pc[w] \in Labels
        /\ pc = [pc EXCEPT ![w] = pc[w]]
    OBVIOUS
  <1>2. NoReq \in Requests BY BoundsAssumption DEF NoReq, Requests
  <1>3. ASSUME pc' = [pc EXCEPT ![w] = "idle"], req' = [req EXCEPT ![w] = NoReq]
        PROVE  \E l \in Labels, q \in Requests : Moves(w, l, q)
    <2>1. Moves(w, "idle", NoReq) BY <1>3 DEF Moves
    <2> QED BY <1>2, <2>1 DEF Labels
  <1>4. ASSUME NEW l \in Labels \ {"insert", "store"}, pc[w] # "idle", pc' = [pc EXCEPT ![w] = l], req' = req
        PROVE  \E k \in Labels, q \in Requests : Moves(w, k, q)
    <2>1. Moves(w, l, req[w]) BY <1>1, <1>4 DEF Moves
    <2> QED BY <1>1, <2>1
  <1>5. ASSUME NEW l \in Labels, NEW new \in SUBSET (Rules \cup Versions), pc[w] # "idle",
               pc' = [pc EXCEPT ![w] = l], req' = [req EXCEPT ![w].left = new],
               l # "store", l = "insert" => \E v \in Versions : new = {v}
        PROVE  \E k \in Labels, q \in Requests : Moves(w, k, q)
    <2> DEFINE q == [req[w] EXCEPT !.left = new]
    <2>1. q \in Requests /\ q.tag = req[w].tag /\ q.left = new BY <1>1 DEF Requests
    <2>2. req' = [req EXCEPT ![w] = q] BY <1>1, <1>5
    <2> HIDE DEF q
    <2>3. Moves(w, l, q) BY <1>5, <2>1, <2>2 DEF Moves
    <2> QED BY <2>1, <2>3
  <1> HIDE DEF ServerInv
  <1>6. CASE StoreSql(w)
    <2>1. pc[w] = "store" /\ ((pc' = [pc EXCEPT ![w] = "idle"] /\ req' = [req EXCEPT ![w] = NoReq])
                              \/ (pc' = [pc EXCEPT ![w] = "version"] /\ req' = req))
      BY <1>6 DEF StoreSql, Goto, End
    <2> QED BY <1>3, <1>4, <1>6, <2>1 DEF StoreSql, Labels
  <1>7. CASE UpsertRun(w)
    BY <1>4, <1>7 DEF UpsertRun, Goto, Labels
  <1>8. ASSUME NEW rule \in Rules, UpsertAlerts(w, rule)
        PROVE  (\E l \in Labels, q \in Requests : Moves(w, l, q)) /\ asked' = asked /\ file' = file
    <2> DEFINE new == req[w].left \ {rule}
    <2>1. pc[w] = "alerts" /\ pc' = pc /\ req' = [req EXCEPT ![w].left = new]
          /\ asked' = asked /\ file' = file
      BY <1>8 DEF UpsertAlerts
    <2>2. new \in SUBSET (Rules \cup Versions) BY <1>1 DEF Requests
    <2> HIDE DEF new
    <2>3. pc' = [pc EXCEPT ![w] = "alerts"] BY <1>1, <2>1
    <2>4. "alerts" \in Labels /\ "alerts" \notin {"insert", "store"} BY DEF Labels
    <2> QED BY <1>5, <2>1, <2>2, <2>3, <2>4
  <1>9. CASE UpsertMetrics(w)
    BY <1>4, <1>9 DEF UpsertMetrics, Goto, Labels
  <1>10. CASE CheckVersion(w)
    <2>1. pc[w] = "version" /\ asked' = asked /\ file' = file BY <1>10 DEF CheckVersion
    <2>2. CASE HasVersion(Current(w))
      BY <1>4, <1>10, <2>1, <2>2 DEF CheckVersion, Goto, Labels
    <2>3. CASE ~HasVersion(Current(w))
      <3>1. pc' = [pc EXCEPT ![w] = "insert"] /\ req' = [req EXCEPT ![w].left = {file}]
        BY <1>10, <2>3 DEF CheckVersion, Goto
      <3>2. "insert" \in Labels /\ "insert" # "store" /\ file \in Versions BY DEF Labels, ServerInv
      <3> QED BY <1>5, <2>1, <3>1, <3>2
    <2> QED BY <2>2, <2>3
  <1>11. CASE InsertVersion(w)
    <2>1. pc[w] = "insert" /\ ((pc' = [pc EXCEPT ![w] = "idle"] /\ req' = [req EXCEPT ![w] = NoReq])
                              \/ (pc' = [pc EXCEPT ![w] = "fire"] /\ req' = req))
      BY <1>11 DEF InsertVersion, Goto, End
    <2> QED BY <1>3, <1>4, <1>11, <2>1 DEF InsertVersion, Labels
  <1>12. CASE Fire(w) \/ Raise(w) \/ Restart(w)
    BY <1>3, <1>12 DEF Fire, Raise, Restart, Goto, End
  <1> QED BY <1>6, <1>7, <1>8, <1>9, <1>10, <1>11, <1>12 DEF Serve

(* A request that arrives takes a tag nobody had.                          *)
LEMMA Arrival ==
    ASSUME ServerInv, NEW w \in Workers, NEW t \in Tenants, NEW id \in RunIds, Create(w, t, id)
    PROVE  \E r \in Asks :
              /\ asked' = asked \cup {r} /\ r.id = id /\ r.tenant = t
              /\ \A s \in asked : s.tag # r.tag
              /\ pc' = [pc EXCEPT ![w] = "store"] /\ req' = [req EXCEPT ![w] = [tag |-> r.tag, left |-> Rules]]
              /\ r.tag = Cardinality(asked) + 1 /\ Cardinality(asked) \in Nat
              /\ Cardinality(asked') = Cardinality(asked) + 1 /\ IsFiniteSet(asked')
  <1> DEFINE n == Cardinality(asked) + 1
             r == [tag |-> n, tenant |-> t, id |-> id, hash |-> file]
  <1>1. /\ n \in Tags /\ asked' = asked \cup {r} /\ file \in Versions
        /\ req' = [req EXCEPT ![w] = [tag |-> n, left |-> Rules]]
        /\ pc' = [pc EXCEPT ![w] = "store"]
    BY DEF Create, Goto, ServerInv
  <1>2. IsFiniteSet(asked) /\ Cardinality(asked) \in Nat BY FS_CardinalityType DEF ServerInv
  <1>3. r \in Asks /\ r.id = id /\ r.tenant = t /\ r.tag = n BY <1>1 DEF Asks
  <1>4. \A s \in asked : s.tag # n
    <2>1. \A s \in asked : s.tag <= Cardinality(asked) /\ s.tag \in Nat
      BY DEF ServerInv, Asks, Tags
    <2> QED BY <1>2, <2>1
  <1> HIDE DEF r
  <1>5. r \notin asked BY <1>3, <1>4
  <1>6. Cardinality(asked \cup {r}) = Cardinality(asked) + 1 /\ IsFiniteSet(asked \cup {r})
    BY <1>2, <1>5, FS_AddElement
  <1> QED BY <1>1, <1>2, <1>3, <1>4, <1>6

LEMMA ServerStep == ServerInv /\ [Next]_vars => ServerInv'
  <1> SUFFICES ASSUME ServerInv, [Next]_vars PROVE ServerInv' OBVIOUS
  <1>1. ASSUME NEW w \in Workers, NEW t \in Tenants, NEW id \in RunIds, Create(w, t, id)
        PROVE  ServerInv'
    <2>1. PICK r \in Asks :
              /\ asked' = asked \cup {r} /\ \A s \in asked : s.tag # r.tag
              /\ pc' = [pc EXCEPT ![w] = "store"] /\ req' = [req EXCEPT ![w] = [tag |-> r.tag, left |-> Rules]]
              /\ r.tag = Cardinality(asked) + 1 /\ Cardinality(asked) \in Nat
              /\ Cardinality(asked') = Cardinality(asked) + 1 /\ IsFiniteSet(asked')
      BY <1>1, Arrival
    <2>2. pc' \in [Workers -> Labels] BY <2>1 DEF ServerInv, Labels
    <2>3. [tag |-> r.tag, left |-> Rules] \in Requests
      BY BoundsAssumption DEF Requests, Asks, Tags
    <2>4. req' \in [Workers -> Requests] BY <2>1, <2>3 DEF ServerInv
    <2>5. \A s \in asked' : s.tag <= Cardinality(asked')
      <3>1. \A s \in asked : s.tag \in Nat /\ s.tag <= Cardinality(asked) BY DEF ServerInv, Asks, Tags
      <3> QED BY <2>1, <3>1
    <2>6. \A s, u \in asked' : s.tag = u.tag => s = u BY <2>1 DEF ServerInv
    <2>7. ASSUME NEW v \in Workers
          PROVE  /\ pc'[v] # "idle" => \E s \in asked' : s.tag = req'[v].tag
                 /\ pc'[v] = "insert" => \E u \in Versions : req'[v].left = {u}
                 /\ pc'[v] = "store" => req'[v].left = Rules
      <3>1. CASE v = w
        <4>1. pc'[w] = "store" /\ req'[w].tag = r.tag /\ req'[w].left = Rules BY <2>1 DEF ServerInv
        <4> QED BY <2>1, <3>1, <4>1
      <3>2. CASE v # w
        <4>1. pc'[v] = pc[v] /\ req'[v] = req[v] BY <2>1, <3>2 DEF ServerInv
        <4> QED BY <2>1, <4>1 DEF ServerInv
      <3> QED BY <3>1, <3>2
    <2>8. file' \in Versions BY <1>1 DEF Create, ServerInv
    <2> QED BY <2>1, <2>2, <2>4, <2>5, <2>6, <2>7, <2>8 DEF ServerInv
  <1>2. ASSUME NEW w \in Workers, Serve(w) PROVE ServerInv'
    <2>1. /\ \E l \in Labels, q \in Requests : Moves(w, l, q)
          /\ asked' = asked /\ file' \in Versions
      BY <1>2, ServeMoves DEF ServerInv
    <2> QED BY <2>1, MovesKeepServer
  <1>3. ASSUME NEW w \in Workers, NEW t \in Tenants, Register(w, t) PROVE ServerInv'
    BY <1>3 DEF Register, ServerInv
  <1>4. CASE Edit
    <2>1. file' \in Versions BY <1>4, BoundsAssumption DEF Edit, ServerInv, Versions
    <2> QED BY <1>4, <2>1 DEF Edit, ServerInv
  <1>5. CASE UNCHANGED vars BY <1>5 DEF vars, ServerInv
  <1> QED BY <1>1, <1>2, <1>3, <1>4, <1>5 DEF Next, Store, Serve

LEMMA ServerHolds == Spec => []ServerInv
  <1>1. Init => ServerInv
    <2> SUFFICES ASSUME Init PROVE ServerInv OBVIOUS
    <2>1. NoReq \in Requests BY BoundsAssumption DEF NoReq, Requests
    <2>2. 1 \in Versions BY BoundsAssumption DEF Versions
    <2> QED BY <2>1, <2>2, FS_EmptySet DEF Init, ServerInv, Labels
  <1> QED BY <1>1, ServerStep, PTL DEF Spec

----------------------------------------------------------------------------
(* Whatever is stored or sent was computed for a request that was made.    *)
MadeInv ==
    /\ \A d \in runs : \E r \in asked : d = Doc(r)
    /\ \A d \in metrics : \E r \in asked : d = Doc(r)
    /\ \A d \in alerts : \E r \in asked, rule \in Rules : d = AlertDoc(r, rule)
    /\ \A e \in got : \E r \in asked : e = [to |-> r.tenant, tag |-> r.tag]

LEMMA MadeStep == ServerInv /\ MadeInv /\ [Next]_vars => MadeInv'
  <1> SUFFICES ASSUME ServerInv, MadeInv, [Next]_vars PROVE MadeInv' OBVIOUS
  <1>1. ASSUME asked \subseteq asked', store' = store, got' = got PROVE MadeInv'
    BY <1>1 DEF MadeInv, store
  <1>2. ASSUME NEW w \in Workers, NEW t \in Tenants, NEW id \in RunIds, Create(w, t, id)
        PROVE  MadeInv'
    BY <1>1, <1>2 DEF Create
  <1>3. ASSUME NEW w \in Workers, StoreSql(w) PROVE MadeInv'
    <2>1. Current(w) \in asked BY <1>3, Serving DEF StoreSql
    <2>2. PICK r \in asked : r = Current(w) BY <2>1
    <2>3. asked' = asked /\ got' = got BY <1>3 DEF StoreSql
    <2>4. CASE store' = store BY <1>1, <2>3, <2>4
    <2>5. CASE store' # store
      <3>1. /\ runs' = runs \cup {Doc(r)} /\ metrics' = metrics \cup {Doc(r)}
            /\ alerts' = alerts \cup {AlertDoc(r, rule) : rule \in Rules}
        BY <1>3, <2>2, <2>5 DEF StoreSql
      <3> QED BY <2>3, <3>1 DEF MadeInv
    <2> QED BY <2>4, <2>5
  <1>4. ASSUME NEW w \in Workers, UpsertRun(w) \/ UpsertMetrics(w) PROVE MadeInv'
    <2>1. Current(w) \in asked BY <1>4, Serving DEF UpsertRun, UpsertMetrics
    <2>2. PICK r \in asked : r = Current(w) BY <2>1
    <2>3. /\ asked' = asked /\ got' = got /\ alerts' = alerts
          /\ \A d \in runs' : d \in runs \/ d = Doc(r)
          /\ \A d \in metrics' : d \in metrics \/ d = Doc(r)
      BY <1>4, <2>2 DEF UpsertRun, UpsertMetrics, Upsert
    <2> QED BY <2>3 DEF MadeInv
  <1>5. ASSUME NEW w \in Workers, NEW rule \in Rules, UpsertAlerts(w, rule) PROVE MadeInv'
    <2>1. Current(w) \in asked BY <1>5, Serving DEF UpsertAlerts
    <2>2. PICK r \in asked : r = Current(w) BY <2>1
    <2>3. /\ asked' = asked /\ got' = got /\ runs' = runs /\ metrics' = metrics
          /\ \A d \in alerts' : d \in alerts \/ d = AlertDoc(r, rule)
      BY <1>5, <2>2 DEF UpsertAlerts
    <2> QED BY <2>3 DEF MadeInv
  <1>6. ASSUME NEW w \in Workers, CheckVersion(w) \/ InsertVersion(w) \/ Raise(w) \/ Restart(w)
        PROVE  MadeInv'
    BY <1>1, <1>6 DEF CheckVersion, InsertVersion, Raise, Restart
  <1>7. ASSUME NEW w \in Workers, Fire(w) PROVE MadeInv'
    <2>1. Current(w) \in asked BY <1>7, Serving DEF Fire
    <2>2. PICK r \in asked : r = Current(w) BY <2>1
    <2>3. PICK hit \in SUBSET (hooks[w] \cap {r.tenant}) :
             got' = got \cup {[to |-> t, tag |-> r.tag] : t \in hit}
      BY <1>7, <2>2 DEF Fire
    <2>4. \A e \in got' : e \in got \/ e = [to |-> r.tenant, tag |-> r.tag] BY <2>3
    <2>5. asked' = asked /\ runs' = runs /\ metrics' = metrics /\ alerts' = alerts
      BY <1>7 DEF Fire, store
    <2> QED BY <2>4, <2>5 DEF MadeInv
  <1>8. ASSUME NEW w \in Workers, NEW t \in Tenants, Register(w, t) PROVE MadeInv'
    BY <1>1, <1>8 DEF Register
  <1>9. CASE Edit \/ UNCHANGED vars BY <1>1, <1>9 DEF Edit, vars
  <1> QED BY <1>2, <1>3, <1>4, <1>5, <1>6, <1>7, <1>8, <1>9 DEF Next, Store

LEMMA MadeHolds == Spec => []MadeInv
  <1>1. Init => MadeInv BY DEF Init, MadeInv
  <1> QED BY <1>1, MadeStep, ServerHolds, PTL DEF Spec

(* What is left of the types.                                              *)
RestInv ==
    /\ backend \in Backends
    /\ specs \subseteq [hash : Versions, tenant : Tenants, by : Tags, content : Versions]
    /\ hooks \in [Workers -> SUBSET Tenants]
    /\ ended \in [Tags -> {"open", "200", "500"}]
    /\ faults \in 0..MaxFaults

LEMMA RestStep == ServerInv /\ RestInv /\ [Next]_vars => RestInv'
  <1> SUFFICES ASSUME ServerInv, RestInv, [Next]_vars PROVE RestInv' OBVIOUS
  <1>0. backend' \in Backends BY BackendStays DEF RestInv
  <1>1. specs' \subseteq [hash : Versions, tenant : Tenants, by : Tags, content : Versions]
    <2>1. ASSUME NEW w \in Workers, InsertVersion(w), specs' # specs
          PROVE  specs' \subseteq [hash : Versions, tenant : Tenants, by : Tags, content : Versions]
      <3>1. PICK r \in asked : r = Current(w) BY <2>1, Serving DEF InsertVersion
      <3>2. r \in Asks BY DEF ServerInv
      <3>3. PICK v \in Versions : req[w].left = {v} BY <2>1 DEF InsertVersion, ServerInv
      <3>4. specs' = specs \cup {[hash |-> r.hash, tenant |-> r.tenant, by |-> r.tag, content |-> v]}
        BY <2>1, <3>1, <3>3 DEF InsertVersion
      <3> QED BY <3>2, <3>4 DEF Asks, RestInv
    <2>2. CASE \E w \in Workers : InsertVersion(w) BY <2>1, <2>2 DEF RestInv
    <2>3. CASE ~\E w \in Workers : InsertVersion(w)
      BY <2>3 DEF RestInv, Next, Store, Create, StoreSql, UpsertRun, UpsertAlerts, UpsertMetrics,
                  CheckVersion, Fire, Raise, Restart, Register, Edit, vars
    <2> QED BY <2>2, <2>3
  <1>2. hooks' \in [Workers -> SUBSET Tenants]
    BY DEF RestInv, Next, Store, Create, StoreSql, UpsertRun, UpsertAlerts, UpsertMetrics,
           CheckVersion, InsertVersion, Fire, Raise, Restart, Register, Edit, vars
  <1>3. ended' \in [Tags -> {"open", "200", "500"}]
    BY DEF RestInv, Next, Store, Create, StoreSql, UpsertRun, UpsertAlerts, UpsertMetrics,
           CheckVersion, InsertVersion, Fire, Raise, Restart, Register, Edit, vars, End
  <1>4. faults' \in 0..MaxFaults
    <2>1. faults' = faults \/ (faults < MaxFaults /\ faults' = faults + 1)
      BY DEF Next, Store, Create, StoreSql, UpsertRun, UpsertAlerts, UpsertMetrics,
             CheckVersion, InsertVersion, Fire, Raise, Restart, Register, Edit, vars
    <2> QED BY <2>1, BoundsAssumption DEF RestInv
  <1> QED BY <1>0, <1>1, <1>2, <1>3, <1>4 DEF RestInv

(* Documents, spec versions, notifications, requests and workers keep      *)
(* their shapes, whatever store, bounds and order of the steps.            *)
THEOREM TypeCorrect == Spec => []TypeOK
  <1>1. Init => RestInv BY BoundsAssumption DEF Init, RestInv
  <1>2. ServerInv /\ MadeInv /\ RestInv => TypeOK
    <2> SUFFICES ASSUME ServerInv, MadeInv, RestInv PROVE TypeOK OBVIOUS
    <2>1. \A r \in asked : r \in Asks BY DEF ServerInv
    <2>2. ASSUME NEW r \in asked PROVE Doc(r) \in [id : RunIds, tenant : Tenants, tag : Tags]
      BY <2>1 DEF Doc, Asks
    <2>3. ASSUME NEW r \in asked, NEW rule \in Rules
          PROVE  AlertDoc(r, rule) \in [id : RunIds, tenant : Tenants, tag : Tags, rule : Rules]
      BY <2>1 DEF AlertDoc, Asks
    <2>4. runs \subseteq [id : RunIds, tenant : Tenants, tag : Tags]
          /\ metrics \subseteq [id : RunIds, tenant : Tenants, tag : Tags]
      BY <2>2 DEF MadeInv
    <2>5. alerts \subseteq [id : RunIds, tenant : Tenants, tag : Tags, rule : Rules]
      BY <2>3 DEF MadeInv
    <2>6. got \subseteq [to : Tenants, tag : Tags] BY <2>1 DEF MadeInv, Asks
    <2>7. \A w \in Workers : pc[w] # "idle" => req[w].tag \in {r.tag : r \in asked}
      BY DEF ServerInv
    <2> QED BY <2>1, <2>4, <2>5, <2>6, <2>7 DEF TypeOK, ServerInv, RestInv, Labels, Asks
  <1> QED BY <1>1, <1>2, RestStep, ServerHolds, MadeHolds, PTL DEF Spec

----------------------------------------------------------------------------
(* In Cosmos a tenant reads its own partition; with SQL the parts it reads *)
(* are joined to a run of its own, whose id no other run has.  So no       *)
(* tenant is shown, and no webhook told, of another tenant's run.          *)
THEOREM TenantsAreApart == Spec => []TenantsSeeTheirOwn
  <1> DEFINE owns(t, tag) == \E r \in asked : r.tag = tag /\ r.tenant = t
  <1>1. ASSUME MadeInv, OverSql, RestInv, NEW t \in Tenants, NEW id \in RunIds,
               NEW tag \in Fetch(t, id).run \cup Fetch(t, id).metrics
                             \cup {a[2] : a \in Fetch(t, id).alerts}
        PROVE  owns(t, tag)
    <2>1. CASE backend = "sql"
      <3>1. FetchFacts /\ IdsUnique /\ PartsMatchRuns BY <1>1, <2>1, FetchFactsHold DEF OverSql, SqlInv
      <3>2. ASSUME NEW d \in runs, d.id = id, d.tenant = t PROVE owns(t, tag)
        <4>1. Fetch(t, id) = WholeRun(d.tag) BY <2>1, <3>1, <3>2 DEF FetchFacts
        <4>2. tag = d.tag BY <1>1, <4>1 DEF WholeRun
        <4> QED BY <1>1, <3>2, <4>2 DEF MadeInv, Doc
      <3>3. ASSUME ~\E d \in runs : d.id = id /\ d.tenant = t PROVE FALSE
        <4>1. Fetch(t, id) = Published!Nothing BY <2>1, <3>1, <3>3 DEF FetchFacts
        <4> QED BY <1>1, <4>1 DEF Published!Nothing
      <3> QED BY <3>2, <3>3
    <2>2. CASE backend = "cosmos"
      <3>1. \/ \E d \in runs : d.tenant = t /\ tag = d.tag
            \/ \E d \in metrics : d.tenant = t /\ tag = d.tag
            \/ \E d \in alerts : d.tenant = t /\ tag = d.tag
        BY <1>1, <2>2 DEF Fetch, GetRun, PartsOf
      <3> QED BY <1>1, <3>1 DEF MadeInv, Doc, AlertDoc
    <2> QED BY <1>1, <2>1, <2>2, BackendsAssumption DEF RestInv
  <1>2. MadeInv /\ OverSql /\ RestInv => TenantsSeeTheirOwn
    <2> SUFFICES ASSUME MadeInv, OverSql, RestInv PROVE TenantsSeeTheirOwn OBVIOUS
    <2>1. \A e \in got : owns(e.to, e.tag) BY DEF MadeInv
    <2> QED BY <1>1, <2>1 DEF TenantsSeeTheirOwn
  <1>3. Init => RestInv BY BoundsAssumption DEF Init, RestInv
  <1> QED BY <1>2, <1>3, RestStep, ServerHolds, MadeHolds, OverSqlHolds, PTL DEF Spec

----------------------------------------------------------------------------
(* In Cosmos the documents of one key are written run first and metrics    *)
(* last, and an upsert never empties a key.                                *)
KeyOf(docs, t, id) == \E d \in docs : d.id = id /\ d.tenant = t
RuleKeyOf(docs, t, id, rule) == \E d \in docs : d.id = id /\ d.tenant = t /\ d.rule = rule

LastInv ==
    /\ \A t \in Tenants, id \in RunIds :
          KeyOf(metrics, t, id) =>
              KeyOf(runs, t, id) /\ \A rule \in Rules : RuleKeyOf(alerts, t, id, rule)
    /\ \A w \in Workers, r \in asked :
          r.tag = req[w].tag /\ pc[w] = "alerts" =>
              /\ KeyOf(runs, r.tenant, r.id)
              /\ \A rule \in Rules \ req[w].left : RuleKeyOf(alerts, r.tenant, r.id, rule)
InCosmos == backend = "cosmos" => LastInv

LEMMA UpsertKeepsKeys ==
    ASSUME backend = "cosmos", NEW docs, NEW r, NEW t, NEW id
    PROVE  /\ KeyOf(docs, t, id) => KeyOf(Upsert(docs, Doc(r)), t, id)
           /\ KeyOf(Upsert(docs, Doc(r)), r.tenant, r.id)
           /\ \A d \in Upsert(docs, Doc(r)) : d \in docs \/ (d.id = r.id /\ d.tenant = r.tenant)
  <1>1. /\ Doc(r) \in Upsert(docs, Doc(r)) /\ Doc(r).id = r.id /\ Doc(r).tenant = r.tenant
    BY DEF Upsert, Doc
  <1>2. \A d \in docs : d \in Upsert(docs, Doc(r)) \/ (d.id = r.id /\ d.tenant = r.tenant)
    BY <1>1 DEF Upsert, SameKey
  <1>3. \A d \in Upsert(docs, Doc(r)) : d \in docs \/ d = Doc(r) BY DEF Upsert
  <1> HIDE DEF Upsert, Doc
  <1> QED BY <1>1, <1>2, <1>3 DEF KeyOf

LEMMA UpsertKeepsRuleKeys ==
    ASSUME backend = "cosmos", NEW w \in Workers, NEW rule \in Rules, UpsertAlerts(w, rule),
           NEW t, NEW id, NEW other
    PROVE  /\ RuleKeyOf(alerts, t, id, other) => RuleKeyOf(alerts', t, id, other)
           /\ RuleKeyOf(alerts', Current(w).tenant, Current(w).id, rule)
  <1>1. PICK r : r = Current(w) OBVIOUS
  <1>2. alerts' = {e \in alerts : ~(SameKey(e, r) /\ e.rule = rule)} \cup {AlertDoc(r, rule)}
    BY <1>1 DEF UpsertAlerts
  <1>3. /\ AlertDoc(r, rule).id = r.id /\ AlertDoc(r, rule).tenant = r.tenant
        /\ AlertDoc(r, rule).rule = rule
    BY DEF AlertDoc
  <1>4. AlertDoc(r, rule) \in alerts' BY <1>2
  <1>5. \A d \in alerts : d \in alerts' \/ (d.id = r.id /\ d.tenant = r.tenant /\ d.rule = rule)
    BY <1>2 DEF SameKey
  <1> QED BY <1>1, <1>3, <1>4, <1>5 DEF RuleKeyOf

LEMMA KeysStay ==
    ASSUME ServerInv, backend = "cosmos", [Next]_vars, NEW t, NEW id, NEW rule
    PROVE  /\ KeyOf(runs, t, id) => KeyOf(runs', t, id)
           /\ RuleKeyOf(alerts, t, id, rule) => RuleKeyOf(alerts', t, id, rule)
  <1>1. ASSUME NEW w \in Workers, UpsertRun(w)
        PROVE  /\ KeyOf(runs, t, id) => KeyOf(runs', t, id)
               /\ alerts' = alerts
    BY <1>1, UpsertKeepsKeys DEF UpsertRun
  <1>2. ASSUME NEW w \in Workers, NEW one \in Rules, UpsertAlerts(w, one)
        PROVE  /\ RuleKeyOf(alerts, t, id, rule) => RuleKeyOf(alerts', t, id, rule)
               /\ runs' = runs
    BY <1>2, UpsertKeepsRuleKeys DEF UpsertAlerts
  <1>3. CASE runs' = runs /\ alerts' = alerts BY <1>3
  <1>4. ASSUME NEW w \in Workers, StoreSql(w) PROVE FALSE BY <1>4 DEF StoreSql
  <1>5. \/ runs' = runs /\ alerts' = alerts
        \/ \E w \in Workers : \/ UpsertRun(w) \/ StoreSql(w)
                              \/ \E one \in Rules : UpsertAlerts(w, one)
    BY DEF Next, Store, Create, UpsertMetrics, CheckVersion, InsertVersion, Fire, Raise, Restart,
           Register, Edit, vars, store
  <1> QED BY <1>1, <1>2, <1>3, <1>4, <1>5

LEMMA LastStep ==
    ASSUME ServerInv, MadeInv, backend = "cosmos", LastInv, [Next]_vars PROVE LastInv'
  <1> DEFINE Whole(t, id) ==
                KeyOf(runs', t, id) /\ \A rule \in Rules : RuleKeyOf(alerts', t, id, rule)
             Begun(v, r) ==
                /\ KeyOf(runs', r.tenant, r.id)
                /\ \A rule \in Rules \ req'[v].left : RuleKeyOf(alerts', r.tenant, r.id, rule)
  <1>1. ASSUME NEW t \in Tenants, NEW id \in RunIds, KeyOf(metrics, t, id) PROVE Whole(t, id)
    BY <1>1, KeysStay DEF LastInv
  <1>2. ASSUME NEW v \in Workers, NEW r \in asked, r.tag = req[v].tag, pc[v] = "alerts",
               Rules \ req'[v].left \subseteq Rules \ req[v].left
        PROVE  Begun(v, r)
    BY <1>2, KeysStay DEF LastInv
  <1>3. ASSUME NEW t \in Tenants, NEW id \in RunIds, KeyOf(metrics', t, id) PROVE Whole(t, id)
    <2>1. CASE KeyOf(metrics, t, id) BY <1>1, <2>1
    <2>2. CASE ~KeyOf(metrics, t, id)
      <3>1. PICK w \in Workers : UpsertMetrics(w)
        <4>1. metrics' # metrics BY <1>3, <2>2
        <4>2. ~\E w \in Workers : StoreSql(w) BY DEF StoreSql
        <4> QED BY <4>1, <4>2 DEF Next, Store, Create, UpsertRun, UpsertAlerts, CheckVersion,
                   InsertVersion, Fire, Raise, Restart, Register, Edit, vars, store
      <3>2. PICK r \in asked : r = Current(w) /\ r.tag = req[w].tag
        BY <3>1, Serving DEF UpsertMetrics
      <3>3. metrics' = Upsert(metrics, Doc(r)) /\ pc[w] = "alerts" /\ req[w].left = {}
        BY <3>1, <3>2 DEF UpsertMetrics
      <3>4. t = r.tenant /\ id = r.id
        <4>1. PICK d \in metrics' : d.id = id /\ d.tenant = t BY <1>3 DEF KeyOf
        <4>2. d \notin metrics BY <2>2, <4>1 DEF KeyOf
        <4>3. d \in metrics \/ (d.id = r.id /\ d.tenant = r.tenant)
          BY <3>3, <4>1, UpsertKeepsKeys
        <4> QED BY <4>1, <4>2, <4>3
      <3>5. KeyOf(runs, t, id) /\ \A rule \in Rules : RuleKeyOf(alerts, t, id, rule)
        BY <3>2, <3>3, <3>4 DEF LastInv
      <3> QED BY <3>5, KeysStay
    <2> QED BY <2>1, <2>2
  <1>4. ASSUME NEW v \in Workers, NEW r \in asked', r.tag = req'[v].tag, pc'[v] = "alerts"
        PROVE  Begun(v, r)
    <2>1. CASE \E w \in Workers, t \in Tenants, id \in RunIds : Create(w, t, id)
      <3>1. PICK w \in Workers, t \in Tenants, id \in RunIds : Create(w, t, id) BY <2>1
      <3>2. PICK new \in Asks :
                /\ asked' = asked \cup {new} /\ \A s \in asked : s.tag # new.tag
                /\ pc' = [pc EXCEPT ![w] = "store"]
                /\ req' = [req EXCEPT ![w] = [tag |-> new.tag, left |-> Rules]]
        BY <3>1, Arrival
      <3>3. v # w /\ pc[v] = "alerts" /\ req'[v] = req[v]
        BY <1>4, <3>2 DEF ServerInv
      <3>4. r \in asked
        <4>1. \E s \in asked : s.tag = req[v].tag BY <3>3 DEF ServerInv
        <4> QED BY <1>4, <3>2, <3>3, <4>1
      <3> QED BY <1>2, <1>4, <3>3, <3>4
    <2>2. CASE \E w \in Workers : UpsertRun(w)
      <3>1. PICK w \in Workers : UpsertRun(w) BY <2>2
      <3>2. asked' = asked /\ req' = req /\ pc' = [pc EXCEPT ![w] = "alerts"] /\ pc[w] = "store"
            /\ runs' = Upsert(runs, Doc(Current(w)))
        BY <3>1 DEF UpsertRun, Goto
      <3>3. CASE v = w
        <4>1. r = Current(w) BY <1>4, <3>2, <3>3, Serving
        <4>2. KeyOf(runs', r.tenant, r.id) BY <3>2, <4>1, UpsertKeepsKeys
        <4>3. req'[v].left = Rules BY <3>2, <3>3 DEF ServerInv
        <4> QED BY <4>2, <4>3
      <3>4. CASE v # w
        <4>1. pc[v] = "alerts" /\ req'[v] = req[v] BY <1>4, <3>2, <3>4 DEF ServerInv
        <4> QED BY <1>2, <1>4, <3>2, <4>1
      <3> QED BY <3>3, <3>4
    <2>3. CASE \E w \in Workers, rule \in Rules : UpsertAlerts(w, rule)
      <3>1. PICK w \in Workers, one \in Rules : UpsertAlerts(w, one) BY <2>3
      <3>2. asked' = asked /\ pc' = pc /\ pc[w] = "alerts"
            /\ req' = [req EXCEPT ![w].left = @ \ {one}]
        BY <3>1 DEF UpsertAlerts
      <3>3. CASE v = w
        <4>1. r = Current(w) /\ r.tag = req[w].tag
          <5>1. req'[w].tag = req[w].tag BY <3>2 DEF ServerInv, Requests
          <5> QED BY <1>4, <3>2, <3>3, <5>1, Serving
        <4>2. req'[v].left = req[v].left \ {one} BY <3>2, <3>3 DEF ServerInv, Requests
        <4>3. RuleKeyOf(alerts', r.tenant, r.id, one)
          BY <3>1, <4>1, UpsertKeepsRuleKeys
        <4>4. KeyOf(runs, r.tenant, r.id)
              /\ \A rule \in Rules \ req[v].left : RuleKeyOf(alerts, r.tenant, r.id, rule)
          BY <3>2, <3>3, <4>1, <1>4 DEF LastInv
        <4>5. KeyOf(runs', r.tenant, r.id) BY <4>4, KeysStay
        <4>6. ASSUME NEW rule \in Rules \ req'[v].left
              PROVE  RuleKeyOf(alerts', r.tenant, r.id, rule)
          <5>1. CASE rule = one BY <4>3, <5>1
          <5>2. CASE rule # one
            <6>1. RuleKeyOf(alerts, r.tenant, r.id, rule) BY <4>2, <4>4, <4>6, <5>2
            <6> QED BY <6>1, KeysStay
          <5> QED BY <5>1, <5>2
        <4> QED BY <4>5, <4>6
      <3>4. CASE v # w
        <4>1. pc[v] = "alerts" /\ req'[v] = req[v] BY <1>4, <3>2, <3>4 DEF ServerInv
        <4> QED BY <1>2, <1>4, <3>2, <4>1
      <3> QED BY <3>3, <3>4
    <2>4. ASSUME NEW w \in Workers,
                 UpsertMetrics(w) \/ CheckVersion(w) \/ InsertVersion(w) \/ Fire(w) \/ Raise(w) \/ Restart(w)
          PROVE  Begun(v, r)
      <3>1. /\ \A u \in Workers : u # w => pc'[u] = pc[u] /\ req'[u] = req[u]
            /\ pc'[w] # "alerts" /\ asked' = asked
        BY <2>4 DEF UpsertMetrics, CheckVersion, InsertVersion, Fire, Raise, Restart, Goto, End, ServerInv
      <3> QED BY <1>2, <1>4, <3>1
    <2>5. CASE \/ \E w \in Workers, t \in Tenants : Register(w, t)
               \/ Edit \/ UNCHANGED vars
      <3>1. pc' = pc /\ req' = req /\ asked' = asked BY <2>5 DEF Register, Edit, vars
      <3> QED BY <1>2, <1>4, <3>1
    <2>6. ~\E w \in Workers : StoreSql(w) BY DEF StoreSql
    <2> HIDE DEF Begun
    <2> QED BY <2>1, <2>2, <2>3, <2>4, <2>5, <2>6 DEF Next, Store
  <1> QED BY <1>3, <1>4 DEF LastInv

(* A tenant that can fetch the metrics of a run can fetch the run and the  *)
(* alerts of every rule: with SQL they appear in one transaction, in       *)
(* Cosmos the metrics are written last, even if two runs drew one id.      *)
THEOREM MetricsAreLast == Spec => []MetricsComeLast
  <1>1. Init => InCosmos BY DEF Init, InCosmos, LastInv, KeyOf
  <1>2. ServerInv /\ MadeInv /\ InCosmos /\ [Next]_vars => InCosmos'
    BY LastStep, BackendStays DEF InCosmos
  <1>3. ASSUME RestInv, MadeInv, OverSql, InCosmos, NEW t \in Tenants, NEW id \in RunIds,
               Fetch(t, id).metrics # {}
        PROVE  Fetch(t, id).run # {} /\ {a[1] : a \in Fetch(t, id).alerts} = Rules
    <2>1. CASE backend = "sql"
      <3>1. FetchFacts /\ IdsUnique /\ PartsMatchRuns BY <1>3, <2>1, FetchFactsHold DEF OverSql, SqlInv
      <3>2. PICK d \in runs : d.id = id /\ d.tenant = t
        BY <1>3, <2>1, <3>1 DEF FetchFacts, Published!Nothing
      <3>3. Fetch(t, id) = WholeRun(d.tag) BY <2>1, <3>1, <3>2 DEF FetchFacts
      <3>4. Fetch(t, id).run = {d.tag} /\ Fetch(t, id).alerts = Rules \X {d.tag}
        BY <3>3 DEF WholeRun
      <3> DEFINE tag == d.tag
      <3> HIDE DEF tag
      <3>5. {a[1] : a \in Rules \X {tag}} = Rules
        <4>1. \A rule \in Rules : <<rule, tag>> \in Rules \X {tag} /\ <<rule, tag>>[1] = rule OBVIOUS
        <4>2. \A a \in Rules \X {tag} : a[1] \in Rules OBVIOUS
        <4>3. \A rule \in Rules : \E a \in Rules \X {tag} : a[1] = rule BY <4>1
        <4> HIDE DEF tag
        <4> QED BY <4>2, <4>3
      <3> QED BY <3>4, <3>5 DEF tag
    <2>2. CASE backend = "cosmos"
      <3>1. KeyOf(metrics, t, id) BY <1>3, <2>2 DEF Fetch, PartsOf, KeyOf
      <3>2. KeyOf(runs, t, id) /\ \A rule \in Rules : RuleKeyOf(alerts, t, id, rule)
        BY <1>3, <2>2, <3>1 DEF InCosmos, LastInv
      <3>3. Fetch(t, id).run # {} BY <3>2 DEF Fetch, GetRun, KeyOf
      <3> DEFINE mine == PartsOf(alerts, t, id)
      <3>4. /\ \A rule \in Rules : \E d \in mine : d.rule = rule
            /\ \A d \in mine : d.rule \in Rules
        BY <1>3, <2>2, <3>2 DEF PartsOf, RuleKeyOf, MadeInv, AlertDoc
      <3>5. Fetch(t, id).alerts = {<<d.rule, d.tag>> : d \in mine} BY DEF Fetch
      <3> HIDE DEF mine
      <3> DEFINE pairs == {<<d.rule, d.tag>> : d \in mine}
      <3>6. \A d \in mine : <<d.rule, d.tag>> \in pairs /\ <<d.rule, d.tag>>[1] = d.rule OBVIOUS
      <3>7. \A a \in pairs : a[1] \in Rules BY <3>4
      <3>8. \A rule \in Rules : \E a \in pairs : a[1] = rule BY <3>4, <3>6
      <3> HIDE DEF pairs
      <3>9. {a[1] : a \in pairs} = Rules BY <3>7, <3>8
      <3> QED BY <3>3, <3>5, <3>9 DEF pairs
    <2> QED BY <1>3, <2>1, <2>2, BackendsAssumption DEF RestInv
  <1>4. RestInv /\ MadeInv /\ OverSql /\ InCosmos => MetricsComeLast BY <1>3 DEF MetricsComeLast
  <1>5. Init => RestInv BY BoundsAssumption DEF Init, RestInv
  <1> QED BY <1>1, <1>2, <1>4, <1>5, RestStep, ServerHolds, MadeHolds, OverSqlHolds, PTL DEF Spec

----------------------------------------------------------------------------
(* What stands behind ToldIsWhole: the documents of a run nobody else can  *)
(* overwrite are there as far as its worker has come, and stay.            *)
Alone(r) == backend = "sql" \/ OnlyOneDrew(r)

Stored(r) == /\ Doc(r) \in runs /\ Doc(r) \in metrics
             /\ \A rule \in Rules : AlertDoc(r, rule) \in alerts

Told(r) == ended[r.tag] = "200" \/ \E e \in got : e.tag = r.tag

WorkInv ==
    \A w \in Workers, r \in asked : r.tag = req[w].tag /\ Alone(r) =>
        /\ pc[w] = "alerts" =>
              Doc(r) \in runs /\ \A rule \in Rules \ req[w].left : AlertDoc(r, rule) \in alerts
        /\ pc[w] \in {"version", "insert", "fire"} => Stored(r)
        /\ pc[w] = "fire" => HasVersion(r)

EndedInv == \A n \in Tags : ended[n] # "open" => \E r \in asked : r.tag = n
ToldInv == \A r \in asked : Told(r) /\ Alone(r) => Stored(r) /\ HasVersion(r)

BaseInv == ServerInv /\ MadeInv /\ RestInv /\ OverSql

LEMMA BaseHolds == Spec => []BaseInv
  <1>1. Init => RestInv BY BoundsAssumption DEF Init, RestInv
  <1>2. ServerInv /\ MadeInv /\ RestInv /\ OverSql => BaseInv BY DEF BaseInv
  <1> QED BY <1>1, <1>2, RestStep, ServerHolds, MadeHolds, OverSqlHolds, PTL DEF Spec

LEMMA AskedGrows == ServerInv /\ [Next]_vars => asked \subseteq asked'
  BY Arrival DEF Next, Store, Create, StoreSql, UpsertRun, UpsertAlerts, UpsertMetrics, CheckVersion,
     InsertVersion, Fire, Raise, Restart, Register, Edit, vars

LEMMA NotBothKinds == BaseInv => backend = "sql" \/ backend = "cosmos"
  BY BackendsAssumption DEF BaseInv, RestInv

(* Another run's documents have another id, or the store is SQL and only   *)
(* adds: nothing of a run that drew its id alone is ever taken away.       *)
LEMMA PartsStay ==
    ASSUME BaseInv, [Next]_vars, NEW r \in asked, Alone(r)'
    PROVE  /\ Alone(r)
           /\ Doc(r) \in runs => Doc(r) \in runs'
           /\ Doc(r) \in metrics => Doc(r) \in metrics'
           /\ \A rule \in Rules : AlertDoc(r, rule) \in alerts => AlertDoc(r, rule) \in alerts'
           /\ HasVersion(r) => HasVersion(r)'
  <1>1. Alone(r) BY AskedGrows, BackendStays DEF BaseInv, Alone, OnlyOneDrew
  <1>2. HasVersion(r) => HasVersion(r)'
    <2>1. specs \subseteq specs'
      BY DEF Next, Store, Create, StoreSql, UpsertRun, UpsertAlerts, UpsertMetrics, CheckVersion,
             InsertVersion, Fire, Raise, Restart, Register, Edit, vars
    <2> QED BY <2>1 DEF HasVersion
  <1>3. ASSUME NEW s \in asked, s # r, backend = "cosmos" PROVE s.id # r.id
    BY <1>1, <1>3 DEF Alone, OnlyOneDrew
  <1>4. ASSUME NEW s \in asked, NEW docs, Doc(r) \in docs, backend = "cosmos"
        PROVE  Doc(r) \in Upsert(docs, Doc(s))
    <2>1. CASE s = r BY <2>1 DEF Upsert
    <2>2. CASE s # r BY <1>3, <1>4, <2>2 DEF Upsert, SameKey, Doc
    <2> QED BY <2>1, <2>2
  <1>5. ASSUME NEW w \in Workers, StoreSql(w)
        PROVE  runs \subseteq runs' /\ metrics \subseteq metrics' /\ alerts \subseteq alerts'
    BY <1>5 DEF StoreSql, store
  <1>6. ASSUME NEW w \in Workers, UpsertRun(w)
        PROVE  /\ Doc(r) \in runs => Doc(r) \in runs'
               /\ metrics' = metrics /\ alerts' = alerts
    <2>1. PICK s \in asked : s = Current(w) BY <1>6, Serving DEF UpsertRun, BaseInv
    <2> QED BY <1>4, <1>6, <2>1 DEF UpsertRun
  <1>7. ASSUME NEW w \in Workers, UpsertMetrics(w)
        PROVE  /\ Doc(r) \in metrics => Doc(r) \in metrics'
               /\ runs' = runs /\ alerts' = alerts
    <2>1. PICK s \in asked : s = Current(w) BY <1>7, Serving DEF UpsertMetrics, BaseInv
    <2>2. backend = "cosmos" BY <1>7, NotBothKinds DEF UpsertMetrics, BaseInv, OverSql, SqlInv
    <2> QED BY <1>4, <1>7, <2>1, <2>2 DEF UpsertMetrics
  <1>8. ASSUME NEW w \in Workers, NEW one \in Rules, UpsertAlerts(w, one)
        PROVE  /\ \A rule \in Rules : AlertDoc(r, rule) \in alerts => AlertDoc(r, rule) \in alerts'
               /\ runs' = runs /\ metrics' = metrics
    <2>1. PICK s \in asked : s = Current(w) BY <1>8, Serving DEF UpsertAlerts, BaseInv
    <2>2. backend = "cosmos" BY <1>8, NotBothKinds DEF UpsertAlerts, BaseInv, OverSql, SqlInv
    <2>3. alerts' = {e \in alerts : ~(SameKey(e, s) /\ e.rule = one)} \cup {AlertDoc(s, one)}
      BY <1>8, <2>1 DEF UpsertAlerts
    <2>4. ASSUME NEW rule \in Rules, AlertDoc(r, rule) \in alerts
          PROVE  AlertDoc(r, rule) \in alerts'
      <3>1. /\ AlertDoc(r, rule).id = r.id /\ AlertDoc(r, rule).rule = rule
        BY DEF AlertDoc
      <3>2. CASE s = r /\ rule = one BY <2>3, <3>2
      <3>3. CASE s = r /\ rule # one BY <2>3, <2>4, <3>1, <3>3
      <3>4. CASE s # r BY <1>3, <2>2, <2>3, <2>4, <3>1, <3>4 DEF SameKey
      <3> QED BY <3>2, <3>3, <3>4
    <2> QED BY <1>8, <2>4 DEF UpsertAlerts
  <1>9. \/ runs' = runs /\ metrics' = metrics /\ alerts' = alerts
        \/ \E w \in Workers : \/ StoreSql(w) \/ UpsertRun(w) \/ UpsertMetrics(w)
                              \/ \E one \in Rules : UpsertAlerts(w, one)
    BY DEF Next, Store, Create, CheckVersion, InsertVersion, Fire, Raise, Restart, Register, Edit,
           vars, store
  <1> QED BY <1>1, <1>2, <1>5, <1>6, <1>7, <1>8, <1>9

LEMMA EndedStep == BaseInv /\ EndedInv /\ [Next]_vars => EndedInv'
  <1> SUFFICES ASSUME BaseInv, EndedInv, [Next]_vars, NEW n \in Tags, ended'[n] # "open"
               PROVE  \E r \in asked' : r.tag = n
    BY DEF EndedInv
  <1>1. asked \subseteq asked' BY AskedGrows DEF BaseInv
  <1>2. CASE ended[n] # "open" BY <1>1, <1>2 DEF EndedInv
  <1>3. CASE ended[n] = "open"
    <2>1. PICK w \in Workers : pc[w] # "idle" /\ \E status : ended' = [ended EXCEPT ![req[w].tag] = status]
      BY <1>3 DEF Next, Store, Create, StoreSql, UpsertRun, UpsertAlerts, UpsertMetrics, CheckVersion,
         InsertVersion, Fire, Raise, Restart, Register, Edit, vars, End
    <2>2. n = req[w].tag BY <1>3, <2>1 DEF BaseInv, RestInv
    <2>3. \E r \in asked : r.tag = n BY <2>1, <2>2 DEF BaseInv, ServerInv
    <2> QED BY <1>1, <2>3
  <1> QED BY <1>2, <1>3

(* The only step that answers 200 or calls a webhook.                      *)
LEMMA ToldByFire ==
    ASSUME BaseInv, [Next]_vars, NEW r \in asked, Told(r)', ~Told(r)
    PROVE  \E w \in Workers : pc[w] = "fire" /\ r.tag = req[w].tag
  <1>1. r.tag \in Tags /\ ended \in [Tags -> {"open", "200", "500"}]
    BY DEF BaseInv, ServerInv, RestInv, Asks
  <1>2. ASSUME NEW w \in Workers, Fire(w) PROVE r.tag = req[w].tag /\ pc[w] = "fire"
    <2>1. PICK c \in asked : c = Current(w) /\ c.tag = req[w].tag
      BY <1>2, Serving DEF Fire, BaseInv
    <2>2. \A e \in got' : e \in got \/ e.tag = c.tag BY <1>2, <2>1 DEF Fire
    <2>3. ended' = [ended EXCEPT ![req[w].tag] = "200"] BY <1>2 DEF Fire, End
    <2>4. r.tag = req[w].tag BY <1>1, <2>1, <2>2, <2>3 DEF Told
    <2> QED BY <1>2, <2>4 DEF Fire
  <1>3. ASSUME NEW w \in Workers, got' = got, ended' = [ended EXCEPT ![req[w].tag] = "500"]
        PROVE  FALSE
    BY <1>1, <1>3 DEF Told
  <1>4. ASSUME got' = got, ended' = ended PROVE FALSE BY <1>4 DEF Told
  <1>5. \/ \E w \in Workers : Fire(w)
        \/ got' = got /\ \E w \in Workers : ended' = [ended EXCEPT ![req[w].tag] = "500"]
        \/ got' = got /\ ended' = ended
    BY DEF Next, Store, Create, StoreSql, UpsertRun, UpsertAlerts, UpsertMetrics, CheckVersion,
       InsertVersion, Raise, Restart, Register, Edit, vars, End
  <1> QED BY <1>2, <1>3, <1>4, <1>5

LEMMA ToldStep == BaseInv /\ EndedInv /\ WorkInv /\ ToldInv /\ [Next]_vars => ToldInv'
  <1> SUFFICES ASSUME BaseInv, EndedInv, WorkInv, ToldInv, [Next]_vars,
                      NEW r \in asked', Told(r)', Alone(r)'
               PROVE  Stored(r)' /\ HasVersion(r)'
    BY DEF ToldInv
  <1>1. CASE r \in asked
    <2>1. Stored(r) /\ HasVersion(r)
      <3>1. Alone(r) BY <1>1, PartsStay
      <3>2. CASE Told(r) BY <1>1, <3>1, <3>2 DEF ToldInv
      <3>3. CASE ~Told(r)
        <4>1. PICK w \in Workers : pc[w] = "fire" /\ r.tag = req[w].tag
          BY <1>1, <3>3, ToldByFire
        <4> QED BY <1>1, <3>1, <4>1 DEF WorkInv
      <3> QED BY <3>2, <3>3
    <2> QED BY <1>1, <2>1, PartsStay DEF Stored
  <1>2. CASE r \notin asked
    <2>1. PICK w \in Workers, t \in Tenants, id \in RunIds : Create(w, t, id)
      BY <1>2 DEF Next, Store, StoreSql, UpsertRun, UpsertAlerts, UpsertMetrics, CheckVersion,
         InsertVersion, Fire, Raise, Restart, Register, Edit, vars
    <2>2. r \in Asks /\ \A s \in asked : s.tag # r.tag
      BY <1>2, <2>1, Arrival DEF BaseInv
    <2>3. ended' = ended /\ got' = got BY <2>1 DEF Create
    <2>4. r.tag \in Tags BY <2>2 DEF Asks
    <2>5. ended[r.tag] = "open" BY <2>2, <2>4 DEF EndedInv
    <2>6. \A e \in got : e.tag # r.tag BY <2>2 DEF BaseInv, MadeInv
    <2> QED BY <2>3, <2>5, <2>6 DEF Told
  <1> QED BY <1>1, <1>2

LEMMA WorkStep == BaseInv /\ WorkInv /\ [Next]_vars => WorkInv'
  <1> DEFINE Progress(v, r) ==
                /\ pc[v] = "alerts" =>
                      Doc(r) \in runs /\ \A rule \in Rules \ req[v].left : AlertDoc(r, rule) \in alerts
                /\ pc[v] \in {"version", "insert", "fire"} => Stored(r)
                /\ pc[v] = "fire" => HasVersion(r)
  <1> SUFFICES ASSUME BaseInv, WorkInv, [Next]_vars,
                      NEW v \in Workers, NEW r \in asked', r.tag = req'[v].tag, Alone(r)'
               PROVE  Progress(v, r)'
    BY DEF WorkInv
  <1> DEFINE Goal == Progress(v, r)'
  <1> SUFFICES Goal OBVIOUS
  <1>a. ServerInv BY DEF BaseInv
  <1>1. ASSUME r \in asked, r.tag = req[v].tag PROVE Progress(v, r) BY <1>1, PartsStay DEF WorkInv
  <1>2. ASSUME pc'[v] = "idle" \/ pc'[v] = "store" PROVE Goal BY <1>2
  <1>3. ASSUME pc'[v] = pc[v], req'[v] = req[v] PROVE Goal
    <2>1. CASE pc[v] = "idle" BY <1>2, <1>3, <2>1
    <2>2. CASE pc[v] # "idle" /\ r \in asked BY <1>1, <1>3, <2>2, PartsStay DEF Stored
    <2>3. CASE pc[v] # "idle" /\ r \notin asked
      <3>1. \E w \in Workers, t \in Tenants, id \in RunIds : Create(w, t, id)
        BY <2>3 DEF Next, Store, StoreSql, UpsertRun, UpsertAlerts, UpsertMetrics, CheckVersion,
           InsertVersion, Fire, Raise, Restart, Register, Edit, vars
      <3>2. \A s \in asked : s.tag # r.tag BY <1>a, <2>3, <3>1, Arrival
      <3>3. \E s \in asked : s.tag = req[v].tag BY <1>a, <2>3 DEF ServerInv
      <3> QED BY <1>3, <3>2, <3>3
    <2> QED BY <2>1, <2>2, <2>3
  <1>4. ASSUME r \in asked, r.tag = req[v].tag, pc[v] # "idle" PROVE r = Current(v)
    BY <1>4, <1>a, Serving
  <1>5. ASSUME NEW w \in Workers, NEW t \in Tenants, NEW id \in RunIds, Create(w, t, id) PROVE Goal
    <2>1. /\ pc' = [pc EXCEPT ![w] = "store"]
          /\ \A u \in Workers : u # w => req'[u] = req[u]
      BY <1>5, <1>a DEF Create, Goto, ServerInv
    <2>2. CASE v = w BY <1>2, <1>a, <2>1, <2>2 DEF ServerInv
    <2>3. CASE v # w BY <1>3, <1>a, <2>1, <2>3 DEF ServerInv
    <2> QED BY <2>2, <2>3
  <1>6. ASSUME NEW w \in Workers, StoreSql(w) PROVE Goal
    <2>1. asked' = asked /\ pc[w] = "store" BY <1>6 DEF StoreSql
    <2>2. CASE v # w
      <3>1. pc'[v] = pc[v] /\ req'[v] = req[v] BY <1>6, <1>a, <2>2 DEF StoreSql, Goto, End, ServerInv
      <3> QED BY <1>3, <3>1
    <2>3. CASE v = w /\ pc'[v] # "idle"
      <3>1. pc'[v] = "version" /\ req' = req BY <1>6, <1>a, <2>3 DEF StoreSql, Goto, End, ServerInv
      <3>2. r = Current(w) BY <1>4, <2>1, <2>3, <3>1
      <3>3. Stored(r)' BY <1>6, <1>a, <2>3, <3>2 DEF StoreSql, Goto, End, ServerInv, Stored
      <3> QED BY <3>1, <3>3
    <2> QED BY <1>2, <2>2, <2>3
  <1>7. ASSUME NEW w \in Workers, UpsertRun(w) PROVE Goal
    <2>1. asked' = asked /\ req' = req /\ pc[w] = "store" /\ pc' = [pc EXCEPT ![w] = "alerts"]
          /\ runs' = Upsert(runs, Doc(Current(w)))
      BY <1>7 DEF UpsertRun, Goto
    <2>2. CASE v # w BY <1>3, <1>a, <2>1, <2>2 DEF ServerInv
    <2>3. CASE v = w
      <3>1. pc'[v] = "alerts" /\ req'[v].left = Rules BY <1>a, <2>1, <2>3 DEF ServerInv
      <3>2. r = Current(w) BY <1>4, <2>1, <2>3
      <3>3. Doc(r) \in runs' BY <2>1, <3>2 DEF Upsert
      <3> QED BY <3>1, <3>3
    <2> QED BY <2>2, <2>3
  <1>8. ASSUME NEW w \in Workers, NEW one \in Rules, UpsertAlerts(w, one) PROVE Goal
    <2>1. asked' = asked /\ pc' = pc /\ pc[w] = "alerts"
          /\ req' = [req EXCEPT ![w].left = @ \ {one}]
      BY <1>8 DEF UpsertAlerts
    <2>2. CASE v # w BY <1>3, <1>a, <2>1, <2>2 DEF ServerInv
    <2>3. CASE v = w
      <3>1. req'[v].left = req[v].left \ {one} /\ req'[v].tag = req[v].tag
        BY <1>a, <2>1, <2>3 DEF ServerInv, Requests
      <3>2. r = Current(w) BY <1>4, <2>1, <2>3, <3>1
      <3>3. AlertDoc(r, one) \in alerts' BY <1>8, <3>2 DEF UpsertAlerts
      <3>4. Progress(v, r) BY <1>1, <2>1, <3>1
      <3> QED BY <2>1, <2>3, <3>1, <3>3, <3>4, PartsStay
    <2> QED BY <2>2, <2>3
  <1>9. ASSUME NEW w \in Workers, UpsertMetrics(w) PROVE Goal
    <2>1. asked' = asked /\ req' = req /\ pc[w] = "alerts" /\ pc' = [pc EXCEPT ![w] = "version"]
          /\ req[w].left = {} /\ metrics' = Upsert(metrics, Doc(Current(w)))
      BY <1>9 DEF UpsertMetrics, Goto
    <2>2. CASE v # w BY <1>3, <1>a, <2>1, <2>2 DEF ServerInv
    <2>3. CASE v = w
      <3>1. r = Current(w) BY <1>4, <2>1, <2>3
      <3>2. Doc(r) \in metrics' BY <2>1, <3>1 DEF Upsert
      <3>3. Progress(v, r) BY <1>1, <2>1
      <3>4. Doc(r) \in runs' /\ \A rule \in Rules : AlertDoc(r, rule) \in alerts'
        BY <2>1, <2>3, <3>3, PartsStay
      <3>5. pc'[v] = "version" BY <1>a, <2>1, <2>3 DEF ServerInv
      <3> QED BY <3>2, <3>4, <3>5 DEF Stored
    <2> QED BY <2>2, <2>3
  <1>10. ASSUME NEW w \in Workers, CheckVersion(w) PROVE Goal
    <2>1. asked' = asked /\ pc[w] = "version" BY <1>10 DEF CheckVersion
    <2>2. /\ \A u \in Workers : u # w => pc'[u] = pc[u] /\ req'[u] = req[u]
          /\ req'[w].tag = req[w].tag /\ pc'[w] \in {"insert", "fire"}
          /\ pc'[w] = "fire" => HasVersion(Current(w))
      BY <1>10, <1>a DEF CheckVersion, Goto, ServerInv, Requests
    <2>3. CASE v # w BY <1>3, <2>2, <2>3
    <2>4. CASE v = w
      <3>1. r = Current(w) BY <1>4, <2>1, <2>2, <2>4
      <3>2. Stored(r) BY <1>1, <2>1, <2>2, <2>4
      <3>3. pc'[v] = "fire" => HasVersion(r)
        BY <2>2, <2>4, <3>1
      <3> QED BY <2>1, <2>2, <2>4, <3>2, <3>3, PartsStay DEF Stored
    <2> QED BY <2>3, <2>4
  <1>11. ASSUME NEW w \in Workers, InsertVersion(w) PROVE Goal
    <2>1. asked' = asked /\ pc[w] = "insert" BY <1>11 DEF InsertVersion
    <2>2. CASE v # w
      <3>1. pc'[v] = pc[v] /\ req'[v] = req[v]
        BY <1>11, <1>a, <2>2 DEF InsertVersion, Goto, End, ServerInv
      <3> QED BY <1>3, <3>1
    <2>3. CASE v = w /\ pc'[v] # "idle"
      <3>1. pc'[v] = "fire" /\ req' = req
        BY <1>11, <1>a, <2>3 DEF InsertVersion, Goto, End, ServerInv
      <3>2. r = Current(w) BY <1>4, <2>1, <2>3, <3>1
      <3>3. HasVersion(r)'
        <4>1. PICK x : specs' = specs \cup {[hash |-> r.hash, tenant |-> r.tenant, by |-> r.tag, content |-> x]}
          BY <1>11, <1>a, <2>3, <3>1, <3>2 DEF InsertVersion, Goto, End, ServerInv
        <4> DEFINE row == [hash |-> r.hash, tenant |-> r.tenant, by |-> r.tag, content |-> x]
        <4>2. row \in specs' /\ row.hash = r.hash /\ row.tenant = r.tenant BY <4>1
        <4> HIDE DEF row
        <4> QED BY <4>2 DEF HasVersion
      <3>4. Stored(r) BY <1>1, <2>1, <2>3, <3>1
      <3> QED BY <2>1, <3>1, <3>3, <3>4, PartsStay DEF Stored
    <2> QED BY <1>2, <2>2, <2>3
  <1>12. ASSUME NEW w \in Workers, Fire(w) \/ Raise(w) \/ Restart(w) PROVE Goal
    <2>1. /\ \A u \in Workers : u # w => pc'[u] = pc[u] /\ req'[u] = req[u]
          /\ pc'[w] = "idle"
      BY <1>12, <1>a DEF Fire, Raise, Restart, Goto, End, ServerInv
    <2> QED BY <1>2, <1>3, <2>1
  <1>13. CASE \/ \E w \in Workers, t \in Tenants : Register(w, t)
              \/ Edit \/ UNCHANGED vars
    <2>1. pc' = pc /\ req' = req BY <1>13 DEF Register, Edit, vars
    <2> QED BY <1>3, <2>1
  <1> HIDE DEF Goal
  <1> QED BY <1>5, <1>6, <1>7, <1>8, <1>9, <1>10, <1>11, <1>12, <1>13 DEF Next, Store

(* A client answered 200 and a receiver its webhook told of can fetch the  *)
(* whole run, and its spec version is on file: the documents and then the  *)
(* version are stored before anybody is told, faults and restarts of any   *)
(* worker in between, and only a run of the same id can take them away     *)
(* again, in Cosmos.                                                       *)
THEOREM ToldRunsAreWhole == Spec => []ToldIsWhole
  <1>1. Init => EndedInv /\ WorkInv /\ ToldInv
    BY DEF Init, EndedInv, WorkInv, ToldInv
  <1>2. BaseInv /\ ToldInv => ToldIsWhole
    <2> SUFFICES ASSUME BaseInv, ToldInv, NEW r \in asked, Told(r), Alone(r)
                 PROVE  Fetch(r.tenant, r.id) = WholeRun(r.tag) /\ HasVersion(r)
      BY DEF ToldIsWhole, Told, Alone
    <2>1. Stored(r) /\ HasVersion(r) BY DEF ToldInv
    <2>t. PICK t \in Tenants, id \in RunIds : t = r.tenant /\ id = r.id
      BY DEF BaseInv, ServerInv, Asks
    <2>g. PICK tag : tag = r.tag OBVIOUS
    <2>2. t = r.tenant /\ id = r.id /\ tag = r.tag BY <2>t, <2>g
    <2>3. CASE backend = "sql"
      <3>1. FetchFacts /\ IdsUnique /\ PartsMatchRuns
        BY <2>3, FetchFactsHold DEF BaseInv, OverSql, SqlInv
      <3>2. Doc(r) \in runs /\ Doc(r).id = id /\ Doc(r).tenant = t /\ Doc(r).tag = tag
        BY <2>1, <2>2 DEF Stored, Doc
      <3>3. Fetch(t, id) = WholeRun(tag) BY <2>3, <3>1, <3>2 DEF FetchFacts
      <3> QED BY <2>1, <2>2, <3>3
    <2>4. CASE backend = "cosmos" /\ OnlyOneDrew(r)
      <3>1. /\ \A d \in runs : d.id = id => d = Doc(r)
            /\ \A d \in metrics : d.id = id => d = Doc(r)
            /\ \A d \in alerts : d.id = id => \E rule \in Rules : d = AlertDoc(r, rule)
        BY <2>2, <2>4 DEF OnlyOneDrew, BaseInv, MadeInv, Doc, AlertDoc
      <3>2. /\ Doc(r).id = id /\ Doc(r).tenant = t /\ Doc(r).tag = tag
            /\ \A rule : /\ AlertDoc(r, rule).id = id /\ AlertDoc(r, rule).tenant = t
                         /\ AlertDoc(r, rule).tag = tag /\ AlertDoc(r, rule).rule = rule
        BY <2>2 DEF Doc, AlertDoc
      <3>3. GetRun(t, id) = {tag} BY <2>1, <3>1, <3>2 DEF GetRun, Stored
      <3>4. PartsOf(metrics, t, id) = {Doc(r)} BY <2>1, <2>4, <3>1, <3>2 DEF PartsOf, Stored
      <3>5. PartsOf(alerts, t, id) = {AlertDoc(r, rule) : rule \in Rules}
        BY <2>1, <2>4, <3>1, <3>2 DEF PartsOf, Stored
      <3>6. {d.tag : d \in PartsOf(metrics, t, id)} = {tag} BY <3>2, <3>4
      <3>7. {<<d.rule, d.tag>> : d \in PartsOf(alerts, t, id)} = {<<rule, tag>> : rule \in Rules}
        BY <3>2, <3>5
      <3>8. {<<rule, tag>> : rule \in Rules} = Rules \X {tag} OBVIOUS
      <3>9. Fetch(t, id) = WholeRun(tag) BY <3>3, <3>6, <3>7, <3>8 DEF Fetch, WholeRun
      <3> QED BY <2>1, <2>2, <3>9
    <2> QED BY <2>3, <2>4, NotBothKinds DEF Alone
  <1> QED BY <1>1, <1>2, EndedStep, WorkStep, ToldStep, BaseHolds, PTL DEF Spec

----------------------------------------------------------------------------
(* The gate.  Ages are naturals up to where they are cut.                   *)
GateTypes ==
    /\ config \in [age : 0..TTL, new : BOOLEAN] /\ jwks \in [age : 0..TTL, keys : SUBSET Keys]
    /\ check \in [step : {"free", "config", "jwks"}, lag : 0..MaxLag]
    /\ here \subseteq Keys /\ gone \subseteq Keys /\ moved \in BOOLEAN
    /\ published \in 0..Never /\ withdrawn \in 0..Never
    /\ ~moved => gone = {}

(* A discovery document that does not name the new place is older than the  *)
(* move, and what changed at the new place since changed after it.          *)
ConfigAge ==
    config.age < TTL /\ ~config.new /\ moved =>
        /\ "old" \in gone /\ "old" \notin here => withdrawn <= config.age
        /\ "new" \notin gone /\ "new" \in here => published <= config.age

(* A check that is about to fetch from the old place found that document    *)
(* less than one lifetime old when it began.                                *)
FetchAge ==
    check.step = "jwks" /\ ~config.new /\ moved =>
        /\ "old" \in gone /\ "old" \notin here => withdrawn < TTL + check.lag
        /\ "new" \notin gone /\ "new" \in here => published < TTL + check.lag

(* Cached keys that are out of date became so since they were fetched, or   *)
(* within one lifetime before if they came from the old place.              *)
KeysAge ==
    jwks.age < TTL =>
        /\ "old" \in jwks.keys /\ "old" \notin here =>
             withdrawn < IF "old" \in gone THEN TTL + jwks.age ELSE jwks.age + 1
        /\ "new" \notin jwks.keys /\ "new" \in here =>
             published < IF moved /\ "new" \notin gone THEN TTL + jwks.age ELSE jwks.age + 1

GateInv == GateTypes /\ ConfigAge /\ FetchAge /\ KeysAge /\ RevokedSoonRefused /\ RotatedSoonAccepted

LEMMA GateNumbers == TTL \in Nat \ {0} /\ MaxLag \in Nat /\ MaxLag <= TTL /\ Never = TTL + TTL
  <1>1. TTL \in Nat \ {0} BY LimitsAssumption
  <1>2. MaxLag \in Nat /\ MaxLag <= TTL BY <1>1, LagAssumption
  <1> QED BY <1>1, <1>2 DEF Never

LEMMA GateInitHolds == GateInit => GateInv
  <1> SUFFICES ASSUME GateInit PROVE GateInv OBVIOUS
  <1> USE GateNumbers DEF GateInit
  <1>1. GateTypes
    <2>1. TTL \in 0..TTL /\ 0 \in 0..MaxLag /\ 0 \in 0..Never OBVIOUS
    <2>2. config \in [age : 0..TTL, new : BOOLEAN] BY <2>1
    <2>3. jwks \in [age : 0..TTL, keys : SUBSET Keys] BY <2>1
    <2>4. check \in [step : {"free", "config", "jwks"}, lag : 0..MaxLag] BY <2>1 DEF Free
    <2>5. here \subseteq Keys /\ gone = {} /\ moved = FALSE BY DEF Keys
    <2>6. published \in 0..Never /\ withdrawn \in 0..Never BY <2>1
    <2> QED BY <2>2, <2>3, <2>4, <2>5, <2>6 DEF GateTypes
  <1>2. ConfigAge /\ FetchAge /\ KeysAge BY DEF ConfigAge, FetchAge, KeysAge, Free
  <1>3. RevokedSoonRefused /\ RotatedSoonAccepted
    BY DEF RevokedSoonRefused, RotatedSoonAccepted, Silent, Accepted
  <1> QED BY <1>1, <1>2, <1>3 DEF GateInv

(* No verdict: the two promises about verdicts hold.                        *)
LEMMA SilentKeeps ==
    ASSUME answer' = Silent
    PROVE RevokedSoonRefused' /\ RotatedSoonAccepted'
  BY DEF RevokedSoonRefused, RotatedSoonAccepted, Silent, Accepted

LEMMA TickKeeps == ASSUME GateInv, Tick PROVE GateInv'
  <1> USE GateNumbers
  <1>0. GateTypes /\ ConfigAge /\ FetchAge /\ KeysAge BY DEF GateInv
  <1>1. /\ published' = IF "new" \in here THEN Cut(published + 1, Never) ELSE 0
        /\ withdrawn' = IF "old" \in here THEN 0 ELSE Cut(withdrawn + 1, Never)
        /\ config' = [config EXCEPT !.age = Cut(@ + 1, TTL)]
        /\ jwks' = [jwks EXCEPT !.age = Cut(@ + 1, TTL)]
        /\ check' = IF check.step = "free" THEN check ELSE [check EXCEPT !.lag = @ + 1]
        /\ check.step # "free" => check.lag < MaxLag
        /\ here' = here /\ gone' = gone /\ moved' = moved
    BY DEF Tick
  <1>2. /\ config'.age = Cut(config.age + 1, TTL) /\ config'.new = config.new
        /\ jwks'.age = Cut(jwks.age + 1, TTL) /\ jwks'.keys = jwks.keys
        /\ check'.step = check.step /\ (check.step # "free" => check'.lag = check.lag + 1)
    BY <1>0, <1>1 DEF GateTypes
  <1>3. /\ config.age \in 0..TTL /\ jwks.age \in 0..TTL /\ check.lag \in 0..MaxLag
        /\ published \in 0..Never /\ withdrawn \in 0..Never /\ Never \in Nat
    BY <1>0 DEF GateTypes
  <1>4. /\ Cut(config.age + 1, TTL) \in 0..TTL
        /\ Cut(config.age + 1, TTL) < TTL => Cut(config.age + 1, TTL) = config.age + 1
        /\ Cut(jwks.age + 1, TTL) \in 0..TTL
        /\ Cut(jwks.age + 1, TTL) < TTL => Cut(jwks.age + 1, TTL) = jwks.age + 1
        /\ Cut(published + 1, Never) \in 0..Never /\ Cut(published + 1, Never) <= published + 1
        /\ Cut(withdrawn + 1, Never) \in 0..Never /\ Cut(withdrawn + 1, Never) <= withdrawn + 1
    BY <1>3 DEF Cut
  <1>5. GateTypes'
    BY <1>0, <1>1, <1>2, <1>3, <1>4 DEF GateTypes
  <1>6. ConfigAge' BY <1>0, <1>1, <1>2, <1>3, <1>4 DEF ConfigAge
  <1>7. FetchAge' BY <1>0, <1>1, <1>2, <1>3, <1>4 DEF FetchAge
  <1>8. KeysAge' BY <1>0, <1>1, <1>2, <1>3, <1>4 DEF KeysAge
  <1> QED BY <1>5, <1>6, <1>7, <1>8, SilentKeeps DEF GateInv, Tick

(* The provider may move, publish and withdraw whatever is cached.          *)
LEMMA ProviderKeeps == ASSUME GateInv, Publish \/ Withdraw \/ Move PROVE GateInv'
  <1> USE GateNumbers
  <1>0. /\ GateTypes /\ ConfigAge /\ FetchAge /\ KeysAge
        /\ UNCHANGED <<config, jwks, check>> /\ answer' = Silent
    BY DEF GateInv, Publish, Withdraw, Move, Provider
  <1>1. /\ config.age \in 0..TTL /\ jwks.age \in 0..TTL /\ check.lag \in 0..MaxLag
    BY <1>0 DEF GateTypes
  <1>2. CASE Publish
    <2>1. /\ here' = here \cup {"new"} /\ published' = 0
          /\ UNCHANGED <<gone, moved, withdrawn>> /\ ("old" \in here' <=> "old" \in here)
      BY <1>2 DEF Publish
    <2>2. GateTypes' BY <1>0, <2>1 DEF GateTypes, Keys
    <2>3. ConfigAge' /\ FetchAge' /\ KeysAge'
      BY <1>0, <1>1, <2>1 DEF ConfigAge, FetchAge, KeysAge
    <2> QED BY <1>0, <2>2, <2>3, SilentKeeps DEF GateInv
  <1>3. CASE Withdraw
    <2>1. /\ here' = here \ {"old"} /\ withdrawn' = 0
          /\ UNCHANGED <<gone, moved, published>> /\ ("new" \in here' <=> "new" \in here)
      BY <1>3 DEF Withdraw
    <2>2. GateTypes' BY <1>0, <2>1 DEF GateTypes
    <2>3. ConfigAge' /\ FetchAge' /\ KeysAge'
      BY <1>0, <1>1, <2>1 DEF ConfigAge, FetchAge, KeysAge
    <2> QED BY <1>0, <2>2, <2>3, SilentKeeps DEF GateInv
  <1>4. CASE Move
    <2>1. /\ ~moved /\ gone = {} /\ moved' = TRUE /\ gone' = here
          /\ UNCHANGED <<here, published, withdrawn>>
      BY <1>0, <1>4 DEF Move, GateTypes
    <2>2. GateTypes' BY <1>0, <2>1 DEF GateTypes
    <2>3. ConfigAge' /\ FetchAge' /\ KeysAge'
      BY <1>0, <1>1, <2>1 DEF ConfigAge, FetchAge, KeysAge
    <2> QED BY <1>0, <2>2, <2>3, SilentKeeps DEF GateInv
  <1> QED BY <1>2, <1>3, <1>4

LEMMA CachedKeeps == ASSUME GateInv, NEW key \in Keys, CheckCached(key) PROVE GateInv'
  <1> USE GateNumbers
  <1>0. /\ GateTypes /\ ConfigAge /\ FetchAge /\ KeysAge
        /\ UNCHANGED <<provider, config, jwks, check>>
        /\ jwks.age < TTL /\ answer' = Verdict(key, jwks.keys)
    BY DEF GateInv, CheckCached
  <1>1. GateTypes' /\ ConfigAge' /\ FetchAge' /\ KeysAge'
    BY <1>0 DEF GateTypes, ConfigAge, FetchAge, KeysAge, provider
  <1>2. jwks.age \in 0..TTL /\ published \in Nat /\ withdrawn \in Nat BY <1>0 DEF GateTypes
  <1>3. /\ answer' = Accepted("old") => "old" \in jwks.keys
        /\ answer' = [key |-> "new", verdict |-> "refused"] => "new" \notin jwks.keys
    BY <1>0 DEF Verdict, Accepted
  <1>4. RevokedSoonRefused' /\ RotatedSoonAccepted'
    BY <1>0, <1>2, <1>3 DEF RevokedSoonRefused, RotatedSoonAccepted, KeysAge, provider
  <1> QED BY <1>1, <1>4 DEF GateInv

LEMMA CheckKeeps == ASSUME GateInv, Check PROVE GateInv'
  <1> USE GateNumbers
  <1>0. /\ GateTypes /\ ConfigAge /\ FetchAge /\ KeysAge
        /\ UNCHANGED <<provider, config, jwks>> /\ answer' = Silent
        /\ check' = [step |-> IF config.age < TTL THEN "jwks" ELSE "config", lag |-> 0]
    BY DEF GateInv, Check
  <1>1. config.age \in 0..TTL /\ published \in Nat /\ withdrawn \in Nat BY <1>0 DEF GateTypes
  <1>2. GateTypes' /\ ConfigAge' /\ KeysAge'
    BY <1>0 DEF GateTypes, ConfigAge, KeysAge, provider
  <1>3. FetchAge' BY <1>0, <1>1 DEF ConfigAge, FetchAge, provider
  <1> QED BY <1>0, <1>2, <1>3, SilentKeeps DEF GateInv

LEMMA ConfigKeeps == ASSUME GateInv, FetchConfig PROVE GateInv'
  <1> USE GateNumbers
  <1>0. /\ GateTypes /\ ConfigAge /\ FetchAge /\ KeysAge
        /\ UNCHANGED <<provider, jwks>> /\ answer' = Silent
        /\ config' = [age |-> check.lag, new |-> moved]
        /\ check' = [check EXCEPT !.step = "jwks"]
    BY DEF GateInv, FetchConfig
  <1>1. check.lag \in 0..MaxLag /\ check.lag \in 0..TTL /\ moved \in BOOLEAN BY <1>0 DEF GateTypes
  <1>2. GateTypes' BY <1>0, <1>1 DEF GateTypes, provider
  <1>3. ConfigAge' /\ FetchAge' /\ KeysAge'
    BY <1>0 DEF ConfigAge, FetchAge, KeysAge, provider
  <1> QED BY <1>0, <1>2, <1>3, SilentKeeps DEF GateInv

LEMMA KeysKeep == ASSUME GateInv, NEW key \in Keys, FetchKeys(key) PROVE GateInv'
  <1> USE GateNumbers
  <1> DEFINE keys == IF moved /\ ~config.new THEN gone ELSE here
  <1>0. /\ GateTypes /\ ConfigAge /\ FetchAge /\ KeysAge
        /\ UNCHANGED <<provider, config>> /\ check.step = "jwks"
        /\ jwks' = [age |-> check.lag, keys |-> keys]
        /\ answer' = Verdict(key, keys) /\ check' = Free
    BY DEF GateInv, FetchKeys
  <1>1. /\ check.lag \in 0..MaxLag /\ check.lag \in 0..TTL /\ published \in Nat /\ withdrawn \in Nat
        /\ keys \subseteq Keys
    BY <1>0 DEF GateTypes
  <1>2. GateTypes' BY <1>0, <1>1 DEF GateTypes, provider, Free
  <1>3. ConfigAge' BY <1>0 DEF ConfigAge, provider
  <1>4. FetchAge' BY <1>0 DEF FetchAge, Free
  <1>5. /\ "old" \in keys /\ "old" \notin here => "old" \in gone /\ withdrawn < TTL + check.lag
        /\ "new" \notin keys /\ "new" \in here => moved /\ "new" \notin gone /\ published < TTL + check.lag
    BY <1>0 DEF FetchAge
  <1>6. KeysAge' BY <1>0, <1>5 DEF KeysAge, provider
  <1>7. /\ answer' = Accepted("old") => "old" \in keys
        /\ answer' = [key |-> "new", verdict |-> "refused"] => "new" \notin keys
    BY <1>0 DEF Verdict, Accepted
  <1>8. RevokedSoonRefused' /\ RotatedSoonAccepted'
    BY <1>0, <1>1, <1>5, <1>7 DEF RevokedSoonRefused, RotatedSoonAccepted, provider
  <1> QED BY <1>2, <1>3, <1>4, <1>6, <1>8 DEF GateInv

LEMMA FailsKeep == ASSUME GateInv, NEW key \in Keys, FetchFails(key) PROVE GateInv'
  <1> USE GateNumbers
  <1>0. /\ GateTypes /\ ConfigAge /\ FetchAge /\ KeysAge
        /\ UNCHANGED <<provider, config, jwks>> /\ answer' = Silent /\ check' = Free
    BY DEF GateInv, FetchFails
  <1>1. GateTypes' /\ ConfigAge' /\ KeysAge'
    BY <1>0 DEF GateTypes, ConfigAge, KeysAge, provider, Free
  <1>2. FetchAge' BY <1>0 DEF FetchAge, Free
  <1> QED BY <1>0, <1>1, <1>2, SilentKeeps DEF GateInv

LEMMA GateStep == GateInv /\ [GateNext]_gateVars => GateInv'
  <1> SUFFICES ASSUME GateInv, [GateNext]_gateVars PROVE GateInv' OBVIOUS
  <1>1. ASSUME UNCHANGED <<provider, config, jwks, check>> PROVE (GateTypes /\ ConfigAge /\ FetchAge /\ KeysAge)'
    BY <1>1 DEF GateInv, GateTypes, ConfigAge, FetchAge, KeysAge, provider
  <1>2. ASSUME NEW c \in Clients, Refuse(c) \/ Admit(c) PROVE GateInv'
    <2>1. UNCHANGED <<provider, config, jwks, check>> /\ answer' = Silent
      BY <1>2 DEF Refuse, Admit
    <2> QED BY <1>1, <2>1, SilentKeeps DEF GateInv
  <1>3. CASE UNCHANGED gateVars
    <2>1. UNCHANGED <<provider, config, jwks, check, answer>> BY <1>3 DEF gateVars
    <2>2. RevokedSoonRefused' /\ RotatedSoonAccepted'
      BY <2>1 DEF GateInv, RevokedSoonRefused, RotatedSoonAccepted, provider
    <2> QED BY <1>1, <2>1, <2>2 DEF GateInv
  <1> QED BY <1>2, <1>3, TickKeeps, ProviderKeeps, CachedKeeps, CheckKeeps, ConfigKeeps,
             KeysKeep, FailsKeep DEF GateNext

LEMMA GateHolds == GateSpec => []GateInv
  BY GateInitHolds, GateStep, PTL DEF GateSpec

(* For every lifetime and lag: a withdrawn key is refused one lifetime      *)
(* after it disappeared, two if the place the provider left still has it.   *)
THEOREM RevocationIsBounded == GateSpec => []RevokedSoonRefused
  <1>1. GateInv => RevokedSoonRefused BY DEF GateInv
  <1> QED BY <1>1, GateHolds, PTL

(* And a published key is refused no longer than that.                      *)
THEOREM RotationIsBounded == GateSpec => []RotatedSoonAccepted
  <1>1. GateInv => RotatedSoonAccepted BY DEF GateInv
  <1> QED BY <1>1, GateHolds, PTL

----------------------------------------------------------------------------
(* The limiter.  The positions of a set of positions are its elements, once *)
(* each and in order.                                                       *)
LEMMA PositionFacts ==
    ASSUME NEW n \in Nat, NEW P \in SUBSET (1..n)
    PROVE  /\ IsFiniteSet(P) /\ Cardinality(P) \in Nat
           /\ \A i \in 1..Cardinality(P) : Position(P, i) \in P
           /\ \A i, j \in 1..Cardinality(P) : i < j => Position(P, i) < Position(P, j)
           /\ \A k \in P : \E i \in 1..Cardinality(P) : Position(P, i) = k
  <1> DEFINE Below(k) == {j \in P : j <= k}
             m == Cardinality(P)
             rank == [k \in P |-> Cardinality(Below(k))]
  <1>1. IsFiniteSet(P) /\ m \in Nat
    <2>1. IsFiniteSet(1..n) BY FS_Interval
    <2> QED BY <2>1, FS_Subset, FS_CardinalityType
  <1>2. \A k \in P : IsFiniteSet(Below(k)) /\ Cardinality(Below(k)) \in Nat
    <2> SUFFICES ASSUME NEW k \in P
                 PROVE  IsFiniteSet(Below(k)) /\ Cardinality(Below(k)) \in Nat
      OBVIOUS
    <2>1. Below(k) \subseteq P OBVIOUS
    <2> HIDE DEF Below
    <2>2. IsFiniteSet(Below(k)) BY <1>1, <2>1, FS_Subset
    <2> QED BY <2>2, FS_CardinalityType
  <1>3. ASSUME NEW j \in P, NEW k \in P, j < k PROVE rank[j] < rank[k]
    <2>0. \A i \in P : i \in Int OBVIOUS
    <2>1. Below(j) \subseteq Below(k) \ {k} /\ k \in Below(k)
      <3>1. \A i \in P : i <= j => i <= k /\ i # k BY <1>3, <2>0
      <3>2. k <= k BY <2>0
      <3> QED BY <3>1, <3>2
    <2>2. IsFiniteSet(Below(k)) /\ Cardinality(Below(k)) \in Nat /\ Cardinality(Below(j)) \in Nat
      BY <1>2
    <2> HIDE DEF Below
    <2>3. /\ IsFiniteSet(Below(k) \ {k})
          /\ Cardinality(Below(k) \ {k}) = Cardinality(Below(k)) - 1
      BY <2>1, <2>2, FS_RemoveElement
    <2>4. Cardinality(Below(j)) <= Cardinality(Below(k) \ {k}) BY <2>1, <2>3, FS_Subset
    <2> QED BY <2>2, <2>3, <2>4
  <1>4. \A k \in P : rank[k] \in 1..m
    <2> SUFFICES ASSUME NEW k \in P PROVE rank[k] \in 1..m OBVIOUS
    <2>1. k \in Below(k) /\ Below(k) \subseteq P OBVIOUS
    <2>2. rank[k] \in Nat /\ rank[k] = Cardinality(Below(k)) /\ IsFiniteSet(Below(k)) BY <1>2
    <2> HIDE DEF Below, rank
    <2>3. Cardinality(Below(k)) # 0 BY <2>1, <2>2, FS_EmptySet
    <2>4. Cardinality(Below(k)) <= m BY <1>1, <2>1, FS_Subset
    <2> QED BY <1>1, <2>2, <2>3, <2>4
  <1>5. \A j, k \in P : rank[j] = rank[k] => j = k
    <2> SUFFICES ASSUME NEW j \in P, NEW k \in P, j # k PROVE rank[j] # rank[k] OBVIOUS
    <2>1. rank[j] < rank[k] \/ rank[k] < rank[j] BY <1>3
    <2>2. rank[j] \in Int /\ rank[k] \in Int BY <1>4
    <2> HIDE DEF rank
    <2> QED BY <2>1, <2>2
  <1>6. rank \in Surjection(P, 1..m)
    <2>1. rank \in Injection(P, 1..m) BY <1>4, <1>5 DEF Injection, IsInjective
    <2>2. IsFiniteSet(1..m) /\ Cardinality(1..m) = m
      <3> HIDE DEF m
      <3>1. IsFiniteSet(1..m) /\ Cardinality(1..m) = IF 1 > m THEN 0 ELSE m - 1 + 1
        BY <1>1, FS_Interval
      <3> QED BY <1>1, <3>1
    <2> HIDE DEF rank
    <2> QED BY <2>1, <2>2, FS_Injection
  <1>7. \A i \in 1..m : \E k \in P : rank[k] = i
    <2> HIDE DEF rank
    <2> QED BY <1>6 DEF Surjection
  <1>8. \A i \in 1..m : Position(P, i) \in P /\ rank[Position(P, i)] = i
    BY <1>7 DEF Position
  <1>9. \A i, j \in 1..m : i < j => Position(P, i) < Position(P, j)
    <2> SUFFICES ASSUME NEW i \in 1..m, NEW j \in 1..m, i < j,
                        ~(Position(P, i) < Position(P, j))
                 PROVE  FALSE
      OBVIOUS
    <2> DEFINE p == Position(P, i)
               q == Position(P, j)
    <2>1. p \in P /\ q \in P /\ rank[p] = i /\ rank[q] = j /\ ~(p < q) BY <1>8
    <2> HIDE DEF p, q, rank
    <2>2. p # q BY <2>1
    <2>3. q < p BY <2>1, <2>2
    <2>4. rank[q] < rank[p] BY <1>3, <2>1, <2>3
    <2> QED BY <2>1, <2>4
  <1>10. \A k \in P : \E i \in 1..m : Position(P, i) = k
    <2> SUFFICES ASSUME NEW k \in P PROVE Position(P, rank[k]) = k BY <1>4
    <2>1. rank[k] \in 1..m BY <1>4
    <2>2. Position(P, rank[k]) \in P /\ rank[Position(P, rank[k])] = rank[k] BY <1>8, <2>1
    <2> HIDE DEF rank
    <2> QED BY <1>5, <2>2
  <1> QED BY <1>1, <1>8, <1>9, <1>10

(* A client's window, oldest first, and what is left of it.                 *)
Ages == 0..Window
Descending(ages) == \A i, j \in DOMAIN ages : i < j => ages[i] >= ages[j]

LEMMA GateBounds == Window \in Nat \ {0} /\ MaxTracked \in Nat \ {0} /\ 0 \in Ages /\ 0 \in Recent
  BY LimitsAssumption DEF Ages, Recent

LEMMA WindowFacts ==
    ASSUME NEW s \in Seq(Ages), Descending(s)
    PROVE  /\ InWindow(s) \in Seq(Ages) /\ Descending(InWindow(s))
           /\ ToSet(InWindow(s)) = ToSet(s) \cap Recent
  <1> DEFINE P == {i \in DOMAIN s : s[i] \in Recent}
             m == Cardinality(P)
             t == InWindow(s)
  <1>1. Len(s) \in Nat /\ DOMAIN s = 1..Len(s) /\ P \in SUBSET (1..Len(s)) OBVIOUS
  <1>2. \A i \in DOMAIN s : s[i] \in Ages OBVIOUS
  <1>3. \A i \in P : i \in DOMAIN s /\ s[i] \in Recent OBVIOUS
  <1>4. t = [i \in 1..m |-> s[Position(P, i)]] BY DEF InWindow, Picked
  <1>a. \A k \in DOMAIN s : s[k] \in Recent => k \in P OBVIOUS
  <1> HIDE DEF P, m, t
  <1>5. /\ m \in Nat
        /\ \A i \in 1..m : Position(P, i) \in P
        /\ \A i, j \in 1..m : i < j => Position(P, i) < Position(P, j)
        /\ \A k \in P : \E i \in 1..m : Position(P, i) = k
    BY <1>1, PositionFacts DEF m
  <1>6. t \in [1..m -> Ages] BY <1>2, <1>3, <1>4, <1>5
  <1>7. t \in Seq(Ages) /\ DOMAIN t = 1..m BY <1>5, <1>6
  <1>8. Descending(t)
    <2> SUFFICES ASSUME NEW i \in 1..m, NEW j \in 1..m, i < j PROVE t[i] >= t[j]
      BY <1>7 DEF Descending
    <2>1. Position(P, i) \in DOMAIN s /\ Position(P, j) \in DOMAIN s
      BY <1>3, <1>5
    <2>2. s[Position(P, i)] >= s[Position(P, j)] BY <1>5, <2>1 DEF Descending
    <2> QED BY <1>4, <2>2
  <1>9. ToSet(t) \subseteq ToSet(s) \cap Recent
    <2> SUFFICES ASSUME NEW i \in 1..m PROVE t[i] \in ToSet(s) \cap Recent
      BY <1>7 DEF ToSet
    <2> QED BY <1>3, <1>4, <1>5 DEF ToSet
  <1>10. ToSet(s) \cap Recent \subseteq ToSet(t)
    <2> SUFFICES ASSUME NEW k \in DOMAIN s, s[k] \in Recent PROVE s[k] \in ToSet(t)
      BY DEF ToSet
    <2>1. PICK i \in 1..m : Position(P, i) = k BY <1>a, <1>5
    <2>2. t[i] = s[k] BY <1>4, <2>1
    <2> QED BY <1>7, <2>2 DEF ToSet
  <1> QED BY <1>7, <1>8, <1>9, <1>10 DEF t

(* A request now is the newest of a window.                                 *)
LEMMA NowIsNewest ==
    ASSUME NEW s \in Seq(Ages), Descending(s)
    PROVE  /\ Append(s, 0) \in Seq(Ages) /\ Descending(Append(s, 0))
           /\ ToSet(s) \subseteq ToSet(Append(s, 0))
  <1> DEFINE t == Append(s, 0)
  <1>1. 0 \in Ages BY GateBounds
  <1>2. t \in Seq(Ages) /\ Len(t) = Len(s) + 1 /\ t[Len(s) + 1] = 0 BY <1>1
  <1>3. \A i \in 1..Len(s) : t[i] = s[i] OBVIOUS
  <1>4. DOMAIN t = 1..(Len(s) + 1) /\ DOMAIN s = 1..Len(s) /\ Len(s) \in Nat BY <1>2
  <1>5. \A i \in 1..Len(s) : s[i] \in Ages OBVIOUS
  <1> HIDE DEF t
  <1>6. Descending(t)
    <2> SUFFICES ASSUME NEW i \in 1..(Len(s) + 1), NEW j \in 1..(Len(s) + 1), i < j
                 PROVE  t[i] >= t[j]
      BY <1>4 DEF Descending
    <2>1. i \in 1..Len(s) /\ t[i] = s[i] BY <1>3, <1>4
    <2>2. CASE j = Len(s) + 1 BY <1>2, <1>5, <2>1, <2>2, GateBounds DEF Ages
    <2>3. CASE j # Len(s) + 1
      <3>1. j \in 1..Len(s) /\ t[j] = s[j] BY <1>3, <1>4, <2>3
      <3> QED BY <1>4, <2>1, <3>1 DEF Descending
    <2> QED BY <2>2, <2>3
  <1>7. ToSet(s) \subseteq ToSet(t) BY <1>3, <1>4 DEF ToSet
  <1> QED BY <1>2, <1>6, <1>7 DEF t

(* A tick ages a window without disturbing it.                              *)
LEMMA OlderFacts ==
    ASSUME NEW s \in Seq(Ages), Descending(s)
    PROVE  /\ Older(s) \in Seq(Ages) /\ Descending(Older(s))
           /\ \A a \in ToSet(s) : a + 1 \in Ages => a + 1 \in ToSet(Older(s))
  <1>1. Len(s) \in Nat /\ DOMAIN s = 1..Len(s) /\ \A i \in DOMAIN s : s[i] \in Ages OBVIOUS
  <1>2. Window \in Nat BY GateBounds
  <1>3. DOMAIN Older(s) = DOMAIN s /\ \A i \in DOMAIN s : Older(s)[i] = Cut(s[i] + 1, Window)
    BY DEF Older
  <1>4. \A a \in Ages : Cut(a + 1, Window) \in Ages BY <1>2 DEF Cut, Ages
  <1>5. Older(s) \in [1..Len(s) -> Ages] BY <1>1, <1>4 DEF Older
  <1>6. Older(s) \in Seq(Ages) BY <1>1, <1>5
  <1>7. \A a, b \in Ages : a >= b => Cut(a + 1, Window) >= Cut(b + 1, Window)
    BY <1>2 DEF Cut, Ages
  <1>8. Descending(Older(s)) BY <1>1, <1>3, <1>7 DEF Descending
  <1>9. \A a \in Ages : a + 1 \in Ages => Cut(a + 1, Window) = a + 1
    BY <1>2 DEF Cut, Ages
  <1>10. ASSUME NEW a \in ToSet(s), a + 1 \in Ages PROVE a + 1 \in ToSet(Older(s))
    <2>1. PICK i \in DOMAIN s : a = s[i] BY DEF ToSet
    <2>2. Older(s)[i] = a + 1 BY <1>1, <1>3, <1>9, <1>10, <2>1
    <2> QED BY <1>3, <2>2 DEF ToSet
  <1> QED BY <1>6, <1>8, <1>10

(* The clients other than c that were let in no earlier than a ticks ago.   *)
Newer(table, forgotten, c, a) ==
    {d \in Clients \ {c} : \E b \in forgotten[d] \cup ToSet(table[d]) : b <= a}

LimiterTypes ==
    /\ counts \in [Clients -> Seq(Ages)] /\ lost \in [Clients -> SUBSET Recent]
    /\ \A c \in Clients : Descending(counts[c])

LEMMA NewerIsEnough ==
    ASSUME NEW S, NEW T \in SUBSET Clients, S \subseteq T, Cardinality(S) >= MaxTracked
    PROVE  Cardinality(T) >= MaxTracked
  <1>1. IsFiniteSet(T) BY ClientsAssumption, FS_Subset
  <1>2. IsFiniteSet(S) /\ Cardinality(S) <= Cardinality(T) BY <1>1, FS_Subset
  <1>3. Cardinality(S) \in Nat /\ Cardinality(T) \in Nat BY <1>1, <1>2, FS_CardinalityType
  <1> QED BY <1>2, <1>3, GateBounds

LEMMA TickForgets ==
    ASSUME LimiterTypes, ForgottenForNewer, Tick
    PROVE  LimiterTypes' /\ ForgottenForNewer'
  <1>1. /\ counts' = [c \in Clients |-> Older(counts[c])]
        /\ lost' = [c \in Clients |-> {a + 1 : a \in lost[c]} \cap Recent]
    BY DEF Tick
  <1>2. \A c \in Clients : /\ counts[c] \in Seq(Ages) /\ Descending(counts[c])
                           /\ lost[c] \subseteq Recent
    BY DEF LimiterTypes
  <1>3. \A c \in Clients : /\ Older(counts[c]) \in Seq(Ages) /\ Descending(Older(counts[c]))
                           /\ \A a \in ToSet(counts[c]) :
                                 a + 1 \in Ages => a + 1 \in ToSet(Older(counts[c]))
    BY <1>2, OlderFacts
  <1>4. LimiterTypes'
    <2>1. counts' \in [Clients -> Seq(Ages)] BY <1>1, <1>3
    <2>2. lost' \in [Clients -> SUBSET Recent] BY <1>1
    <2>3. \A c \in Clients : Descending(counts'[c]) BY <1>1, <1>3
    <2> QED BY <2>1, <2>2, <2>3 DEF LimiterTypes
  <1>5. ForgottenForNewer'
    <2> SUFFICES ASSUME NEW c \in Clients, NEW a \in lost'[c]
                 PROVE  Cardinality(Newer(counts', lost', c, a)) >= MaxTracked
      BY DEF ForgottenForNewer, Newer
    <2>1. PICK o \in lost[c] : a = o + 1 /\ a \in Recent BY <1>1
    <2>2. Cardinality(Newer(counts, lost, c, o)) >= MaxTracked
      BY DEF ForgottenForNewer, Newer
    <2>3. Newer(counts, lost, c, o) \subseteq Newer(counts', lost', c, a)
      <3> SUFFICES ASSUME NEW d \in Clients \ {c}, NEW b \in lost[d] \cup ToSet(counts[d]), b <= o
                   PROVE  \E e \in lost'[d] \cup ToSet(counts'[d]) : e <= a
        BY DEF Newer
      <3>1. b \in Ages /\ o \in Recent
        BY <1>2, GateBounds DEF Ages, Recent, ToSet
      <3>2. b + 1 \in Recent /\ b + 1 \in Ages /\ b + 1 <= a
        BY <2>1, <3>1, GateBounds DEF Ages, Recent
      <3>3. CASE b \in lost[d] BY <1>1, <3>2, <3>3
      <3>4. CASE b \in ToSet(counts[d]) BY <1>1, <1>3, <3>2, <3>4
      <3> QED BY <3>3, <3>4
    <2>4. Newer(counts', lost', c, a) \in SUBSET Clients BY DEF Newer
    <2> QED BY <2>2, <2>3, <2>4, NewerIsEnough
  <1> QED BY <1>4, <1>5

LEMMA RefuseForgets ==
    ASSUME LimiterTypes, ForgottenForNewer, NEW w \in Clients, Refuse(w)
    PROVE  LimiterTypes' /\ ForgottenForNewer'
  <1>1. counts' = [counts EXCEPT ![w] = InWindow(@)] /\ lost' = lost BY DEF Refuse
  <1>2. \A c \in Clients : /\ counts[c] \in Seq(Ages) /\ Descending(counts[c])
                           /\ lost[c] \subseteq Recent
    BY DEF LimiterTypes
  <1>3. /\ InWindow(counts[w]) \in Seq(Ages) /\ Descending(InWindow(counts[w]))
        /\ ToSet(InWindow(counts[w])) = ToSet(counts[w]) \cap Recent
    BY <1>2, WindowFacts
  <1>4. \A c \in Clients : counts'[c] = IF c = w THEN InWindow(counts[w]) ELSE counts[c]
    BY <1>1 DEF LimiterTypes
  <1>5. LimiterTypes'
    <2>1. counts' \in [Clients -> Seq(Ages)] BY <1>1, <1>3 DEF LimiterTypes
    <2>2. lost' \in [Clients -> SUBSET Recent] BY <1>1 DEF LimiterTypes
    <2>3. \A c \in Clients : Descending(counts'[c]) BY <1>2, <1>3, <1>4
    <2> QED BY <2>1, <2>2, <2>3 DEF LimiterTypes
  <1>6. ForgottenForNewer'
    <2> SUFFICES ASSUME NEW c \in Clients, NEW a \in lost[c]
                 PROVE  Cardinality(Newer(counts', lost, c, a)) >= MaxTracked
      BY <1>1 DEF ForgottenForNewer, Newer
    <2>2. Cardinality(Newer(counts, lost, c, a)) >= MaxTracked BY DEF ForgottenForNewer, Newer
    <2>3. Newer(counts, lost, c, a) \subseteq Newer(counts', lost, c, a)
      <3> SUFFICES ASSUME NEW d \in Clients \ {c}, NEW b \in ToSet(counts[d]), b <= a
                   PROVE  b \in ToSet(counts'[d])
        BY DEF Newer
      <3>1. b \in Recent
        BY <1>2, GateBounds DEF Ages, Recent, ToSet
      <3> QED BY <1>3, <1>4, <3>1
    <2>4. Newer(counts', lost, c, a) \in SUBSET Clients BY DEF Newer
    <2> QED BY <2>2, <2>3, <2>4, NewerIsEnough
  <1> QED BY <1>5, <1>6

LEMMA AdmitForgets ==
    ASSUME LimiterTypes, ForgottenForNewer, NEW w \in Clients, Admit(w)
    PROVE  LimiterTypes' /\ ForgottenForNewer'
  <1> DEFINE table == [counts EXCEPT ![w] = Append(InWindow(@), 0)]
  <1>1. PICK out \in SUBSET Tracked(table) :
            /\ Cardinality(out) = Drops(table) /\ Evicted(table, out)
            /\ counts' = [d \in Clients |-> IF d \in out THEN <<>> ELSE table[d]]
            /\ lost' = [d \in Clients |-> IF d \in out THEN lost[d] \cup (ToSet(table[d]) \cap Recent)
                                          ELSE lost[d]]
    BY DEF Admit
  <1>2. \A c \in Clients : /\ counts[c] \in Seq(Ages) /\ Descending(counts[c])
                           /\ lost[c] \subseteq Recent
    BY DEF LimiterTypes
  <1>3. /\ InWindow(counts[w]) \in Seq(Ages) /\ Descending(InWindow(counts[w]))
        /\ ToSet(InWindow(counts[w])) = ToSet(counts[w]) \cap Recent
    BY <1>2, WindowFacts
  <1>4. \A c \in Clients : table[c] = IF c = w THEN Append(InWindow(counts[w]), 0) ELSE counts[c]
    BY DEF LimiterTypes
  <1> HIDE DEF table
  <1>5. \A c \in Clients : /\ table[c] \in Seq(Ages) /\ Descending(table[c])
                           /\ ToSet(counts[c]) \cap Recent \subseteq ToSet(table[c])
    BY <1>2, <1>3, <1>4, NowIsNewest
  <1>6. LimiterTypes'
    <2>1. counts' \in [Clients -> Seq(Ages)] BY <1>1, <1>5
    <2>2. lost' \in [Clients -> SUBSET Recent] BY <1>1, <1>2
    <2>3. \A c \in Clients : Descending(counts'[c])
      <3>1. Descending(<<>>) BY DEF Descending
      <3> QED BY <1>1, <1>5, <3>1
    <2> QED BY <2>1, <2>2, <2>3 DEF LimiterTypes
  <1>7. \A d \in Clients : (ToSet(counts[d]) \cap Recent) \cup lost[d] \subseteq lost'[d] \cup ToSet(counts'[d])
    BY <1>1, <1>5
  <1>8. ASSUME NEW c \in Clients, NEW a \in lost[c]
        PROVE  Cardinality(Newer(counts', lost', c, a)) >= MaxTracked
    <2>1. Cardinality(Newer(counts, lost, c, a)) >= MaxTracked BY DEF ForgottenForNewer, Newer
    <2>2. Newer(counts, lost, c, a) \subseteq Newer(counts', lost', c, a)
      <3> SUFFICES ASSUME NEW d \in Clients \ {c}, NEW b \in lost[d] \cup ToSet(counts[d]), b <= a
                   PROVE  b \in lost'[d] \cup ToSet(counts'[d])
        BY DEF Newer
      <3>1. b \in Recent
        BY <1>2, GateBounds DEF Ages, Recent, ToSet
      <3> QED BY <1>7, <3>1
    <2>3. Newer(counts', lost', c, a) \in SUBSET Clients BY DEF Newer
    <2> QED BY <2>1, <2>2, <2>3, NewerIsEnough
  <1>9. ASSUME NEW c \in out, NEW a \in ToSet(table[c]) \cap Recent
        PROVE  Cardinality(Newer(counts', lost', c, a)) >= MaxTracked
    <2> DEFINE all == Tracked(table)
    <2>1. all \in SUBSET Clients /\ out \subseteq all /\ c \in all /\ c \in Clients
      BY DEF Tracked
    <2>2. /\ Cardinality(all \ out) = Cardinality(all) - Cardinality(all \cap out)
          /\ IsFiniteSet(all) /\ IsFiniteSet(out) /\ all \cap out = out
      BY <2>1, ClientsAssumption, FS_Subset, FS_Difference
    <2>3. Cardinality(all) \in Nat /\ Cardinality(out) \in Nat /\ Cardinality(out) # 0
      BY <2>2, FS_CardinalityType, FS_EmptySet
    <2>4. Cardinality(all \ out) = MaxTracked
      <3>1. Cardinality(out) = IF Cardinality(all) <= MaxTracked THEN 0
                               ELSE Cardinality(all) - MaxTracked
        BY <1>1 DEF Drops
      <3>2. Cardinality(all \ out) = Cardinality(all) - Cardinality(out) BY <2>2
      <3> HIDE DEF all
      <3> QED BY <2>3, <3>1, <3>2, GateBounds
    <2>5. all \ out \subseteq Newer(counts', lost', c, a)
      <3> SUFFICES ASSUME NEW d \in all \ out
                   PROVE  d \in Clients \ {c} /\ \E b \in ToSet(counts'[d]) : b <= a
        BY DEF Newer
      <3>1. d \in Clients /\ d # c /\ table[d] # <<>> /\ table[c] # <<>>
        BY <2>1 DEF Tracked
      <3>2. Last(table[c]) >= Last(table[d]) BY <1>1, <2>1 DEF Evicted
      <3>3. /\ Last(table[d]) \in ToSet(table[d]) /\ Last(table[d]) \in Ages /\ Last(table[c]) \in Ages
        <4>1. \A s \in Seq(Ages) : s # <<>> => Len(s) \in DOMAIN s /\ s[Len(s)] \in Ages OBVIOUS
        <4> QED BY <1>5, <2>1, <3>1, <4>1 DEF Last, ToSet
      <3>4. Last(table[c]) <= a
        <4>1. PICK i \in DOMAIN table[c] : a = table[c][i] BY DEF ToSet
        <4>2. table[c] \in Seq(Ages) /\ Descending(table[c]) BY <1>5, <2>1
        <4>3. Len(table[c]) \in DOMAIN table[c] /\ i <= Len(table[c]) /\ table[c][i] \in Ages
              /\ i \in Int /\ Len(table[c]) \in Int
          BY <4>2
        <4>4. CASE i = Len(table[c]) BY <3>3, <4>1, <4>3, <4>4, GateBounds DEF Last, Ages
        <4>5. CASE i < Len(table[c]) BY <4>1, <4>2, <4>3, <4>5, <3>3, GateBounds DEF Last, Descending, Ages
        <4> QED BY <4>3, <4>4, <4>5
      <3>5. Last(table[d]) <= a
        BY <3>2, <3>3, <3>4, GateBounds DEF Ages, Recent
      <3>6. counts'[d] = table[d] BY <1>1, <3>1
      <3> QED BY <3>1, <3>3, <3>5, <3>6
    <2>6. Newer(counts', lost', c, a) \in SUBSET Clients BY DEF Newer
    <2>7. Cardinality(all \ out) >= MaxTracked BY <2>4, GateBounds
    <2> HIDE DEF all
    <2> QED BY <2>5, <2>6, <2>7, NewerIsEnough
  <1>10. ForgottenForNewer'
    <2> SUFFICES ASSUME NEW c \in Clients, NEW a \in lost'[c]
                 PROVE  Cardinality(Newer(counts', lost', c, a)) >= MaxTracked
      BY DEF ForgottenForNewer, Newer
    <2>1. a \in lost[c] \/ (c \in out /\ a \in ToSet(table[c]) \cap Recent) BY <1>1
    <2> QED BY <1>8, <1>9, <2>1
  <1> QED BY <1>6, <1>10

LEMMA ForgetStep ==
    LimiterTypes /\ ForgottenForNewer /\ [GateNext]_gateVars => LimiterTypes' /\ ForgottenForNewer'
  <1> SUFFICES ASSUME LimiterTypes, ForgottenForNewer, [GateNext]_gateVars
               PROVE  LimiterTypes' /\ ForgottenForNewer'
    OBVIOUS
  <1>1. ASSUME UNCHANGED limiter PROVE LimiterTypes' /\ ForgottenForNewer'
    BY <1>1 DEF limiter, LimiterTypes, ForgottenForNewer
  <1>2. ASSUME Publish \/ Withdraw \/ Move PROVE UNCHANGED limiter
    BY <1>2 DEF Publish, Withdraw, Move, Provider
  <1>3. ASSUME NEW key \in Keys, CheckCached(key) \/ FetchKeys(key) \/ FetchFails(key)
        PROVE  UNCHANGED limiter
    BY <1>3 DEF CheckCached, FetchKeys, FetchFails
  <1>4. ASSUME Check \/ FetchConfig \/ UNCHANGED gateVars PROVE UNCHANGED limiter
    BY <1>4 DEF Check, FetchConfig, gateVars
  <1> QED BY <1>1, <1>2, <1>3, <1>4, TickForgets, RefuseForgets, AdmitForgets DEF GateNext

(* For every limit, window and cap: the limiter counts every request of the *)
(* window, save those of a client it forgot while at least MaxTracked       *)
(* others were let in after them.  What it forgot them for stays in the     *)
(* window as long as they would have.                                       *)
THEOREM ForgottenAreOldest == GateSpec => []ForgottenForNewer
  <1>1. GateInit => LimiterTypes /\ ForgottenForNewer
    <2> SUFFICES ASSUME GateInit PROVE LimiterTypes /\ ForgottenForNewer OBVIOUS
    <2>1. counts = [c \in Clients |-> <<>>] /\ lost = [c \in Clients |-> {}] BY DEF GateInit
    <2>2. <<>> \in Seq(Ages) /\ Descending(<<>>) BY DEF Descending
    <2> QED BY <2>1, <2>2 DEF LimiterTypes, ForgottenForNewer
  <1> QED BY <1>1, ForgetStep, PTL DEF GateSpec
============================================================================
