--------------------------- MODULE SanctionsCache ---------------------------
(***************************************************************************)
(* sanctions/cache.py: a feed is fetched, hashed and compared with the     *)
(* hash in <list>.meta.json; if it differs the CSV the list rules read is  *)
(* rewritten, then the meta file.  Both writes truncate their file first.  *)
(* Syncs are processes (`aml sanctions-sync`, a scheduler) that may run    *)
(* into each other and may die at any step.  A payload is the set of its   *)
(* rows and a SHA-256 is the payload it is the hash of.                    *)
(***************************************************************************)
EXTENDS Integers, FiniteSets

CONSTANTS Syncs,        \* sync processes
          Rows,         \* rows a feed may publish
          KeyOf,        \* row -> (list_source, name, country, type)
          MaxSyncs,     \* bound: syncs started
          MaxCrashes    \* bound: processes that die

Keys(rows) == {KeyOf[r] : r \in rows}

ASSUME MaxSyncsAssumption == MaxSyncs \in Nat
ASSUME MaxCrashesAssumption == MaxCrashes \in Nat

VARIABLES
    csv,        \* the list file: exists, its rows, and whether it is whole
    meta,       \* the meta file: exists, the rows it hashes, whether it parses
    pc, want, prev, old,    \* per sync: position, payload, meta and rows read
    answer,     \* per sync: what it last returned
    view,       \* keys an operator holds who applied every returned delta
    started, crashes,
    lone,       \* per sync: nobody else wrote since it opened the list
    disturbed   \* two syncs overlapped, or one died after its first write

files == <<csv, meta>>
locals == <<want, prev, old>>
history == <<lone, disturbed>>
vars == <<files, pc, locals, answer, view, started, crashes, history>>

Missing == [exists |-> FALSE, rows |-> {}, whole |-> TRUE]
Whole(p) == [exists |-> TRUE, rows |-> p, whole |-> TRUE]
Partial(rows) == [exists |-> TRUE, rows |-> rows, whole |-> FALSE]

Init ==
    /\ csv = Missing /\ meta = Missing
    /\ pc = [s \in Syncs |-> "idle"]
    /\ want = [s \in Syncs |-> {}] /\ old = [s \in Syncs |-> {}]
    /\ prev = [s \in Syncs |-> Missing]
    /\ answer = [s \in Syncs |-> "none"]
    /\ view = {} /\ started = 0 /\ crashes = 0
    /\ lone = [s \in Syncs |-> FALSE] /\ disturbed = FALSE

(* s wrote; whoever wrote before is no longer the only writer. *)
Only(s) == [t \in Syncs |-> t = s /\ lone[s]]

(* A sync ends and forgets what it read. *)
Forget(s) ==
    /\ pc' = [pc EXCEPT ![s] = "idle"]
    /\ want' = [want EXCEPT ![s] = {}] /\ old' = [old EXCEPT ![s] = {}]
    /\ prev' = [prev EXCEPT ![s] = Missing]

Quiet == \A s \in Syncs : pc[s] = "idle"

(* sync_source: fetch and parse; write() hashes and reads the meta file.   *)
(* A meta file cut short raises in json.loads: no sync gets past it.       *)
Start(s, p) ==
    /\ pc[s] = "idle" /\ started < MaxSyncs /\ meta.whole
    /\ started' = started + 1
    /\ want' = [want EXCEPT ![s] = p]
    /\ prev' = [prev EXCEPT ![s] = meta]
    /\ pc' = [pc EXCEPT ![s] = "compare"]
    /\ answer' = [answer EXCEPT ![s] = "none"]
    /\ disturbed' = (disturbed \/ ~Quiet)
    /\ UNCHANGED <<files, old, view, crashes, lone>>

(* Mutant: the hashes are of the same list if their row counts agree. *)
CompareCounts(s) ==
    /\ pc[s] = "compare"
    /\ IF csv.exists /\ prev[s].exists /\ Cardinality(prev[s].rows) = Cardinality(want[s])
       THEN Forget(s) /\ answer' = [answer EXCEPT ![s] = "unchanged"]
       ELSE /\ pc' = [pc EXCEPT ![s] = "differs"]
            /\ old' = [old EXCEPT ![s] = csv.rows]
            /\ UNCHANGED <<want, prev, answer>>
    /\ UNCHANGED <<files, view, started, crashes, history>>

(* The old rows are read; the same hash and an existing file end the sync. *)
Compare(s) ==
    /\ pc[s] = "compare"
    /\ IF csv.exists /\ prev[s] = Whole(want[s])
       THEN Forget(s) /\ answer' = [answer EXCEPT ![s] = "unchanged"]
       ELSE /\ pc' = [pc EXCEPT ![s] = "differs"]
            /\ old' = [old EXCEPT ![s] = csv.rows]
            /\ UNCHANGED <<want, prev, answer>>
    /\ UNCHANGED <<files, view, started, crashes, history>>

(* csv_path.write_bytes: the file is opened, which empties it ...          *)
OpenCsv(s) ==
    /\ pc[s] = "differs"
    /\ \E rows \in SUBSET want[s] : csv' = Partial(rows)
    /\ pc' = [pc EXCEPT ![s] = "filling"]
    /\ lone' = [t \in Syncs |-> t = s]
    /\ UNCHANGED <<meta, locals, answer, view, started, crashes, disturbed>>

(* Mutant: rows are appended to what an earlier sync left. *)
FillOnTop(s) ==
    /\ pc[s] = "filling"
    /\ csv' = Whole(want[s] \cup old[s])
    /\ pc' = [pc EXCEPT ![s] = "filled"]
    /\ lone' = Only(s)
    /\ UNCHANGED <<meta, locals, answer, view, started, crashes, disturbed>>

(* ... and filled.  Two writers that both opened it may leave a mixture.   *)
FillCsv(s) ==
    /\ pc[s] = "filling"
    /\ \/ csv' = Whole(want[s])
       \/ /\ csv.whole
          /\ \E rows \in SUBSET (want[s] \cup csv.rows) : csv' = Partial(rows)
    /\ pc' = [pc EXCEPT ![s] = "filled"]
    /\ lone' = Only(s)
    /\ UNCHANGED <<meta, locals, answer, view, started, crashes, disturbed>>

(* The meta file is opened ... *)
OpenMeta(s) ==
    /\ pc[s] = "filled"
    /\ meta' = Partial({})
    /\ pc' = [pc EXCEPT ![s] = "stamping"]
    /\ lone' = Only(s)
    /\ UNCHANGED <<csv, locals, answer, view, started, crashes, disturbed>>

Added(s) == Keys(want[s]) \ Keys(old[s])
Removed(s) == Keys(old[s]) \ Keys(want[s])

(* Mutant: the meta file keeps the previous hash. *)
KeepMeta(s) ==
    /\ pc[s] = "stamping"
    /\ meta' = prev[s]
    /\ view' = (view \ Removed(s)) \cup Added(s)
    /\ Forget(s)
    /\ answer' = [answer EXCEPT ![s] = "changed"]
    /\ lone' = Only(s)
    /\ UNCHANGED <<csv, started, crashes, disturbed>>

(* Mutant: entries that left the list are not reported. *)
AddsOnly(s) ==
    /\ pc[s] = "stamping"
    /\ meta' = Whole(want[s])
    /\ view' = view \cup Added(s)
    /\ Forget(s)
    /\ answer' = [answer EXCEPT ![s] = "changed"]
    /\ lone' = Only(s)
    /\ UNCHANGED <<csv, started, crashes, disturbed>>

(* ... and filled; the SyncResult carries the deltas to the caller.  Two   *)
(* writers that both opened it may leave text no later sync can parse.     *)
Finish(s) ==
    /\ pc[s] = "stamping"
    /\ \/ meta' = Whole(want[s])
       \/ meta.whole /\ meta' = Partial({})
    /\ view' = (view \ Removed(s)) \cup Added(s)
    /\ Forget(s)
    /\ answer' = [answer EXCEPT ![s] = "changed"]
    /\ lone' = Only(s)
    /\ UNCHANGED <<csv, started, crashes, disturbed>>

(* The process dies; before its first write that leaves nothing behind.    *)
Crash(s) ==
    /\ pc[s] # "idle" /\ crashes < MaxCrashes
    /\ crashes' = crashes + 1
    /\ disturbed' = (disturbed \/ pc[s] \in {"filling", "filled", "stamping"})
    /\ Forget(s)
    /\ UNCHANGED <<files, answer, view, started, lone>>

Step(s) == \/ \E p \in SUBSET Rows : Start(s, p)
           \/ Compare(s) \/ OpenCsv(s) \/ FillCsv(s) \/ OpenMeta(s) \/ Finish(s)

Next == \E s \in Syncs : Step(s) \/ Crash(s)

Spec == Init /\ [][Next]_vars

----------------------------------------------------------------------------
File == [exists : BOOLEAN, rows : SUBSET Rows, whole : BOOLEAN]

(* Every variable keeps its shape, and no sync holds a cut meta file. *)
TypeOK ==
    /\ csv \in File /\ meta \in File
    /\ pc \in [Syncs -> {"idle", "compare", "differs", "filling", "filled", "stamping"}]
    /\ want \in [Syncs -> SUBSET Rows] /\ old \in [Syncs -> SUBSET Rows]
    /\ prev \in [Syncs -> {f \in File : f.whole}]
    /\ answer \in [Syncs -> {"none", "unchanged", "changed"}]
    /\ view \subseteq Keys(Rows)
    /\ started \in 0..MaxSyncs /\ crashes \in 0..MaxCrashes
    /\ lone \in [Syncs -> BOOLEAN] /\ disturbed \in BOOLEAN

(* One sync after the other, none dying half way, keep the list whole and   *)
(* the meta file telling the truth about it.                                *)
MetaDescribesList ==
    ~disturbed /\ Quiet => csv.whole /\ meta = csv

(* Under the same condition "unchanged" is only answered when the list on   *)
(* disk is the payload fetched.                                             *)
Returns(s, a) == answer[s] # a /\ answer'[s] = a
UnchangedIsCurrent ==
    [][\A s \in Syncs : ~disturbed /\ Returns(s, "unchanged") => csv = Whole(want[s])]_vars

(* ... and the deltas returned so far add up to the list.                  *)
DeltasAddUp == ~disturbed /\ Quiet => view = Keys(csv.rows)

(* Whatever happened before, a sync that writes and is not written over     *)
(* between opening the list and returning leaves list and meta agreeing.    *)
LoneSyncRestores ==
    [][\A s \in Syncs : lone[s] /\ Returns(s, "changed")
                            => csv = Whole(want[s]) /\ meta' = Whole(want[s])]_vars
============================================================================
