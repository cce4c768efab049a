-------------------------- MODULE AttestationLedger --------------------------
(***************************************************************************)
(* attestations/__init__.py: officers sign the current content of a spec   *)
(* file into attestations.jsonl, each entry carrying the hash of the entry *)
(* before it.  `aml attest` is three steps - hash the file, read the       *)
(* ledger, append a line - and nothing keeps two officers' steps apart.    *)
(* An entry's hash is abstracted to its id: entries differ in their time   *)
(* stamp, so different entries have different hashes.                      *)
(***************************************************************************)
EXTENDS Integers, Sequences, FiniteSets

CONSTANTS Signers,      \* `aml attest` processes
          Versions,     \* contents the spec file may have
          Junk,         \* a line that does not parse
          MaxEntries,   \* bound: entries ever created
          MaxTears,     \* bound: writes cut short
          MaxEdits      \* bound: edits of the spec file

ASSUME MaxEntriesAssumption == MaxEntries \in Nat
ASSUME MaxTearsAssumption == MaxTears \in Nat
ASSUME MaxEditsAssumption == MaxEdits \in Nat

Entry == [id : Nat \ {0}, spec : Versions, prev : Nat]    \* prev 0 is ""

ASSUME JunkAssumption == Junk \notin Entry

VARIABLES
    spec,       \* what the spec file contains
    edits,      \* edits so far
    lines,      \* attestations.jsonl
    torn,       \* its last line has no newline
    tears,      \* writes cut short so far
    created,    \* entries created so far; the next id is one more
    recorded,   \* entries whose append returned
    pc, signs,  \* per signer: position, the version hashed
    head, ids,  \* per signer: prev_hash and identity of the entry it built
    overlapped  \* two signers were once between reading and writing

file == <<spec, edits>>
ledger == <<lines, torn, tears, recorded>>
callers == <<pc, signs, head, ids, overlapped>>
ledgerVars == <<file, ledger, created, callers>>

(* AttestationLedger.all: the lines that parse, in file order. *)
Good == {i \in DOMAIN lines : lines[i] # Junk}
LastOf(S) == CHOOSE i \in S : \A j \in S : j <= i
(* content_hash of the entry that precedes position n, "" if there is none. *)
HeadBelow(n) == LET below == {i \in Good : i < n}
                IN IF below = {} THEN 0 ELSE lines[LastOf(below)].id
Latest == HeadBelow(Len(lines) + 1)

(* latest_for_spec(v) is not None. *)
Signed(v) == \E i \in Good : lines[i].spec = v

(* verify(): every entry carries the hash of the entry before it. *)
Verify == \A j \in Good : lines[j].prev = HeadBelow(j)

LedgerInit ==
    /\ spec \in Versions /\ edits = 0
    /\ lines = << >> /\ torn = FALSE /\ tears = 0
    /\ created = 0 /\ recorded = {}
    /\ pc = [s \in Signers |-> "idle"]
    /\ signs = [s \in Signers |-> spec]
    /\ head = [s \in Signers |-> 0] /\ ids = [s \in Signers |-> 0]
    /\ overlapped = FALSE

(* Somebody saves the spec file. *)
Edit(v) ==
    /\ edits < MaxEdits /\ v # spec
    /\ spec' = v /\ edits' = edits + 1
    /\ UNCHANGED <<ledger, created, callers>>

(* attest_cmd: spec_content_hash(spec_path). *)
HashSpec(s) ==
    /\ pc[s] = "idle"
    /\ signs' = [signs EXCEPT ![s] = spec]
    /\ pc' = [pc EXCEPT ![s] = "hashed"]
    /\ UNCHANGED <<file, ledger, created, head, ids, overlapped>>

(* The entry is built with the next time stamp and chained to head h.       *)
Build(s, h) ==
    /\ pc[s] = "hashed" /\ created < MaxEntries
    /\ head' = [head EXCEPT ![s] = h]
    /\ ids' = [ids EXCEPT ![s] = created + 1] /\ created' = created + 1
    /\ pc' = [pc EXCEPT ![s] = "read"]
    /\ overlapped' = (overlapped \/ \E t \in Signers \ {s} : pc[t] = "read")
    /\ UNCHANGED <<file, ledger, signs>>

(* Mutant: chain to the last attestation of the same spec. *)
ReadHeadOfSpec(s) ==
    LET same == {i \in Good : lines[i].spec = signs[s]}
    IN Build(s, IF same = {} THEN 0 ELSE lines[LastOf(same)].id)

(* append: the last entry that parses gives prev_hash, the entry is built ... *)
ReadHead(s) == Build(s, Latest)

NewEntry(s) == [id |-> ids[s], spec |-> signs[s], prev |-> head[s]]

(* What a write leaves: on a file whose last line has no newline it is     *)
(* glued to that line, and the two together do not parse.                  *)
Written(e) == IF torn THEN [lines EXCEPT ![Len(lines)] = Junk]
                      ELSE Append(lines, e)

(* Mutant: the ledger is opened for writing, not appending. *)
Overwrite(s) ==
    /\ pc[s] = "read"
    /\ lines' = <<NewEntry(s)>> /\ torn' = FALSE
    /\ recorded' = recorded \cup {NewEntry(s)}
    /\ pc' = [pc EXCEPT ![s] = "idle"]
    /\ UNCHANGED <<file, tears, created, signs, head, ids, overlapped>>

(* ... and it is appended as one line. *)
WriteLine(s) ==
    /\ pc[s] = "read"
    /\ lines' = Written(NewEntry(s)) /\ torn' = FALSE
    /\ recorded' = recorded \cup {NewEntry(s)}
    /\ pc' = [pc EXCEPT ![s] = "idle"]
    /\ UNCHANGED <<file, tears, created, signs, head, ids, overlapped>>

(* The write is cut short: either part of the line or all but its newline. *)
TearLine(s) ==
    /\ pc[s] = "read" /\ tears < MaxTears
    /\ \E l \in {NewEntry(s), Junk} : lines' = Written(l)
    /\ torn' = TRUE /\ tears' = tears + 1
    /\ pc' = [pc EXCEPT ![s] = "idle"]
    /\ UNCHANGED <<file, created, recorded, signs, head, ids, overlapped>>

Sign(s) == HashSpec(s) \/ ReadHead(s) \/ WriteLine(s) \/ TearLine(s)

LedgerNext == (\E v \in Versions : Edit(v)) \/ \E s \in Signers : Sign(s)

LedgerSpec == LedgerInit /\ [][LedgerNext]_ledgerVars

----------------------------------------------------------------------------
(* Every variable keeps its shape. *)
LedgerTypeOK ==
    /\ spec \in Versions /\ edits \in 0..MaxEdits
    /\ lines \in Seq(Entry \cup {Junk})
    /\ torn \in BOOLEAN /\ (torn => lines # << >>)
    /\ tears \in 0..MaxTears /\ created \in 0..MaxEntries
    /\ recorded \subseteq Entry
    /\ pc \in [Signers -> {"idle", "hashed", "read"}]
    /\ signs \in [Signers -> Versions]
    /\ head \in [Signers -> 0..MaxEntries] /\ ids \in [Signers -> 0..MaxEntries]
    /\ \A s \in Signers : pc[s] = "read" => ids[s] \in 1..created
    /\ overlapped \in BOOLEAN

(* Officers who sign one after the other leave a ledger that verifies, even *)
(* when some of their writes are cut short.                                 *)
SerialSigningVerifies == ~overlapped => Verify

(* A write cut short costs at most one attestation that was reported as     *)
(* recorded: the one whose line is glued to the fragment.                   *)
Lost == {e \in recorded : \A i \in Good : lines[i] # e}
LostOnlyByTears == Cardinality(Lost) <= tears
============================================================================
