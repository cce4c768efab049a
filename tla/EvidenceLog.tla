---------------------------- MODULE EvidenceLog ----------------------------
(***************************************************************************)
(* What a run directory promises its readers, said without any of the      *)
(* engine: decisions.jsonl only ever grows, and at most once somebody      *)
(* seals what it holds at that moment (AuditLedger.finalize writes the     *)
(* hash chain of the log into manifest.json).  Later growth is allowed -   *)
(* analysts keep deciding - but neither the sealed part nor the seal moves.*)
(***************************************************************************)
EXTENDS Integers, Sequences

CONSTANT NoSeal          \* the value of seal before the manifest exists

VARIABLES entries,       \* the lines of decisions.jsonl
          seal           \* the entries the manifest vouches for, or NoSeal

vars == <<entries, seal>>

(* t continues s: everything s said, in the same order, is still there. *)
Continues(s, t) == /\ Len(s) <= Len(t)
                   /\ \A i \in 1..Len(s) : t[i] = s[i]

Init == entries = << >> /\ seal = NoSeal

Grow == Continues(entries, entries') /\ UNCHANGED seal

Seal == /\ seal = NoSeal
        /\ seal' = entries
        /\ UNCHANGED entries

Next == Grow \/ Seal

Spec == Init /\ [][Next]_vars

----------------------------------------------------------------------------
(* The sealed part is a prefix of the log for as long as the directory     *)
(* lives, whoever appends to it after the run.                             *)
SealedPrefix == seal # NoSeal => Continues(seal, entries)
============================================================================
