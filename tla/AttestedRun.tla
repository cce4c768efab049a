----------------------------- MODULE AttestedRun -----------------------------
(***************************************************************************)
(* `aml run --strict` beside the officers of AttestationLedger and an      *)
(* author who edits the spec file.  The command reads the file four times: *)
(* load_spec, the gate's spec_content_hash, and inside run_spec the hash   *)
(* for the manifest and the copy for spec_snapshot.yaml, with the data     *)
(* load in between.                                                        *)
(***************************************************************************)
EXTENDS AttestationLedger

VARIABLES
    phase,      \* where the strict command is
    executes,   \* the version load_spec parsed, the one whose rules run
    gated,      \* the version the gate looked up
    stamped,    \* the version whose hash the manifest holds
    copied,     \* the version in spec_snapshot.yaml
    saves       \* saves of the file since load_spec

run == <<phase, executes, gated, stamped, copied>>
vars == <<ledgerVars, run, saves>>

Init ==
    /\ LedgerInit
    /\ phase = "idle" /\ saves = 0
    /\ executes = spec /\ gated = spec /\ stamped = spec /\ copied = spec

Load ==
    /\ phase = "idle"
    /\ executes' = spec /\ saves' = 0 /\ phase' = "loaded"
    /\ UNCHANGED <<ledgerVars, gated, stamped, copied>>

GateHash ==
    /\ phase = "loaded"
    /\ gated' = spec /\ phase' = "hashed"
    /\ UNCHANGED <<ledgerVars, executes, stamped, copied, saves>>

(* Mutant: any attestation will do. *)
AnyAttestation ==
    /\ phase = "hashed"
    /\ phase' = IF Good # {} THEN "cleared" ELSE "refused"
    /\ UNCHANGED <<ledgerVars, executes, gated, stamped, copied, saves>>

(* latest_for_spec: None refuses the run. *)
GateLookup ==
    /\ phase = "hashed"
    /\ phase' = IF Signed(gated) THEN "cleared" ELSE "refused"
    /\ UNCHANGED <<ledgerVars, executes, gated, stamped, copied, saves>>

Stamp ==
    /\ phase = "cleared"
    /\ stamped' = spec /\ phase' = "stamped"
    /\ UNCHANGED <<ledgerVars, executes, gated, copied, saves>>

Snapshot ==
    /\ phase = "stamped"
    /\ copied' = spec /\ phase' = "running"
    /\ UNCHANGED <<ledgerVars, executes, gated, stamped, saves>>

Runner == Load \/ GateHash \/ GateLookup \/ Stamp \/ Snapshot

Around ==
    \/ LedgerNext /\ saves' = saves + (edits' - edits) /\ UNCHANGED run

Next == Runner \/ Around

Spec == Init /\ [][Next]_vars

----------------------------------------------------------------------------
(* Every variable keeps its shape. *)
TypeOK ==
    /\ LedgerTypeOK
    /\ phase \in {"idle", "loaded", "hashed", "cleared", "stamped", "running", "refused"}
    /\ {executes, gated, stamped, copied} \subseteq Versions
    /\ saves \in 0..edits

Cleared == phase \in {"cleared", "stamped", "running"}

(* While no attestation is cut short: the version the gate looked up is     *)
(* signed, whatever officers and author did since; to execute a version      *)
(* nobody signed takes a save between load and gate; and to execute one in   *)
(* a run whose manifest or snapshot holds an unsigned version too takes a    *)
(* second save, after the gate.                                              *)
ClearedIsSigned ==
    Cleared /\ tears = 0 =>
        /\ Signed(gated)
        /\ Signed(executes) \/ saves >= 1
        /\ phase \in {"stamped", "running"} =>
              Signed(executes) \/ Signed(stamped) \/ saves >= 2
        /\ phase = "running" => Signed(executes) \/ Signed(copied) \/ saves >= 2
============================================================================
