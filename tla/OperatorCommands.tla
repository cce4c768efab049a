-------------------------- MODULE OperatorCommands --------------------------
(***************************************************************************)
(* One run directory and the `aml` commands that read it: the engine runs  *)
(* of its second (a directory is named by the second, so the operator's    *)
(* and the scheduler's can meet in it), an analyst who decides a case or   *)
(* tunes a rule of a finished run, and one command at a time that reads    *)
(* some of the files, one after the other, while all that goes on.         *)
(* Commands on different directories do not meet.  One case stands for the *)
(* cases of a run: runs over one data set give their cases the same ids.   *)
(* What a command makes of the files is left out; each is the sequence of  *)
(* files it reads.                                                         *)
(***************************************************************************)
EXTENDS Integers, Sequences, SequencesExt

CONSTANTS
    Runs,           \* the calls of run_spec within the second
    MaxDecisions, MaxSweeps, MaxCommands        \* bounds

ASSUME BoundsAssumption == {MaxDecisions, MaxSweeps, MaxCommands} \subseteq Nat

VARIABLES
    run,        \* run -> where it is, and the log whose chain it took
    dir,        \* the files of the directory
    clicking,   \* an analyst's page still has to write the case file
    cmd,        \* the command being served: what it has left to read, and what it read
    decisions, sweeps, commands         \* counted against the bounds

readers == <<clicking, cmd, decisions, sweeps, commands>>
vars == <<run, dir, readers>>

NoManifest == <<"none">>

(* Whether the directory is there, the status in the case file, the decision*)
(* log, the log whose chain the manifest states, and the read-only bits.    *)
(* Spec snapshot, rules, alerts and defects are left out: nothing below is  *)
(* about what they say.                                                     *)
NoFiles == [exists |-> FALSE, case |-> "none", log |-> <<>>, manifest |-> NoManifest,
            frozen |-> FALSE]

Idle == [left |-> <<>>, seen |-> <<>>]

Init ==
    /\ run = [r \in Runs |-> [step |-> "new", chain |-> <<>>]]
    /\ dir = NoFiles
    /\ clicking = FALSE /\ cmd = Idle
    /\ decisions = 0 /\ sweeps = 0 /\ commands = 0

----------------------------------------------------------------------------
(* The engine, as far as its directory goes.                                *)
Moves(r, from, to) == run[r].step = from /\ run' = [run EXCEPT ![r].step = to]

(* Mutant: the log is started anew instead of being touched.                *)
CreateAfresh(r) ==
    /\ Moves(r, "new", "made") /\ ~dir.frozen
    /\ dir' = [dir EXCEPT !.exists = TRUE, !.log = <<>>]
    /\ UNCHANGED readers

(* AuditLedger.create: a directory of this second is used if there is one.  *)
Create(r) ==
    /\ Moves(r, "new", "made") /\ ~dir.frozen
    /\ dir' = [dir EXCEPT !.exists = TRUE]
    /\ UNCHANGED readers

RecordAlerts(r) ==
    /\ Moves(r, "made", "fired") /\ ~dir.frozen
    /\ UNCHANGED <<dir, readers>>

(* No rule raises an alert: the run opens no case and logs nothing.         *)
RaiseNone(r) ==
    /\ Moves(r, "made", "settled") /\ ~dir.frozen
    /\ UNCHANGED <<dir, readers>>

(* A case is its file, then its event.                                      *)
RecordCase(r) ==
    /\ Moves(r, "fired", "filed")
    /\ dir' = [dir EXCEPT !.case = "open"]
    /\ UNCHANGED readers

OpenCase(r) ==
    /\ Moves(r, "filed", "opened")
    /\ dir' = [dir EXCEPT !.log = Append(@, "case_opened")]
    /\ UNCHANGED readers

(* A disposition is its event, then the status in the file.                 *)
ResolveEvent(r) ==
    /\ Moves(r, "opened", "resolved")
    /\ dir' = [dir EXCEPT !.log = Append(@, "resolved")]
    /\ UNCHANGED readers

ResolveFile(r) ==
    /\ Moves(r, "resolved", "settled")
    /\ dir' = [dir EXCEPT !.case = "resolved"]
    /\ UNCHANGED readers

(* finalize takes the chain of the log as it is ...                         *)
TakeHash(r) ==
    /\ run[r].step = "settled"
    /\ run' = [run EXCEPT ![r] = [step |-> "hashed", chain |-> dir.log]]
    /\ UNCHANGED <<dir, readers>>

(* Mutant: the manifest is written before the cases are worked as well.     *)
ManifestEarly(r) ==
    /\ run[r].step \in {"opened", "hashed"} /\ ~dir.frozen
    /\ run' = [run EXCEPT ![r].step = IF @ = "hashed" THEN "sealed" ELSE @]
    /\ dir' = [dir EXCEPT !.manifest = IF run[r].step = "hashed" THEN run[r].chain ELSE dir.log]
    /\ UNCHANGED readers

(* ... and some hashes of other files later writes the manifest.            *)
WriteManifest(r) ==
    /\ Moves(r, "hashed", "sealed") /\ ~dir.frozen
    /\ dir' = [dir EXCEPT !.manifest = run[r].chain]
    /\ UNCHANGED readers

(* Mutant: freezing is logged, after the chain was taken.                   *)
FreezeLogged(r) ==
    /\ Moves(r, "sealed", "done") /\ ~dir.frozen
    /\ dir' = [dir EXCEPT !.manifest = run[r].chain, !.frozen = TRUE,
                          !.log = Append(@, "frozen")]
    /\ UNCHANGED readers

(* The manifest in memory is written again, with metrics and reports, and   *)
(* the snapshot files become read-only.                                     *)
Freeze(r) ==
    /\ Moves(r, "sealed", "done") /\ ~dir.frozen
    /\ dir' = [dir EXCEPT !.manifest = run[r].chain, !.frozen = TRUE]
    /\ UNCHANGED readers

(* The other run froze the directory: the next write to a frozen file fails.*)
Refused(r) ==
    /\ run[r].step \in {"new", "made", "settled", "hashed", "sealed"} /\ dir.frozen
    /\ run' = [run EXCEPT ![r].step = "dead"]
    /\ UNCHANGED <<dir, readers>>

Die(r) ==
    /\ run[r].step \notin {"new", "done", "dead"}
    /\ run' = [run EXCEPT ![r].step = "dead"]
    /\ UNCHANGED <<dir, readers>>

Engine(r) ==
    \/ Create(r) \/ RecordAlerts(r) \/ RaiseNone(r) \/ RecordCase(r) \/ OpenCase(r)
    \/ ResolveEvent(r) \/ ResolveFile(r) \/ TakeHash(r) \/ WriteManifest(r) \/ Freeze(r)
    \/ Refused(r) \/ Die(r)

----------------------------------------------------------------------------
(* Mutant: the page writes the file and lets the event follow.              *)
DecideFileFirst ==
    /\ dir.frozen /\ dir.case # "none" /\ ~clicking /\ decisions < MaxDecisions
    /\ dir' = [dir EXCEPT !.case = "decided"]
    /\ clicking' = TRUE /\ decisions' = decisions + 1
    /\ UNCHANGED <<run, cmd, sweeps, commands>>

(* An analyst's page, which loads a run that has returned: the event, then  *)
(* the file.                                                                *)
DecideEvent ==
    /\ dir.frozen /\ dir.case # "none" /\ ~clicking /\ decisions < MaxDecisions
    /\ dir' = [dir EXCEPT !.log = Append(@, "decided")]
    /\ clicking' = TRUE /\ decisions' = decisions + 1
    /\ UNCHANGED <<run, cmd, sweeps, commands>>

DecideFile ==
    /\ clicking
    /\ dir' = [dir EXCEPT !.case = "decided"]
    /\ clicking' = FALSE
    /\ UNCHANGED <<run, cmd, decisions, sweeps, commands>>

(* Every rendering of the Tuning Lab, unless its box is unticked, appends   *)
(* that the rule was swept to the log of the session's run; so does `aml    *)
(* tune --audit-run-dir`, of a directory taken to be finished.              *)
SweepRule ==
    /\ dir.frozen /\ sweeps < MaxSweeps
    /\ dir' = [dir EXCEPT !.log = Append(@, "tuning_run")]
    /\ sweeps' = sweeps + 1
    /\ UNCHANGED <<run, clicking, cmd, decisions, commands>>

----------------------------------------------------------------------------
(* The commands, each the files it reads in its order; "must" is a manifest *)
(* the command insists on, "check" the log read to verify its chain.        *)
VerifyDecisions == <<"manifest", "check">>
AuditPack == <<"case", "log">>
OutcomesPack == <<"case", "log">>
CasePack == <<"case", "log">>
BatchPack == <<"case", "log">>
Effectiveness == <<"manifest", "log">>
ModelRisk == <<"manifest", "log">>
AmlaEffectiveness == <<"must", "case", "log">>
AmlaStr == <<"must", "case">>
GoAml == <<"must", "case">>
DraftNarrative == <<"must", "case">>
WhistleblowerAudit == <<"must", "log">> \o VerifyDecisions
QueueRank == <<"case">>
NotifyDigest == <<"log">>
Today == <<"log", "case">>
Lineage == <<"case", "manifest", "log">>
Export == <<"manifest", "case", "log">>
Replay == <<"manifest", "manifest">>

(* The auditor's bundle: verified, then two packs, then the files as such.  *)
AuditorPack == VerifyDecisions \o AuditPack \o Effectiveness \o <<"manifest", "log">>

Commands == {VerifyDecisions, AuditPack, OutcomesPack, CasePack, BatchPack, Effectiveness,
             ModelRisk, AmlaEffectiveness, AmlaStr, GoAml, DraftNarrative,
             WhistleblowerAudit, QueueRank, NotifyDigest, Today, Lineage, Export, Replay,
             AuditorPack}

Start(c) ==
    /\ cmd.left = <<>> /\ commands < MaxCommands /\ dir.exists
    /\ cmd' = [left |-> c, seen |-> <<>>]
    /\ commands' = commands + 1
    /\ UNCHANGED <<run, dir, clicking, decisions, sweeps>>

Content(file) == CASE file \in {"must", "manifest"} -> dir.manifest
                   [] file \in {"check", "log"} -> dir.log
                   [] file = "case" -> dir.case

(* A file is read, unless it is the manifest, the command insists on it and *)
(* it is not there: then the command exits.                                 *)
ReadFile ==
    LET file == Head(cmd.left) IN
    /\ cmd.left # <<>>
    /\ cmd' = IF file = "must" /\ Content(file) = NoManifest
              THEN [cmd EXCEPT !.left = <<>>]
              ELSE [left |-> Tail(cmd.left), seen |-> Append(cmd.seen, <<file, Content(file)>>)]
    /\ UNCHANGED <<run, dir, clicking, decisions, sweeps, commands>>

Next ==
    \/ \E r \in Runs : Engine(r)
    \/ DecideEvent \/ DecideFile \/ SweepRule
    \/ \E c \in Commands : Start(c)
    \/ ReadFile

Spec == Init /\ [][Next]_vars

----------------------------------------------------------------------------
(* Two runs made the directory their own.                                   *)
Shared == \E r, s \in Runs : r # s /\ "new" \notin {run[r].step, run[s].step}

Reads == DOMAIN cmd.seen
Read(i, file) == cmd.seen[i][1] = file
Value(i) == cmd.seen[i][2]
IsManifest(i) == (Read(i, "must") \/ Read(i, "manifest")) /\ Value(i) # NoManifest

(* verify_decisions: the chain of an empty log is the empty string, which   *)
(* it takes for a manifest without a chain.                                 *)
Verified(i) ==
    Read(i, "check") /\ IsManifest(i - 1) /\ Value(i - 1) # <<>> /\ Value(i) = Value(i - 1)
Failed(i) ==
    Read(i, "check") /\ IsManifest(i - 1) /\ (Value(i - 1) = <<>> \/ Value(i) # Value(i - 1))

(* Evidence that goes to a regulator shows no case as resolved or decided   *)
(* without the decision, whatever the engine and the analyst write between  *)
(* the two reads, and even in a directory of two runs.                      *)
StatusIsBacked ==
    \A i, j \in Reads :
        i < j /\ Read(i, "case") /\ Read(j, "log") /\ Value(i) \notin {"none", "open"}
            => Contains(Value(j), Value(i))

(* A command that has seen a manifest sees no case still open, and every    *)
(* case the sealed log opened: a filing or a bundle is never drawn from a   *)
(* run still going on, unless two runs share the directory.                 *)
SealedIsSettled ==
    \A i, j \in Reads :
        i < j /\ IsManifest(i) /\ Read(j, "case") /\ ~Shared =>
            /\ Value(j) # "open"
            /\ Contains(Value(i), "case_opened") => Value(j) # "none"

(* A log that verified begins every log copied after it, and is the log     *)
(* that was counted before it unless two runs share the directory.          *)
VerifiedLogIsTheEvidence ==
    \A i \in Reads : Verified(i) =>
        \A j \in Reads : Read(j, "log") =>
            /\ j > i => IsPrefix(Value(i), Value(j))
            /\ j < i /\ ~Shared => Value(j) = Value(i)

(* A run that logged anything and was left alone verifies: where the check  *)
(* fails, the log was sealed empty, or an analyst has decided a case or     *)
(* swept a rule since, or two runs share the directory.                     *)
Since == {"decided", "tuning_run"}
FailureIsExplained ==
    \A i \in Reads : Failed(i) =>
        Shared \/ Value(i - 1) = <<>> \/ \E e \in Since : Contains(Value(i), e)
=============================================================================
