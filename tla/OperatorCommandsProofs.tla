----------------------- MODULE OperatorCommandsProofs -----------------------
(***************************************************************************)
(* Theorems about OperatorCommands, for any number of engine runs in the   *)
(* directory and any number of decisions, sweeps and commands.             *)
(***************************************************************************)
EXTENDS OperatorCommands, TLAPS

(* What "begins" means, place by place.                                    *)
LEMMA PrefixByPlaces ==
    ASSUME NEW S, NEW s \in Seq(S), NEW t \in Seq(S)
    PROVE  IsPrefix(s, t) <=> Len(s) <= Len(t) /\ \A i \in 1..Len(s) : s[i] = t[i]
<1>1. CASE Len(s) <= Len(t)
  <2>1. /\ SubSeq(s, 1, Len(s)) \in Seq(S) /\ SubSeq(t, 1, Len(s)) \in Seq(S)
        /\ Len(SubSeq(s, 1, Len(s))) = Len(s) /\ Len(SubSeq(t, 1, Len(s))) = Len(s)
        /\ \A i \in 1..Len(s) : SubSeq(s, 1, Len(s))[i] = s[i] /\ SubSeq(t, 1, Len(s))[i] = t[i]
    BY <1>1
  <2>. QED BY <1>1, <2>1 DEF IsPrefix
<1>2. CASE ~(Len(s) <= Len(t)) BY <1>2 DEF IsPrefix
<1>. QED BY <1>1, <1>2

LEMMA PrefixOfItself == ASSUME NEW S, NEW s \in Seq(S) PROVE IsPrefix(s, s)
BY PrefixByPlaces

LEMMA PrefixGrows ==
    ASSUME NEW S, NEW s \in Seq(S), NEW t \in Seq(S), NEW e \in S, IsPrefix(s, t)
    PROVE  IsPrefix(s, Append(t, e))
<1>. DEFINE u == Append(t, e)
<1>1. /\ u \in Seq(S) /\ Len(u) = Len(t) + 1
      /\ Len(s) \in Nat /\ Len(t) \in Nat
      /\ \A i \in 1..Len(t) : u[i] = t[i]
  OBVIOUS
<1>2. Len(s) <= Len(t) /\ \A i \in 1..Len(s) : s[i] = t[i] BY PrefixByPlaces
<1>. HIDE DEF u
<1>3. Len(s) <= Len(u) /\ \A i \in 1..Len(s) : s[i] = u[i] BY <1>1, <1>2
<1>4. IsPrefix(s, u) BY <1>1, <1>3, PrefixByPlaces
<1>. QED BY <1>4 DEF u

(* Two beginnings of each other are the same.                              *)
LEMMA PrefixBothWays ==
    ASSUME NEW S, NEW s \in Seq(S), NEW t \in Seq(S), IsPrefix(s, t), IsPrefix(t, s)
    PROVE  s = t
<1>1. Len(s) <= Len(t) /\ \A i \in 1..Len(s) : s[i] = t[i] BY PrefixByPlaces
<1>2. Len(t) <= Len(s) BY PrefixByPlaces
<1>. QED BY <1>1, <1>2

LEMMA ContainsGrows ==
    ASSUME NEW S, NEW s \in Seq(S), NEW e \in S
    PROVE  /\ \A x : Contains(s, x) => Contains(Append(s, e), x)
           /\ Contains(Append(s, e), e)
           /\ \A x : Contains(Append(s, e), x) => Contains(s, x) \/ x = e
<1>1. /\ Len(Append(s, e)) = Len(s) + 1 /\ Len(s) \in Nat
      /\ \A i \in 1..Len(s) : Append(s, e)[i] = s[i]
      /\ Append(s, e)[Len(s) + 1] = e
  OBVIOUS
<1>. QED BY <1>1 DEF Contains

----------------------------------------------------------------------------
(* The shape of the state.                                                 *)
Entries == {"case_opened", "resolved", "decided", "tuning_run"}
CaseStatus == {"none", "open", "resolved", "decided"}
Steps == {"new", "made", "fired", "filed", "opened", "resolved", "settled",
          "hashed", "sealed", "done", "dead"}
Files == {"case", "log", "check", "manifest", "must"}
Directory == [exists : BOOLEAN, case : CaseStatus, log : Seq(Entries),
              manifest : Seq(Entries) \cup {NoManifest}, frozen : BOOLEAN]
Contents == Seq(Entries) \cup {NoManifest} \cup CaseStatus
Requests == [left : Seq(Files), seen : Seq(Files \X Contents)]

TypeOK ==
    /\ run \in [Runs -> [step : Steps, chain : Seq(Entries)]]
    /\ dir \in Directory
    /\ clicking \in BOOLEAN
    /\ cmd \in Requests
    /\ decisions \in Nat /\ sweeps \in Nat /\ commands \in Nat

LEMMA NoManifestIsNoLog == NoManifest \notin Seq(Entries)
<1>. SUFFICES ASSUME NoManifest \in Seq(Entries) PROVE FALSE
  OBVIOUS
<1>1. 1 \in DOMAIN NoManifest /\ NoManifest[1] = "none" BY DEF NoManifest
<1>2. NoManifest[1] \in Entries BY <1>1
<1>. QED BY <1>1, <1>2 DEF Entries

(* Every command is a sequence of files.                                   *)
LEMMA CommandsAreFiles == Commands \subseteq Seq(Files)
<1>. USE DEF Files
<1>1. {VerifyDecisions, AuditPack, OutcomesPack, CasePack, BatchPack, Effectiveness,
       ModelRisk, AmlaEffectiveness, AmlaStr, GoAml, DraftNarrative} \subseteq Seq(Files)
  BY DEF VerifyDecisions, AuditPack, OutcomesPack, CasePack, BatchPack, Effectiveness,
         ModelRisk, AmlaEffectiveness, AmlaStr, GoAml, DraftNarrative
<1>2. {QueueRank, NotifyDigest, Today, Lineage, Export, Replay} \subseteq Seq(Files)
  BY DEF QueueRank, NotifyDigest, Today, Lineage, Export, Replay
<1>3. WhistleblowerAudit \in Seq(Files)
  <2>1. <<"must", "log">> \in Seq(Files) OBVIOUS
  <2>. HIDE DEF Files
  <2>. QED BY <1>1, <2>1 DEF WhistleblowerAudit
<1>4. AuditorPack \in Seq(Files)
  <2>1. <<"manifest", "log">> \in Seq(Files) OBVIOUS
  <2>. HIDE DEF Files
  <2>. QED BY <1>1, <2>1 DEF AuditorPack
<1>. QED BY <1>1, <1>2, <1>3, <1>4 DEF Commands

LEMMA TypeInit == Init => TypeOK
<1>. SUFFICES ASSUME Init PROVE TypeOK
  OBVIOUS
<1>1. NoFiles \in Directory BY DEF NoFiles, Directory, CaseStatus
<1>2. Idle \in Requests
  BY DEF Idle, Requests
<1>3. run \in [Runs -> [step : Steps, chain : Seq(Entries)]] BY DEF Init, Steps
<1>. QED BY <1>1, <1>2, <1>3 DEF Init, TypeOK

(* A step of one run is a step of that run alone.                          *)
LEMMA MovesOne ==
    ASSUME run \in [Runs -> [step : Steps, chain : Seq(Entries)]],
           NEW r \in Runs, NEW from \in Steps, NEW to \in Steps, Moves(r, from, to)
    PROVE  /\ run' \in [Runs -> [step : Steps, chain : Seq(Entries)]]
           /\ run[r].step = from /\ run'[r].step = to /\ run'[r].chain = run[r].chain
           /\ \A s \in Runs : s # r => run'[s] = run[s]
BY DEF Moves

LEMMA TypeStep == TypeOK /\ [Next]_vars => TypeOK'
<1>. SUFFICES ASSUME TypeOK, [Next]_vars PROVE TypeOK'
  OBVIOUS
<1>t. /\ run \in [Runs -> [step : Steps, chain : Seq(Entries)]]
      /\ dir \in Directory /\ clicking \in BOOLEAN
      /\ decisions \in Nat /\ sweeps \in Nat /\ commands \in Nat
      /\ cmd \in Requests
  BY DEF TypeOK
<1>d. \A e \in Entries : [dir EXCEPT !.log = Append(@, e)] \in Directory
  <2>. SUFFICES ASSUME NEW e \in Entries PROVE [dir EXCEPT !.log = Append(@, e)] \in Directory
    OBVIOUS
  <2>1. dir.log \in Seq(Entries) BY <1>t DEF Directory
  <2>2. Append(dir.log, e) \in Seq(Entries) BY <2>1
  <2>. QED BY <1>t, <2>2 DEF Directory
<1>c. \A c \in CaseStatus : [dir EXCEPT !.case = c] \in Directory
  BY <1>t DEF Directory
<1>e. ASSUME run' \in [Runs -> [step : Steps, chain : Seq(Entries)]], dir' \in Directory,
             UNCHANGED readers
      PROVE  TypeOK'
  BY <1>t, <1>e DEF TypeOK, readers
<1>m. ASSUME NEW r \in Runs, NEW from \in Steps, NEW to \in Steps, Moves(r, from, to)
      PROVE  run' \in [Runs -> [step : Steps, chain : Seq(Entries)]]
  BY <1>t, <1>m, MovesOne
<1>s. /\ {"new", "made", "fired", "filed", "opened", "resolved", "settled",
           "hashed", "sealed", "done", "dead"} \subseteq Steps
      /\ {"case_opened", "resolved", "decided", "tuning_run"} \subseteq Entries
      /\ {"open", "resolved", "decided"} \subseteq CaseStatus
  BY DEF Steps, Entries, CaseStatus
<1>1. ASSUME NEW r \in Runs, Engine(r) PROVE TypeOK'
  <2>1. CASE Create(r)
    <3>1. dir' \in Directory BY <1>t, <2>1 DEF Create, Directory
    <3>. QED BY <1>e, <1>m, <1>s, <2>1, <3>1 DEF Create
  <2>2. CASE RecordAlerts(r) \/ RaiseNone(r)
    BY <1>t, <1>e, <1>m, <1>s, <2>2 DEF RecordAlerts, RaiseNone
  <2>3. CASE RecordCase(r) BY <1>c, <1>e, <1>m, <1>s, <2>3 DEF RecordCase
  <2>4. CASE OpenCase(r) BY <1>d, <1>e, <1>m, <1>s, <2>4 DEF OpenCase
  <2>5. CASE ResolveEvent(r) BY <1>d, <1>e, <1>m, <1>s, <2>5 DEF ResolveEvent
  <2>6. CASE ResolveFile(r) BY <1>c, <1>e, <1>m, <1>s, <2>6 DEF ResolveFile
  <2>7. CASE TakeHash(r)
    <3>1. dir.log \in Seq(Entries) BY <1>t DEF Directory
    <3>2. [step |-> "hashed", chain |-> dir.log] \in [step : Steps, chain : Seq(Entries)]
      BY <1>s, <3>1
    <3>3. run' \in [Runs -> [step : Steps, chain : Seq(Entries)]]
      BY <1>t, <2>7, <3>2 DEF TakeHash
    <3>. QED BY <1>t, <1>e, <2>7, <3>3 DEF TakeHash
  <2>8. CASE WriteManifest(r)
    <3>1. dir' \in Directory BY <1>t, <2>8 DEF WriteManifest, Directory
    <3>. QED BY <1>e, <1>m, <1>s, <2>8, <3>1 DEF WriteManifest
  <2>9. CASE Freeze(r)
    <3>1. dir' \in Directory BY <1>t, <2>9 DEF Freeze, Directory
    <3>. QED BY <1>e, <1>m, <1>s, <2>9, <3>1 DEF Freeze
  <2>10. CASE Refused(r) \/ Die(r)
    <3>1. run' \in [Runs -> [step : Steps, chain : Seq(Entries)]]
      BY <1>t, <1>s, <2>10 DEF Refused, Die
    <3>. QED BY <1>t, <1>e, <2>10, <3>1 DEF Refused, Die
  <2>. QED BY <1>1, <2>1, <2>2, <2>3, <2>4, <2>5, <2>6, <2>7, <2>8, <2>9, <2>10 DEF Engine
<1>2. CASE DecideEvent
  <2>1. dir' \in Directory BY <1>d, <1>s, <1>2 DEF DecideEvent
  <2>. QED BY <1>t, <1>2, <2>1 DEF DecideEvent, TypeOK
<1>3. CASE DecideFile BY <1>t, <1>c, <1>s, <1>3 DEF DecideFile, TypeOK
<1>4. ASSUME NEW c \in Commands, Start(c) PROVE TypeOK'
  <2>1. c \in Seq(Files) BY CommandsAreFiles
  <2>2. [left |-> c, seen |-> <<>>] \in Requests BY <2>1 DEF Requests
  <2>. QED BY <1>t, <1>4, <2>2 DEF Start, TypeOK
<1>5. CASE ReadFile
  <2>. DEFINE file == Head(cmd.left)
  <2>1. file \in Files /\ Tail(cmd.left) \in Seq(Files) /\ cmd.left \in Seq(Files)
        /\ cmd.seen \in Seq(Files \X Contents)
    BY <1>t, <1>5 DEF ReadFile, Requests
  <2>2. Content(file) \in Contents
    BY <1>t, <2>1 DEF Content, Contents, Directory, Files
  <2>3. \/ cmd' = [cmd EXCEPT !.left = <<>>]
        \/ cmd' = [left |-> Tail(cmd.left), seen |-> Append(cmd.seen, <<file, Content(file)>>)]
    BY <1>5 DEF ReadFile
  <2>4. <<file, Content(file)>> \in Files \X Contents BY <2>1, <2>2
  <2>. HIDE DEF file
  <2>5. Append(cmd.seen, <<file, Content(file)>>) \in Seq(Files \X Contents) BY <2>1, <2>4
  <2>. DEFINE seen == Append(cmd.seen, <<file, Content(file)>>)
  <2>6. \/ cmd' = [cmd EXCEPT !.left = <<>>]
        \/ cmd' = [left |-> Tail(cmd.left), seen |-> seen]
    BY <2>3
  <2>7. seen \in Seq(Files \X Contents) BY <2>5
  <2>. HIDE DEF seen
  <2>8. cmd' = [cmd EXCEPT !.left = <<>>] => cmd' \in Requests
    <3>1. <<>> \in Seq(Files) OBVIOUS
    <3>. QED BY <1>t, <3>1 DEF Requests
  <2>9. cmd' = [left |-> Tail(cmd.left), seen |-> seen] => cmd' \in Requests
    BY <2>1, <2>7 DEF Requests
  <2>10. cmd' \in Requests BY <2>6, <2>8, <2>9
  <2>. QED BY <1>t, <1>5, <2>10 DEF ReadFile, TypeOK
<1>6. CASE SweepRule
  <2>1. dir' \in Directory BY <1>d, <1>s, <1>6 DEF SweepRule
  <2>. QED BY <1>t, <1>6, <2>1 DEF SweepRule, TypeOK
<1>7. CASE UNCHANGED vars BY <1>t, <1>7 DEF vars, readers, TypeOK
<1>. QED BY <1>1, <1>2, <1>3, <1>4, <1>5, <1>6, <1>7 DEF Next

(* The shapes hold of every behaviour.                                     *)
THEOREM TypeCorrect == Spec => []TypeOK
BY TypeInit, TypeStep, PTL DEF Spec

----------------------------------------------------------------------------
(* What holds of the directory between any two reads.                      *)
Worked(c) == c \notin {"none", "open"}
Sealed == dir.manifest # NoManifest

(* A status worked into the case file has its event in the log already, and *)
(* a case in the log has its file.                                         *)
BackedInv ==
    /\ Worked(dir.case) => Contains(dir.log, dir.case)
    /\ \A r \in Runs : run[r].step = "resolved" => Contains(dir.log, "resolved")
    /\ clicking => Contains(dir.log, "decided")
    /\ \A r \in Runs : run[r].step = "filed" => dir.case # "none"
    /\ Contains(dir.log, "case_opened") => dir.case # "none"

(* In the directory of one run, an open case is that run's, on its way to a *)
(* disposition; the manifest is the log of a run that is over, whose cases  *)
(* are worked, and only the analyst adds to it.                             *)
AtWork == {"filed", "opened", "resolved"}
SoloInv ==
    ~Shared =>
        /\ dir.case = "open" => \E r \in Runs : run[r].step \in AtWork \cup {"dead"}
        /\ \A r \in Runs : run[r].step = "hashed" => run[r].chain = dir.log
        /\ \A r \in Runs : run[r].step = "sealed" => run[r].chain = dir.manifest
        /\ \A r \in Runs : run[r].step \in {"sealed", "done"} => Sealed
        /\ dir.frozen => Sealed
        /\ Sealed =>
              /\ \A r \in Runs : run[r].step \in {"new", "sealed", "done", "dead"}
              /\ \E r \in Runs : run[r].step # "new"
              /\ dir.case # "open"
              /\ IsPrefix(dir.manifest, dir.log)
              /\ \A k \in 1..Len(dir.log) :
                    k > Len(dir.manifest) => dir.log[k] \in Since

LEMMA BackedInit == Init => BackedInv /\ SoloInv
BY DEF Init, BackedInv, SoloInv, NoFiles, Worked, Sealed, Contains

LEMMA BackedStep == TypeOK /\ BackedInv /\ [Next]_vars => BackedInv'
<1>. SUFFICES ASSUME TypeOK, BackedInv, [Next]_vars PROVE BackedInv'
  OBVIOUS
<1>t. /\ run \in [Runs -> [step : Steps, chain : Seq(Entries)]]
      /\ dir \in Directory /\ dir.log \in Seq(Entries)
  BY DEF TypeOK, Directory
<1>g. \A e \in Entries : /\ \A x : Contains(dir.log, x) => Contains(Append(dir.log, e), x)
                         /\ Contains(Append(dir.log, e), e)
                         /\ \A x : Contains(Append(dir.log, e), x) => Contains(dir.log, x) \/ x = e
  BY <1>t, ContainsGrows
<1>s. /\ {"new", "made", "fired", "filed", "opened", "resolved", "settled",
           "hashed", "sealed", "done", "dead"} \subseteq Steps
      /\ {"case_opened", "resolved", "decided", "tuning_run"} \subseteq Entries
  BY DEF Steps, Entries
<1>m. ASSUME NEW r \in Runs, NEW from \in Steps, NEW to \in Steps, Moves(r, from, to)
      PROVE  /\ run[r].step = from /\ run'[r].step = to /\ run'[r].chain = run[r].chain
             /\ \A s \in Runs : s # r => run'[s] = run[s]
  BY <1>t, <1>m, MovesOne
(* A step that adds no status and no run with a resolution to write.       *)
<1>q. ASSUME dir'.case = dir.case \/ (~Worked(dir'.case) /\ dir'.case # "none"),
             \/ dir'.log = dir.log
             \/ \E e \in Entries : /\ dir'.log = Append(dir.log, e)
                                   /\ e = "case_opened" => dir'.case # "none",
             \A r \in Runs : run'[r].step = "resolved" => run[r].step = "resolved",
             \A r \in Runs : run'[r].step = "filed" => run[r].step = "filed" \/ dir'.case # "none",
             clicking' => clicking
      PROVE  BackedInv'
  <2>1. \A x : Contains(dir.log, x) => Contains(dir'.log, x) BY <1>g, <1>q
  <2>2. Contains(dir'.log, "case_opened") => Contains(dir.log, "case_opened") \/ dir'.case # "none"
    BY <1>g, <1>q
  <2>3. dir.case # "none" => dir'.case # "none" BY <1>q
  <2>4. Worked(dir'.case) => dir'.case = dir.case BY <1>q
  <2>. QED BY <1>q, <2>1, <2>2, <2>3, <2>4 DEF BackedInv
<1>1. ASSUME NEW r \in Runs, Engine(r) PROVE BackedInv'
  <2>1. CASE Create(r) \/ RecordAlerts(r) \/ RaiseNone(r) \/ WriteManifest(r) \/ Freeze(r)
    <3>1. \E from, to \in Steps : Moves(r, from, to) /\ to \notin {"resolved", "filed"}
      BY <1>s, <2>1 DEF Create, RecordAlerts, RaiseNone, WriteManifest, Freeze
    <3>2. \A s \in Runs : /\ run'[s].step = "resolved" => run[s].step = "resolved"
                          /\ run'[s].step = "filed" => run[s].step = "filed"
      BY <1>m, <3>1
    <3>3. dir'.case = dir.case /\ dir'.log = dir.log /\ clicking' = clicking
      BY <1>t, <2>1 DEF Create, RecordAlerts, RaiseNone, WriteManifest, Freeze, Directory, readers
    <3>. QED BY <1>q, <3>2, <3>3
  <2>2. CASE RecordCase(r)
    <3>1. \A s \in Runs : run'[s].step = "resolved" => run[s].step = "resolved"
      BY <1>m, <1>s, <2>2 DEF RecordCase
    <3>2. dir'.case = "open" /\ dir'.log = dir.log /\ clicking' = clicking
      BY <1>t, <2>2 DEF RecordCase, Directory, readers
    <3>3. ~Worked(dir'.case) BY <3>2 DEF Worked
    <3>. QED BY <1>q, <3>1, <3>2, <3>3
  <2>3. CASE OpenCase(r)
    <3>1. /\ run[r].step = "filed"
          /\ \A s \in Runs : /\ run'[s].step = "resolved" => run[s].step = "resolved"
                             /\ run'[s].step = "filed" => run[s].step = "filed"
      BY <1>m, <1>s, <2>3 DEF OpenCase
    <3>2. dir'.case = dir.case /\ dir'.log = Append(dir.log, "case_opened") /\ clicking' = clicking
      BY <1>t, <2>3 DEF OpenCase, Directory, readers
    <3>3. dir'.case # "none" BY <3>1, <3>2 DEF BackedInv
    <3>. QED BY <1>q, <1>s, <3>1, <3>2, <3>3
  <2>4. CASE ResolveEvent(r)
    <3>1. dir'.case = dir.case /\ dir'.log = Append(dir.log, "resolved") /\ clicking' = clicking
      BY <1>t, <2>4 DEF ResolveEvent, Directory, readers
    <3>2. \A s \in Runs : run'[s].step = "filed" => run[s].step = "filed"
      BY <1>m, <1>s, <2>4 DEF ResolveEvent
    <3>3. /\ \A x : Contains(dir.log, x) => Contains(dir'.log, x)
          /\ Contains(dir'.log, "resolved")
          /\ Contains(dir'.log, "case_opened") => Contains(dir.log, "case_opened")
      BY <1>g, <1>s, <3>1
    <3>. QED BY <3>1, <3>2, <3>3 DEF BackedInv, Worked
  <2>5. CASE ResolveFile(r)
    <3>1. \A s \in Runs : run'[s].step = "resolved" => run[s].step = "resolved"
      BY <1>m, <1>s, <2>5 DEF ResolveFile
    <3>2. dir'.case = "resolved" /\ dir'.log = dir.log /\ clicking' = clicking
      BY <1>t, <2>5 DEF ResolveFile, Directory, readers
    <3>3. run[r].step = "resolved" BY <2>5 DEF ResolveFile, Moves
    <3>. QED BY <3>1, <3>2, <3>3 DEF BackedInv, Worked
  <2>7. CASE TakeHash(r) \/ Refused(r) \/ Die(r)
    <3>1. \A s \in Runs : /\ run'[s].step = "resolved" => run[s].step = "resolved"
                          /\ run'[s].step = "filed" => run[s].step = "filed"
      BY <1>t, <2>7 DEF TakeHash, Refused, Die
    <3>2. dir' = dir /\ clicking' = clicking BY <2>7 DEF TakeHash, Refused, Die, readers
    <3>. QED BY <1>q, <3>1, <3>2
  <2>. QED BY <1>1, <2>1, <2>2, <2>3, <2>4, <2>5, <2>7 DEF Engine
<1>2. CASE DecideEvent
  <2>1. /\ dir'.case = dir.case /\ dir'.log = Append(dir.log, "decided") /\ run' = run
        /\ dir.case # "none"
    BY <1>t, <1>2 DEF DecideEvent, Directory
  <2>2. /\ \A x : Contains(dir.log, x) => Contains(dir'.log, x)
        /\ Contains(dir'.log, "decided")
    BY <1>g, <1>s, <2>1
  <2>. QED BY <2>1, <2>2 DEF BackedInv, Worked
<1>3. CASE DecideFile
  <2>1. dir'.case = "decided" /\ dir'.log = dir.log /\ run' = run /\ clicking /\ ~clicking'
    BY <1>t, <1>3 DEF DecideFile, Directory
  <2>. QED BY <2>1 DEF BackedInv, Worked
<1>4. ASSUME NEW c, Start(c) PROVE BackedInv'
  BY <1>4, <1>q DEF Start
<1>5. CASE ReadFile BY <1>5, <1>q DEF ReadFile
<1>6. CASE SweepRule
  <2>1. dir'.case = dir.case /\ dir'.log = Append(dir.log, "tuning_run")
    BY <1>t, <1>6 DEF SweepRule, Directory
  <2>. QED BY <1>6, <1>q, <1>s, <2>1 DEF SweepRule
<1>7. CASE UNCHANGED vars BY <1>7, <1>q DEF vars, readers
<1>. QED BY <1>1, <1>2, <1>3, <1>4, <1>5, <1>6, <1>7 DEF Next

(* Once two runs share a directory they share it for good.                 *)
LEMMA SharedForGood == TypeOK /\ [Next]_vars /\ Shared => Shared'
<1>. SUFFICES ASSUME TypeOK, [Next]_vars, Shared PROVE Shared'
  OBVIOUS
<1>t. run \in [Runs -> [step : Steps, chain : Seq(Entries)]] BY DEF TypeOK
<1>1. \A r \in Runs : run[r].step # "new" => run'[r].step # "new"
  <2>1. ASSUME NEW r \in Runs, Engine(r)
        PROVE  \A s \in Runs : run[s].step # "new" => run'[s].step # "new"
    <3>1. CASE \E from \in Steps, to \in Steps \ {"new"} : Moves(r, from, to)
      BY <1>t, <3>1, MovesOne
    <3>2. CASE TakeHash(r) \/ Refused(r) \/ Die(r)
      BY <1>t, <3>2 DEF TakeHash, Refused, Die
    <3>. QED
      BY <2>1, <3>1, <3>2
      DEF Engine, Create, RecordAlerts, RaiseNone, RecordCase, OpenCase, ResolveEvent,
          ResolveFile, WriteManifest, Freeze, Steps
  <2>2. CASE run' = run BY <2>2
  <2>. QED
    BY <2>1, <2>2
    DEF Next, vars, DecideEvent, DecideFile, Start, ReadFile, SweepRule
<1>. QED BY <1>1 DEF Shared

LEMMA SoloStep == TypeOK /\ SoloInv /\ [Next]_vars => SoloInv'
<1>. SUFFICES ASSUME TypeOK, SoloInv, [Next]_vars, ~Shared' PROVE SoloInv'
  BY DEF SoloInv
<1>n. ~Shared BY SharedForGood
<1>t. /\ run \in [Runs -> [step : Steps, chain : Seq(Entries)]]
      /\ dir \in Directory /\ dir.log \in Seq(Entries)
      /\ dir.manifest \in Seq(Entries) \cup {NoManifest}
  BY DEF TypeOK, Directory
<1>s. /\ {"new", "made", "fired", "filed", "opened", "resolved", "settled",
           "hashed", "sealed", "done", "dead"} \subseteq Steps
  BY DEF Steps
<1>m. ASSUME NEW r \in Runs, NEW from \in Steps, NEW to \in Steps, Moves(r, from, to)
      PROVE  /\ run[r].step = from /\ run'[r].step = to /\ run'[r].chain = run[r].chain
             /\ \A s \in Runs : s # r => run'[s] = run[s]
  BY <1>t, <1>m, MovesOne
<1>q. ASSUME UNCHANGED <<run, dir>> PROVE SoloInv'
  BY <1>q DEF SoloInv, Sealed, Shared
<1>1. ASSUME NEW r \in Runs, Engine(r) PROVE SoloInv'
  (* A run that moves is the only one that has.                            *)
  <2>o. ASSUME run'[r].step # "new", \A s \in Runs : s # r => run'[s] = run[s]
        PROVE  \A s \in Runs : s # r => run'[s] = run[s] /\ run[s].step = "new"
    BY <2>o DEF Shared
  <2>v. /\ dir.case = "open" => \E s \in Runs : run[s].step \in AtWork \cup {"dead"}
        /\ run[r].step = "hashed" => run[r].chain = dir.log
        /\ run[r].step = "sealed" => run[r].chain = dir.manifest
        /\ run[r].step \in {"sealed", "done"} => Sealed
        /\ dir.frozen => Sealed
        /\ Sealed => /\ run[r].step \in {"new", "sealed", "done", "dead"}
                     /\ \E s \in Runs : run[s].step # "new"
                     /\ dir.case # "open" /\ IsPrefix(dir.manifest, dir.log)
                     /\ \A k \in 1..Len(dir.log) :
                           k > Len(dir.manifest) => dir.log[k] \in Since
    BY <1>n DEF SoloInv
  (* If it moves from elsewhere than work, no case is open.                *)
  <2>w. ASSUME run'[r].step # "new", \A s \in Runs : s # r => run'[s] = run[s],
               run[r].step \notin AtWork \cup {"dead"}
        PROVE  dir.case # "open"
    BY <2>o, <2>v, <2>w DEF AtWork
  (* Before the seal only the status of the case is at stake.              *)
  <2>p. ASSUME NEW from \in Steps, NEW to \in Steps, Moves(r, from, to),
               from \notin {"sealed", "done", "dead"},
               to \notin {"new", "hashed", "sealed", "done"},
               dir'.manifest = dir.manifest, dir'.frozen = dir.frozen,
               dir'.case = dir.case \/ dir'.case # "open" \/ to \in AtWork,
               from \in AtWork /\ dir'.case = "open" => to \in AtWork
        PROVE  SoloInv'
    <3>1. /\ run[r].step = from /\ run'[r].step = to
          /\ \A s \in Runs : s # r => run'[s] = run[s] /\ run[s].step = "new"
      BY <1>m, <2>o, <2>p
    <3>2. ~Sealed BY <2>p, <2>v, <3>1
    <3>3. ~Sealed' BY <2>p, <3>2 DEF Sealed
    <3>4. dir'.case = "open" => to \in AtWork BY <2>p, <2>w, <3>1
    <3>. QED BY <2>p, <2>v, <3>1, <3>2, <3>3, <3>4 DEF SoloInv
  <2>1. CASE Create(r)
    <3>1. dir'.manifest = dir.manifest /\ dir'.frozen = dir.frozen /\ dir'.case = dir.case
      BY <1>t, <2>1 DEF Create, Directory
    <3>. QED BY <1>s, <2>1, <2>p, <3>1 DEF Create, AtWork
  <2>2. CASE RecordAlerts(r) BY <1>s, <2>2, <2>p DEF RecordAlerts, AtWork
  <2>12. CASE RaiseNone(r) BY <1>s, <2>12, <2>p DEF RaiseNone, AtWork
  <2>3. CASE RecordCase(r)
    <3>1. dir'.manifest = dir.manifest /\ dir'.frozen = dir.frozen
      BY <1>t, <2>3 DEF RecordCase, Directory
    <3>. QED BY <1>s, <2>3, <2>p, <3>1 DEF RecordCase, AtWork
  <2>4. CASE OpenCase(r)
    <3>1. dir'.manifest = dir.manifest /\ dir'.frozen = dir.frozen
      BY <1>t, <2>4 DEF OpenCase, Directory
    <3>. QED BY <1>s, <2>4, <2>p, <3>1 DEF OpenCase, AtWork
  <2>5. CASE ResolveEvent(r)
    <3>1. dir'.manifest = dir.manifest /\ dir'.frozen = dir.frozen
      BY <1>t, <2>5 DEF ResolveEvent, Directory
    <3>. QED BY <1>s, <2>5, <2>p, <3>1 DEF ResolveEvent, AtWork
  <2>6. CASE ResolveFile(r)
    <3>1. dir'.manifest = dir.manifest /\ dir'.frozen = dir.frozen /\ dir'.case = "resolved"
      BY <1>t, <2>6 DEF ResolveFile, Directory
    <3>. QED BY <1>s, <2>6, <2>p, <3>1 DEF ResolveFile
  <2>7. CASE TakeHash(r)
    <3>1. /\ run[r].step = "settled" /\ run'[r].step = "hashed" /\ run'[r].chain = dir.log
          /\ \A s \in Runs : s # r => run'[s] = run[s]
          /\ dir' = dir
      BY <1>t, <2>7 DEF TakeHash
    <3>2. \A s \in Runs : s # r => run'[s].step = "new" BY <2>o, <3>1
    <3>3. dir.case # "open" BY <2>w, <3>1 DEF AtWork
    <3>4. ~Sealed /\ ~Sealed' BY <2>v, <3>1 DEF Sealed
    <3>. QED BY <2>v, <3>1, <3>2, <3>3, <3>4 DEF SoloInv
  <2>8. CASE WriteManifest(r)
    <3>1. /\ run[r].step = "hashed" /\ run'[r].step = "sealed" /\ run'[r].chain = run[r].chain
          /\ \A s \in Runs : s # r => run'[s] = run[s]
      BY <1>m, <1>s, <2>8 DEF WriteManifest
    <3>2. run[r].chain = dir.log BY <2>v, <3>1
    <3>3. /\ dir'.manifest = dir.log /\ dir'.log = dir.log /\ dir'.case = dir.case
      BY <1>t, <2>8, <3>2 DEF WriteManifest, Directory
    <3>4. \A s \in Runs : s # r => run'[s].step = "new" BY <2>o, <3>1
    <3>5. Sealed' BY <1>t, <3>3, NoManifestIsNoLog DEF Sealed
    <3>6. IsPrefix(dir'.manifest, dir'.log) BY <1>t, <3>3, PrefixOfItself
    <3>7. dir'.case # "open" BY <2>w, <3>1, <3>3 DEF AtWork
    <3>8. \A k \in 1..Len(dir'.log) : ~(k > Len(dir'.manifest)) BY <1>t, <3>3
    <3>. QED BY <3>1, <3>2, <3>3, <3>4, <3>5, <3>6, <3>7, <3>8 DEF SoloInv
  <2>9. CASE Freeze(r)
    <3>1. /\ run[r].step = "sealed" /\ run'[r].step = "done"
          /\ \A s \in Runs : s # r => run'[s] = run[s]
      BY <1>m, <1>s, <2>9 DEF Freeze
    <3>2. /\ dir'.manifest = run[r].chain /\ dir'.log = dir.log /\ dir'.case = dir.case
      BY <1>t, <2>9 DEF Freeze, Directory
    <3>3. \A s \in Runs : s # r => run'[s].step = "new" BY <2>o, <3>1
    <3>4. Sealed /\ dir'.manifest = dir.manifest BY <2>v, <3>1, <3>2
    <3>5. Sealed' BY <3>4 DEF Sealed
    <3>. QED BY <2>v, <3>1, <3>2, <3>3, <3>4, <3>5 DEF SoloInv
  <2>10. CASE Refused(r) \/ Die(r)
    <3>1. /\ run'[r].step = "dead" /\ \A s \in Runs : s # r => run'[s] = run[s]
          /\ dir' = dir
      BY <1>t, <2>10 DEF Refused, Die
    <3>2. \A s \in Runs : s # r => run'[s].step = "new" BY <2>o, <3>1
    <3>3. Sealed' <=> Sealed BY <3>1 DEF Sealed
    <3>. QED BY <2>v, <3>1, <3>2, <3>3 DEF SoloInv
  <2>. QED BY <1>1, <2>1, <2>2, <2>3, <2>4, <2>5, <2>6, <2>7, <2>8, <2>9, <2>10, <2>12 DEF Engine
(* What the analyst adds to a frozen directory comes after the seal.       *)
<1>a. ASSUME NEW e \in Since, dir'.case = dir.case, dir'.log = Append(dir.log, e), run' = run,
             dir'.manifest = dir.manifest, dir'.frozen = dir.frozen, dir.frozen
      PROVE  SoloInv'
  <2>1. e \in Entries BY DEF Since, Entries
  <2>2. Sealed /\ dir.manifest \in Seq(Entries) BY <1>n, <1>t, <1>a DEF SoloInv, Sealed
  <2>3. /\ IsPrefix(dir.manifest, dir.log) /\ dir.case # "open"
        /\ \A k \in 1..Len(dir.log) : k > Len(dir.manifest) => dir.log[k] \in Since
        /\ \A r \in Runs : run[r].step \in {"new", "sealed", "done", "dead"}
        /\ \A r \in Runs : run[r].step = "sealed" => run[r].chain = dir.manifest
        /\ \E r \in Runs : run[r].step # "new"
    BY <1>n, <2>2 DEF SoloInv
  <2>4. IsPrefix(dir'.manifest, dir'.log)
    BY <1>t, <1>a, <2>1, <2>2, <2>3, PrefixGrows
  <2>5. /\ Len(dir'.log) = Len(dir.log) + 1 /\ dir'.log[Len(dir.log) + 1] = e
        /\ \A k \in 1..Len(dir.log) : dir'.log[k] = dir.log[k] /\ Len(dir.log) \in Nat
    BY <1>t, <1>a, <2>1
  <2>6. \A k \in 1..Len(dir'.log) : k > Len(dir'.manifest) => dir'.log[k] \in Since
    BY <1>t, <1>a, <2>3, <2>5
  <2>7. Sealed' BY <1>a, <2>2 DEF Sealed
  <2>. QED BY <1>a, <2>3, <2>4, <2>6, <2>7 DEF SoloInv
<1>2. CASE DecideEvent
  <2>1. /\ dir'.case = dir.case /\ dir'.log = Append(dir.log, "decided") /\ run' = run
        /\ dir'.manifest = dir.manifest /\ dir'.frozen = dir.frozen /\ dir.frozen
    BY <1>t, <1>2 DEF DecideEvent, Directory
  <2>. QED BY <1>a, <2>1 DEF Since
<1>3. CASE DecideFile
  <2>1. /\ dir'.case = "decided" /\ dir'.log = dir.log /\ run' = run
        /\ dir'.manifest = dir.manifest /\ dir'.frozen = dir.frozen
    BY <1>t, <1>3 DEF DecideFile, Directory
  <2>. QED BY <1>n, <2>1 DEF SoloInv, Sealed
<1>4. ASSUME NEW c, Start(c) PROVE SoloInv' BY <1>4, <1>q DEF Start
<1>5. CASE ReadFile BY <1>5, <1>q DEF ReadFile
<1>6. CASE SweepRule
  <2>1. /\ dir'.case = dir.case /\ dir'.log = Append(dir.log, "tuning_run") /\ run' = run
        /\ dir'.manifest = dir.manifest /\ dir'.frozen = dir.frozen /\ dir.frozen
    BY <1>t, <1>6 DEF SweepRule, Directory
  <2>. QED BY <1>a, <2>1 DEF Since
<1>7. CASE UNCHANGED vars BY <1>7, <1>q DEF vars, readers
<1>. QED BY <1>1, <1>2, <1>3, <1>4, <1>5, <1>6, <1>7 DEF Next

----------------------------------------------------------------------------
(* What a command has read, against what the directory says now.           *)
LogRead(i) == Read(i, "log") \/ Read(i, "check")

(* Each read of the log begins the log of today and every later read.      *)
LogReadInv ==
    /\ \A i \in Reads : LogRead(i) => Value(i) \in Seq(Entries) /\ IsPrefix(Value(i), dir.log)
    /\ \A i, j \in Reads : i < j /\ LogRead(i) /\ LogRead(j) => IsPrefix(Value(i), Value(j))

(* A worked status once read has its event in the log.                     *)
CaseReadInv ==
    /\ \A i \in Reads : Read(i, "case") /\ Worked(Value(i)) => Contains(dir.log, Value(i))
    /\ StatusIsBacked

(* A manifest once read is there to stay; in the directory of one run it is *)
(* the one, cases read after it are worked and logs read after it go on    *)
(* from it.                                                                *)
SealReadInv ==
    /\ \A i \in Reads : IsManifest(i) => Sealed
    /\ \A i \in Reads : Read(i, "must") => IsManifest(i)
    /\ SealedIsSettled
    /\ ~Shared => \A i \in Reads : IsManifest(i) =>
          /\ Value(i) = dir.manifest /\ dir.manifest \in Seq(Entries)
          /\ \A j \in Reads : i < j /\ LogRead(j) => IsPrefix(dir.manifest, Value(j))
    /\ FailureIsExplained

ReadInv == LogReadInv /\ CaseReadInv /\ SealReadInv

LEMMA ReadInit == Init => ReadInv
<1>. SUFFICES ASSUME Init PROVE ReadInv
  OBVIOUS
<1>1. Reads = {} BY DEF Init, Idle, Reads
<1>. QED
  BY <1>1 DEF ReadInv, LogReadInv, CaseReadInv, SealReadInv, StatusIsBacked, SealedIsSettled,
              FailureIsExplained

(* A step either reads one file of a directory that stands still, or lets  *)
(* the log grow under the reads made so far.                               *)
Grows ==
    /\ cmd'.seen \in {cmd.seen, <<>>}
    /\ dir'.log = dir.log \/ \E e \in Entries : dir'.log = Append(dir.log, e)
    /\ Sealed => Sealed'
    /\ ~Shared' /\ dir'.manifest # dir.manifest =>
          ~Sealed /\ dir'.manifest = dir.log /\ dir'.log = dir.log
ReadsOne ==
    /\ UNCHANGED <<run, dir>>
    /\ \E file \in Files :
          /\ cmd'.seen = Append(cmd.seen, <<file, Content(file)>>)
          /\ file = "must" => Sealed

LEMMA StepShape ==
    ASSUME TypeOK, SoloInv, [Next]_vars
    PROVE  Grows \/ ReadsOne
<1>t. /\ run \in [Runs -> [step : Steps, chain : Seq(Entries)]]
      /\ dir \in Directory /\ dir.log \in Seq(Entries)
      /\ dir.manifest \in Seq(Entries) \cup {NoManifest}
      /\ cmd \in Requests
  BY DEF TypeOK, Directory
<1>n. ~Shared' => ~Shared BY SharedForGood
<1>s. {"case_opened", "resolved", "decided", "tuning_run"} \subseteq Entries BY DEF Entries
<1>q. ASSUME cmd'.seen \in {cmd.seen, <<>>}, dir'.manifest = dir.manifest,
             dir'.log = dir.log \/ \E e \in Entries : dir'.log = Append(dir.log, e)
      PROVE  Grows
  BY <1>q DEF Grows, Sealed
<1>1. ASSUME NEW r \in Runs, Engine(r) PROVE Grows
  <2>0. cmd' = cmd
    BY <1>1 DEF Engine, Create, RecordAlerts, RaiseNone, RecordCase, OpenCase, ResolveEvent,
                ResolveFile, TakeHash, WriteManifest, Freeze, Refused, Die, readers
  <2>1. CASE Create(r) \/ RecordAlerts(r) \/ RaiseNone(r) \/ RecordCase(r) \/ ResolveFile(r)
             \/ TakeHash(r) \/ Refused(r) \/ Die(r)
    <3>1. dir'.manifest = dir.manifest /\ dir'.log = dir.log
      BY <1>t, <2>1 DEF Create, RecordAlerts, RaiseNone, RecordCase, ResolveFile, TakeHash,
                        Refused, Die, Directory, readers
    <3>. QED BY <1>q, <2>0, <3>1
  <2>2. CASE OpenCase(r) \/ ResolveEvent(r)
    <3>1. /\ dir'.manifest = dir.manifest
          /\ \/ dir'.log = Append(dir.log, "case_opened")
             \/ dir'.log = Append(dir.log, "resolved")
      BY <1>t, <2>2 DEF OpenCase, ResolveEvent, Directory
    <3>. QED BY <1>q, <1>s, <2>0, <3>1
  <2>3. CASE WriteManifest(r)
    <3>1. dir'.manifest = run[r].chain /\ dir'.log = dir.log /\ run[r].step = "hashed"
      BY <1>t, <2>3 DEF WriteManifest, Moves, Directory
    <3>2. Sealed' BY <1>t, <3>1, NoManifestIsNoLog DEF Sealed
    <3>3. ~Shared' => ~Sealed /\ run[r].chain = dir.log BY <1>n, <3>1 DEF SoloInv
    <3>. QED BY <2>0, <3>1, <3>2, <3>3 DEF Grows
  <2>4. CASE Freeze(r)
    <3>1. dir'.manifest = run[r].chain /\ dir'.log = dir.log /\ run[r].step = "sealed"
      BY <1>t, <2>4 DEF Freeze, Directory, Moves
    <3>2. Sealed' BY <1>t, <3>1, NoManifestIsNoLog DEF Sealed
    <3>3. ~Shared' => run[r].chain = dir.manifest BY <1>n, <3>1 DEF SoloInv
    <3>. QED BY <2>0, <3>1, <3>2, <3>3 DEF Grows
  <2>. QED BY <1>1, <2>1, <2>2, <2>3, <2>4 DEF Engine
<1>2. CASE DecideEvent
  <2>1. dir'.manifest = dir.manifest /\ dir'.log = Append(dir.log, "decided")
    BY <1>t, <1>2 DEF DecideEvent, Directory
  <2>. QED BY <1>q, <1>s, <1>2, <2>1 DEF DecideEvent
<1>3. CASE DecideFile
  <2>1. dir'.manifest = dir.manifest /\ dir'.log = dir.log
    BY <1>t, <1>3 DEF DecideFile, Directory
  <2>. QED BY <1>q, <1>3, <2>1 DEF DecideFile
<1>4. ASSUME NEW c, Start(c) PROVE Grows BY <1>4, <1>q DEF Start
<1>5. CASE ReadFile
  <2>. DEFINE file == Head(cmd.left)
  <2>1. file \in Files BY <1>t, <1>5 DEF ReadFile, Requests
  <2>2. dir' = dir /\ run' = run BY <1>5 DEF ReadFile
  <2>3. \/ cmd'.seen = cmd.seen
        \/ /\ cmd'.seen = Append(cmd.seen, <<file, Content(file)>>)
           /\ file = "must" => Sealed
    BY <1>t, <1>5 DEF ReadFile, Sealed, Content, Requests
  <2>. HIDE DEF file
  <2>. QED BY <1>q, <2>1, <2>2, <2>3 DEF ReadsOne
<1>6. CASE SweepRule
  <2>1. dir'.manifest = dir.manifest /\ dir'.log = Append(dir.log, "tuning_run")
    BY <1>t, <1>6 DEF SweepRule, Directory
  <2>. QED BY <1>q, <1>s, <1>6, <2>1 DEF SweepRule
<1>7. CASE UNCHANGED vars BY <1>7, <1>q DEF vars, readers
<1>. QED BY <1>1, <1>2, <1>3, <1>4, <1>5, <1>6, <1>7 DEF Next

----------------------------------------------------------------------------
LEMMA Joined ==
    ASSUME NEW S, NEW s \in Seq(S), NEW t \in Seq(S)
    PROVE  /\ s \o t \in Seq(S) /\ Len(s \o t) = Len(s) + Len(t)
           /\ \A i \in 1..Len(s) : (s \o t)[i] = s[i]
           /\ \A i \in 1..Len(t) : (s \o t)[Len(s) + i] = t[i]
OBVIOUS

(* How the commands are written: the chain is checked against a manifest    *)
(* read before it, and a log used before the check was read after a "must". *)
LEMMA ChecksComeLate ==
    \A c \in Commands : \A j \in 1..Len(c) :
        c[j] = "check" =>
            /\ j > 1
            /\ \A i \in 1..(j - 1) : c[i] = "log" => \E m \in 1..(i - 1) : c[m] = "must"
<1>. DEFINE Late(c) == \A j \in 1..Len(c) :
        c[j] = "check" =>
            /\ j > 1
            /\ \A i \in 1..(j - 1) : c[i] = "log" => \E m \in 1..(i - 1) : c[m] = "must"
<1>1. Late(AuditPack) /\ Late(OutcomesPack) /\ Late(CasePack) /\ Late(BatchPack)
  BY DEF AuditPack, OutcomesPack, CasePack, BatchPack
<1>2. Late(Effectiveness) /\ Late(ModelRisk) /\ Late(AmlaEffectiveness) /\ Late(AmlaStr)
      /\ Late(GoAml) /\ Late(DraftNarrative)
  BY DEF Effectiveness, ModelRisk, AmlaEffectiveness, AmlaStr, GoAml, DraftNarrative
<1>3. Late(QueueRank) /\ Late(NotifyDigest) /\ Late(Today) /\ Late(Lineage) /\ Late(Export)
      /\ Late(Replay)
  BY DEF QueueRank, NotifyDigest, Today, Lineage, Export, Replay
<1>4. Late(VerifyDecisions) BY DEF VerifyDecisions
<1>5. Late(WhistleblowerAudit)
  <2>. DEFINE s == <<"must", "log">>
              c == WhistleblowerAudit
  <2>1. s \in Seq(Files) /\ Len(s) = 2 /\ s[1] = "must" /\ s[2] = "log"
    BY DEF Files
  <2>2. /\ VerifyDecisions \in Seq(Files) /\ Len(VerifyDecisions) = 2
        /\ VerifyDecisions[1] = "manifest" /\ VerifyDecisions[2] = "check"
    BY DEF Files, VerifyDecisions
  <2>3. c = s \o VerifyDecisions BY DEF WhistleblowerAudit
  <2>. HIDE DEF s, c
  <2>4. Len(c) = 4 /\ c[1] = s[1] /\ c[2] = s[2]
        /\ c[2 + 1] = VerifyDecisions[1] /\ c[2 + 2] = VerifyDecisions[2]
    <3>1. /\ Len(c) = Len(s) + Len(VerifyDecisions)
          /\ \A i \in 1..Len(s) : c[i] = s[i]
          /\ \A i \in 1..Len(VerifyDecisions) : c[Len(s) + i] = VerifyDecisions[i]
      <4>. DEFINE t == VerifyDecisions
      <4>1. s \in Seq(Files) /\ t \in Seq(Files) BY <2>1, <2>2
      <4>. HIDE DEF t
      <4>2. /\ Len(s \o t) = Len(s) + Len(t)
            /\ \A i \in 1..Len(s) : (s \o t)[i] = s[i]
            /\ \A i \in 1..Len(t) : (s \o t)[Len(s) + i] = t[i]
        BY <4>1, Joined
      <4>. QED BY <2>3, <4>2 DEF t
    <3>2. c[Len(s) + 1] = VerifyDecisions[1] /\ c[Len(s) + 2] = VerifyDecisions[2]
      BY <2>2, <3>1
    <3>. QED BY <2>1, <2>2, <3>1, <3>2
  <2>5. Len(c) = 4 /\ c[1] = "must" /\ c[2] = "log" /\ c[3] = "manifest" /\ c[4] = "check"
    BY <2>1, <2>2, <2>4
  <2>6. Late(c) BY <2>5
  <2>. QED BY <2>6 DEF c
<1>6. Late(AuditorPack)
  <2>. DEFINE Once(c) == /\ c \in Seq(Files) /\ Len(c) >= 2 /\ c[1] = "manifest"
                         /\ \A j \in 3..Len(c) : c[j] # "check"
  <2>1. Once(VerifyDecisions) BY DEF VerifyDecisions, Files
  <2>2. ASSUME NEW s, Once(s), NEW t \in Seq(Files), \A j \in 1..Len(t) : t[j] # "check"
        PROVE  Once(s \o t)
    <3>. DEFINE c == s \o t
    <3>1. /\ c \in Seq(Files) /\ Len(c) = Len(s) + Len(t)
          /\ \A i \in 1..Len(s) : c[i] = s[i]
          /\ \A i \in 1..Len(t) : c[Len(s) + i] = t[i]
      BY <2>2, Joined
    <3>2. Len(s) \in Nat /\ Len(t) \in Nat BY <2>2
    <3>. HIDE DEF c
    <3>3. ASSUME NEW j \in 3..Len(c) PROVE c[j] # "check"
      <4>1. CASE j <= Len(s) BY <2>2, <3>1, <3>2, <4>1
      <4>2. CASE j > Len(s)
        <5>1. j - Len(s) \in 1..Len(t) /\ c[Len(s) + (j - Len(s))] = t[j - Len(s)]
          BY SMTT(20), <3>1, <3>2, <4>2
        <5>2. Len(s) + (j - Len(s)) = j BY <3>2
        <5>. QED BY <2>2, <5>1, <5>2
      <4>. QED BY <3>2, <4>1, <4>2
    <3>4. Once(c) BY <2>2, <3>1, <3>2, <3>3
    <3>. QED BY <3>4 DEF c
  <2>3. ASSUME NEW t \in {AuditPack, Effectiveness, <<"manifest", "log">>}
        PROVE  t \in Seq(Files) /\ \A j \in 1..Len(t) : t[j] # "check"
    <3>1. AuditPack \in Seq(Files) /\ \A j \in 1..Len(AuditPack) : AuditPack[j] # "check"
      BY DEF AuditPack, Files
    <3>2. /\ Effectiveness \in Seq(Files)
          /\ \A j \in 1..Len(Effectiveness) : Effectiveness[j] # "check"
      BY DEF Effectiveness, Files
    <3>3. /\ <<"manifest", "log">> \in Seq(Files)
          /\ \A j \in 1..Len(<<"manifest", "log">>) : <<"manifest", "log">>[j] # "check"
      BY DEF Files
    <3>. QED BY <2>3, <3>1, <3>2, <3>3
  <2>. HIDE DEF Once
  <2>4. Once(VerifyDecisions \o AuditPack) BY <2>1, <2>2, <2>3
  <2>5. Once((VerifyDecisions \o AuditPack) \o Effectiveness) BY <2>2, <2>3, <2>4
  <2>6. Once(AuditorPack) BY <2>2, <2>3, <2>5 DEF AuditorPack
  <2>7. \A c : Once(c) => Late(c) BY DEF Once
  <2>. QED BY <2>6, <2>7
<1>. HIDE DEF Late
<1>7. \A c \in Commands : Late(c)
  BY <1>1, <1>2, <1>3, <1>4, <1>5, <1>6 DEF Commands
<1>. QED BY <1>7 DEF Late

(* The same of a command half served.                                      *)
PlanInv ==
    /\ \A j \in 1..Len(cmd.left) : cmd.left[j] = "check" =>
          /\ j > 1 \/ Len(cmd.seen) > 0
          /\ \A i \in 1..(j - 1) : cmd.left[i] = "log" =>
                \/ \E m \in 1..(i - 1) : cmd.left[m] = "must"
                \/ \E m \in Reads : Read(m, "must")
          /\ \A i \in Reads : Read(i, "log") => \E m \in 1..(i - 1) : Read(m, "must")
    /\ \A j \in Reads : Read(j, "check") =>
          /\ j > 1
          /\ \A i \in 1..(j - 1) : Read(i, "log") => \E m \in 1..(i - 1) : Read(m, "must")

LEMMA PlanInit == Init => PlanInv
BY DEF Init, PlanInv, Idle, Reads

LEMMA PlanStep == TypeOK /\ PlanInv /\ [Next]_vars => PlanInv'
<1>. SUFFICES ASSUME TypeOK, PlanInv, [Next]_vars PROVE PlanInv'
  OBVIOUS
<1>t. /\ cmd \in Requests
      /\ cmd.left \in Seq(Files) /\ cmd.seen \in Seq(Files \X Contents)
  BY DEF TypeOK, Requests
<1>q. cmd' = cmd => PlanInv' BY DEF PlanInv, Reads, Read
<1>e. cmd'.seen = cmd.seen /\ cmd'.left = <<>> => PlanInv'
  BY DEF PlanInv, Reads, Read
<1>1. ASSUME NEW c \in Commands, Start(c) PROVE PlanInv'
  <2>1. cmd'.left = c /\ cmd'.seen = <<>> BY <1>1 DEF Start
  <2>2. Reads' = {} BY <2>1 DEF Reads
  <2>. QED BY <2>1, <2>2, ChecksComeLate DEF PlanInv
<1>2. CASE ReadFile
  <2>. DEFINE file == Head(cmd.left)
  <2>1. cmd.left # <<>> /\ file \in Files BY <1>t, <1>2 DEF ReadFile
  <2>2. \/ cmd'.seen = cmd.seen /\ cmd'.left = <<>>
        \/ cmd'.seen = Append(cmd.seen, <<file, Content(file)>>) /\ cmd'.left = Tail(cmd.left)
    BY <1>t, <1>2 DEF ReadFile
  <2>. DEFINE left == cmd'.left
  <2>n. PICK n : n = Len(cmd.seen) OBVIOUS
  <2>3. CASE cmd'.seen = Append(cmd.seen, <<file, Content(file)>>) /\ cmd'.left = Tail(cmd.left)
    <3>1. /\ Len(left) = Len(cmd.left) - 1 /\ Len(left) \in Nat /\ cmd.left[1] = file
          /\ \A k \in 1..Len(left) : k + 1 \in 1..Len(cmd.left) /\ left[k] = cmd.left[k + 1]
      BY <1>t, <2>1, <2>3
    <3>2. /\ n \in Nat /\ Reads' = 1..(n + 1) /\ Reads = 1..n /\ Len(cmd'.seen) = n + 1
          /\ \A i \in 1..n : cmd'.seen[i] = cmd.seen[i]
          /\ cmd'.seen[n + 1][1] = file
      BY <1>t, <2>3, <2>n DEF Reads
    <3>3. /\ \A f : Read(n + 1, f)' <=> f = file
          /\ \A i \in 1..n : \A f : Read(i, f)' <=> Read(i, f)
      BY <3>2 DEF Read
    <3>. HIDE DEF left, file
    <3>4. file = "check" => /\ n > 0
                            /\ \A i \in 1..n : Read(i, "log") => \E m \in 1..(i - 1) : Read(m, "must")
      BY <1>t, <2>1, <2>n, <3>1, <3>2 DEF PlanInv
    <3>5. ASSUME NEW j \in Reads', Read(j, "check")'
          PROVE  /\ j > 1
                 /\ \A i \in 1..(j - 1) : Read(i, "log")' => \E m \in 1..(i - 1) : Read(m, "must")'
      <4>1. CASE j = n + 1
        <5>1. file = "check" BY <3>3, <3>5, <4>1
        <5>. QED BY <3>2, <3>3, <3>4, <4>1, <5>1
      <4>2. CASE j \in 1..n
        <5>1. Read(j, "check") BY <3>3, <3>5, <4>2
        <5>2. /\ j > 1
              /\ \A i \in 1..(j - 1) : Read(i, "log") => \E m \in 1..(i - 1) : Read(m, "must")
          BY <3>2, <4>2, <5>1 DEF PlanInv
        <5>. QED BY <3>2, <3>3, <4>2, <5>2
      <4>. QED BY <3>2, <3>5, <4>1, <4>2
    <3>6. ASSUME NEW j \in 1..Len(left), left[j] = "check"
          PROVE  /\ j > 1 \/ Len(cmd'.seen) > 0
                 /\ \A i \in 1..(j - 1) : left[i] = "log" =>
                       \/ \E m \in 1..(i - 1) : left[m] = "must"
                       \/ \E m \in Reads' : Read(m, "must")'
                 /\ \A i \in Reads' : Read(i, "log")' => \E m \in 1..(i - 1) : Read(m, "must")'
      <4>1. cmd.left[j + 1] = "check" /\ j + 1 \in 1..Len(cmd.left) BY <3>1, <3>6
      <4>2. /\ \A i \in 1..j : cmd.left[i] = "log" =>
                  \/ \E m \in 1..(i - 1) : cmd.left[m] = "must"
                  \/ \E m \in Reads : Read(m, "must")
            /\ \A i \in Reads : Read(i, "log") => \E m \in 1..(i - 1) : Read(m, "must")
        BY <4>1 DEF PlanInv
      <4>3. Len(cmd'.seen) > 0 BY <3>2
      <4>4. ASSUME NEW i \in 1..(j - 1), left[i] = "log"
            PROVE  \/ \E m \in 1..(i - 1) : left[m] = "must"
                   \/ \E m \in Reads' : Read(m, "must")'
        <5>1. cmd.left[i + 1] = "log" /\ i + 1 \in 1..j BY <3>1, <4>4
        <5>2. CASE \E m \in Reads : Read(m, "must") BY <3>2, <3>3, <5>2
        <5>3. ASSUME NEW m \in 1..i, cmd.left[m] = "must"
              PROVE  \/ \E k \in 1..(i - 1) : left[k] = "must"
                     \/ \E k \in Reads' : Read(k, "must")'
          <6>1. CASE m = 1
            <7>1. Read(n + 1, "must")' BY <3>1, <3>3, <5>3, <6>1
            <7>. QED BY <3>2, <7>1
          <6>2. CASE m # 1
            <7>1. m - 1 \in 1..(i - 1) /\ left[m - 1] = cmd.left[m] BY <3>1, <4>4, <5>3, <6>2
            <7>. QED BY <5>3, <7>1
          <6>. QED BY <6>1, <6>2
        <5>. QED BY <4>2, <5>1, <5>2, <5>3
      <4>5. ASSUME NEW i \in Reads', Read(i, "log")'
            PROVE  \E m \in 1..(i - 1) : Read(m, "must")'
        <5>1. CASE i = n + 1
          <6>1. file = "log" BY <3>3, <4>5, <5>1
          <6>2. \E m \in Reads : Read(m, "must")
            <7>1. 1 \in 1..j /\ cmd.left[1] = "log" BY <3>1, <6>1
            <7>2. ~ \E m \in 1..(1 - 1) : cmd.left[m] = "must" OBVIOUS
            <7>. QED BY <4>2, <7>1, <7>2
          <6>. QED BY <3>2, <3>3, <5>1, <6>2
        <5>2. CASE i \in 1..n
          <6>1. Read(i, "log") BY <3>3, <4>5, <5>2
          <6>2. PICK m \in 1..(i - 1) : Read(m, "must") BY <3>2, <4>2, <5>2, <6>1
          <6>3. m \in 1..n BY <3>2, <5>2, <6>2
          <6>. QED BY <3>3, <6>2, <6>3
        <5>. QED BY <3>2, <4>5, <5>1, <5>2
      <4>. QED BY <4>3, <4>4, <4>5
    <3>. QED BY <3>5, <3>6 DEF PlanInv, left
  <2>. QED BY <1>e, <2>2, <2>3
<1>4. CASE cmd' = cmd BY <1>q, <1>4
<1>. QED
  BY <1>1, <1>2, <1>4
  DEF Next, vars, readers, Engine, Create, RecordAlerts, RaiseNone, RecordCase, OpenCase,
      ResolveEvent, ResolveFile, TakeHash, WriteManifest, Freeze, Refused, Die, DecideEvent,
      DecideFile, SweepRule

----------------------------------------------------------------------------
(* Reads made so far stay true of a log that grows.                        *)
LEMMA GrowsKeepsReads ==
    ASSUME TypeOK, TypeOK', ReadInv, Grows, Shared => Shared'
    PROVE  ReadInv'
<1>t. dir.log \in Seq(Entries) /\ cmd'.seen \in Seq(Files \X Contents)
  BY DEF TypeOK, Directory, Requests
<1>1. CASE cmd'.seen = <<>>
  <2>1. Reads' = {} BY <1>1 DEF Reads
  <2>. QED
    BY <2>1 DEF ReadInv, LogReadInv, CaseReadInv, SealReadInv, StatusIsBacked, SealedIsSettled,
                FailureIsExplained
<1>2. CASE cmd'.seen = cmd.seen
  <2>1. \A x : Contains(dir.log, x) => Contains(dir'.log, x)
    <3>1. \A e \in Entries : \A x : Contains(dir.log, x) => Contains(Append(dir.log, e), x)
      BY <1>t, ContainsGrows
    <3>. QED BY <3>1 DEF Grows
  <2>2. \A s \in Seq(Entries) : IsPrefix(s, dir.log) => IsPrefix(s, dir'.log)
    BY <1>t, PrefixGrows DEF Grows
  <2>3. LogReadInv'
    BY <1>2, <2>2 DEF ReadInv, LogReadInv, LogRead, Reads, Read, Value
  <2>4. CaseReadInv'
    BY <1>2, <2>1 DEF ReadInv, CaseReadInv, StatusIsBacked, Worked, Reads, Read, Value
  <2>5. /\ Reads' = Reads /\ \A i : /\ Value(i)' = Value(i) /\ (IsManifest(i)' <=> IsManifest(i))
                                    /\ LogRead(i)' <=> LogRead(i)
                                    /\ Failed(i)' <=> Failed(i)
                                    /\ \A f : Read(i, f)' <=> Read(i, f)
    <3>1. Reads' = Reads /\ \A i : /\ Value(i)' = Value(i)
                                   /\ \A f : Read(i, f)' <=> Read(i, f)
      BY <1>2 DEF Reads, Read, Value
    <3>2. \A i : IsManifest(i)' <=> IsManifest(i) BY <1>2 DEF IsManifest, Read, Value
    <3>3. \A i : LogRead(i)' <=> LogRead(i) BY <1>2 DEF LogRead, Read
    <3>4. \A i : Failed(i)' <=> Failed(i)
      BY <1>2 DEF Failed, IsManifest, Read, Value
    <3>. QED BY <3>1, <3>2, <3>3, <3>4
  <2>6. SealReadInv'
    <3>1. \A i \in Reads' : IsManifest(i)' => Sealed'
      BY <2>5 DEF ReadInv, SealReadInv, Grows
    <3>2. \A i \in Reads' : Read(i, "must")' => IsManifest(i)'
      BY <2>5 DEF ReadInv, SealReadInv
    <3>3. SealedIsSettled' BY <2>5 DEF ReadInv, SealReadInv, SealedIsSettled
    <3>4. FailureIsExplained' BY <2>5 DEF ReadInv, SealReadInv, FailureIsExplained
    <3>5. ASSUME ~Shared', NEW i \in Reads', IsManifest(i)'
          PROVE  /\ Value(i)' = dir'.manifest /\ dir'.manifest \in Seq(Entries)
                 /\ \A j \in Reads' : i < j /\ LogRead(j)' => IsPrefix(dir'.manifest, Value(j)')
      <4>1. dir'.manifest = dir.manifest
        BY <2>5, <3>5 DEF Grows, ReadInv, SealReadInv
      <4>2. /\ Value(i) = dir.manifest /\ dir.manifest \in Seq(Entries)
            /\ \A j \in Reads : i < j /\ LogRead(j) => IsPrefix(dir.manifest, Value(j))
        BY <2>5, <3>5 DEF ReadInv, SealReadInv
      <4>. QED BY <2>5, <4>1, <4>2
    <3>. QED BY <3>1, <3>2, <3>3, <3>4, <3>5 DEF SealReadInv
  <2>. QED BY <2>3, <2>4, <2>6 DEF ReadInv
<1>. QED BY <1>1, <1>2 DEF Grows

(* A read of a directory that stands still fits the reads before it.       *)
LEMMA ReadsOneKeepsReads ==
    ASSUME TypeOK, TypeOK', BackedInv, SoloInv, PlanInv', ReadInv, ReadsOne
    PROVE  ReadInv'
<1>t. /\ dir.log \in Seq(Entries) /\ cmd.seen \in Seq(Files \X Contents)
      /\ dir.manifest \in Seq(Entries) \cup {NoManifest}
  BY DEF TypeOK, Directory, Requests
<1>0. PICK file \in Files : /\ cmd'.seen = Append(cmd.seen, <<file, Content(file)>>)
                            /\ file = "must" => Sealed
  BY DEF ReadsOne
<1>n. PICK n : n = Len(cmd.seen) OBVIOUS
<1>c. PICK v : v = Content(file) OBVIOUS
<1>d. dir' = dir /\ run' = run BY DEF ReadsOne
<1>1. /\ n \in Nat /\ Reads' = 1..(n + 1) /\ Reads = 1..n
      /\ \A i \in 1..n : cmd'.seen[i] = cmd.seen[i]
      /\ cmd'.seen[n + 1] = <<file, v>>
  BY <1>t, <1>0, <1>n, <1>c DEF Reads
<1>2. /\ Value(n + 1)' = v /\ \A f : Read(n + 1, f)' <=> f = file
      /\ \A i \in 1..n : Value(i)' = Value(i) /\ \A f : Read(i, f)' <=> Read(i, f)
  BY <1>1 DEF Read, Value
<1>3. /\ \A i \in 1..n : (IsManifest(i)' <=> IsManifest(i)) /\ (LogRead(i)' <=> LogRead(i))
      /\ LogRead(n + 1)' <=> file \in {"log", "check"}
      /\ IsManifest(n + 1)' <=> file \in {"must", "manifest"} /\ v # NoManifest
  BY <1>2 DEF IsManifest, LogRead, Read, Value
<1>4. /\ file \in {"log", "check"} => v = dir.log
      /\ file \in {"must", "manifest"} => v = dir.manifest
      /\ file = "case" => v = dir.case
  BY <1>c DEF Content
<1>5. (Sealed' <=> Sealed) /\ (Shared' <=> Shared) BY <1>d DEF Sealed, Shared
<1>i. \A i : i \in Reads' <=> i \in Reads \/ i = n + 1 BY <1>1
<1>v. LogReadInv /\ CaseReadInv /\ SealReadInv BY DEF ReadInv
<1>6. LogReadInv'
  <2>1. ASSUME NEW i \in Reads', LogRead(i)'
        PROVE  Value(i)' \in Seq(Entries) /\ IsPrefix(Value(i)', dir'.log)
    <3>1. CASE i = n + 1
      <4>1. Value(n + 1)' = dir.log BY <1>2, <1>3, <1>4, <2>1, <3>1
      <4>. QED BY <1>t, <1>d, <3>1, <4>1, PrefixOfItself
    <3>2. CASE i \in Reads BY <1>1, <1>2, <1>3, <1>d, <1>v, <2>1, <3>2 DEF LogReadInv
    <3>. QED BY <1>i, <3>1, <3>2
  <2>2. ASSUME NEW i \in Reads', NEW j \in Reads', i < j, LogRead(i)', LogRead(j)'
        PROVE  IsPrefix(Value(i)', Value(j)')
    <3>1. i \in 1..n BY <1>1, <2>2
    <3>2. CASE j = n + 1
      <4>1. Value(n + 1)' = dir.log BY <1>2, <1>3, <1>4, <2>2, <3>2
      <4>2. IsPrefix(Value(i)', dir'.log) BY <2>1, <2>2
      <4>. QED BY <1>d, <3>2, <4>1, <4>2
    <3>3. CASE j \in Reads BY <1>1, <1>2, <1>3, <1>v, <2>2, <3>1, <3>3 DEF LogReadInv
    <3>. QED BY <1>i, <3>2, <3>3
  <2>. QED BY <2>1, <2>2 DEF LogReadInv
<1>7. CaseReadInv'
  <2>1. ASSUME NEW i \in Reads', Read(i, "case")', Worked(Value(i)')
        PROVE  Contains(dir'.log, Value(i)')
    <3>1. CASE i = n + 1
      <4>1. Value(n + 1)' = dir.case BY <1>2, <1>4, <2>1, <3>1
      <4>. QED BY <1>d, <2>1, <3>1, <4>1 DEF BackedInv
    <3>2. CASE i \in Reads BY <1>1, <1>2, <1>d, <1>v, <2>1, <3>2 DEF CaseReadInv
    <3>. QED BY <1>i, <3>1, <3>2
  <2>2. ASSUME NEW i \in Reads', NEW j \in Reads', i < j,
               Read(i, "case")', Read(j, "log")', Worked(Value(i)')
        PROVE  Contains(Value(j)', Value(i)')
    <3>1. i \in 1..n BY <1>1, <2>2
    <3>2. CASE j = n + 1
      <4>1. Value(n + 1)' = dir.log BY <1>2, <1>4, <2>2, <3>2
      <4>. QED BY <1>d, <2>1, <2>2, <3>2, <4>1
    <3>3. CASE j \in Reads
      BY <1>1, <1>2, <1>v, <2>2, <3>1, <3>3 DEF CaseReadInv, StatusIsBacked, Worked
    <3>. QED BY <1>i, <3>2, <3>3
  <2>. QED BY <2>1, <2>2 DEF CaseReadInv, StatusIsBacked, Worked
<1>8. SealReadInv'
  <2>1. ASSUME NEW i \in Reads', IsManifest(i)' PROVE Sealed'
    <3>1. CASE i = n + 1 BY <1>3, <1>4, <1>5, <2>1, <3>1 DEF Sealed
    <3>2. CASE i \in Reads BY <1>1, <1>3, <1>5, <1>v, <2>1, <3>2 DEF SealReadInv
    <3>. QED BY <1>i, <3>1, <3>2
  <2>2. ASSUME NEW i \in Reads', Read(i, "must")' PROVE IsManifest(i)'
    <3>1. CASE i = n + 1 BY <1>0, <1>2, <1>3, <1>4, <2>2, <3>1 DEF Sealed
    <3>2. CASE i \in Reads BY <1>1, <1>2, <1>3, <1>v, <2>2, <3>2 DEF SealReadInv
    <3>. QED BY <1>i, <3>1, <3>2
  <2>3. ASSUME NEW i \in Reads', NEW j \in Reads', i < j, IsManifest(i)', Read(j, "case")', ~Shared'
        PROVE  /\ Value(j)' # "open"
               /\ Contains(Value(i)', "case_opened") => Value(j)' # "none"
    <3>1. i \in 1..n BY <1>1, <2>3
    <3>2. IsManifest(i) /\ Value(i)' = Value(i) BY <1>2, <1>3, <2>3, <3>1
    <3>3. CASE j = n + 1
      <4>1. Value(n + 1)' = dir.case BY <1>2, <1>4, <2>3, <3>3
      <4>2. Sealed /\ ~Shared BY <1>5, <2>1, <2>3
      <4>3. dir.case # "open" /\ IsPrefix(dir.manifest, dir.log) BY <4>2 DEF SoloInv
      <4>4. Value(i) = dir.manifest /\ dir.manifest \in Seq(Entries)
        BY <1>1, <1>v, <3>1, <3>2, <4>2 DEF SealReadInv
      <4>5. Contains(dir.manifest, "case_opened") => Contains(dir.log, "case_opened")
        BY <1>t, <4>3, <4>4, PrefixByPlaces DEF Contains
      <4>. QED BY <3>2, <3>3, <4>1, <4>3, <4>4, <4>5 DEF BackedInv
    <3>4. CASE j \in Reads
      <4>1. Read(j, "case") /\ Value(j)' = Value(j) BY <1>1, <1>2, <2>3, <3>4
      <4>. QED BY <1>1, <1>5, <1>v, <2>3, <3>1, <3>2, <3>4, <4>1 DEF SealReadInv, SealedIsSettled
    <3>. QED BY <1>i, <3>3, <3>4
  <2>4. ASSUME ~Shared', NEW i \in Reads', IsManifest(i)'
        PROVE  /\ Value(i)' = dir'.manifest /\ dir'.manifest \in Seq(Entries)
               /\ \A j \in Reads' : i < j /\ LogRead(j)' => IsPrefix(dir'.manifest, Value(j)')
    <3>1. Sealed /\ ~Shared /\ dir.manifest \in Seq(Entries)
      BY <1>t, <1>5, <2>1, <2>4 DEF Sealed
    <3>2. IsPrefix(dir.manifest, dir.log) BY <3>1 DEF SoloInv
    <3>3. Value(i)' = dir'.manifest
      <4>1. CASE i = n + 1 BY <1>2, <1>3, <1>4, <1>d, <2>4, <4>1
      <4>2. CASE i \in Reads
        BY <1>1, <1>2, <1>3, <1>d, <1>v, <2>4, <3>1, <4>2 DEF SealReadInv
      <4>. QED BY <1>i, <4>1, <4>2
    <3>4. ASSUME NEW j \in Reads', i < j, LogRead(j)' PROVE IsPrefix(dir'.manifest, Value(j)')
      <4>1. i \in 1..n BY <1>1, <3>4
      <4>2. CASE j = n + 1 BY <1>2, <1>3, <1>4, <1>d, <3>2, <3>4, <4>2
      <4>3. CASE j \in Reads
        BY <1>1, <1>2, <1>3, <1>d, <1>v, <2>4, <3>1, <3>4, <4>1, <4>3 DEF SealReadInv
      <4>. QED BY <1>i, <4>2, <4>3
    <3>. QED BY <1>d, <3>1, <3>3, <3>4
  <2>5. ASSUME NEW i \in Reads', Failed(i)', ~Shared', Value(i - 1)' # <<>>
        PROVE  \E e \in Since : Contains(Value(i)', e)
    <3>1. Read(i, "check")' /\ IsManifest(i - 1)' /\ Value(i)' # Value(i - 1)'
      BY <2>5 DEF Failed
    <3>2. i > 1 BY <2>5, <3>1 DEF PlanInv
    <3>3. i - 1 \in 1..n /\ i \in 1..(n + 1) BY <1>1, <2>5, <3>2
    <3>4. ~Shared /\ Value(i - 1)' = dir.manifest /\ dir.manifest \in Seq(Entries)
      BY <1>1, <1>5, <1>d, <2>4, <2>5, <3>1, <3>3
    <3>5. CASE i = n + 1
      <4>1. Value(i)' = dir.log BY <1>2, <1>4, <3>1, <3>5
      <4>2. Sealed BY <3>4, NoManifestIsNoLog DEF Sealed
      <4>3. /\ IsPrefix(dir.manifest, dir.log) /\ dir.log # dir.manifest
            /\ \A k \in 1..Len(dir.log) : k > Len(dir.manifest) => dir.log[k] \in Since
        BY <3>1, <3>4, <4>1, <4>2 DEF SoloInv
      <4>4. /\ Len(dir.manifest) <= Len(dir.log)
            /\ \A k \in 1..Len(dir.manifest) : dir.manifest[k] = dir.log[k]
        BY <1>t, <3>4, <4>3, PrefixByPlaces
      <4>5. Len(dir.manifest) < Len(dir.log) BY <1>t, <3>4, <4>3, <4>4
      <4>6. dir.log[Len(dir.log)] \in Since /\ Len(dir.log) \in 1..Len(dir.log)
        BY <1>t, <3>4, <4>3, <4>5
      <4>7. Contains(dir.log, dir.log[Len(dir.log)]) BY <4>6 DEF Contains
      <4>. QED BY <4>1, <4>6, <4>7
    <3>6. CASE i \in Reads
      <4>1. Value(i)' = Value(i) /\ Read(i, "check") BY <1>1, <1>2, <3>1, <3>6
      <4>2. Value(i - 1)' = Value(i - 1) /\ IsManifest(i - 1) BY <1>2, <1>3, <3>1, <3>3
      <4>3. Failed(i) BY <3>1, <4>1, <4>2 DEF Failed
      <4>. QED BY <1>v, <2>5, <3>4, <3>6, <4>1, <4>2, <4>3 DEF SealReadInv, FailureIsExplained
    <3>. QED BY <1>i, <2>5, <3>5, <3>6
  <2>6. SealedIsSettled' BY <2>3 DEF SealedIsSettled
  <2>7. FailureIsExplained' BY <2>5 DEF FailureIsExplained
  <2>. QED BY <2>1, <2>2, <2>4, <2>6, <2>7 DEF SealReadInv
<1>. QED BY <1>6, <1>7, <1>8 DEF ReadInv

----------------------------------------------------------------------------
Inv == TypeOK /\ BackedInv /\ SoloInv /\ PlanInv /\ ReadInv

LEMMA Inductive == Inv /\ [Next]_vars => Inv'
<1>. SUFFICES ASSUME Inv, [Next]_vars PROVE Inv'
  OBVIOUS
<1>1. TypeOK /\ BackedInv /\ SoloInv /\ PlanInv /\ ReadInv BY DEF Inv
<1>2. TypeOK' BY <1>1, TypeStep
<1>3. BackedInv' BY <1>1, BackedStep
<1>4. SoloInv' BY <1>1, SoloStep
<1>5. PlanInv' BY <1>1, PlanStep
<1>6. Shared => Shared' BY <1>1, SharedForGood
<1>7. Grows \/ ReadsOne BY <1>1, StepShape
<1>8. ReadInv' BY <1>1, <1>2, <1>5, <1>6, <1>7, GrowsKeepsReads, ReadsOneKeepsReads
<1>. QED BY <1>2, <1>3, <1>4, <1>5, <1>8 DEF Inv

LEMMA Always == Spec => []Inv
<1>1. Init => Inv BY TypeInit, BackedInit, PlanInit, ReadInit DEF Inv
<1>. QED BY <1>1, Inductive, PTL DEF Spec

(* Evidence drawn from a case file and then the log never shows a worked    *)
(* case without its event, whatever is written between the two reads.      *)
THEOREM StatusesAreBacked == Spec => []StatusIsBacked
<1>1. Inv => StatusIsBacked BY DEF Inv, ReadInv, CaseReadInv
<1>. QED BY <1>1, Always, PTL

(* A command that has seen a manifest sees every case the sealed log opened,*)
(* and none still open, in a directory of one run.                         *)
THEOREM SealsAreSettled == Spec => []SealedIsSettled
<1>1. Inv => SealedIsSettled BY DEF Inv, ReadInv, SealReadInv
<1>. QED BY <1>1, Always, PTL

(* A run that logged anything and was left alone verifies: where the check  *)
(* fails in a directory of one run, the log was sealed empty, or an analyst *)
(* has decided a case or swept a rule since.                               *)
THEOREM FailuresAreExplained == Spec => []FailureIsExplained
<1>1. Inv => FailureIsExplained BY DEF Inv, ReadInv, SealReadInv
<1>. QED BY <1>1, Always, PTL

(* A log that verified begins every log copied after it, and in a directory *)
(* of one run it is the log counted before it.                             *)
THEOREM VerifiedIsEvidence == Spec => []VerifiedLogIsTheEvidence
<1>1. Inv => VerifiedLogIsTheEvidence
  <2>. SUFFICES ASSUME Inv, NEW i \in Reads, Verified(i), NEW j \in Reads, Read(j, "log")
                PROVE  /\ j > i => IsPrefix(Value(i), Value(j))
                       /\ j < i /\ ~Shared => Value(j) = Value(i)
    BY DEF VerifiedLogIsTheEvidence
  <2>1. LogReadInv /\ SealReadInv /\ PlanInv BY DEF Inv, ReadInv
  <2>2. Read(i, "check") /\ IsManifest(i - 1) /\ Value(i) = Value(i - 1) BY DEF Verified
  <2>3. LogRead(i) /\ LogRead(j) BY <2>2 DEF LogRead
  <2>4. j > i => IsPrefix(Value(i), Value(j))
    <3>1. i \in Int /\ j \in Int BY DEF Reads, Inv, TypeOK, Requests
    <3>. QED BY <2>1, <2>3, <3>1 DEF LogReadInv
  <2>5. ASSUME j < i, ~Shared PROVE Value(j) = Value(i)
    <3>1. Reads = 1..Len(cmd.seen) /\ Len(cmd.seen) \in Nat BY DEF Inv, TypeOK, Requests, Reads
    <3>2. PICK m \in 1..(j - 1) : Read(m, "must")
      <4>1. j \in 1..(i - 1) BY <2>5, <3>1
      <4>. QED BY <2>1, <2>2, <4>1 DEF PlanInv
    <3>3. m \in Reads /\ m < j BY <3>1, <3>2
    <3>4. IsManifest(m) BY <2>1, <3>2, <3>3 DEF SealReadInv
    <3>5. dir.manifest \in Seq(Entries) /\ IsPrefix(dir.manifest, Value(j))
      BY <2>1, <2>3, <2>5, <3>3, <3>4 DEF SealReadInv
    <3>6. i - 1 \in Reads BY <2>5, <3>1
    <3>7. Value(i) = dir.manifest BY <2>1, <2>2, <2>5, <3>6 DEF SealReadInv
    <3>8. Value(j) \in Seq(Entries) /\ IsPrefix(Value(j), Value(i))
      BY <2>1, <2>3, <2>5 DEF LogReadInv
    <3>. QED BY <3>5, <3>7, <3>8, PrefixBothWays
  <2>. QED BY <2>4, <2>5
<1>. QED BY <1>1, Always, PTL

----------------------------------------------------------------------------
(* The directory as its readers may see it: the log, and what is sealed.    *)
Evidence == INSTANCE EvidenceLog WITH entries <- dir.log, seal <- dir.manifest, NoSeal <- NoManifest

LEMMA StepIsEvidence ==
    ASSUME TypeOK, SoloInv, [Next]_vars
    PROVE  /\ Evidence!Continues(dir.log, dir'.log)
           /\ Evidence!Next \/ Shared'
<1>1. dir.log \in Seq(Entries) BY DEF TypeOK, Directory
<1>2. /\ dir'.log = dir.log \/ \E e \in Entries : dir'.log = Append(dir.log, e)
      /\ ~Shared' /\ dir'.manifest # dir.manifest =>
            ~Sealed /\ dir'.manifest = dir.log /\ dir'.log = dir.log
  BY StepShape DEF Grows, ReadsOne
<1>3. Evidence!Continues(dir.log, dir'.log)
  <2>1. CASE dir'.log = dir.log BY <1>1, <2>1 DEF Evidence!Continues
  <2>2. ASSUME NEW e \in Entries, dir'.log = Append(dir.log, e)
        PROVE  Evidence!Continues(dir.log, dir'.log)
    <3>1. /\ Len(Append(dir.log, e)) = Len(dir.log) + 1 /\ Len(dir.log) \in Nat
          /\ \A i \in 1..Len(dir.log) : Append(dir.log, e)[i] = dir.log[i]
      BY <1>1
    <3>. QED BY <2>2, <3>1 DEF Evidence!Continues
  <2>. QED BY <1>2, <2>1, <2>2
<1>4. CASE dir'.manifest = dir.manifest
  BY <1>3, <1>4 DEF Evidence!Next, Evidence!Grow
<1>5. CASE dir'.manifest # dir.manifest
  BY <1>2, <1>3, <1>5 DEF Evidence!Next, Evidence!Seal, Sealed
<1>. QED BY <1>3, <1>4, <1>5

(* What a command meets in a directory is what EvidenceLog promises of it,  *)
(* as EngineRun keeps it: the log only grows, and once it is sealed, as it  *)
(* is then.  The seal holds until a second run enters the directory; that   *)
(* the log only grows holds even after.                                     *)
THEOREM LoneRunIsEvidence ==
    Spec => /\ Evidence!Init
            /\ [][Evidence!Next \/ Shared']_<<dir.log, dir.manifest>>
            /\ [][Evidence!Continues(dir.log, dir'.log)]_<<dir.log, dir.manifest>>
<1>1. Init => Evidence!Init BY DEF Init, NoFiles, Evidence!Init
<1>2. Inv /\ [Next]_vars =>
         /\ [Evidence!Next \/ Shared']_<<dir.log, dir.manifest>>
         /\ [Evidence!Continues(dir.log, dir'.log)]_<<dir.log, dir.manifest>>
  BY StepIsEvidence DEF Inv
<1>. QED BY <1>1, <1>2, Always, PTL DEF Spec
=============================================================================
