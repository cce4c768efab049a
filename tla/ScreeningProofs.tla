-------------------------- MODULE ScreeningProofs --------------------------
(* Theorems about screening customers: the list the syncs of SanctionsCache *)
(* keep, and the ratings the scans of CustomerRating make of its additions. *)
(* For any processes, rows and keys; any customers, names and thresholds.   *)
EXTENDS SanctionsCache, CustomerRating, FiniteSetTheorems, TLAPS

----------------------------------------------------------------------------
(* The list.                                                                *)

Writing == {"filling", "filled", "stamping"}

(* While nothing disturbed the list, at most one process is inside a sync. *)
OneAtATime ==
    ~disturbed => \A s, t \in Syncs : pc[s] # "idle" /\ pc[t] # "idle" => s = t

(* Nobody wrote over a sync that wrote undisturbed ... *)
WriterIsLone == ~disturbed => \A s \in Syncs : pc[s] \in Writing => lone[s]

(* ... and a lone writer finds list and meta file as it left them. *)
LoneSeesItsList ==
    \A s \in Syncs : lone[s] =>
        /\ pc[s] = "filling" => ~csv.whole
        /\ pc[s] \in {"filled", "stamping"} => csv = Whole(want[s])
        /\ pc[s] = "stamping" => ~meta.whole

(* Between writers list, meta file and reported deltas agree. *)
AgreeBetweenWriters ==
    ~disturbed /\ (\A s \in Syncs : pc[s] \notin Writing)
        => csv.whole /\ meta = csv /\ view = Keys(csv.rows)

(* What a sync read is still so when it acts on it. *)
ReadsAreFresh ==
    ~disturbed => \A s \in Syncs :
        /\ pc[s] = "compare" => prev[s] = meta
        /\ pc[s] \in {"differs"} \cup Writing => view = Keys(old[s])

SyncInv == /\ TypeOK /\ OneAtATime /\ WriterIsLone /\ LoneSeesItsList
           /\ AgreeBetweenWriters /\ ReadsAreFresh

LEMMA KeysInside == ASSUME NEW p \in SUBSET Rows PROVE Keys(p) \subseteq Keys(Rows)
  BY DEF Keys

LEMMA FilesAreFiles ==
    /\ Missing \in {f \in File : f.whole}
    /\ \A p \in SUBSET Rows : Whole(p) \in File /\ Whole(p).whole /\ Partial(p) \in File
                             /\ ~Partial(p).whole
  BY DEF Missing, Whole, Partial, File

LEMMA InitHolds == Init => SyncInv
  <1> SUFFICES ASSUME Init PROVE SyncInv OBVIOUS
  <1>1. TypeOK
    <2>1. csv \in File /\ meta \in File /\ prev \in [Syncs -> {f \in File : f.whole}]
      BY FilesAreFiles DEF Init
    <2>2. started \in 0..MaxSyncs /\ crashes \in 0..MaxCrashes
      BY MaxSyncsAssumption, MaxCrashesAssumption DEF Init
    <2> QED BY <2>1, <2>2 DEF Init, TypeOK
  <1>2. OneAtATime /\ WriterIsLone /\ LoneSeesItsList /\ AgreeBetweenWriters /\ ReadsAreFresh
    BY DEF Init, OneAtATime, WriterIsLone, LoneSeesItsList, AgreeBetweenWriters,
           ReadsAreFresh, Writing, Missing, Keys
  <1> QED BY <1>1, <1>2 DEF SyncInv

LEMMA StepKeeps == SyncInv /\ [Next]_vars => SyncInv'
  <1> SUFFICES ASSUME SyncInv, [Next]_vars PROVE SyncInv' OBVIOUS
  <1> USE DEF SyncInv
  <1>1. ASSUME NEW s \in Syncs, NEW p \in SUBSET Rows, Start(s, p) PROVE SyncInv'
    <2>1. TypeOK'
      BY <1>1, MaxSyncsAssumption DEF Start, TypeOK, File, files
    <2>2. OneAtATime' /\ WriterIsLone' /\ LoneSeesItsList' /\ AgreeBetweenWriters' /\ ReadsAreFresh'
      BY <1>1 DEF Start, TypeOK, OneAtATime, WriterIsLone, LoneSeesItsList,
         AgreeBetweenWriters, ReadsAreFresh, Writing, Quiet, files
    <2> QED BY <2>1, <2>2
  <1>2. ASSUME NEW s \in Syncs, Compare(s) PROVE SyncInv'
    <2>1. TypeOK'
      <3>1. csv.rows \in SUBSET Rows BY DEF TypeOK, File
      <3> QED BY <1>2, <3>1, FilesAreFiles DEF Compare, Forget, TypeOK, files, history
    <2>2. OneAtATime' /\ WriterIsLone' /\ LoneSeesItsList' /\ AgreeBetweenWriters' /\ ReadsAreFresh'
      BY <1>2 DEF Compare, Forget, TypeOK, OneAtATime, WriterIsLone, LoneSeesItsList,
         AgreeBetweenWriters, ReadsAreFresh, Writing, files, history
    <2> QED BY <2>1, <2>2
  <1>3. ASSUME NEW s \in Syncs, OpenCsv(s) PROVE SyncInv'
    <2>1. TypeOK'
      BY <1>3 DEF OpenCsv, Partial, TypeOK, File, locals
    <2>2. OneAtATime' /\ WriterIsLone' /\ AgreeBetweenWriters'
      <3>1. /\ pc[s] = "differs" /\ pc' = [pc EXCEPT ![s] = "filling"]
            /\ lone' = [t \in Syncs |-> t = s] /\ disturbed' = disturbed
        BY <1>3 DEF OpenCsv
      <3>2. pc'[s] = "filling" /\ \A t \in Syncs \ {s} : pc'[t] = pc[t]
        BY <3>1 DEF TypeOK
      <3>3. OneAtATime' BY <3>1, <3>2 DEF OneAtATime
      <3>4. WriterIsLone' BY <3>1, <3>2 DEF OneAtATime, WriterIsLone, Writing
      <3>5. AgreeBetweenWriters' BY <3>2 DEF AgreeBetweenWriters, Writing
      <3> QED BY <3>3, <3>4, <3>5
    <2>3. LoneSeesItsList'
      <3> SUFFICES ASSUME NEW t \in Syncs, lone'[t]
                   PROVE /\ pc'[t] = "filling" => ~csv'.whole
                         /\ pc'[t] \in {"filled", "stamping"} => csv' = Whole(want'[t])
                         /\ pc'[t] = "stamping" => ~meta'.whole
        BY <1>3 DEF OpenCsv, LoneSeesItsList, Whole, locals
      <3>1. t = s BY <1>3 DEF OpenCsv
      <3>2. ~csv'.whole BY <1>3 DEF OpenCsv, Partial
      <3> QED BY <1>3, <3>1, <3>2 DEF OpenCsv, TypeOK
    <2>4. ReadsAreFresh'
      <3> SUFFICES ASSUME ~disturbed, NEW t \in Syncs
                   PROVE /\ pc'[t] = "compare" => prev[t] = meta
                         /\ pc'[t] \in {"differs"} \cup Writing => view = Keys(old[t])
        BY <1>3 DEF OpenCsv, ReadsAreFresh, locals, Keys
      <3>1. pc[s] = "differs" /\ pc' = [pc EXCEPT ![s] = "filling"] BY <1>3 DEF OpenCsv
      <3>2. CASE t = s BY <3>1, <3>2 DEF TypeOK, ReadsAreFresh, Writing
      <3>3. CASE t # s BY <3>1, <3>3 DEF TypeOK, ReadsAreFresh, Writing
      <3> QED BY <3>2, <3>3
    <2> QED BY <2>1, <2>2, <2>3, <2>4
  <1>4. ASSUME NEW s \in Syncs, FillCsv(s) PROVE SyncInv'
    <2>1. TypeOK'
      <3>1. want[s] \in SUBSET Rows /\ csv.rows \in SUBSET Rows BY DEF TypeOK, File
      <3>2. csv' \in File
        <4>1. CASE csv' = Whole(want[s]) BY <4>1, <3>1, FilesAreFiles
        <4>2. CASE \E rows \in SUBSET (want[s] \cup csv.rows) : csv' = Partial(rows)
          BY <4>2, <3>1, FilesAreFiles
        <4> QED BY <1>4, <4>1, <4>2 DEF FillCsv
      <3> QED BY <1>4, <3>2 DEF FillCsv, Only, TypeOK, locals
    <2>2. OneAtATime' /\ WriterIsLone' /\ AgreeBetweenWriters' /\ ReadsAreFresh'
      BY <1>4 DEF FillCsv, Only, TypeOK, OneAtATime, WriterIsLone,
         AgreeBetweenWriters, ReadsAreFresh, Writing, locals
    <2>3. LoneSeesItsList'
      BY <1>4 DEF FillCsv, Only, TypeOK, LoneSeesItsList, Writing, locals
    <2> QED BY <2>1, <2>2, <2>3
  <1>5. ASSUME NEW s \in Syncs, OpenMeta(s) PROVE SyncInv'
    <2>1. TypeOK'
      BY <1>5 DEF OpenMeta, Partial, Only, TypeOK, File, locals
    <2>2. OneAtATime' /\ WriterIsLone' /\ AgreeBetweenWriters' /\ ReadsAreFresh'
      BY <1>5 DEF OpenMeta, Only, TypeOK, OneAtATime, WriterIsLone,
         AgreeBetweenWriters, ReadsAreFresh, Writing, locals
    <2>3. LoneSeesItsList'
      <3>1. ~meta'.whole /\ pc[s] = "filled" BY <1>5 DEF OpenMeta, Partial
      <3>2. \A t \in Syncs : lone'[t] => t = s /\ lone[s] BY <1>5 DEF OpenMeta, Only
      <3>3. csv' = csv /\ want' = want BY <1>5 DEF OpenMeta, locals
      <3>4. pc'[s] = "stamping" BY <1>5 DEF OpenMeta, TypeOK
      <3> QED BY <3>1, <3>2, <3>3, <3>4 DEF LoneSeesItsList, Whole
    <2> QED BY <2>1, <2>2, <2>3
  <1>6. ASSUME NEW s \in Syncs, Finish(s) PROVE SyncInv'
    <2>1. TypeOK'
      <3>1. Keys(want[s]) \subseteq Keys(Rows) BY KeysInside DEF TypeOK
      <3>2. meta' \in File
        <4>1. want[s] \in SUBSET Rows BY DEF TypeOK
        <4> QED BY <1>6, <4>1, FilesAreFiles DEF Finish
      <3> QED BY <1>6, <3>1, <3>2 DEF Finish, Forget, Missing, Only, Added, Removed, TypeOK, File
    <2>2. OneAtATime' /\ WriterIsLone' /\ LoneSeesItsList' /\ ReadsAreFresh'
      BY ZenonT(30), <1>6 DEF Finish, Forget, Only, TypeOK, OneAtATime, WriterIsLone, LoneSeesItsList,
         ReadsAreFresh, Writing
    <2>3. AgreeBetweenWriters'
      <3> SUFFICES ASSUME ~disturbed PROVE csv'.whole /\ meta' = csv' /\ view' = Keys(csv'.rows)
        BY <1>6 DEF Finish, AgreeBetweenWriters, Keys
      <3>1. csv = Whole(want[s]) /\ view = Keys(old[s])
        BY <1>6 DEF Finish, WriterIsLone, LoneSeesItsList, ReadsAreFresh, Writing
      <3>2. view' = Keys(want[s])
        BY <1>6, <3>1 DEF Finish, Added, Removed
      <3>3. meta' = Whole(want[s])
        BY <1>6 DEF Finish, WriterIsLone, LoneSeesItsList, Writing
      <3> QED BY <1>6, <3>1, <3>2, <3>3 DEF Finish, Whole
    <2> QED BY <2>1, <2>2, <2>3
  <1>7. ASSUME NEW s \in Syncs, Crash(s) PROVE SyncInv'
    <2>1. TypeOK'
      BY <1>7, MaxCrashesAssumption DEF Crash, Forget, Missing, TypeOK, File, files
    <2>2. OneAtATime' /\ WriterIsLone' /\ LoneSeesItsList' /\ AgreeBetweenWriters' /\ ReadsAreFresh'
      BY <1>7 DEF Crash, Forget, TypeOK, OneAtATime, WriterIsLone, LoneSeesItsList,
         AgreeBetweenWriters, ReadsAreFresh, Writing, files
    <2> QED BY <2>1, <2>2
  <1>8. ASSUME UNCHANGED vars PROVE SyncInv'
    BY <1>8 DEF vars, files, locals, history, TypeOK, OneAtATime, WriterIsLone,
       LoneSeesItsList, AgreeBetweenWriters, ReadsAreFresh, Keys, Whole, Writing
  <1> QED BY <1>1, <1>2, <1>3, <1>4, <1>5, <1>6, <1>7, <1>8 DEF Next, Step

LEMMA InvHolds == Spec => []SyncInv
  BY InitHolds, StepKeeps, PTL DEF Spec

(* Every state of every sync has the shape its step left it in; in          *)
(* particular no sync goes on with a meta file it could not parse.          *)
THEOREM TypeCorrect == Spec => []TypeOK
  BY InvHolds, PTL DEF SyncInv

(* One sync after the other, none dying half way: the list is whole and its *)
(* meta file describes it.                                                  *)
THEOREM QuietListHolds == Spec => []MetaDescribesList
  <1>1. SyncInv => MetaDescribesList
    BY DEF SyncInv, AgreeBetweenWriters, Writing, MetaDescribesList, Quiet
  <1> QED BY <1>1, InvHolds, PTL

(* The deltas such syncs reported add up to the keys of the list on disk:   *)
(* an operator who applied each of them holds the list.                     *)
THEOREM DeltasHold == Spec => []DeltasAddUp
  <1>1. SyncInv => DeltasAddUp
    BY DEF SyncInv, AgreeBetweenWriters, Writing, DeltasAddUp, Quiet
  <1> QED BY <1>1, InvHolds, PTL

(* "unchanged" is then only answered for the payload on disk.               *)
THEOREM UnchangedHolds == Spec => UnchangedIsCurrent
  <1>1. SyncInv /\ [Next]_vars =>
          [\A s \in Syncs : ~disturbed /\ Returns(s, "unchanged") => csv = Whole(want[s])]_vars
    <2> SUFFICES ASSUME SyncInv, Next, NEW s \in Syncs, ~disturbed, Returns(s, "unchanged")
                 PROVE csv = Whole(want[s])
      OBVIOUS
    <2>1. Compare(s) /\ prev[s] = Whole(want[s])
      BY DEF SyncInv, TypeOK, Returns, Next, Step, Start, Compare, OpenCsv, FillCsv, OpenMeta, Finish, Crash
    <2>2. pc[s] = "compare" BY <2>1 DEF Compare
    <2>3. \A t \in Syncs : pc[t] \notin Writing
      BY <2>2 DEF SyncInv, OneAtATime, Writing
    <2>4. meta = csv /\ prev[s] = meta
      BY <2>2, <2>3 DEF SyncInv, AgreeBetweenWriters, ReadsAreFresh
    <2> QED BY <2>1, <2>4
  <1> QED BY <1>1, InvHolds, PTL DEF Spec, UnchangedIsCurrent

(* Whatever state the list was in, a sync that gets past the meta file and   *)
(* that nobody writes over leaves the fetched list and its hash.             *)
THEOREM LoneSyncHolds == Spec => LoneSyncRestores
  <1>1. SyncInv /\ [Next]_vars =>
          [\A s \in Syncs : lone[s] /\ Returns(s, "changed")
                              => csv = Whole(want[s]) /\ meta' = Whole(want[s])]_vars
    <2> SUFFICES ASSUME SyncInv, Next, NEW s \in Syncs, lone[s], Returns(s, "changed")
                 PROVE csv = Whole(want[s]) /\ meta' = Whole(want[s])
      OBVIOUS
    <2>1. Finish(s)
      BY DEF SyncInv, TypeOK, Returns, Next, Step, Start, Compare, OpenCsv, FillCsv, OpenMeta, Finish, Crash
    <2> QED BY <2>1 DEF Finish, SyncInv, LoneSeesItsList
  <1> QED BY <1>1, InvHolds, PTL DEF Spec, LoneSyncRestores

----------------------------------------------------------------------------
(* Ratings.  First what a recomputation amounts to: which evidence counts,  *)
(* and where it takes a rating.                                             *)
Rated == rating \in [Customers -> {"low", "medium", "high", "critical", "other"}]

Hit(c) == NameOf[c] \in delta
Pattern(c) == alerts[c] >= Threshold
Stale(c) == ~(age[c] < KycLimit[rating[c]])

Rerated(r, hit, risk, pattern, stale) ==
    IF hit \/ (stale /\ r = "critical") THEN "critical"
    ELSE IF risk \/ (stale /\ r = "high") \/ (pattern /\ stale /\ r = "medium")
         THEN IF r \in {"low", "other"} THEN "medium" ELSE "high"
         ELSE IF r = "other" THEN "low" ELSE r

Reads ==
    \A c \in Customers :
        /\ Recompute(c) = Rerated(rating[c], Hit(c), c \in risky, Pattern(c), Stale(c))
        /\ Triggered(c) <=> Hit(c) \/ c \in risky \/ Pattern(c) \/ Stale(c)

LEMMA LadderFacts ==
    /\ Rungs = {"low", "medium", "high", "critical"}
    /\ Rung("low") = 1 /\ Rung("medium") = 2 /\ Rung("high") = 3 /\ Rung("critical") = 4
    /\ Ladder[2] = "medium" /\ Ladder[3] = "high"
  <1>1. /\ DOMAIN Ladder = {1, 2, 3, 4}
        /\ Ladder[1] = "low" /\ Ladder[2] = "medium" /\ Ladder[3] = "high" /\ Ladder[4] = "critical"
    BY DEF Ladder
  <1>2. Rungs = {"low", "medium", "high", "critical"} BY <1>1 DEF Rungs
  <1>3. Rung("low") = 1 BY <1>1 DEF Rung
  <1>4. Rung("medium") = 2 BY <1>1 DEF Rung
  <1>5. Rung("high") = 3 BY <1>1 DEF Rung
  <1>6. Rung("critical") = 4 BY <1>1 DEF Rung
  <1> QED BY <1>1, <1>2, <1>3, <1>4, <1>5, <1>6

(* Counting the triggers of a severity is asking who fired it.              *)
LEMMA CountFacts ==
    ASSUME NEW c \in Customers, NEW s
    PROVE /\ Count(c, s) \in Nat
          /\ Count(c, s) > 0 <=> s \in SanctionsHit(c) \cup CountryRisk(c)
                                         \cup TransactionPattern(c) \cup StaleKYC(c)
          /\ s \notin SanctionsHit(c) /\ s \notin CountryRisk(c) =>
                (Count(c, s) >= 2 <=> s \in TransactionPattern(c) /\ s \in StaleKYC(c))
  <1> DEFINE all == {<<1, SanctionsHit(c)>>, <<2, CountryRisk(c)>>,
                     <<3, TransactionPattern(c)>>, <<4, StaleKYC(c)>>}
             D == {d \in all : s \in d[2]}
  <1>1. Count(c, s) = Cardinality(D) BY DEF Count
  <1>2. IsFiniteSet(all)
    <2>1. IsFiniteSet({}) BY FS_EmptySet
    <2>2. IsFiniteSet({<<1, SanctionsHit(c)>>}) BY FS_Singleton
    <2>3. IsFiniteSet({<<1, SanctionsHit(c)>>} \cup {<<2, CountryRisk(c)>>})
      BY <2>2, FS_AddElement
    <2>4. IsFiniteSet(({<<1, SanctionsHit(c)>>} \cup {<<2, CountryRisk(c)>>})
                         \cup {<<3, TransactionPattern(c)>>})
      BY <2>3, FS_AddElement
    <2>5. IsFiniteSet((({<<1, SanctionsHit(c)>>} \cup {<<2, CountryRisk(c)>>})
                         \cup {<<3, TransactionPattern(c)>>}) \cup {<<4, StaleKYC(c)>>})
      BY <2>4, FS_AddElement
    <2>6. all = (({<<1, SanctionsHit(c)>>} \cup {<<2, CountryRisk(c)>>})
                    \cup {<<3, TransactionPattern(c)>>}) \cup {<<4, StaleKYC(c)>>}
      OBVIOUS
    <2> QED BY <2>5, <2>6
  <1>3. IsFiniteSet(D) /\ Cardinality(D) \in Nat
    <2>1. D \subseteq all OBVIOUS
    <2> HIDE DEF D, all
    <2> QED BY <1>2, <2>1, FS_Subset, FS_CardinalityType
  <1>4. Cardinality(D) > 0 <=> D # {}
    <2> HIDE DEF D
    <2>1. Cardinality(D) = 0 <=> D = {} BY <1>3, FS_EmptySet
    <2> QED BY <1>3, <2>1
  <1>5. D # {} <=> s \in SanctionsHit(c) \cup CountryRisk(c)
                           \cup TransactionPattern(c) \cup StaleKYC(c)
    <2>1. \A d \in all : d \in {<<1, SanctionsHit(c)>>, <<2, CountryRisk(c)>>,
                     <<3, TransactionPattern(c)>>, <<4, StaleKYC(c)>>} OBVIOUS
    <2>2. s \in SanctionsHit(c) => <<1, SanctionsHit(c)>> \in D OBVIOUS
    <2>3. s \in CountryRisk(c) => <<2, CountryRisk(c)>> \in D OBVIOUS
    <2>4. s \in TransactionPattern(c) => <<3, TransactionPattern(c)>> \in D OBVIOUS
    <2>5. s \in StaleKYC(c) => <<4, StaleKYC(c)>> \in D OBVIOUS
    <2>6. \A d \in D : s \in SanctionsHit(c) \cup CountryRisk(c)
                               \cup TransactionPattern(c) \cup StaleKYC(c)
      OBVIOUS
    <2> HIDE DEF D
    <2> QED BY <2>2, <2>3, <2>4, <2>5, <2>6
  <1>6. ASSUME s \notin SanctionsHit(c), s \notin CountryRisk(c)
        PROVE Cardinality(D) >= 2 <=> s \in TransactionPattern(c) /\ s \in StaleKYC(c)
    <2> DEFINE t == <<3, TransactionPattern(c)>>
               k == <<4, StaleKYC(c)>>
    <2>1. t # k OBVIOUS
    <2>2. D \subseteq {t, k} BY <1>6
    <2>3. (t \in D <=> s \in TransactionPattern(c)) /\ (k \in D <=> s \in StaleKYC(c))
      OBVIOUS
    <2> HIDE DEF D, t, k
    <2>4. CASE t \in D /\ k \in D
      <3>1. D = {t} \cup {k} BY <2>2, <2>4
      <3>2. Cardinality({t}) = 1 /\ IsFiniteSet({t}) BY FS_Singleton
      <3>3. Cardinality({t} \cup {k}) = Cardinality({t}) + 1 BY <2>1, <3>2, FS_AddElement
      <3>4. Cardinality(D) = 2 BY <3>1, <3>2, <3>3
      <3> QED BY <2>3, <2>4, <3>4
    <2>5. CASE ~(t \in D /\ k \in D)
      <3>1. PICK x : D \subseteq {x} BY <2>2, <2>5
      <3>2. Cardinality({x}) = 1 /\ IsFiniteSet({x}) BY FS_Singleton
      <3>3. Cardinality(D) <= 1 BY <3>1, <3>2, FS_Subset
      <3>4. ~(Cardinality(D) >= 2) BY <1>3, <3>3
      <3> QED BY <2>3, <2>5, <3>4
    <2> QED BY <2>4, <2>5
  <1> HIDE DEF D
  <1> QED BY <1>1, <1>3, <1>4, <1>5, <1>6

LEMMA RatedReads == Rated => Reads
  <1> SUFFICES ASSUME Rated, NEW c \in Customers
               PROVE /\ Recompute(c) = Rerated(rating[c], Hit(c), c \in risky, Pattern(c), Stale(c))
                     /\ Triggered(c) <=> Hit(c) \/ c \in risky \/ Pattern(c) \/ Stale(c)
    BY DEF Reads
  <1>0. rating[c] \in {"low", "medium", "high", "critical", "other"} BY DEF Rated
  <1>1. /\ SanctionsHit(c) = IF Hit(c) THEN {"critical"} ELSE {}
        /\ CountryRisk(c) = IF c \in risky THEN {"high"} ELSE {}
        /\ TransactionPattern(c) = IF Pattern(c) THEN {"medium"} ELSE {}
        /\ StaleKYC(c) = IF Stale(c) THEN {Current(c)} ELSE {}
    BY DEF SanctionsHit, CountryRisk, TransactionPattern, StaleKYC, Hit, Pattern, Stale, Current
  <1>2. Current(c) = IF rating[c] = "other" THEN "low" ELSE rating[c]
    BY <1>0, LadderFacts DEF Current
  <1>3. /\ Count(c, "critical") > 0 <=> Hit(c) \/ (Stale(c) /\ rating[c] = "critical")
        /\ Count(c, "high") > 0 <=> c \in risky \/ (Stale(c) /\ rating[c] = "high")
        /\ Count(c, "medium") >= 2 <=> Pattern(c) /\ Stale(c) /\ rating[c] = "medium"
    <2>1. Count(c, "critical") > 0 <=>
            "critical" \in SanctionsHit(c) \cup CountryRisk(c)
                             \cup TransactionPattern(c) \cup StaleKYC(c)
      BY CountFacts
    <2>2. Count(c, "high") > 0 <=>
            "high" \in SanctionsHit(c) \cup CountryRisk(c)
                         \cup TransactionPattern(c) \cup StaleKYC(c)
      BY CountFacts
    <2>3. "medium" \notin SanctionsHit(c) /\ "medium" \notin CountryRisk(c) BY <1>1
    <2>4. Count(c, "medium") >= 2 <=>
            "medium" \in TransactionPattern(c) /\ "medium" \in StaleKYC(c)
      BY <2>3, CountFacts
    <2> QED BY <1>0, <1>1, <1>2, <2>1, <2>2, <2>4
  <1>4. Bumped(c) = IF rating[c] \in {"low", "other"} THEN "medium" ELSE "high"
    BY <1>0, <1>2, LadderFacts DEF Bumped
  <1>5. Recompute(c) = Rerated(rating[c], Hit(c), c \in risky, Pattern(c), Stale(c))
    BY <1>0, <1>2, <1>3, <1>4 DEF Recompute, Rerated
  <1>6. Triggered(c) <=> Hit(c) \/ c \in risky \/ Pattern(c) \/ Stale(c)
    BY <1>1 DEF Triggered
  <1> QED BY <1>5, <1>6

----------------------------------------------------------------------------
(* Then what a plan holds, and which ratings later rounds may still change. *)
Changes(c) == Triggered(c) /\ Recompute(c) # rating[c]

PlanInv ==
    /\ Rated /\ rounds \in Nat
    /\ \A p \in plan : p.new \in {"low", "medium", "high", "critical"}
    /\ FallsOnlyFromTheTop
    /\ fresh => plan = RatingChanges
    /\ ~fresh /\ rounds > 0 => plan = {}

(* One round leaves only what a second one lifts from medium to high.       *)
RoundInv ==
    /\ rounds >= 1 => \A c \in Customers : Changes(c) => rating[c] = "medium" /\ c \in risky
    /\ rounds >= 2 => \A c \in Customers : ~Changes(c)

ListingInv ==
    /\ syncs \in Nat
    /\ syncs = 0 => added = {}
    /\ syncs <= 1 => added \subseteq delta

LEMMA InPlan ==
    \A p : p \in RatingChanges <=>
        \E c \in Customers : /\ Changes(c)
                             /\ p = [customer |-> c, old |-> rating[c], new |-> Recompute(c),
                                     hit |-> SanctionsHit(c) # {}]
  BY DEF RatingChanges, Changes

(* What a scan proposes.                                                    *)
LEMMA ProposalFalls ==
    ASSUME Rated, Reads, NEW p \in RatingChanges
    PROVE /\ p.new \in {"low", "medium", "high", "critical"}
          /\ p.old \in Rungs /\ Rung(p.new) < Rung(p.old) =>
                p.old = "critical" /\ p.new = "high" /\ ~p.hit
  <1>1. PICK c \in Customers :
            /\ Changes(c)
            /\ p = [customer |-> c, old |-> rating[c], new |-> Recompute(c),
                    hit |-> SanctionsHit(c) # {}]
    BY InPlan
  <1>2. p.old = rating[c] /\ p.new = Recompute(c) /\ p.hit = (SanctionsHit(c) # {}) BY <1>1
  <1>3. rating[c] \in {"low", "medium", "high", "critical", "other"} BY DEF Rated
  <1>4. Recompute(c) = Rerated(rating[c], Hit(c), c \in risky, Pattern(c), Stale(c))
    BY DEF Reads
  <1>5. SanctionsHit(c) # {} <=> Hit(c) BY DEF SanctionsHit, Hit
  <1>6. Recompute(c) \in {"low", "medium", "high", "critical"}
    BY <1>3, <1>4 DEF Rerated
  <1>7. ASSUME rating[c] \in Rungs, Rung(Recompute(c)) < Rung(rating[c])
        PROVE rating[c] = "critical" /\ Recompute(c) = "high" /\ ~Hit(c)
    BY <1>3, <1>4, <1>7, LadderFacts DEF Rerated
  <1> QED BY <1>2, <1>5, <1>6, <1>7

(* Writing a plan that is still good rerates exactly those it changes.      *)
LEMMA PersistRates ==
    ASSUME Rated, plan = RatingChanges, Persist
    PROVE \A c \in Customers : rating'[c] = IF Changes(c) THEN Recompute(c) ELSE rating[c]
  <1> TAKE c \in Customers
  <1>1. rating'[c] = IF \E p \in plan : p.customer = c
                     THEN (CHOOSE p \in plan : p.customer = c).new ELSE rating[c]
    BY DEF Persist
  <1>2. \A p \in plan : p.customer = c => Changes(c) /\ p.new = Recompute(c)
    BY InPlan
  <1>3. Changes(c) => \E p \in plan : p.customer = c
    <2> SUFFICES ASSUME Changes(c) PROVE \E p \in plan : p.customer = c OBVIOUS
    <2> DEFINE q == [customer |-> c, old |-> rating[c], new |-> Recompute(c),
                     hit |-> SanctionsHit(c) # {}]
    <2>1. q \in plan /\ q.customer = c BY InPlan
    <2> QED BY <2>1
  <1>4. CASE Changes(c)
    <2>1. \E p \in plan : p.customer = c BY <1>3, <1>4
    <2>2. PICK q : q = CHOOSE p \in plan : p.customer = c OBVIOUS
    <2>3. q \in plan /\ q.customer = c BY <2>1, <2>2
    <2> QED BY <1>1, <1>2, <1>4, <2>1, <2>2, <2>3
  <1>5. CASE ~Changes(c) BY <1>1, <1>2, <1>5
  <1> QED BY <1>4, <1>5

LEMMA RatingInitHolds == RatingInit => PlanInv /\ RoundInv /\ ListingInv
  <1> SUFFICES ASSUME RatingInit PROVE PlanInv /\ RoundInv /\ ListingInv OBVIOUS
  <1>1. Rated BY LadderFacts DEF RatingInit, Rated
  <1>2. plan = {} /\ fresh = FALSE /\ rounds = 0 /\ added = {} /\ syncs = 0 BY DEF RatingInit
  <1> QED BY <1>1, <1>2 DEF PlanInv, RoundInv, ListingInv, FallsOnlyFromTheTop

(* A plan writes no rating off the ladder.                                  *)
LEMMA RatedStep == PlanInv /\ [RatingNext]_ratingVars => Rated'
  <1> SUFFICES ASSUME PlanInv, [RatingNext]_ratingVars PROVE Rated' OBVIOUS
  <1>1. CASE Persist
    <2>1. \A c \in Customers : rating'[c] \in {"low", "medium", "high", "critical", "other"}
      <3> TAKE c \in Customers
      <3>1. rating'[c] = IF \E p \in plan : p.customer = c
                         THEN (CHOOSE p \in plan : p.customer = c).new ELSE rating[c]
        BY <1>1 DEF Persist
      <3>2. CASE \E p \in plan : p.customer = c
        <4>1. PICK q : q = CHOOSE p \in plan : p.customer = c OBVIOUS
        <4>2. q \in plan BY <3>2, <4>1
        <4> QED BY <3>1, <3>2, <4>1, <4>2 DEF PlanInv
      <3>3. CASE ~\E p \in plan : p.customer = c BY <3>1, <3>3 DEF PlanInv, Rated
      <3> QED BY <3>2, <3>3
    <2>2. rating' = [c \in Customers |-> rating'[c]] BY <1>1 DEF Persist
    <2> QED BY <2>1, <2>2 DEF Rated
  <1>2. CASE UNCHANGED rating BY <1>2 DEF PlanInv, Rated
  <1> QED BY <1>1, <1>2 DEF RatingNext, ratingVars, Scan, Moved, TimePasses, Sync,
        WatchCountry, Review, NewRun

(* Evidence that moves starts the rounds anew.                              *)
LEMMA MovedKeeps ==
    ASSUME PlanInv, Moved
    PROVE PlanInv' /\ RoundInv'
  BY DEF Moved, PlanInv, RoundInv, Rated, FallsOnlyFromTheTop

LEMMA ScanKeeps ==
    ASSUME PlanInv, RoundInv, Reads, Scan
    PROVE PlanInv' /\ RoundInv'
  <1>1. UNCHANGED <<rating, evidence, rounds, changes>> /\ plan' = RatingChanges /\ fresh' = TRUE
    BY DEF Scan
  <1>2. RatingChanges' = RatingChanges
    BY <1>1 DEF RatingChanges, Triggered, Recompute, Count, Bumped, Current, SanctionsHit,
       CountryRisk, TransactionPattern, StaleKYC, evidence
  <1>3. \A c \in Customers : Changes(c)' = Changes(c)
    BY <1>1 DEF Changes, Triggered, Recompute, Count, Bumped, Current, SanctionsHit,
       CountryRisk, TransactionPattern, StaleKYC, evidence
  <1>4. \A p \in plan' : /\ p.new \in {"low", "medium", "high", "critical"}
                         /\ p.old \in Rungs /\ Rung(p.new) < Rung(p.old) =>
                              p.old = "critical" /\ p.new = "high" /\ ~p.hit
    BY <1>1, ProposalFalls DEF PlanInv
  <1>5. PlanInv' BY <1>1, <1>2, <1>4 DEF PlanInv, Rated, FallsOnlyFromTheTop
  <1>6. RoundInv' BY <1>1, <1>3 DEF RoundInv, evidence
  <1> QED BY <1>5, <1>6

(* The second rating of one piece of evidence, and the third.               *)
LEMMA PersistKeeps ==
    ASSUME PlanInv, RoundInv, Reads, Reads', Persist
    PROVE PlanInv' /\ RoundInv'
  <1>1. UNCHANGED <<delta, risky, alerts, age>> /\ plan' = {} /\ fresh' = FALSE
    BY DEF Persist, evidence
  <1>2. Rated' BY RatedStep DEF RatingNext
  <1>3. rounds' \in Nat /\ PlanInv'
    BY <1>1, <1>2 DEF Persist, PlanInv, FallsOnlyFromTheTop
  <1>4. CASE ~fresh
    <2>1. rounds' = rounds BY <1>4 DEF Persist
    <2>2. CASE rounds = 0 BY <1>3, <2>1, <2>2 DEF RoundInv
    <2>3. CASE rounds > 0
      <3>1. plan = {} BY <1>4, <2>3 DEF PlanInv
      <3>2. rating' = rating BY <3>1 DEF Persist, PlanInv, Rated
      <3>3. \A c \in Customers : Changes(c)' = Changes(c)
        BY <1>1, <3>2 DEF Changes, Triggered, Recompute, Count, Bumped, Current, SanctionsHit,
           CountryRisk, TransactionPattern, StaleKYC
      <3> QED BY <1>1, <1>3, <2>1, <3>2, <3>3 DEF RoundInv
    <2> QED BY <1>3, <2>2, <2>3 DEF PlanInv
  <1>5. CASE fresh
    <2>1. plan = RatingChanges /\ Rated BY <1>5 DEF PlanInv
    <2>2. \A c \in Customers : rating'[c] = IF Changes(c) THEN Recompute(c) ELSE rating[c]
      BY <2>1, PersistRates
    <2>3. ASSUME NEW c \in Customers, Changes(c)'
          PROVE rating'[c] = "medium" /\ c \in risky /\ Changes(c) /\ rating[c] # "medium"
      <3>1. rating[c] \in {"low", "medium", "high", "critical", "other"} BY <2>1 DEF Rated
      <3>2. /\ Recompute(c) = Rerated(rating[c], Hit(c), c \in risky, Pattern(c), Stale(c))
            /\ Triggered(c) <=> Hit(c) \/ c \in risky \/ Pattern(c) \/ Stale(c)
        BY DEF Reads
      <3>3. /\ Recompute(c)' = Rerated(rating'[c], Hit(c), c \in risky, Pattern(c), Stale(c)')
            /\ Triggered(c)' <=> Hit(c) \/ c \in risky \/ Pattern(c) \/ Stale(c)'
        BY <1>1 DEF Reads, Hit, Pattern
      <3>4. rating'[c] = rating[c] => Stale(c)' = Stale(c) BY <1>1 DEF Stale
      <3>5. Recompute(c)' # rating'[c] /\ Triggered(c)' BY <2>3 DEF Changes
      <3>6. CASE Changes(c)
        <4>1. rating'[c] = Recompute(c) BY <2>2, <3>6
        <4> QED BY <3>1, <3>2, <3>3, <3>4, <3>5, <3>6, <4>1 DEF Rerated
      <3>7. CASE ~Changes(c)
        <4>1. rating'[c] = rating[c] BY <2>2, <3>7
        <4>2. ~Triggered(c) \/ Recompute(c) = rating[c] BY <3>7 DEF Changes
        <4>3. Stale(c)' <=> Stale(c) BY <3>4, <4>1
        <4>4. Triggered(c) BY <3>2, <3>3, <3>5, <4>3
        <4>5. Recompute(c)' = Recompute(c) BY <3>2, <3>3, <4>1, <4>3 DEF Rerated
        <4> QED BY <3>5, <4>1, <4>2, <4>4, <4>5
      <3> QED BY <3>6, <3>7
    <2>4. rounds' >= 1 => \A c \in Customers : Changes(c)' => rating'[c] = "medium" /\ c \in risky'
      BY <1>1, <2>3
    <2>5. ASSUME rounds' >= 2, NEW c \in Customers PROVE ~Changes(c)'
      <3>1. rounds >= 1 BY <2>5 DEF Persist, PlanInv
      <3>2. Changes(c) => rating[c] = "medium" BY <3>1 DEF RoundInv
      <3> QED BY <2>3, <3>2
    <2> QED BY <1>3, <2>4, <2>5 DEF RoundInv
  <1> QED BY <1>3, <1>4, <1>5

LEMMA RatingStep ==
    PlanInv /\ RoundInv /\ Reads /\ Reads' /\ [RatingNext]_ratingVars => PlanInv' /\ RoundInv'
  <1> SUFFICES ASSUME PlanInv, RoundInv, Reads, Reads', [RatingNext]_ratingVars
               PROVE PlanInv' /\ RoundInv'
    OBVIOUS
  <1>1. CASE Scan BY <1>1, ScanKeeps
  <1>2. CASE Persist BY <1>2, PersistKeeps
  <1>3. CASE Moved BY <1>3, MovedKeeps
  <1>4. CASE UNCHANGED ratingVars
    <2>1. UNCHANGED <<rating, plan, fresh, rounds, risky>> BY <1>4 DEF ratingVars, evidence
    <2>2. RatingChanges' = RatingChanges /\ \A c \in Customers : Changes(c)' = Changes(c)
      BY <1>4 DEF ratingVars, Changes, RatingChanges, Triggered, Recompute, Count, Bumped,
         Current, SanctionsHit, CountryRisk, TransactionPattern, StaleKYC, evidence
    <2> QED BY <2>1, <2>2 DEF PlanInv, RoundInv, Rated, FallsOnlyFromTheTop
  <1> QED BY <1>1, <1>2, <1>3, <1>4
        DEF RatingNext, TimePasses, Sync, WatchCountry, Review, NewRun

LEMMA ListingStep == ListingInv /\ [RatingNext]_ratingVars => ListingInv'
  <1> SUFFICES ASSUME ListingInv, [RatingNext]_ratingVars PROVE ListingInv' OBVIOUS
  <1>1. CASE UNCHANGED <<delta, added, syncs>> BY <1>1 DEF ListingInv
  <1>2. CASE Scan BY <1>2 DEF Scan, ListingInv
  <1>3. ASSUME NEW new \in SUBSET Names, Sync(new) PROVE ListingInv'
    BY <1>3 DEF Sync, ListingInv
  <1> QED BY <1>1, <1>2, <1>3 DEF RatingNext, ratingVars, evidence, Persist, TimePasses,
        WatchCountry, Review, NewRun

LEMMA RatingsHold == RatingSpec => [](PlanInv /\ RoundInv /\ Reads)
  <1>1. PlanInv => Rated BY DEF PlanInv
  <1>2. PlanInv /\ [RatingNext]_ratingVars => Rated' BY RatedStep
  <1>3. RatingSpec => [](PlanInv /\ RoundInv)
    BY <1>1, <1>2, RatedReads, RatingInitHolds, RatingStep, PTL DEF RatingSpec
  <1> QED BY <1>1, <1>3, RatedReads, PTL

(* For any customers, thresholds and evidence: a scan lowers a rating only  *)
(* from critical to high, and never one that hit a sanctions list.          *)
THEOREM RatingsFallFromTheTop == RatingSpec => []FallsOnlyFromTheTop
  <1>1. PlanInv => FallsOnlyFromTheTop BY DEF PlanInv
  <1> QED BY <1>1, RatingsHold, PTL

(* Two persisted rounds over unchanged evidence reach a fixed point.        *)
THEOREM RatingsSettle == RatingSpec => []SettlesInTwo
  <1>1. RoundInv => SettlesInTwo BY InPlan DEF RoundInv, SettlesInTwo
  <1> QED BY <1>1, RatingsHold, PTL

(* Whoever bears a name listed since the last scan is rated critical by the *)
(* next one, if the list changed once in between.                           *)
THEOREM NewNamesAreFlagged == RatingSpec => []NewlyListedAreFlagged
  <1>1. RatingSpec => []ListingInv BY RatingInitHolds, ListingStep, PTL DEF RatingSpec
  <1>2. ListingInv /\ Reads => NewlyListedAreFlagged
    BY DEF ListingInv, Reads, NewlyListedAreFlagged, Hit, Rerated
  <1> QED BY <1>1, <1>2, RatingsHold, PTL
============================================================================
