--------------------------- MODULE CustomerRating ---------------------------
(***************************************************************************)
(* Perpetual KYC: `aml pkyc-scan` gathers the newest run's alerts, the     *)
(* additions of the last sanctions sync, the high-risk countries and the   *)
(* review dates, fires its detectors and recomputes ratings.  It writes    *)
(* nothing back: persisting the changes, like saving the sync's result to  *)
(* the file the scan reads, is its caller's, and is modelled as external.  *)
(* A name stands for its upper-cased form; both callers pass no adverse    *)
(* media.                                                                  *)
(***************************************************************************)
EXTENDS Integers, FiniteSets

CONSTANTS
    Customers, Names,
    NameOf,         \* customer -> full name; names repeat
    Threshold,      \* --alert-threshold
    MaxChanges      \* bound on changes of the evidence

ASSUME NameAssumption == NameOf \in [Customers -> Names]
ASSUME BoundAssumption == Threshold \in Nat \ {0} /\ MaxChanges \in Nat

VARIABLES
    rating,     \* customer -> risk_rating in the source; "other" is off the ladder
    listed,     \* names on the sanctions list
    delta,      \* names in the `added` of the saved SyncResult
    risky,      \* customers whose country is in the high-risk set
    alerts,     \* customer -> alerts of the newest run within the lookback
    age,        \* customer -> days since the last review
    plan,       \* rating changes of the last scan, not persisted yet
    fresh,      \* the plan was made from the evidence as it is
    rounds,     \* scans persisted since the evidence last changed
    added,      \* names listed since the last scan
    syncs,      \* syncs that changed the list since the last scan
    changes

evidence == <<listed, delta, risky, alerts, age>>
ratingVars == <<rating, evidence, plan, fresh, rounds, added, syncs, changes>>

Ladder == <<"low", "medium", "high", "critical">>
Rungs == {Ladder[k] : k \in DOMAIN Ladder}
Rung(r) == CHOOSE k \in DOMAIN Ladder : Ladder[k] = r
Ages == {0, 180, 365, 730, 1095}        \* the detector's thresholds

----------------------------------------------------------------------------
(* Mutant: a namesake is indexed over the customer before it.               *)
LastNamesake(c) ==
    IF NameOf[c] \in delta /\ c = CHOOSE d \in Customers : NameOf[d] = NameOf[c]
    THEN {"critical"} ELSE {}

(* The detectors.  Each yields {} or the severity of its trigger.           *)
SanctionsHit(c) == IF NameOf[c] \in delta THEN {"critical"} ELSE {}
CountryRisk(c) == IF c \in risky THEN {"high"} ELSE {}
TransactionPattern(c) == IF alerts[c] >= Threshold THEN {"medium"} ELSE {}

KycLimit == [low |-> 1095, medium |-> 730, high |-> 365, critical |-> 180, other |-> 1095]
StaleKYC(c) ==
    IF age[c] < KycLimit[rating[c]] THEN {}
    ELSE {IF rating[c] \in Rungs THEN rating[c] ELSE "low"}

Triggered(c) ==
    SanctionsHit(c) \cup CountryRisk(c) \cup TransactionPattern(c) \cup StaleKYC(c) # {}

----------------------------------------------------------------------------
(* recompute_rating: how many triggers of a severity, then the ladder.      *)
Count(c, severity) ==
    Cardinality({d \in {<<1, SanctionsHit(c)>>, <<2, CountryRisk(c)>>,
                        <<3, TransactionPattern(c)>>, <<4, StaleKYC(c)>>} : severity \in d[2]})

Current(c) == IF rating[c] \in Rungs THEN rating[c] ELSE "low"

(* One rung up, and never to the last one. *)
Bumped(c) == Ladder[IF Rung(Current(c)) >= 2 THEN 3 ELSE Rung(Current(c)) + 1]

(* Mutant: the cap at high is forgotten.                                    *)
RecomputeUncapped(c) ==
    IF Count(c, "critical") > 0 THEN "critical"
    ELSE IF Count(c, "high") > 0 \/ Count(c, "medium") >= 2
         THEN Ladder[IF Rung(Current(c)) = 4 THEN 4 ELSE Rung(Current(c)) + 1]
         ELSE Current(c)

(* Mutant: a customer with nothing but a stale review loses a rung.         *)
RecomputeDecays(c) ==
    IF Count(c, "critical") > 0 THEN "critical"
    ELSE IF Count(c, "high") > 0 \/ Count(c, "medium") >= 2 THEN Bumped(c)
         ELSE IF Count(c, "medium") = 1 THEN "low" ELSE Current(c)

Recompute(c) ==
    IF Count(c, "critical") > 0 THEN "critical"
    ELSE IF Count(c, "high") > 0 \/ Count(c, "medium") >= 2 THEN Bumped(c) ELSE Current(c)

RatingChanges ==
    {[customer |-> c, old |-> rating[c], new |-> Recompute(c),
      hit |-> SanctionsHit(c) # {}] :
        c \in {d \in Customers : Triggered(d) /\ Recompute(d) # rating[d]}}

Scan ==
    /\ plan' = RatingChanges
    /\ fresh' = TRUE /\ added' = {} /\ syncs' = 0
    /\ UNCHANGED <<rating, evidence, rounds, changes>>

(* The caller writes the changes of the last scan to the customer source.   *)
Persist ==
    /\ rating' = [c \in Customers |->
                    IF \E p \in plan : p.customer = c
                    THEN (CHOOSE p \in plan : p.customer = c).new ELSE rating[c]]
    /\ rounds' = IF fresh /\ rounds < 3 THEN rounds + 1 ELSE rounds
    /\ plan' = {} /\ fresh' = FALSE
    /\ UNCHANGED <<evidence, added, syncs, changes>>

----------------------------------------------------------------------------
(* What the scan reads moves under it.                                      *)
Moved == /\ changes < MaxChanges /\ changes' = changes + 1
         /\ fresh' = FALSE /\ rounds' = 0
         /\ UNCHANGED <<rating, plan>>

(* A sync that changes the list; the caller saves its result over the last. *)
Sync(new) ==
    /\ Moved /\ new # listed
    /\ delta' = new \ listed /\ listed' = new
    /\ added' = (added \cup (new \ listed)) \cap new
    /\ syncs' = IF syncs < 2 THEN syncs + 1 ELSE syncs
    /\ UNCHANGED <<risky, alerts, age>>

WatchCountry(set) == /\ Moved /\ risky' = set
                     /\ UNCHANGED <<listed, delta, alerts, age, added, syncs>>

NewRun(c, n) == /\ Moved /\ alerts' = [alerts EXCEPT ![c] = n]
                /\ UNCHANGED <<listed, delta, risky, age, added, syncs>>

Older(n) == CHOOSE m \in Ages : m > n /\ \A k \in Ages : k > n => k >= m
TimePasses == /\ Moved
              /\ age' = [c \in Customers |-> IF age[c] = 1095 THEN 1095 ELSE Older(age[c])]
              /\ UNCHANGED <<listed, delta, risky, alerts, added, syncs>>

Review(c) == /\ Moved /\ age' = [age EXCEPT ![c] = 0]
             /\ UNCHANGED <<listed, delta, risky, alerts, added, syncs>>

RatingInit ==
    /\ rating \in [Customers -> Rungs \cup {"other"}]
    /\ listed = {} /\ delta = {} /\ risky = {} /\ alerts = [c \in Customers |-> 0]
    /\ age \in [Customers -> Ages]
    /\ plan = {} /\ fresh = FALSE /\ rounds = 0 /\ added = {} /\ syncs = 0 /\ changes = 0

RatingNext ==
    \/ Scan \/ Persist \/ TimePasses
    \/ \E new \in SUBSET Names : Sync(new)
    \/ \E set \in SUBSET Customers : WatchCountry(set)
    \/ \E c \in Customers : Review(c) \/ \E n \in 0..Threshold : NewRun(c, n)

RatingSpec == RatingInit /\ [][RatingNext]_ratingVars

----------------------------------------------------------------------------
(* Adverse evidence lowers a rating in one case only, the cap at high for a *)
(* customer who was critical, and never in a scan that hit a sanctions list.*)
FallsOnlyFromTheTop ==
    \A p \in plan : p.old \in Rungs /\ Rung(p.new) < Rung(p.old) =>
        p.old = "critical" /\ p.new = "high" /\ ~p.hit

(* A scan repeated over unchanged evidence climbs for two rounds at most:   *)
(* then it proposes nothing, however often it is run.                       *)
SettlesInTwo == rounds >= 2 => RatingChanges = {}

(* Whoever bears a name that was listed since the last scan, namesakes too, *)
(* is flagged by the next one, if the list changed once in between.         *)
NewlyListedAreFlagged ==
    syncs <= 1 => \A c \in Customers : NameOf[c] \in added => Recompute(c) = "critical"
=============================================================================
