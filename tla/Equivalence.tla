---------------------------- MODULE Equivalence ----------------------------
(***************************************************************************)
(* The comparison of a run with the legacy system it replaces: alerts of   *)
(* both are joined by customer, period and mapped rule, and each resulting *)
(* cell is classified.  Several new rules may map to one legacy rule, rows *)
(* may repeat, and the two exports come in any order.  A place stands for  *)
(* a customer and a period; new rules are numbers in the order they sort.  *)
(***************************************************************************)
EXTENDS Integers, Sequences, FiniteSets, SequencesExt, Rows

CONSTANTS
    Places, NoPlace,        \* NoPlace: the customer_id is blank
    NewRules, LegacyRules,
    Severities, None,       \* None: a severity or a rule that is not there
    rule_severities,        \* the severities of the spec's rules
    Carried,                \* bound: the severities a new alert itself may carry
    MaxNew, MaxLegacy       \* bounds: rows of either export

ASSUME MarkersAssumption == NoPlace \notin Places /\ None \notin LegacyRules \cup Severities
ASSUME RulesAssumption == NewRules \subseteq Nat
ASSUME SeveritiesAssumption == rule_severities \in [NewRules -> Severities \cup {None}]

VARIABLES
    rule_map,       \* new rule -> legacy rule, or None
    new_alerts, legacy_alerts,  \* the rows of both sides, as given
    new_index,      \* the new alerts kept, by place and legacy rule
    unmapped_new,   \* those kept whose rule maps to none
    unwalked,       \* the legacy rows kept and not yet walked
    consumed,       \* the new alerts paired
    cells,          \* the classified cells
    phase           \* "index", "walk", "done" or "raised"
compareVars ==
    <<rule_map, new_alerts, legacy_alerts, new_index, unmapped_new, unwalked, consumed, cells, phase>>
inputs == <<rule_map, new_alerts, legacy_alerts>>

NewRows == [place : Places \cup {NoPlace}, rule : NewRules, severity : Carried \cup {None}]
LegacyRows == [place : Places, rule : LegacyRules, severity : Severities \cup {None}]

CompareInit ==
    /\ rule_map \in [NewRules -> LegacyRules \cup {None}]
    /\ new_alerts \in SeqOf(NewRows, MaxNew) /\ legacy_alerts \in SeqOf(LegacyRows, MaxLegacy)
    /\ new_index = [k \in Places \X LegacyRules |-> <<>>] /\ unmapped_new = <<>>
    /\ unwalked = <<>> /\ consumed = {} /\ cells = <<>> /\ phase = "index"

----------------------------------------------------------------------------
(* The first row of each cell stays.                                        *)
Deduped(rows) ==
    Picked(rows, {i \in DOMAIN rows :
        \A j \in 1..(i - 1) : <<rows[j].place, rows[j].rule>> # <<rows[i].place, rows[i].rule>>})

(* A row with no customer fails the whole report, and one with no rule or a *)
(* date that cannot be read would the same way.                             *)
Index ==
    /\ phase = "index"
    /\ IF \E i \in DOMAIN new_alerts : new_alerts[i].place = NoPlace
       THEN /\ phase' = "raised"
            /\ UNCHANGED <<new_index, unmapped_new, unwalked>>
       ELSE LET kept == Deduped(new_alerts) IN
            /\ new_index' = [k \in DOMAIN new_index |->
                   Picked(kept, {i \in DOMAIN kept : kept[i].place = k[1] /\ rule_map[kept[i].rule] = k[2]})]
            /\ unmapped_new' = Picked(kept, {i \in DOMAIN kept : rule_map[kept[i].rule] = None})
            /\ unwalked' = Deduped(legacy_alerts)
            /\ phase' = "walk"
    /\ UNCHANGED <<inputs, consumed, cells>>

----------------------------------------------------------------------------
(* The payload's severity, or else the spec's.                              *)
Severity(a) == IF a.severity # None THEN a.severity ELSE rule_severities[a.rule]

(* The new rule a legacy alert is put down to when no alert matches it.     *)
Attribution(legacy) ==
    LET candidates == {n \in NewRules : rule_map[n] = legacy.rule} IN
    IF Cardinality(candidates) = 1 THEN CHOOSE n \in candidates : TRUE ELSE None

(* Mutant: the first candidate in the order of the rows.                    *)
PairedInOrder(candidates, legacy) == candidates[1]

(* An alert of the legacy severity if there is one; the first rule of those.*)
Paired(candidates, legacy) ==
    LET agreeing == {a \in ToSet(candidates) : legacy.severity # None /\ Severity(a) = legacy.severity}
        pool == IF agreeing = {} THEN ToSet(candidates) ELSE agreeing
    IN CHOOSE a \in pool : \A b \in pool : a.rule <= b.rule

Cell(place, new, legacy, class) == [place |-> place, new |-> new, legacy |-> legacy, class |-> class]

Differ(s, t) == s # None /\ t # None /\ s # t

Walk ==
    /\ phase = "walk" /\ unwalked # <<>>
    /\ LET legacy == Head(unwalked)
           candidates == new_index[<<legacy.place, legacy.rule>>]
           left == Picked(candidates, {i \in DOMAIN candidates : candidates[i] \notin consumed})
       IN IF left = <<>>
          THEN /\ cells' = Append(cells, Cell(legacy.place, Attribution(legacy), legacy.rule, "LEGACY_ONLY"))
               /\ UNCHANGED consumed
          ELSE LET a == Paired(left, legacy) IN
               /\ cells' = Append(cells, Cell(legacy.place, a.rule, legacy.rule,
                      IF Differ(Severity(a), legacy.severity) THEN "DIFF" ELSE "MATCH"))
               /\ consumed' = consumed \cup {a}
    /\ unwalked' = Tail(unwalked)
    /\ UNCHANGED <<inputs, new_index, unmapped_new, phase>>

(* What was not paired is the new system's alone.                           *)
Rest ==
    /\ phase = "walk" /\ unwalked = <<>>
    /\ LET spare == {a \in UNION {ToSet(new_index[k]) : k \in DOMAIN new_index} : a \notin consumed}
           only(a) == Cell(a.place, a.rule, rule_map[a.rule], "NEW_ONLY")
       IN cells' = cells \o SetToSeq({only(a) : a \in spare \cup ToSet(unmapped_new)})
    /\ phase' = "done"
    /\ UNCHANGED <<inputs, new_index, unmapped_new, unwalked, consumed>>

CompareNext == Index \/ Walk \/ Rest

CompareSpec == CompareInit /\ [][CompareNext]_compareVars

----------------------------------------------------------------------------
(* The alerts as two sets, whichever order and however often they came.     *)
News == ToSet(new_alerts)
Legacies == ToSet(legacy_alerts)
Of(l) == {a \in News : a.place = l.place /\ rule_map[a.rule] = l.rule}
Cells == ToSet(cells)
WithNew(a) == {i \in DOMAIN cells : cells[i].place = a.place /\ cells[i].new = a.rule
                                      /\ cells[i].class # "LEGACY_ONLY"}
WithLegacy(l) == {i \in DOMAIN cells : cells[i].place = l.place /\ cells[i].legacy = l.rule
                                         /\ cells[i].class # "NEW_ONLY"}

(* No side reports one cell with two severities.                            *)
Consistent ==
    /\ \A a, b \in News : a.place = b.place /\ a.rule = b.rule => Severity(a) = Severity(b)
    /\ \A l, m \in Legacies : l.place = m.place /\ l.rule = m.rule => l.severity = m.severity

EachOnce ==
    /\ \A a \in News : Cardinality(WithNew(a)) = 1
    /\ \A l \in Legacies : Cardinality(WithLegacy(l)) = 1
    /\ DOMAIN cells = UNION ({WithNew(a) : a \in News} \cup {WithLegacy(l) : l \in Legacies})

(* A legacy alert stands alone only if no new alert could be its partner.   *)
NoneMissed ==
    \A l \in Legacies : Of(l) # {} => \E i \in WithLegacy(l) : cells[i].class # "LEGACY_ONLY"

(* Who is left over agreed no better than the one paired in its place.      *)
BestPaired ==
    \A l \in Legacies : \A a \in Of(l), i \in WithLegacy(l) :
        LET fits(x) == l.severity # None /\ Severity(x) = l.severity IN
        \A b \in Of(l) : cells[i].new = b.rule =>
            /\ fits(a) => fits(b)
            /\ fits(a) = fits(b) => b.rule <= a.rule
            /\ cells[i].class = "DIFF" <=> Differ(Severity(b), l.severity)

(* Each alert of either side is in one cell, none is called one-sided that  *)
(* had a partner, and one legacy alert for several new rules takes the one  *)
(* that agrees with it - so that the order of the rows decides nothing.     *)
ReportIgnoresOrder == phase = "done" => EachOnce /\ NoneMissed /\ (Consistent => BestPaired)
=============================================================================
