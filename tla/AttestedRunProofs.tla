-------------------------- MODULE AttestedRunProofs --------------------------
(***************************************************************************)
(* Proofs about AttestedRun for any number of officers, versions, entries, *)
(* edits and cut-short writes.                                             *)
(***************************************************************************)
EXTENDS AttestedRun, FiniteSetTheorems, WellFoundedInduction, TLAPS

LEMMA TypeInit == Init => TypeOK
<1>. SUFFICES ASSUME Init PROVE TypeOK OBVIOUS
<1>. USE MaxEntriesAssumption, MaxTearsAssumption, MaxEditsAssumption
<1>1. LedgerTypeOK
  <2>1. lines \in Seq(Entry \cup {Junk}) BY DEF Init, LedgerInit
  <2>2. /\ pc \in [Signers -> {"idle", "hashed", "read"}]
        /\ signs \in [Signers -> Versions]
        /\ head \in [Signers -> 0..MaxEntries]
        /\ ids \in [Signers -> 0..MaxEntries]
        /\ \A s \in Signers : pc[s] # "read"
    BY DEF Init, LedgerInit
  <2>3. /\ spec \in Versions /\ edits = 0 /\ torn = FALSE /\ tears = 0
        /\ created = 0 /\ recorded = {} /\ overlapped = FALSE
    BY DEF Init, LedgerInit
  <2>4. 0 \in 0..MaxEdits /\ 0 \in 0..MaxTears /\ 0 \in 0..MaxEntries OBVIOUS
  <2>. QED BY <2>1, <2>2, <2>3, <2>4 DEF LedgerTypeOK
<1>. QED BY <1>1 DEF Init, LedgerInit, TypeOK

(* What an officer appends is an entry of the ledger.                      *)
LEMMA NewEntryIsEntry ==
    ASSUME LedgerTypeOK, NEW s \in Signers, pc[s] = "read"
    PROVE  NewEntry(s) \in Entry
BY MaxEntriesAssumption DEF LedgerTypeOK, NewEntry, Entry

LEMMA WrittenIsLedger ==
    ASSUME LedgerTypeOK, NEW e \in Entry \cup {Junk}
    PROVE  /\ Written(e) \in Seq(Entry \cup {Junk})
           /\ Written(e) # << >>
           /\ torn => /\ Len(Written(e)) = Len(lines)
                      /\ Written(e)[Len(lines)] = Junk
                      /\ \A i \in 1..(Len(lines) - 1) : Written(e)[i] = lines[i]
           /\ ~torn => /\ Len(Written(e)) = Len(lines) + 1
                       /\ Written(e)[Len(lines) + 1] = e
                       /\ \A i \in 1..Len(lines) : Written(e)[i] = lines[i]
<1>1. lines \in Seq(Entry \cup {Junk}) /\ torn \in BOOLEAN /\ (torn => lines # << >>)
  BY DEF LedgerTypeOK
<1>2. CASE torn
  <2>1. Len(lines) \in Nat /\ Len(lines) >= 1 BY <1>1, <1>2
  <2>2. Written(e) = [lines EXCEPT ![Len(lines)] = Junk] BY <1>2 DEF Written
  <2>3. \A i \in 1..Len(lines) : lines[i] \in Entry \cup {Junk} BY <1>1
  <2>4. Written(e) \in [1..Len(lines) -> Entry \cup {Junk}]
    BY <1>1, <2>1, <2>2, <2>3
  <2>5. Written(e) \in Seq(Entry \cup {Junk}) /\ Len(Written(e)) = Len(lines)
    BY <2>1, <2>4
  <2>6. Written(e)[Len(lines)] = Junk
    BY <1>1, <2>1, <2>2
  <2>7. \A i \in 1..(Len(lines) - 1) : Written(e)[i] = lines[i]
    BY <1>1, <2>1, <2>2
  <2>8. Written(e) # << >> BY <2>1, <2>5
  <2>. QED BY <1>2, <2>5, <2>6, <2>7, <2>8
<1>3. CASE ~torn
  <2>1. Written(e) = Append(lines, e) BY <1>3 DEF Written
  <2>. QED BY <1>1, <1>3, <2>1
<1>. QED BY <1>1, <1>2, <1>3

(* The latest entry is one of the ledger's.                                *)
LEMMA LastOfIsGreatest ==
    ASSUME NEW n \in Nat, NEW S \in SUBSET (1..n), S # {}
    PROVE  LastOf(S) \in S /\ \A j \in S : j <= LastOf(S)
<1>. DEFINE D == {n - i : i \in S}
            Below == OpToRel(<, Nat)
<1>1. D \subseteq Nat /\ D # {}
  <2>1. \A i \in S : n - i \in Nat OBVIOUS
  <2>2. D \subseteq Nat BY <2>1
  <2>3. PICK i \in S : TRUE OBVIOUS
  <2>4. n - i \in D BY <2>3
  <2>. QED BY <2>2, <2>4
<1>2. \E d \in D : \A k \in D : <<k, d>> \notin Below
  <2>. HIDE DEF D
  <2>. QED BY <1>1, NatLessThanWellFounded, WFMin, Zenon
<1>3. \A j, k \in Nat : <<j, k>> \in Below <=> j < k BY DEF OpToRel
<1>4. PICK d \in D : \A k \in D : ~(k < d) 
  <2>. HIDE DEF D, Below
  <2>. QED BY <1>1, <1>2, <1>3
<1>5. PICK i \in S : d = n - i OBVIOUS
<1>6. \A j \in S : j <= i BY <1>4, <1>5
<1>. QED BY <1>6 DEF LastOf
(* HeadBelow only looks below its position.                                *)
LEMMA HeadBelowIsLocal ==
    ASSUME LedgerTypeOK, LedgerTypeOK', NEW n \in 1..(Len(lines) + 1),
           n - 1 <= Len(lines'),
           \A i \in 1..(n - 1) : lines'[i] = lines[i]
    PROVE  HeadBelow(n)' = HeadBelow(n)
<1>1. lines \in Seq(Entry \cup {Junk}) /\ lines' \in Seq(Entry \cup {Junk})
  BY DEF LedgerTypeOK
<1>2. {i \in Good : i < n}' = {i \in Good : i < n}
  BY <1>1 DEF Good
<1>3. \A i \in {j \in Good : j < n} : lines'[i] = lines[i]
  BY <1>1 DEF Good
<1>4. CASE {i \in Good : i < n} = {} BY <1>2, <1>4 DEF HeadBelow
<1>5. CASE {i \in Good : i < n} # {}
  <2>1. LastOf({i \in Good : i < n}) \in {i \in Good : i < n}
    <3>. DEFINE B == {i \in Good : i < n}
    <3>1. B \in SUBSET (1..Len(lines)) /\ Len(lines) \in Nat BY <1>1 DEF Good
    <3>2. B # {} BY <1>5
    <3>. HIDE DEF B
    <3>3. LastOf(B) \in B BY <3>1, <3>2, LastOfIsGreatest
    <3>. QED BY <3>3 DEF B
  <2>. QED BY <1>2, <1>3, <1>5, <2>1 DEF HeadBelow
<1>. QED BY <1>4, <1>5

(* The head of a chain is no younger than the youngest entry.              *)
HeadsBounded == /\ \A i \in Good : lines[i].id <= created
                /\ \A s \in Signers : head[s] <= created

LEMMA HeadIsBounded ==
    ASSUME LedgerTypeOK, HeadsBounded, NEW n \in 1..(Len(lines) + 1)
    PROVE  HeadBelow(n) \in 0..created
<1>1. lines \in Seq(Entry \cup {Junk}) /\ created \in Nat
  BY MaxEntriesAssumption DEF LedgerTypeOK
<1>2. CASE {i \in Good : i < n} = {} BY <1>1, <1>2 DEF HeadBelow
<1>3. CASE {i \in Good : i < n} # {}
  <2>. DEFINE m == LastOf({i \in Good : i < n})
  <2>1. m \in Good
    <3>. DEFINE B == {i \in Good : i < n}
    <3>1. B \in SUBSET (1..Len(lines)) /\ Len(lines) \in Nat BY <1>1 DEF Good
    <3>2. B # {} BY <1>3
    <3>. HIDE DEF B
    <3>3. LastOf(B) \in B BY <3>1, <3>2, LastOfIsGreatest
    <3>. QED BY <3>3 DEF B
  <2>2. lines[m] \in Entry BY <1>1, <2>1 DEF Good
  <2>3. lines[m].id \in Nat /\ lines[m].id <= created
    BY <2>1, <2>2 DEF Entry, HeadsBounded
  <2>4. HeadBelow(n) = lines[m].id BY <1>3 DEF HeadBelow
  <2>. QED BY <1>1, <2>3, <2>4
<1>. QED BY <1>2, <1>3
----------------------------------------------------------------------------
(* Types.  The head an officer read stays within the entries created, so    *)
(* the typing of head needs HeadsBounded beside it.                         *)

(* What a write may leave at a position of the ledger.                      *)
LEMMA WriteKeeps ==
    ASSUME LedgerTypeOK, NEW s \in Signers, pc[s] = "read",
           NEW e \in {NewEntry(s), Junk}, lines' = Written(e)
    PROVE  /\ lines' \in Seq(Entry \cup {Junk}) /\ lines' # << >>
           /\ Len(lines) <= Len(lines')
           /\ \A i \in Good' : \/ i \in Good /\ lines'[i] = lines[i]
                               \/ /\ ~torn /\ i = Len(lines) + 1
                                  /\ e = NewEntry(s) /\ lines'[i] = NewEntry(s)
<1>1. e \in Entry \cup {Junk} BY NewEntryIsEntry
<1>2. lines \in Seq(Entry \cup {Junk}) /\ torn \in BOOLEAN
  BY DEF LedgerTypeOK
<1>3. lines' \in Seq(Entry \cup {Junk}) /\ lines' # << >>
  BY <1>1, WrittenIsLedger
<1>4. CASE torn
  <2>1. /\ Len(lines') = Len(lines) /\ lines'[Len(lines)] = Junk
        /\ \A i \in 1..(Len(lines) - 1) : lines'[i] = lines[i]
    BY <1>1, <1>4, WrittenIsLedger
  <2>2. \A i \in Good' : i \in 1..(Len(lines) - 1)
    BY <1>2, <1>3, <2>1 DEF Good
  <2>3. \A i \in Good' : i \in Good /\ lines'[i] = lines[i]
    BY <1>2, <1>3, <2>1, <2>2 DEF Good
  <2>. QED BY <1>2, <1>3, <2>1, <2>3
<1>5. CASE ~torn
  <2>1. /\ Len(lines') = Len(lines) + 1 /\ lines'[Len(lines) + 1] = e
        /\ \A i \in 1..Len(lines) : lines'[i] = lines[i]
    BY <1>1, <1>5, WrittenIsLedger
  <2>2. \A i \in Good' : i \in 1..Len(lines) \/ i = Len(lines) + 1
    BY <1>2, <1>3, <2>1 DEF Good
  <2>3. \A i \in Good' : i \in 1..Len(lines) => i \in Good /\ lines'[i] = lines[i]
    BY <1>2, <1>3, <2>1 DEF Good
  <2>4. \A i \in Good' : i = Len(lines) + 1 => e # Junk /\ lines'[i] = e
    BY <1>3, <2>1 DEF Good
  <2>. QED BY <1>2, <1>3, <1>5, <2>1, <2>2, <2>3, <2>4
<1>. QED BY <1>2, <1>4, <1>5

LEMMA LedgerTypeStep ==
    ASSUME LedgerTypeOK, HeadsBounded, [LedgerNext]_ledgerVars
    PROVE  LedgerTypeOK' /\ HeadsBounded'
<1>. USE MaxEntriesAssumption, MaxTearsAssumption, MaxEditsAssumption
<1>0. lines \in Seq(Entry \cup {Junk}) BY DEF LedgerTypeOK
<1>1. CASE UNCHANGED ledgerVars
  BY <1>1 DEF LedgerTypeOK, HeadsBounded, Good, ledgerVars, file, ledger, callers
<1>2. ASSUME NEW v \in Versions, Edit(v) PROVE LedgerTypeOK' /\ HeadsBounded'
  BY <1>2 DEF Edit, LedgerTypeOK, HeadsBounded, Good, ledger, callers
<1>3. ASSUME NEW s \in Signers, HashSpec(s) PROVE LedgerTypeOK' /\ HeadsBounded'
  BY <1>3 DEF HashSpec, LedgerTypeOK, HeadsBounded, Good, ledger, file
<1>4. ASSUME NEW s \in Signers, ReadHead(s) PROVE LedgerTypeOK' /\ HeadsBounded'
  <2>1. Latest \in 0..created
    <3>1. Len(lines) + 1 \in 1..(Len(lines) + 1) BY <1>0
    <3>. QED BY <3>1, HeadIsBounded DEF Latest
  <2>2. UNCHANGED <<file, ledger, signs>> /\ overlapped' \in BOOLEAN
    BY <1>4 DEF ReadHead, Build, LedgerTypeOK
  <2>3. created \in Nat /\ created < MaxEntries /\ created' = created + 1
    BY <1>4 DEF ReadHead, Build, LedgerTypeOK
  <2>4. /\ head' \in [Signers -> 0..MaxEntries]
        /\ ids' \in [Signers -> 0..MaxEntries]
        /\ pc' \in [Signers -> {"idle", "hashed", "read"}]
    BY <1>4, <2>1, <2>3 DEF ReadHead, Build, LedgerTypeOK
  <2>5. /\ \A t \in Signers : head'[t] <= created'
        /\ \A t \in Signers : pc'[t] = "read" => ids'[t] \in 1..created'
    BY <1>4, <2>1, <2>3 DEF ReadHead, Build, LedgerTypeOK, HeadsBounded
  <2>6. \A i \in Good : lines[i].id <= created'
    <3>1. \A i \in Good : lines[i].id \in Nat BY <1>0 DEF Good, Entry
    <3>. QED BY <2>3, <3>1 DEF HeadsBounded
  <2>7. created' \in 0..MaxEntries BY <2>3
  <2>8. HeadsBounded'
    <3>1. lines' = lines /\ Good' = Good BY <2>2 DEF ledger, Good
    <3>2. \A i \in Good' : lines'[i].id <= created' BY <2>6, <3>1
    <3>3. \A t \in Signers : head'[t] <= created' BY <2>5
    <3>. QED BY <3>2, <3>3 DEF HeadsBounded
  <2>9. LedgerTypeOK'
    <3>1. \A t \in Signers : pc'[t] = "read" => ids'[t] \in 1..created' BY <2>5
    <3>. QED BY <2>2, <2>4, <2>7, <3>1 DEF LedgerTypeOK, ledger, file
  <2>. QED BY <2>8, <2>9
<1>5. ASSUME NEW s \in Signers, pc[s] = "read", NEW e \in {NewEntry(s), Junk},
             lines' = Written(e), created' = created, head' = head
      PROVE  HeadsBounded' /\ lines' \in Seq(Entry \cup {Junk}) /\ lines' # << >>
  <2>1. /\ lines' \in Seq(Entry \cup {Junk}) /\ lines' # << >>
        /\ \A i \in Good' : \/ i \in Good /\ lines'[i] = lines[i]
                            \/ lines'[i] = NewEntry(s)
    BY <1>5, WriteKeeps
  <2>2. \A i \in Good' : lines'[i].id <= created'
    <3>1. NewEntry(s).id = ids[s] BY DEF NewEntry
    <3>2. ids[s] <= created BY <1>5 DEF LedgerTypeOK
    <3>. QED BY <1>5, <2>1, <3>1, <3>2 DEF HeadsBounded
  <2>. QED BY <1>5, <2>1, <2>2 DEF HeadsBounded
<1>6. ASSUME NEW s \in Signers, WriteLine(s) PROVE LedgerTypeOK' /\ HeadsBounded'
  <2>1. HeadsBounded' /\ lines' \in Seq(Entry \cup {Junk}) /\ lines' # << >>
    <3>1. /\ pc[s] = "read" /\ lines' = Written(NewEntry(s))
          /\ created' = created /\ head' = head
      BY <1>6 DEF WriteLine
    <3>. QED BY <1>5, <3>1
  <2>2. recorded' \subseteq Entry
    BY <1>6, NewEntryIsEntry DEF WriteLine, LedgerTypeOK
  <2>3. /\ UNCHANGED <<file, tears, created, signs, head, ids, overlapped>>
        /\ torn' = FALSE
        /\ pc' \in [Signers -> {"idle", "hashed", "read"}]
        /\ \A t \in Signers : pc'[t] = "read" => pc[t] = "read"
    BY <1>6 DEF WriteLine, LedgerTypeOK
  <2>. QED BY <2>1, <2>2, <2>3 DEF LedgerTypeOK, file
<1>7. ASSUME NEW s \in Signers, TearLine(s) PROVE LedgerTypeOK' /\ HeadsBounded'
  <2>1. HeadsBounded' /\ lines' \in Seq(Entry \cup {Junk}) /\ lines' # << >>
    <3>1. PICK e \in {NewEntry(s), Junk} : lines' = Written(e)
      BY <1>7 DEF TearLine
    <3>2. pc[s] = "read" /\ created' = created /\ head' = head
      BY <1>7 DEF TearLine
    <3>. QED BY <1>5, <3>1, <3>2
  <2>2. /\ UNCHANGED <<file, created, recorded, signs, head, ids, overlapped>>
        /\ torn' = TRUE /\ tears' \in 0..MaxTears
        /\ pc' \in [Signers -> {"idle", "hashed", "read"}]
        /\ \A t \in Signers : pc'[t] = "read" => pc[t] = "read"
    BY <1>7 DEF TearLine, LedgerTypeOK
  <2>. QED BY <2>1, <2>2 DEF LedgerTypeOK, file
<1>. QED BY <1>1, <1>2, <1>3, <1>4, <1>6, <1>7 DEF LedgerNext, Sign

LEMMA RunStepsKeepLedger ==
    ASSUME [Next]_vars PROVE [LedgerNext]_ledgerVars
BY DEF Next, Runner, Around, vars, Load, GateHash, GateLookup, Stamp, Snapshot

Types == TypeOK /\ HeadsBounded

LEMMA TypesInit == Init => Types
<1>. SUFFICES ASSUME Init PROVE Types OBVIOUS
<1>1. HeadsBounded BY DEF Init, LedgerInit, HeadsBounded, Good
<1>. QED BY <1>1, TypeInit DEF Types

(* Only a save counts as an edit.                                           *)
LEMMA EditsGrow ==
    ASSUME LedgerTypeOK, [LedgerNext]_ledgerVars
    PROVE  /\ edits \in Nat /\ edits' \in {edits, edits + 1}
           /\ edits' = edits => spec' = spec
BY MaxEditsAssumption DEF LedgerTypeOK, LedgerNext, Sign, Edit, HashSpec, ReadHead,
                          Build, WriteLine, TearLine, ledgerVars, file

LEMMA TypesStep == Types /\ [Next]_vars => Types'
<1>. SUFFICES ASSUME Types, [Next]_vars PROVE Types' OBVIOUS
<1>1. LedgerTypeOK /\ spec \in Versions BY DEF Types, TypeOK, LedgerTypeOK
<1>2. LedgerTypeOK' /\ HeadsBounded'
  BY <1>1, LedgerTypeStep, RunStepsKeepLedger DEF Types
<1>3. /\ phase' \in {"idle", "loaded", "hashed", "cleared", "stamped", "running", "refused"}
      /\ {executes', gated', stamped', copied'} \subseteq Versions
      /\ saves' \in 0..edits'
  <2>1. CASE UNCHANGED vars BY <2>1 DEF vars, run, Types, TypeOK, ledgerVars, file
  <2>2. CASE Load BY <1>1, <2>2 DEF Load, Types, TypeOK, LedgerTypeOK, ledgerVars, file
  <2>3. CASE GateHash BY <1>1, <2>3 DEF GateHash, Types, TypeOK, LedgerTypeOK, ledgerVars, file
  <2>4. CASE GateLookup BY <2>4 DEF GateLookup, Types, TypeOK, LedgerTypeOK, ledgerVars, file
  <2>5. CASE Stamp BY <1>1, <2>5 DEF Stamp, Types, TypeOK, LedgerTypeOK, ledgerVars, file
  <2>6. CASE Snapshot BY <1>1, <2>6 DEF Snapshot, Types, TypeOK, LedgerTypeOK, ledgerVars, file
  <2>7. CASE Around BY <1>1, <2>7, EditsGrow DEF Around, run, Types, TypeOK
  <2>. QED BY <2>1, <2>2, <2>3, <2>4, <2>5, <2>6, <2>7 DEF Next, Runner
<1>. QED BY <1>2, <1>3 DEF Types, TypeOK

LEMMA TypesHold == Spec => []Types
BY TypesInit, TypesStep, PTL DEF Spec

(* Every variable of ledger and command keeps its shape.                   *)
THEOREM TypeCorrect == Spec => []TypeOK
<1>1. Types => TypeOK BY DEF Types
<1>. QED BY <1>1, TypesHold, PTL

----------------------------------------------------------------------------
(* SerialSigningVerifies.  While no two officers have been between reading  *)
(* and writing, at most one is there, and what it read is still the head.   *)

SerialInv ==
    ~overlapped =>
        /\ Verify
        /\ \A s, t \in Signers : pc[s] = "read" /\ pc[t] = "read" => s = t
        /\ \A s \in Signers : pc[s] = "read" => head[s] = Latest

LEMMA SerialWrite ==
    ASSUME LedgerTypeOK, LedgerTypeOK', NEW s \in Signers, Verify,
           pc[s] = "read", head[s] = Latest,
           NEW e \in {NewEntry(s), Junk}, lines' = Written(e)
    PROVE  Verify'
<1>. SUFFICES ASSUME NEW j \in Good' PROVE lines'[j].prev = HeadBelow(j)'
  BY DEF Verify
<1>0. lines \in Seq(Entry \cup {Junk}) /\ lines' \in Seq(Entry \cup {Junk})
  BY DEF LedgerTypeOK
<1>1. j \in 1..Len(lines') /\ j \in Nat BY <1>0 DEF Good
<1>2. \/ j \in Good /\ lines'[j] = lines[j]
      \/ ~torn /\ j = Len(lines) + 1 /\ lines'[j] = NewEntry(s)
  BY WriteKeeps
<1>3. /\ torn => Len(lines') = Len(lines)
      /\ \A i \in 1..(j - 1) : lines'[i] = lines[i]
  <2>1. e \in Entry \cup {Junk} BY NewEntryIsEntry
  <2>2. CASE torn
    <3>1. /\ Len(lines') = Len(lines)
          /\ \A i \in 1..(Len(lines) - 1) : lines'[i] = lines[i]
      BY <2>1, <2>2, WrittenIsLedger
    <3>. QED BY <1>0, <1>1, <3>1
  <2>3. CASE ~torn
    <3>1. /\ Len(lines') = Len(lines) + 1
          /\ \A i \in 1..Len(lines) : lines'[i] = lines[i]
      BY <2>1, <2>3, WrittenIsLedger
    <3>. QED BY <1>0, <1>1, <2>3, <3>1
  <2>4. torn \in BOOLEAN BY DEF LedgerTypeOK
  <2>. QED BY <2>2, <2>3, <2>4
<1>4. j \in 1..(Len(lines) + 1) BY <1>0, <1>1, <1>2 DEF Good
<1>5. HeadBelow(j)' = HeadBelow(j)
  <2>1. j - 1 <= Len(lines') BY <1>0, <1>1
  <2>. QED BY <1>3, <1>4, <2>1, HeadBelowIsLocal
<1>6. CASE j \in Good /\ lines'[j] = lines[j] BY <1>5, <1>6 DEF Verify
<1>7. CASE j = Len(lines) + 1 /\ lines'[j] = NewEntry(s)
  BY <1>5, <1>7 DEF NewEntry, Latest
<1>. QED BY <1>2, <1>6, <1>7

LEMMA SerialStep ==
    ASSUME LedgerTypeOK, LedgerTypeOK', SerialInv, [LedgerNext]_ledgerVars
    PROVE  SerialInv'
<1>. SUFFICES ASSUME ~overlapped' PROVE SerialInv' BY DEF SerialInv
<1>0. pc \in [Signers -> {"idle", "hashed", "read"}] /\ head \in [Signers -> 0..MaxEntries]
  BY DEF LedgerTypeOK
<1>1. CASE UNCHANGED <<lines, pc, head, overlapped>>
  BY <1>1 DEF SerialInv, Verify, HeadBelow, Latest, Good
<1>2. ASSUME NEW s \in Signers, HashSpec(s) PROVE SerialInv'
  <2>1. /\ UNCHANGED <<lines, head, overlapped>>
        /\ \A t \in Signers : pc'[t] = "read" => pc[t] = "read"
    BY <1>0, <1>2 DEF HashSpec, ledger
  <2>. QED BY ZenonT(30), <2>1 DEF SerialInv, Verify, HeadBelow, Latest, Good
<1>3. ASSUME NEW s \in Signers, ReadHead(s) PROVE SerialInv'
  <2>1. /\ UNCHANGED lines /\ ~overlapped
        /\ \A t \in Signers \ {s} : pc[t] # "read" /\ pc'[t] = pc[t]
        /\ head'[s] = Latest
    BY <1>0, <1>3 DEF ReadHead, Build, ledger
  <2>2. Verify' /\ Latest' = Latest
    BY <2>1 DEF SerialInv, Verify, HeadBelow, Latest, Good
  <2>. QED BY <2>1, <2>2 DEF SerialInv
<1>4. ASSUME NEW s \in Signers, pc[s] = "read", pc' = [pc EXCEPT ![s] = "idle"],
             head' = head, overlapped' = overlapped,
             NEW e \in {NewEntry(s), Junk}, lines' = Written(e)
      PROVE  SerialInv'
  <2>1. /\ Verify /\ head[s] = Latest
        /\ \A t \in Signers : pc'[t] # "read"
    BY <1>0, <1>4 DEF SerialInv
  <2>2. Verify' BY <1>4, <2>1, SerialWrite
  <2>. QED BY <2>1, <2>2 DEF SerialInv
<1>5. ASSUME NEW s \in Signers, WriteLine(s) PROVE SerialInv'
  BY <1>4, <1>5 DEF WriteLine
<1>6. ASSUME NEW s \in Signers, TearLine(s) PROVE SerialInv'
  BY <1>4, <1>6 DEF TearLine
<1>7. ASSUME NEW v \in Versions, Edit(v) PROVE SerialInv'
  BY <1>1, <1>7 DEF Edit, ledger, callers
<1>8. CASE UNCHANGED ledgerVars BY <1>1, <1>8 DEF ledgerVars, ledger, callers
<1>. QED BY <1>2, <1>3, <1>5, <1>6, <1>7, <1>8 DEF LedgerNext, Sign

(* Officers who sign one after the other leave a ledger that verifies.     *)
THEOREM SerialSigning == Spec => []SerialSigningVerifies
<1>1. Init => SerialInv
  BY DEF Init, LedgerInit, SerialInv, Verify, Good
<1>2. Types /\ Types' /\ SerialInv /\ [Next]_vars => SerialInv'
  BY SerialStep, RunStepsKeepLedger DEF Types, TypeOK
<1>3. SerialInv => SerialSigningVerifies BY DEF SerialInv, SerialSigningVerifies
<1>. QED BY <1>1, <1>2, <1>3, TypesHold, PTL DEF Spec

----------------------------------------------------------------------------
(* LostOnlyByTears.  An open last line was never reported as recorded; it   *)
(* is a cut write whose toll, the next line, is still to be paid.           *)

TearInv ==
    /\ IsFiniteSet(recorded)
    /\ torn => lines[Len(lines)] \notin recorded
    /\ Cardinality(Lost) + (IF torn THEN 1 ELSE 0) <= tears

(* An entry still to be written is nobody else's, and not recorded yet.     *)
FreshInv ==
    /\ \A e \in recorded : e.id <= created
    /\ \A s \in Signers : pc[s] = "read" => \A e \in recorded : e.id # ids[s]
    /\ \A s, t \in Signers : pc[s] = "read" /\ pc[t] = "read" /\ s # t
                            => ids[s] # ids[t]

LEMMA FreshStep ==
    ASSUME LedgerTypeOK, FreshInv, [LedgerNext]_ledgerVars PROVE FreshInv'
<1>0. /\ created \in Nat /\ \A e \in recorded : e.id \in Nat
      /\ pc \in [Signers -> {"idle", "hashed", "read"}]
      /\ ids \in [Signers -> 0..MaxEntries]
      /\ \A s \in Signers : pc[s] = "read" => ids[s] \in 1..created
  BY MaxEntriesAssumption DEF LedgerTypeOK, Entry
<1>1. CASE UNCHANGED <<recorded, created, pc, ids>> BY <1>1 DEF FreshInv
<1>2. ASSUME NEW s \in Signers, HashSpec(s) PROVE FreshInv'
  BY <1>0, <1>2 DEF HashSpec, FreshInv, ledger
<1>3. ASSUME NEW s \in Signers, ReadHead(s) PROVE FreshInv'
  <2>1. /\ created' = created + 1 /\ recorded' = recorded
        /\ ids' = [ids EXCEPT ![s] = created + 1]
        /\ pc' = [pc EXCEPT ![s] = "read"]
    BY <1>3 DEF ReadHead, Build, ledger
  <2>2. \A e \in recorded : e.id <= created' /\ e.id # created + 1
    BY <1>0, <2>1 DEF FreshInv
  <2>3. \A t \in Signers : pc[t] = "read" => ids[t] # created + 1
    BY <1>0
  <2>. QED BY <1>0, <2>1, <2>2, <2>3 DEF FreshInv
<1>4. ASSUME NEW s \in Signers, WriteLine(s) PROVE FreshInv'
  <2>. DEFINE e == NewEntry(s)
  <2>1. e.id = ids[s] BY DEF NewEntry
  <2>2. /\ recorded' = recorded \cup {e} /\ UNCHANGED <<created, ids>>
        /\ pc[s] = "read" /\ pc' = [pc EXCEPT ![s] = "idle"]
    BY <1>4 DEF WriteLine
  <2>. HIDE DEF e
  <2>. QED BY <1>0, <2>1, <2>2 DEF FreshInv
<1>5. ASSUME NEW s \in Signers, TearLine(s) PROVE FreshInv'
  BY <1>0, <1>5 DEF TearLine, FreshInv
<1>6. ASSUME NEW v \in Versions, Edit(v) PROVE FreshInv'
  BY <1>1, <1>6 DEF Edit, ledger, callers
<1>7. CASE UNCHANGED ledgerVars BY <1>1, <1>7 DEF ledgerVars, ledger, callers
<1>. QED BY <1>2, <1>3, <1>4, <1>5, <1>6, <1>7 DEF LedgerNext, Sign

(* The lost entries are finitely many, and fewer if they are among others. *)
LEMMA LostCounts ==
    ASSUME NEW S, IsFiniteSet(S), NEW L \in SUBSET S
    PROVE  /\ IsFiniteSet(L) /\ Cardinality(L) \in Nat /\ Cardinality(L) <= Cardinality(S)
           /\ Cardinality(S) \in Nat
  BY FS_Subset, FS_CardinalityType

(* A write keeps what other lines hold, and the glued line held nothing     *)
(* recorded.                                                                *)
LEMMA WriteLoses ==
    ASSUME LedgerTypeOK, TearInv, NEW s \in Signers, pc[s] = "read",
           NEW e \in {NewEntry(s), Junk}, lines' = Written(e),
           NEW x \in recorded, x \notin Lost
    PROVE  \E i \in Good' : lines'[i] = x
<1>0. lines \in Seq(Entry \cup {Junk}) /\ torn \in BOOLEAN BY DEF LedgerTypeOK
<1>1. e \in Entry \cup {Junk} BY NewEntryIsEntry
<1>2. PICK i \in Good : lines[i] = x BY DEF Lost
<1>3. i \in 1..Len(lines) /\ lines[i] # Junk BY <1>0 DEF Good
<1>4. lines' \in Seq(Entry \cup {Junk}) BY <1>1, WrittenIsLedger
<1>5. i \in 1..Len(lines') /\ lines'[i] = lines[i]
  <2>1. CASE torn
    <3>1. i # Len(lines) BY <1>2, <2>1 DEF TearInv
    <3>2. /\ Len(lines') = Len(lines)
          /\ \A k \in 1..(Len(lines) - 1) : lines'[k] = lines[k]
      BY <1>1, <2>1, WrittenIsLedger
    <3>3. i \in 1..(Len(lines) - 1) BY <1>0, <1>3, <3>1
    <3>. QED BY <1>3, <3>2, <3>3
  <2>2. CASE ~torn
    <3>1. /\ Len(lines') = Len(lines) + 1
          /\ \A k \in 1..Len(lines) : lines'[k] = lines[k]
      BY <1>1, <2>2, WrittenIsLedger
    <3>. QED BY <1>0, <1>3, <3>1
  <2>. QED BY <1>0, <2>1, <2>2
<1>6. i \in Good' BY <1>3, <1>4, <1>5 DEF Good
<1>. QED BY <1>2, <1>5, <1>6

LEMMA WriteLineTears ==
    ASSUME LedgerTypeOK, LedgerTypeOK', FreshInv, TearInv, NEW s \in Signers, WriteLine(s)
    PROVE  TearInv'
<1>. DEFINE e == NewEntry(s)
<1>0. /\ pc[s] = "read" /\ lines' = Written(e) /\ torn' = FALSE
      /\ recorded' = recorded \cup {e} /\ tears' = tears
  BY DEF WriteLine
<1>1. /\ lines \in Seq(Entry \cup {Junk}) /\ torn \in BOOLEAN /\ created \in Nat
      /\ tears \in Nat /\ recorded \subseteq Entry /\ lines' \in Seq(Entry \cup {Junk})
  BY MaxEntriesAssumption, MaxTearsAssumption DEF LedgerTypeOK
<1>2. e \in Entry BY <1>0, NewEntryIsEntry
<1>3. IsFiniteSet(recorded') BY <1>0, FS_AddElement DEF TearInv
<1>5. Lost' \subseteq Lost \cup {e}
  <2>1. \A x \in recorded : x \notin Lost => \E i \in Good' : lines'[i] = x
    BY <1>0, WriteLoses
  <2>. HIDE DEF e
  <2>. QED BY <1>0, <2>1 DEF Lost
<1>6. /\ IsFiniteSet(Lost) /\ Cardinality(Lost) \in Nat
  <2>1. Lost \in SUBSET recorded BY DEF Lost
  <2>. QED BY <2>1, LostCounts DEF TearInv
<1>7. CASE torn
  <2>1. Cardinality(Lost) + 1 <= tears BY <1>7 DEF TearInv
  <2>2. IsFiniteSet(Lost \cup {e}) /\ Cardinality(Lost \cup {e}) <= Cardinality(Lost) + 1
    <3>. HIDE DEF e
    <3>1. /\ IsFiniteSet(Lost \cup {e})
          /\ \/ Cardinality(Lost \cup {e}) = Cardinality(Lost)
             \/ Cardinality(Lost \cup {e}) = Cardinality(Lost) + 1
      BY <1>6, FS_AddElement
    <3>. QED BY <1>6, <3>1
  <2>3. /\ Cardinality(Lost') \in Nat /\ Cardinality(Lost \cup {e}) \in Nat
        /\ Cardinality(Lost') <= Cardinality(Lost \cup {e})
    BY <1>5, <2>2, LostCounts
  <2>4. Cardinality(Lost') <= tears BY <1>1, <1>6, <2>1, <2>2, <2>3
  <2>5. Cardinality(Lost)' <= tears' BY <1>0, <2>4
  <2>6. Cardinality(Lost)' \in Nat BY <2>3
  <2>. QED BY <1>0, <1>3, <2>5, <2>6 DEF TearInv
<1>8. CASE ~torn
  <2>1. \E i \in Good' : lines'[i] = e
    <3>1. /\ Len(lines') = Len(lines) + 1 /\ lines'[Len(lines) + 1] = e
      BY <1>0, <1>2, <1>8, WrittenIsLedger
    <3>2. e # Junk BY <1>2, JunkAssumption
    <3>3. Len(lines) + 1 \in Good' BY <1>1, <3>1, <3>2 DEF Good
    <3>. QED BY <3>1, <3>3
  <2>2. Lost' \in SUBSET Lost
    <3>. HIDE DEF e
    <3>. QED BY <1>5, <2>1 DEF Lost
  <2>3. /\ Cardinality(Lost') \in Nat /\ Cardinality(Lost') <= Cardinality(Lost)
    BY <1>6, <2>2, LostCounts
  <2>4. Cardinality(Lost) <= tears BY <1>1, <1>6, <1>8 DEF TearInv
  <2>5. Cardinality(Lost)' <= tears' BY <1>0, <1>1, <1>6, <2>3, <2>4
  <2>6. Cardinality(Lost)' \in Nat BY <2>3
  <2>. QED BY <1>0, <1>3, <2>5, <2>6 DEF TearInv
<1>. QED BY <1>1, <1>7, <1>8

LEMMA TearLineTears ==
    ASSUME LedgerTypeOK, LedgerTypeOK', FreshInv, TearInv, NEW s \in Signers, TearLine(s)
    PROVE  TearInv'
<1>0. /\ pc[s] = "read" /\ torn' = TRUE /\ tears' = tears + 1
      /\ recorded' = recorded
  BY DEF TearLine
<1>1. PICK e \in {NewEntry(s), Junk} : lines' = Written(e) BY DEF TearLine
<1>2. /\ lines \in Seq(Entry \cup {Junk}) /\ torn \in BOOLEAN /\ created \in Nat
      /\ tears \in Nat /\ recorded \subseteq Entry /\ lines' \in Seq(Entry \cup {Junk})
  BY MaxEntriesAssumption, MaxTearsAssumption DEF LedgerTypeOK
<1>4. NewEntry(s) \notin recorded /\ Junk \notin recorded
  <2>1. NewEntry(s).id = ids[s] BY DEF NewEntry
  <2>. QED BY <1>0, <1>2, <2>1, JunkAssumption DEF FreshInv
<1>5. lines'[Len(lines')] \notin recorded'
  <2>0. e \in Entry \cup {Junk} BY <1>0, NewEntryIsEntry
  <2>1. CASE torn
    <3>1. Len(lines') = Len(lines) /\ lines'[Len(lines)] = Junk
      BY <1>1, <2>0, <2>1, WrittenIsLedger
    <3>. QED BY <1>0, <1>4, <3>1
  <2>2. CASE ~torn
    <3>1. Len(lines') = Len(lines) + 1 /\ lines'[Len(lines) + 1] = e
      BY <1>1, <2>0, <2>2, WrittenIsLedger
    <3>. QED BY <1>0, <1>4, <3>1
  <2>. QED BY <1>2, <2>1, <2>2
<1>6. Lost' \in SUBSET Lost
  <2>1. \A x \in recorded : x \notin Lost => \E i \in Good' : lines'[i] = x
    BY <1>0, <1>1, WriteLoses
  <2>. QED BY <1>0, <2>1 DEF Lost
<1>7. /\ IsFiniteSet(Lost) /\ Cardinality(Lost) \in Nat
  <2>1. Lost \in SUBSET recorded BY DEF Lost
  <2>. QED BY <2>1, LostCounts DEF TearInv
<1>8. /\ Cardinality(Lost') \in Nat /\ Cardinality(Lost') <= Cardinality(Lost)
  BY <1>6, <1>7, LostCounts
<1>9. Cardinality(Lost)' + 1 <= tears'
  <2>1. Cardinality(Lost) <= tears BY <1>2, <1>7 DEF TearInv
  <2>. QED BY <1>0, <1>2, <1>7, <1>8, <2>1
<1>. QED BY <1>0, <1>5, <1>9 DEF TearInv

LEMMA TearStep ==
    ASSUME LedgerTypeOK, LedgerTypeOK', FreshInv, TearInv, [LedgerNext]_ledgerVars
    PROVE  TearInv'
<1>1. CASE UNCHANGED ledger
  <2>1. Lost' = Lost BY <1>1 DEF Lost, Good, ledger
  <2>. QED BY <1>1, <2>1 DEF TearInv, ledger
<1>2. ASSUME NEW s \in Signers, WriteLine(s) PROVE TearInv' BY <1>2, WriteLineTears
<1>3. ASSUME NEW s \in Signers, TearLine(s) PROVE TearInv' BY <1>3, TearLineTears
<1>4. ASSUME NEW s \in Signers, HashSpec(s) \/ ReadHead(s) PROVE UNCHANGED ledger
  BY <1>4 DEF HashSpec, ReadHead, Build
<1>5. ASSUME NEW v \in Versions, Edit(v) PROVE UNCHANGED ledger BY <1>5 DEF Edit
<1>6. CASE UNCHANGED ledgerVars BY <1>1, <1>6 DEF ledgerVars
<1>. QED BY <1>1, <1>2, <1>3, <1>4, <1>5, <1>6 DEF LedgerNext, Sign

(* However many writes are cut short, each costs at most one attestation    *)
(* that was reported as recorded.                                           *)
THEOREM LossIsBounded == Spec => []LostOnlyByTears
<1>1. Init => TearInv
  <2>. SUFFICES ASSUME Init PROVE TearInv OBVIOUS
  <2>1. recorded = {} /\ torn = FALSE /\ tears = 0 BY DEF Init, LedgerInit
  <2>2. Lost = {} BY <2>1 DEF Lost
  <2>3. Cardinality(Lost) = 0 /\ IsFiniteSet(recorded) BY <2>1, <2>2, FS_EmptySet
  <2>. QED BY <2>1, <2>3 DEF TearInv
<1>2. Types /\ Types' /\ FreshInv /\ TearInv /\ [Next]_vars => TearInv'
  BY TearStep, RunStepsKeepLedger DEF Types, TypeOK
<1>3. Types /\ TearInv => LostOnlyByTears
  <2>. SUFFICES ASSUME Types, TearInv PROVE LostOnlyByTears OBVIOUS
  <2>1. Lost \in SUBSET recorded BY DEF Lost
  <2>2. Cardinality(Lost) \in Nat BY <2>1, LostCounts DEF TearInv
  <2>3. tears \in Nat BY MaxTearsAssumption DEF Types, TypeOK, LedgerTypeOK
  <2>. QED BY <2>2, <2>3 DEF TearInv, LostOnlyByTears
<1>4. Init => FreshInv
  <2>. SUFFICES ASSUME Init PROVE FreshInv OBVIOUS
  <2>1. recorded = {} /\ \A s \in Signers : pc[s] = "idle" BY DEF Init, LedgerInit
  <2>. QED BY <2>1 DEF FreshInv
<1>5. Types /\ FreshInv /\ [Next]_vars => FreshInv'
  BY FreshStep, RunStepsKeepLedger DEF Types, TypeOK
<1>. QED BY <1>1, <1>2, <1>3, <1>4, <1>5, TypesHold, PTL DEF Spec

----------------------------------------------------------------------------
(* The strict run.                                                          *)

(* As long as no write was cut short the ledger has no open last line and   *)
(* only gains entries.                                                      *)
GateInv ==
    /\ torn => tears > 0
    /\ Cleared /\ tears = 0 => Signed(gated)

LEMMA GateStep ==
    ASSUME Types, Types', GateInv, [Next]_vars PROVE GateInv'
<1>. USE DEF GateInv, Cleared
<1>0. LedgerTypeOK /\ LedgerTypeOK' BY DEF Types, TypeOK
<1>1. CASE UNCHANGED <<lines, torn, tears>> /\ (Cleared' => Signed(gated') \/ (Cleared /\ gated' = gated))
  BY <1>1 DEF Signed, Good
<1>2. CASE UNCHANGED vars
  BY <1>1, <1>2 DEF vars, ledgerVars, ledger, run
<1>3. CASE Runner
  BY <1>1, <1>3 DEF Runner, Load, GateHash, GateLookup, Stamp, Snapshot, ledgerVars, ledger
<1>4. ASSUME NEW s \in Signers, WriteLine(s), UNCHANGED run PROVE GateInv'
  <2>1. ~torn' /\ tears' = tears BY <1>4 DEF WriteLine
  <2>2. ASSUME Cleared', tears' = 0 PROVE Signed(gated)'
    <3>1. Signed(gated) /\ ~torn /\ gated' = gated BY <1>4, <2>1, <2>2 DEF run
    <3>2. PICK i \in Good : lines[i].spec = gated BY <3>1 DEF Signed
    <3>3. /\ Len(lines') = Len(lines) + 1
          /\ \A k \in 1..Len(lines) : lines'[k] = lines[k]
      BY <1>0, <1>4, <3>1, NewEntryIsEntry, WrittenIsLedger DEF WriteLine
    <3>4. i \in Good' /\ lines'[i].spec = gated
      <4>1. i \in 1..Len(lines) /\ lines[i] # Junk
        BY <1>0 DEF LedgerTypeOK, Good
      <4>2. i \in 1..Len(lines') /\ lines'[i] = lines[i]
        BY <1>0, <3>3, <4>1 DEF LedgerTypeOK
      <4>. QED BY <1>0, <3>2, <4>1, <4>2 DEF LedgerTypeOK, Good
    <3>. QED BY <3>1, <3>4 DEF Signed
  <2>. QED BY <2>1, <2>2
<1>5. ASSUME NEW s \in Signers, TearLine(s) PROVE GateInv'
  BY <1>0, <1>5 DEF TearLine, LedgerTypeOK
<1>6. ASSUME NEW s \in Signers, HashSpec(s) \/ ReadHead(s), UNCHANGED run PROVE GateInv'
  BY <1>1, <1>6 DEF HashSpec, ReadHead, Build, ledger, run
<1>7. ASSUME NEW v \in Versions, Edit(v), UNCHANGED run PROVE GateInv'
  BY <1>1, <1>7 DEF Edit, ledger, run
<1>. QED BY <1>2, <1>3, <1>4, <1>5, <1>6, <1>7 DEF Next, Around, LedgerNext, Sign

(* How far the reads of the file may lie from the one the gate made, by     *)
(* the number of saves since the command loaded it.                         *)
Near(v) == v = gated \/ (saves >= 1 /\ (executes = gated \/ saves >= 2))
DriftInv ==
    /\ saves \in Nat
    /\ phase = "loaded" => executes = spec \/ saves >= 1
    /\ phase \in {"hashed", "cleared", "stamped", "running"} =>
          (executes = gated \/ saves >= 1) /\ Near(spec)
    /\ phase \in {"stamped", "running"} => Near(stamped)
    /\ phase = "running" => Near(copied)

LEMMA DriftStep == Types /\ DriftInv /\ [Next]_vars => DriftInv'
<1>. SUFFICES ASSUME Types, DriftInv, [Next]_vars PROVE DriftInv' OBVIOUS
<1>. USE DEF DriftInv, Near
<1>1. CASE UNCHANGED vars BY <1>1 DEF vars, ledgerVars, file, run
<1>2. CASE Load BY <1>2 DEF Load, ledgerVars, file
<1>3. CASE GateHash BY <1>3 DEF GateHash, ledgerVars, file
<1>4. CASE GateLookup BY <1>4 DEF GateLookup, ledgerVars, file
<1>5. CASE Stamp BY <1>5 DEF Stamp, ledgerVars, file
<1>6. CASE Snapshot BY <1>6 DEF Snapshot, ledgerVars, file
<1>7. CASE Around
  <2>1. /\ edits \in Nat /\ edits' \in {edits, edits + 1}
        /\ edits' = edits => spec' = spec
    BY <1>7, EditsGrow DEF Around, Types, TypeOK
  <2>2. UNCHANGED run /\ saves' = saves + (edits' - edits) BY <1>7 DEF Around
  <2>3. CASE spec' = spec /\ saves' = saves BY <2>2, <2>3 DEF run
  <2>4. CASE saves' = saves + 1 BY <2>2, <2>4 DEF run
  <2>5. CASE edits' = edits
    <3>1. saves' = saves + 0 BY <2>1, <2>2, <2>5
    <3>. QED BY <2>1, <2>3, <2>5, <3>1
  <2>6. CASE edits' = edits + 1
    <3>1. saves' = saves + 1 BY <2>1, <2>2, <2>6
    <3>. QED BY <2>4, <3>1
  <2>. QED BY <2>1, <2>5, <2>6
<1>. QED BY <1>1, <1>2, <1>3, <1>4, <1>5, <1>6, <1>7 DEF Next, Runner

(* The gate lets no unsigned version through, and it takes a save before     *)
(* the gate to execute one and another after it to leave that unseen.        *)
THEOREM ClearedSigned == Spec => []ClearedIsSigned
<1>1. Init => GateInv BY DEF Init, LedgerInit, GateInv, Cleared
<1>2. Types /\ Types' /\ GateInv /\ [Next]_vars => GateInv' BY GateStep
<1>3. Init => DriftInv BY DEF Init, DriftInv
<1>4. GateInv /\ DriftInv => ClearedIsSigned
  BY DEF GateInv, DriftInv, Near, ClearedIsSigned, Cleared
<1>. QED BY <1>1, <1>2, <1>3, <1>4, DriftStep, TypesHold, PTL DEF Spec
============================================================================
