----------------------- MODULE SectionExplainerProofs -----------------------
(* No call to the model is lost, promoted twice, asked twice at once,      *)
(* logged to the wrong run or its failure masked, for any sessions, keys,  *)
(* pages and pool size.                                                    *)
EXTENDS SectionExplainer, SequenceTheorems, TLAPS

CallRec == [key : Keys, dir : Dirs, state : {"queued", "running", "ok", "error"}]
Rows == Seq(Dirs \X {"ok", "error"})
core == <<futures, meta, hand, calls, log, dropped>>

(* A script that runs is at a section of its page, and only a poller that is
   promoting holds anything. *)
OnPage ==
    \A s \in Sessions :
      /\ pc[s] # "away" => view[s] \in Pages /\ sec[s] \in 1..Len(view[s])
      /\ pc[s] \notin {"promote", "log"} => hand[s] = {}

(* A call in flight is filed under its key, with the directory of its asker. *)
Tracked ==
    \A k \in Keys : futures[k] # 0 =>
      /\ futures[k] \in Ids /\ calls[futures[k]].key = k
      /\ meta[k] = calls[futures[k]].dir

(* A claimed call has been answered and carries its asker's directory. *)
Held ==
    \A s \in Sessions : \A x \in hand[s] :
      x.call \in Ids /\ Done(x.call) /\ x.dir = calls[x.call].dir

(* Nobody lets go of a call before it is answered. *)
Awaited == \A c \in Ids : ~Done(c) => futures[calls[c].key] = c

CallInv == Tracked /\ Held /\ Awaited /\ OneOwner /\ LoggedToAsker
Inv == TypeOK /\ OnPage /\ CallInv

-----------------------------------------------------------------------------
LEMMA IdsAreNat == TypeOK => Len(calls) \in Nat /\ \A c \in Ids : calls[c] \in CallRec /\ log[c] \in Rows
  BY ElementOfSeq, LenProperties DEF TypeOK, Ids, CallRec, Rows

LEMMA InitHolds == Init => Inv
  <1> SUFFICES ASSUME Init PROVE Inv OBVIOUS
  <1>1. calls = <<>> /\ log = <<>> /\ dropped = {} /\ Len(calls) = 0 /\ Len(log) = 0 /\ Ids = {}
    BY DEF Init, Ids
  <1>2. TypeOK BY <1>1 DEF Init, TypeOK
  <1>3. OnPage BY DEF Init, OnPage
  <1>4. CallInv
    BY <1>1 DEF Init, CallInv, Tracked, Held, Awaited, OneOwner, LoggedToAsker
  <1> QED BY <1>2, <1>3, <1>4 DEF Inv

LEMMA CoreUntouched == ASSUME CallInv, UNCHANGED core PROVE CallInv'
  BY DEF CallInv, core, Tracked, Held, Awaited, OneOwner, LoggedToAsker, Ids, Done, InFlight, HeldBy, Claimed

(* The script's variables keep their types and the script its place. *)
LEMMA RerunKeeps ==
    ASSUME TypeOK, OnPage, NEW s \in Sessions, NEW p \in Pages, Rerun(s, p),
           pc' = [pc EXCEPT ![s] = "poll"], NEW n \in Nat, runs' = [runs EXCEPT ![s] = n],
           \A t \in Sessions : t # s => hand'[t] = hand[t], hand'[s] = {}
    PROVE /\ pc' \in [Sessions -> {"away", "idle", "poll", "look", "pop", "ask", "promote", "log"}]
          /\ view' \in [Sessions -> Pages \cup {<<>>}] /\ sec' \in [Sessions -> Nat]
          /\ screen' \in [Sessions -> [Keys -> {"blank", "waiting", "reply", "error"}]]
          /\ runs' \in [Sessions -> Nat] /\ OnPage'
  <1>1. p \in Seq(Keys) /\ p # <<>> BY PagesAssumption
  <1>2. 1 \in 1..Len(p) BY <1>1, EmptySeq, LenProperties
  <1> QED BY <1>2 DEF Rerun, TypeOK, OnPage

LEMMA ShowKeeps ==
    ASSUME TypeOK, OnPage, NEW s \in Sessions, pc[s] # "away", pc[s] \notin {"promote", "log"},
           NEW w \in {"blank", "waiting", "reply", "error"}, Show(s, w), UNCHANGED hand
    PROVE /\ pc' \in [Sessions -> {"away", "idle", "poll", "look", "pop", "ask", "promote", "log"}]
          /\ view' \in [Sessions -> Pages \cup {<<>>}] /\ sec' \in [Sessions -> Nat]
          /\ screen' \in [Sessions -> [Keys -> {"blank", "waiting", "reply", "error"}]]
          /\ runs' \in [Sessions -> Nat] /\ visits' \in Nat /\ OnPage'
  <1>1. view[s] \in Seq(Keys) /\ Len(view[s]) \in Nat BY PagesAssumption, LenProperties DEF OnPage
  <1>2. sec[s] \in 1..Len(view[s]) BY DEF OnPage
  <1>3. /\ sec'[s] \in 1..Len(view[s]) /\ sec'[s] \in Nat
        /\ \A t \in Sessions : t # s => sec'[t] = sec[t]
    <2>1. CASE sec[s] < Len(view[s]) BY SMTT(20), <2>1, <1>1, <1>2 DEF Show, TypeOK
    <2>2. CASE ~(sec[s] < Len(view[s])) BY <2>2, <1>1, <1>2 DEF Show, TypeOK
    <2> QED BY <2>1, <2>2
  <1>4. sec' \in [Sessions -> Nat] BY <1>3 DEF Show, TypeOK
  <1>5. screen' \in [Sessions -> [Keys -> {"blank", "waiting", "reply", "error"}]]
    BY DEF Show, TypeOK
  <1>6. /\ pc' \in [Sessions -> {"away", "idle", "poll", "look", "pop", "ask", "promote", "log"}]
        /\ pc'[s] \in {"look", "idle"} /\ \A t \in Sessions : t # s => pc'[t] = pc[t]
    BY DEF Show, TypeOK
  <1>7. OnPage' BY <1>3, <1>6 DEF Show, OnPage
  <1> QED BY <1>4, <1>5, <1>6, <1>7 DEF Show, TypeOK

LEMMA GotoKeeps ==
    ASSUME TypeOK, OnPage, NEW s \in Sessions, pc[s] # "away", Goto(s, "look") \/ Goto(s, "pop")
             \/ Goto(s, "ask") \/ Goto(s, "promote") \/ Goto(s, "log"),
           \A t \in Sessions : t # s => hand'[t] = hand[t],
           pc'[s] \notin {"promote", "log"} => hand'[s] = {}
    PROVE /\ pc' \in [Sessions -> {"away", "idle", "poll", "look", "pop", "ask", "promote", "log"}]
          /\ view' \in [Sessions -> Pages \cup {<<>>}] /\ sec' \in [Sessions -> Nat]
          /\ screen' \in [Sessions -> [Keys -> {"blank", "waiting", "reply", "error"}]]
          /\ runs' \in [Sessions -> Nat] /\ visits' \in Nat /\ OnPage'
  BY DEF Goto, TypeOK, OnPage

LEMMA KeyOnPage ==
    ASSUME OnPage, NEW s \in Sessions, pc[s] # "away" PROVE Key(s) \in Keys
  BY PagesAssumption, ElementOfSeq DEF OnPage, Key

-----------------------------------------------------------------------------
LEMMA AskKeeps == ASSUME Inv, NEW s \in Sessions, Ask(s) PROVE Inv'
  <1> USE DEF Inv
  <1> DEFINE k == Key(s)
             n == Len(calls) + 1
             r == [key |-> k, dir |-> <<s, runs[s]>>, state |-> "queued"]
  <1>1. k \in Keys BY KeyOnPage DEF Ask
  <1>2. CASE futures[k] # 0
    <2>1. UNCHANGED core BY <1>2 DEF Ask, core
    <2>2. TypeOK' /\ OnPage' BY <2>1, ShowKeeps DEF Ask, core, TypeOK, Ids
    <2> QED BY <2>1, <2>2, CoreUntouched
  <1>3. CASE futures[k] = 0
    <2>1. /\ calls' = Append(calls, r) /\ log' = Append(log, <<>>)
          /\ futures' = [futures EXCEPT ![k] = n] /\ meta' = [meta EXCEPT ![k] = <<s, runs[s]>>]
          /\ UNCHANGED <<hand, dropped>>
      BY <1>3 DEF Ask, Dispatch
    <2>2. r \in CallRec /\ r.dir \in Dirs BY <1>1 DEF CallRec, Dirs, TypeOK
    <2>20. r.key = k /\ r.state = "queued" /\ r.dir = <<s, runs[s]>> OBVIOUS
    <2> HIDE DEF k, r
    <2>3. /\ calls' \in Seq(CallRec) /\ Len(calls') = n /\ calls'[n] = r
          /\ \A c \in Ids : calls'[c] = calls[c]
      BY <2>1, <2>2, AppendProperties DEF TypeOK, CallRec, Ids
    <2>4. <<>> \in Rows BY EmptySeq DEF Rows
    <2>5. /\ log' \in Seq(Rows) /\ Len(log') = n /\ log'[n] = <<>>
          /\ \A c \in Ids : log'[c] = log[c]
      BY <2>1, <2>4, AppendProperties DEF TypeOK, Rows, Ids
    <2>6. Len(calls) \in Nat /\ Ids' = Ids \cup {n} /\ n \notin Ids /\ n # 0 /\ n \in Nat
      BY <2>3, IdsAreNat DEF Ids
    <2> HIDE DEF n
    <2>8. futures' \in [Keys -> Nat] /\ futures'[k] = n /\ \A j \in Keys : j # k => futures'[j] = futures[j]
      BY <1>1, <2>1, <2>6 DEF TypeOK
    <2>80. meta' \in [Keys -> Dirs \cup {<<>>}] /\ meta'[k] = r.dir /\ \A j \in Keys : j # k => meta'[j] = meta[j]
      BY <1>1, <2>1, <2>2, <2>20 DEF TypeOK
    <2>7. TypeOK' /\ OnPage'
      <3>1. dropped' \subseteq Ids' BY <2>1, <2>6 DEF TypeOK
      <3> QED BY <2>1, <2>3, <2>5, <2>8, <2>80, <3>1, ShowKeeps DEF Ask, TypeOK, CallRec, Rows
    <2>9. Tracked'
      <3> SUFFICES ASSUME NEW j \in Keys, futures'[j] # 0
                   PROVE /\ futures'[j] \in Ids' /\ calls'[futures'[j]].key = j
                         /\ meta'[j] = calls'[futures'[j]].dir
        BY DEF Tracked
      <3>1. CASE j = k BY <2>3, <2>6, <2>8, <2>80, <2>20, <3>1
      <3>2. CASE j # k BY <2>3, <2>6, <2>8, <2>80, <3>2 DEF CallInv, Tracked
      <3> QED BY <3>1, <3>2
    <2>10. Held' BY <2>1, <2>3, <2>6 DEF CallInv, Held, Done
    <2>11. Awaited'
      <3> SUFFICES ASSUME NEW c \in Ids', ~(calls'[c].state \in {"ok", "error"})
                   PROVE futures'[calls'[c].key] = c
        BY DEF Awaited, Done
      <3>1. CASE c = n BY <2>3, <2>8, <2>20, <3>1
      <3>2. CASE c # n
        <4>1. c \in Ids /\ calls'[c] = calls[c] /\ ~Done(c) BY <2>3, <2>6, <3>2 DEF Done
        <4>2. calls[c].key \in Keys /\ futures[calls[c].key] = c /\ c # 0
          BY <4>1, IdsAreNat DEF CallInv, Awaited, CallRec, Ids
        <4> QED BY <4>1, <4>2, <2>8, <1>3
      <3> QED BY <3>1, <3>2
    <2>12. OneOwner' /\ LoggedToAsker'
      <3>1. \A c \in Ids : (\E j \in Keys : futures'[j] = c) <=> InFlight(c)
        BY <1>1, <1>3, <2>6, <2>8 DEF InFlight, Ids
      <3>2. \E j \in Keys : futures'[j] = n BY <1>1, <2>8
      <3>4. \A t \in Sessions : ~HeldBy(t, n) BY <2>6 DEF HeldBy, CallInv, Held
      <3>5. Len(<<>>) = 0 OBVIOUS
      <3>6. OneOwner'
        <4> SUFFICES ASSUME NEW c \in Ids' PROVE
               /\ (\E j \in Keys : futures'[j] = c) => \A t \in Sessions : ~HeldBy(t, c)
               /\ \A t, u \in Sessions : HeldBy(t, c) /\ HeldBy(u, c) => t = u
               /\ Len(log'[c]) = IF (\E j \in Keys : futures'[j] = c) \/ Claimed(c) \/ c \in dropped
                                THEN 0 ELSE 1
               /\ c \in dropped => ~(\E j \in Keys : futures'[j] = c) /\ ~Claimed(c)
          BY <2>1 DEF OneOwner, InFlight, HeldBy, Claimed
        <4>1. CASE c = n
          <5>1. n \notin dropped BY <2>6 DEF TypeOK
          <5>2. ~Claimed(n) BY <3>4 DEF Claimed
          <5> QED BY <2>5, <3>2, <3>4, <3>5, <4>1, <5>1, <5>2
        <4>2. CASE c # n BY <2>5, <2>6, <3>1, <4>2 DEF CallInv, OneOwner
        <4> QED BY <4>1, <4>2
      <3>7. LoggedToAsker' BY <2>3, <2>5, <2>6 DEF CallInv, LoggedToAsker
      <3> QED BY <3>6, <3>7
    <2> QED BY <2>7, <2>9, <2>10, <2>11, <2>12 DEF CallInv
  <1> QED BY <1>2, <1>3

(* A call that the pool takes or answers stays where it is. *)
LEMMA CallMoves ==
    ASSUME Inv, NEW c \in Ids, ~Done(c), NEW o \in {"running", "ok", "error"},
           calls' = [calls EXCEPT ![c].state = o], UNCHANGED <<script, shared>>, errors' \in Nat
    PROVE Inv'
  <1> USE DEF Inv
  <1>1. calls[c] \in CallRec BY IdsAreNat
  <1> DEFINE r == [calls[c] EXCEPT !.state = o]
  <1>2. r \in CallRec /\ r.key = calls[c].key /\ r.dir = calls[c].dir /\ r.state = o
    BY <1>1 DEF CallRec
  <1>3. calls \in Seq(CallRec) BY DEF TypeOK, CallRec
  <1>4. calls' = [calls EXCEPT ![c] = r] BY <1>1
  <1> HIDE DEF r
  <1>5. /\ calls' \in Seq(CallRec) /\ Len(calls') = Len(calls) /\ Ids' = Ids
        /\ calls'[c] = r /\ \A d \in Ids : d # c => calls'[d] = calls[d]
    BY <1>2, <1>3, <1>4, ExceptSeq DEF Ids
  <1>6. TypeOK' /\ OnPage' BY <1>5 DEF TypeOK, OnPage, script, shared, CallRec
  <1>7. \A d \in Ids : calls'[d].key = calls[d].key /\ calls'[d].dir = calls[d].dir
                      /\ (d # c => calls'[d].state = calls[d].state)
    BY <1>2, <1>5
  <1>8. futures[calls[c].key] = c BY DEF CallInv, Awaited
  <1>9. calls[c].key \in Keys BY <1>1 DEF CallRec
  <1>10. InFlight(c) /\ (\A s \in Sessions : ~HeldBy(s, c)) /\ Len(log[c]) = 0 /\ log[c] \in Rows
    BY <1>8, <1>9, IdsAreNat DEF InFlight, CallInv, OneOwner
  <1>11. Tracked' BY <1>5, <1>7 DEF Tracked, CallInv, shared
  <1>12. Held' BY <1>5, <1>7, <1>10 DEF Held, CallInv, HeldBy, Done, shared
  <1>13. Awaited'
    <2> SUFFICES ASSUME NEW d \in Ids, ~(calls'[d].state \in {"ok", "error"})
                 PROVE futures[calls'[d].key] = d
      BY <1>5 DEF Awaited, Done, shared
    <2>1. CASE d = c BY <2>1, <1>7, <1>8
    <2>2. CASE d # c BY <2>2, <1>7 DEF CallInv, Awaited, Done
    <2> QED BY <2>1, <2>2
  <1>14. OneOwner' BY <1>5 DEF CallInv, OneOwner, InFlight, HeldBy, Claimed, shared
  <1>15. LoggedToAsker'
    <2>1. log[c] = <<>> BY <1>10, EmptySeq DEF Rows
    <2>2. DOMAIN log[c] = {} BY <2>1
    <2> QED BY <1>5, <1>7, <2>2 DEF CallInv, LoggedToAsker, shared
  <1> QED BY <1>6, <1>11, <1>12, <1>13, <1>14, <1>15 DEF CallInv

LEMMA WorkKeeps == Inv /\ Work => Inv'
  <1> SUFFICES ASSUME Inv, NEW c \in Ids, Start(c) \/ \E o \in {"ok", "error"} : Finish(c, o) PROVE Inv'
    BY DEF Work
  <1>1. CASE Start(c) BY <1>1, CallMoves DEF Start, Done, Inv, TypeOK
  <1>2. ASSUME NEW o \in {"ok", "error"}, Finish(c, o) PROVE Inv'
    <2>1. errors' \in Nat BY <1>2 DEF Finish, Inv, TypeOK
    <2>2. ~Done(c) BY <1>2 DEF Finish, Done
    <2> QED BY <1>2, <2>1, <2>2, CallMoves DEF Finish
  <1> QED BY <1>1, <1>2

LEMMA ClaimKeeps == ASSUME Inv, NEW s \in Sessions, Claim(s) PROVE Inv'
  <1> USE DEF Inv
  <1> DEFINE h == {[call |-> futures[k], dir |-> meta[k]] : k \in Resolved}
  <1>1. /\ hand[s] = {} /\ hand' = [hand EXCEPT ![s] = h] /\ UNCHANGED <<calls, log, dropped>> /\ Ids' = Ids
        /\ futures' = [k \in Keys |-> IF k \in Resolved THEN 0 ELSE futures[k]]
        /\ meta' = [k \in Keys |-> IF k \in Resolved THEN <<>> ELSE meta[k]]
    BY DEF Claim, OnPage, Ids
  <1>2. \A k \in Resolved : k \in Keys /\ futures[k] # 0 /\ Done(futures[k]) /\ futures[k] \in Ids
                           /\ meta[k] = calls[futures[k]].dir /\ calls[futures[k]].key = k
    BY DEF Resolved, CallInv, Tracked
  <1>3. h \in SUBSET [call : Nat, dir : Dirs]
    <2> SUFFICES ASSUME NEW k \in Resolved PROVE [call |-> futures[k], dir |-> meta[k]] \in [call : Nat, dir : Dirs]
      OBVIOUS
    <2>1. calls[futures[k]].dir \in Dirs BY <1>2, IdsAreNat DEF CallRec
    <2> QED BY <1>2, <2>1 DEF TypeOK
  <1>4. \A x \in h : \E k \in Resolved : x.call = futures[k] /\ x.dir = meta[k] OBVIOUS
  <1>5. \A k \in Resolved : \E x \in h : x.call = futures[k]
    <2> SUFFICES ASSUME NEW k \in Resolved PROVE \E x \in h : x.call = futures[k] OBVIOUS
    <2>1. [call |-> futures[k], dir |-> meta[k]] \in h OBVIOUS
    <2> QED BY <2>1
  <1> HIDE DEF h
  <1>6. TypeOK' /\ OnPage'
    <2>1. hand' \in [Sessions -> SUBSET [call : Nat, dir : Dirs]] BY <1>1, <1>3 DEF TypeOK
    <2>2. futures' \in [Keys -> Nat] /\ meta' \in [Keys -> Dirs \cup {<<>>}] BY <1>1 DEF TypeOK
    <2>3. pc[s] # "away" /\ Goto(s, "promote") /\ UNCHANGED <<cache, failed, log, dropped, calls, errors>>
      BY DEF Claim
    <2>4. pc'[s] = "promote" BY <2>3 DEF Goto, TypeOK
    <2>5. \A t \in Sessions : t # s => hand'[t] = hand[t] BY <1>1 DEF TypeOK
    <2> QED BY <2>1, <2>2, <2>3, <2>4, <2>5, GotoKeeps DEF TypeOK, Ids
  <1>7. \A t \in Sessions : t # s => hand'[t] = hand[t] BY <1>1 DEF TypeOK
  <1>8. hand'[s] = h BY <1>1 DEF TypeOK
  <1>9. Tracked' BY <1>1 DEF CallInv, Tracked
  <1>10. Held'
    <2> SUFFICES ASSUME NEW t \in Sessions, NEW x \in hand'[t]
                 PROVE x.call \in Ids /\ Done(x.call) /\ x.dir = calls[x.call].dir
      BY <1>1 DEF Held, Done
    <2>1. CASE t = s BY <2>1, <1>2, <1>4, <1>8
    <2>2. CASE t # s BY <2>2, <1>7 DEF CallInv, Held
    <2> QED BY <2>1, <2>2
  <1>11. Awaited'
    <2> SUFFICES ASSUME NEW c \in Ids, ~Done(c) PROVE futures'[calls[c].key] = c
      BY <1>1 DEF Awaited, Done
    <2>1. futures[calls[c].key] = c /\ calls[c].key \in Keys BY IdsAreNat DEF CallInv, Awaited, CallRec
    <2>2. calls[c].key \notin Resolved BY <2>1 DEF Resolved
    <2> QED BY <1>1, <2>1, <2>2
  <1>12. ASSUME NEW c \in Ids PROVE
           /\ InFlight(c)' <=> InFlight(c) /\ ~Done(c)
           /\ HeldBy(s, c)' <=> InFlight(c) /\ Done(c)
    <2>0. c # 0 BY DEF Ids
    <2>1. (\E k \in Keys : futures'[k] = c) <=> (\E k \in Keys : k \notin Resolved /\ futures[k] = c)
      BY <1>1, <2>0
    <2>2. (\E k \in Keys : k \notin Resolved /\ futures[k] = c) <=> InFlight(c) /\ ~Done(c)
      BY <2>0 DEF InFlight, Resolved
    <2>3. (\E x \in hand'[s] : x.call = c) <=> (\E k \in Resolved : futures[k] = c)
      BY <1>4, <1>5, <1>8
    <2>4. (\E k \in Resolved : futures[k] = c) <=> InFlight(c) /\ Done(c)
      BY <2>0 DEF InFlight, Resolved
    <2> QED BY <2>1, <2>2, <2>3, <2>4 DEF InFlight, HeldBy
  <1>13. OneOwner'
    <2>1. \A t \in Sessions, c \in Ids : t # s => (HeldBy(t, c)' <=> HeldBy(t, c))
      BY <1>7 DEF HeldBy
    <2>2. \A c \in Ids : ~HeldBy(s, c) BY <1>1 DEF HeldBy
    <2> SUFFICES ASSUME NEW c \in Ids PROVE
           /\ InFlight(c)' => \A t \in Sessions : ~HeldBy(t, c)'
           /\ \A t, u \in Sessions : HeldBy(t, c)' /\ HeldBy(u, c)' => t = u
           /\ Len(log[c]) = IF InFlight(c)' \/ (\E t \in Sessions : HeldBy(t, c)') \/ c \in dropped
                            THEN 0 ELSE 1
           /\ c \in dropped => ~InFlight(c)' /\ ~(\E t \in Sessions : HeldBy(t, c)')
      BY <1>1 DEF OneOwner, InFlight, HeldBy, Claimed
    <2>3. /\ InFlight(c) => \A t \in Sessions : ~HeldBy(t, c)
          /\ \A t, u \in Sessions : HeldBy(t, c) /\ HeldBy(u, c) => t = u
          /\ Len(log[c]) = IF InFlight(c) \/ (\E t \in Sessions : HeldBy(t, c)) \/ c \in dropped
                           THEN 0 ELSE 1
          /\ c \in dropped => ~InFlight(c) /\ ~(\E t \in Sessions : HeldBy(t, c))
      BY DEF CallInv, OneOwner, Claimed
    <2>4. InFlight(c)' => \A t \in Sessions : ~HeldBy(t, c)' BY <1>12, <2>1, <2>3
    <2>5. ASSUME NEW t \in Sessions, NEW u \in Sessions, HeldBy(t, c)', HeldBy(u, c)' PROVE t = u
      BY <1>12, <2>1, <2>3, <2>5
    <2>6. (InFlight(c)' \/ \E t \in Sessions : HeldBy(t, c)')
            <=> (InFlight(c) \/ \E t \in Sessions : HeldBy(t, c))
      BY <1>12, <2>1, <2>2
    <2> QED BY <2>3, <2>4, <2>5, <2>6
  <1>14. LoggedToAsker' BY <1>1 DEF CallInv, LoggedToAsker
  <1> QED BY <1>6, <1>9, <1>10, <1>11, <1>13, <1>14 DEF CallInv

LEMMA LogKeeps == ASSUME Inv, NEW s \in Sessions, Log(s) PROVE Inv'
  <1> USE DEF Inv
  <1>1. PICK x \in hand[s] :
          /\ WriteRow(x.call, x.dir)
          /\ hand' = [hand EXCEPT ![s] = @ \ {x}]
    BY DEF Log, Release, Oldest
  <1> DEFINE c == x.call
             row == <<calls[c].dir, calls[c].state>>
  <1>2. /\ c \in Ids /\ Done(c) /\ x.dir = calls[c].dir /\ HeldBy(s, c)
        /\ x \in [call : Nat, dir : Dirs]
    BY DEF CallInv, Held, HeldBy, TypeOK
  <1>3. calls[c].dir \in Dirs /\ calls[c].state \in {"ok", "error"}
    BY <1>2, IdsAreNat DEF CallRec, Done
  <1>4. Len(log[c]) = 0 /\ ~InFlight(c) /\ Claimed(c) /\ c \notin dropped
    BY <1>2 DEF CallInv, OneOwner, Claimed
  <1>5. log[c] = <<>> BY <1>2, <1>4, IdsAreNat, EmptySeq DEF Rows
  <1>6. Append(log[c], row) = <<row>> BY <1>5
  <1>7. \/ log' = [log EXCEPT ![c] = <<row>>] /\ dropped' = dropped
        \/ log' = log /\ dropped' = dropped \cup {c}
    BY <1>1, <1>2, <1>6 DEF WriteRow
  <1>8. <<row>> \in Rows /\ Len(<<row>>) = 1 /\ DOMAIN <<row>> = {1} /\ <<row>>[1] = row
    BY <1>3 DEF Rows
  <1> HIDE DEF row
  <1>9. log \in Seq(Rows) /\ Len(log) = Len(calls) BY DEF TypeOK, Rows
  <1>10. /\ log' \in Seq(Rows) /\ Len(log') = Len(log)
         /\ \/ log'[c] = <<row>> /\ dropped' = dropped
            \/ log'[c] = <<>> /\ dropped' = dropped \cup {c}
         /\ \A d \in Ids : d # c => log'[d] = log[d]
    <2>1. c \in 1..Len(log) BY <1>2, <1>9 DEF Ids
    <2>2. CASE log' = [log EXCEPT ![c] = <<row>>] /\ dropped' = dropped
      BY <2>1, <2>2, <1>8, <1>9, ExceptSeq DEF Ids
    <2>3. CASE log' = log /\ dropped' = dropped \cup {c} BY <2>3, <1>5, <1>9
    <2> QED BY <2>2, <2>3, <1>7
  <1>11. hand'[s] = hand[s] \ {x} /\ \A t \in Sessions : t # s => hand'[t] = hand[t]
    BY <1>1 DEF TypeOK
  <1>12. UNCHANGED <<cache, failed, futures, meta, calls, errors>> /\ Ids' = Ids BY DEF Log, Ids
  <1>13. pc[s] = "log" BY DEF Log
  <1>14. TypeOK' /\ OnPage'
    <2>0. hand' \in [Sessions -> SUBSET [call : Nat, dir : Dirs]] BY <1>1 DEF TypeOK
    <2>1. hand' \in [Sessions -> SUBSET [call : Nat, dir : Dirs]] /\ dropped' \subseteq Ids'
      BY <2>0, <1>2, <1>10, <1>12 DEF TypeOK
    <2>2. CASE hand'[s] = {}
      <3>1. /\ Rerun(s, view[s]) /\ pc' = [pc EXCEPT ![s] = "poll"] /\ view[s] \in Pages
            /\ runs' = runs /\ visits' = visits
        BY <2>2, <1>13 DEF Log, Release, OnPage
      <3>2. runs' = [runs EXCEPT ![s] = runs[s]] /\ runs[s] \in Nat BY <3>1 DEF TypeOK
      <3> QED BY <2>1, <2>2, <3>1, <3>2, <1>9, <1>10, <1>11, <1>12, RerunKeeps DEF TypeOK, Rows
    <2>3. CASE hand'[s] # {}
      <3>1. Goto(s, "promote") BY <2>3 DEF Log, Release
      <3>2. pc'[s] = "promote" /\ pc[s] # "away" BY <3>1, <1>13 DEF Goto, TypeOK
      <3> QED BY <2>1, <3>1, <3>2, <1>9, <1>10, <1>11, <1>12, GotoKeeps DEF TypeOK, Rows
    <2> QED BY <2>2, <2>3
  <1>15. \A y \in hand[s] : y.call = c => y = x
    <2> SUFFICES ASSUME NEW y \in hand[s], y.call = c PROVE y = x OBVIOUS
    <2>1. y.dir = x.dir BY <1>2 DEF CallInv, Held
    <2>2. y \in [call : Nat, dir : Dirs] BY DEF TypeOK
    <2> QED BY <1>2, <2>1, <2>2
  <1>16. Tracked' /\ Awaited' BY <1>12 DEF CallInv, Tracked, Awaited, Done
  <1>17. Held'
    <2> SUFFICES ASSUME NEW t \in Sessions, NEW y \in hand'[t]
                 PROVE y.call \in Ids /\ Done(y.call) /\ y.dir = calls[y.call].dir
      BY <1>12 DEF Held, Done
    <2>1. y \in hand[t] BY <1>11
    <2> QED BY <2>1 DEF CallInv, Held
  <1>18. \A t \in Sessions, d \in Ids : HeldBy(t, d)' <=> HeldBy(t, d) /\ d # c
    <2> SUFFICES ASSUME NEW t \in Sessions, NEW d \in Ids
                 PROVE (\E y \in hand'[t] : y.call = d) <=> HeldBy(t, d) /\ d # c
      BY DEF HeldBy
    <2>1. CASE t = s
      <3>1. (\E y \in hand'[s] : y.call = d) <=> (\E y \in hand[s] : y # x /\ y.call = d) BY <1>11
      <3>2. (\E y \in hand[s] : y # x /\ y.call = d) <=> HeldBy(s, d) /\ d # c BY <1>15 DEF HeldBy
      <3> QED BY <2>1, <3>1, <3>2
    <2>2. CASE t # s
      <3>1. hand'[t] = hand[t] BY <2>2, <1>11
      <3>2. ~HeldBy(t, c) BY <2>2, <1>2 DEF CallInv, OneOwner
      <3> QED BY <3>1, <3>2 DEF HeldBy
    <2> QED BY <2>1, <2>2
  <1>19. OneOwner'
    <2> SUFFICES ASSUME NEW d \in Ids PROVE
           /\ InFlight(d) => \A t \in Sessions : ~HeldBy(t, d)'
           /\ \A t, u \in Sessions : HeldBy(t, d)' /\ HeldBy(u, d)' => t = u
           /\ Len(log'[d]) = IF InFlight(d) \/ (\E t \in Sessions : HeldBy(t, d)') \/ d \in dropped'
                             THEN 0 ELSE 1
           /\ d \in dropped' => ~InFlight(d) /\ ~(\E t \in Sessions : HeldBy(t, d)')
      BY <1>12 DEF OneOwner, InFlight, HeldBy, Claimed
    <2>1. CASE d = c
      <3>1. ~(\E t \in Sessions : HeldBy(t, d)') BY <2>1, <1>2, <1>18
      <3>2. Len(<<>>) = 0 OBVIOUS
      <3>3. \A t \in Sessions : ~HeldBy(t, d)' BY <3>1
      <3> QED BY <2>1, <3>1, <3>2, <3>3, <1>4, <1>8, <1>10
    <2>2. CASE d # c
      <3>1. d \in dropped' <=> d \in dropped BY <2>2, <1>10
      <3>2. \A t \in Sessions : HeldBy(t, d)' <=> HeldBy(t, d) BY <2>2, <1>18
      <3> QED BY <2>2, <3>1, <3>2, <1>10 DEF CallInv, OneOwner, Claimed
    <2> QED BY <2>1, <2>2
  <1>20. LoggedToAsker'
    <2> SUFFICES ASSUME NEW d \in Ids, NEW i \in DOMAIN log'[d]
                 PROVE log'[d][i] = <<calls[d].dir, calls[d].state>>
      BY <1>12 DEF LoggedToAsker
    <2>1. CASE d = c
      <3>1. log'[d] = <<row>> BY <2>1, <1>10
      <3> QED BY <2>1, <3>1, <1>8 DEF row
    <2>2. CASE d # c BY <2>2, <1>10 DEF CallInv, LoggedToAsker
    <2> QED BY <2>1, <2>2
  <1> QED BY <1>14, <1>16, <1>17, <1>19, <1>20 DEF CallInv

-----------------------------------------------------------------------------
LEMMA StepKeeps == Inv /\ [Next]_vars => Inv'
  <1> SUFFICES ASSUME Inv, [Next]_vars PROVE Inv' OBVIOUS
  <1> USE DEF Inv
  <1>1. ASSUME NEW s \in Sessions, NEW p \in Pages, NEW switch \in BOOLEAN, Visit(s, p, switch)
        PROVE Inv'
    <2> DEFINE n == IF switch THEN runs[s] + 1 ELSE runs[s]
    <2>1. n \in Nat /\ runs' = [runs EXCEPT ![s] = n] /\ visits' \in Nat BY <1>1 DEF Visit, TypeOK
    <2>2. hand' = hand /\ hand[s] = {} BY <1>1 DEF Visit, shared, OnPage
    <2>3. Rerun(s, p) /\ pc' = [pc EXCEPT ![s] = "poll"] /\ UNCHANGED <<shared, calls, errors>>
      BY <1>1 DEF Visit
    <2> HIDE DEF n
    <2>4. TypeOK' /\ OnPage' BY <2>1, <2>2, <2>3, RerunKeeps DEF TypeOK, shared, Ids
    <2> QED BY <2>3, <2>4, CoreUntouched DEF core, shared
  <1>2. ASSUME NEW s \in Sessions, Close(s) PROVE Inv'
    <2>1. TypeOK' /\ OnPage' BY <1>2 DEF Close, shared, TypeOK, OnPage, Ids
    <2> QED BY <1>2, <2>1, CoreUntouched DEF Close, core, shared
  <1>3. ASSUME NEW s \in Sessions, Look(s) PROVE Inv'
    <2>0. pc[s] = "look" /\ UNCHANGED <<shared, calls, errors>> BY <1>3 DEF Look
    <2>1. CASE Show(s, "reply") BY <2>0, <2>1, ShowKeeps, CoreUntouched DEF core, shared, TypeOK, Ids
    <2>2. CASE Goto(s, "pop")
      <3>1. hand[s] = {} /\ hand' = hand BY <2>0 DEF OnPage, shared
      <3> QED BY <2>0, <2>2, <3>1, GotoKeeps, CoreUntouched DEF core, shared, TypeOK, Ids
    <2> QED BY <1>3, <2>1, <2>2 DEF Look
  <1>4. ASSUME NEW s \in Sessions, Pop(s) PROVE Inv'
    <2>0. /\ pc[s] = "pop" /\ UNCHANGED <<cache, futures, meta, hand, log, dropped, calls, errors>>
          /\ failed' \in [Keys -> Nat]
      BY <1>4 DEF Pop, TypeOK
    <2>1. CASE Show(s, "error") BY <2>0, <2>1, ShowKeeps, CoreUntouched DEF core, TypeOK, Ids
    <2>2. CASE Goto(s, "ask")
      <3>1. hand[s] = {} BY <2>0 DEF OnPage
      <3> QED BY <2>0, <2>2, <3>1, GotoKeeps, CoreUntouched DEF core, TypeOK, Ids
    <2> QED BY <1>4, <2>1, <2>2 DEF Pop
  <1>5. ASSUME NEW s \in Sessions, PollNothing(s) PROVE Inv'
    <2>0. pc[s] = "poll" /\ UNCHANGED <<shared, calls, errors>> /\ Goto(s, "look")
      BY <1>5 DEF PollNothing
    <2>1. hand[s] = {} /\ hand' = hand BY <2>0 DEF OnPage, shared
    <2> QED BY <2>0, <2>1, GotoKeeps, CoreUntouched DEF core, shared, TypeOK, Ids
  <1>6. ASSUME NEW s \in Sessions, Promote(s) PROVE Inv'
    <2>1. /\ pc[s] = "promote" /\ Goto(s, "log") /\ UNCHANGED <<futures, meta, hand, log, dropped, calls, errors>>
      BY <1>6 DEF Promote
    <2>2. cache' \in [Keys -> Nat] /\ failed' \in [Keys -> Nat]
      <3>1. PICK x \in hand[s] : LET k == calls[x.call].key IN
               IF calls[x.call].state = "ok"
               THEN cache' = [cache EXCEPT ![k] = x.call] /\ UNCHANGED failed
               ELSE failed' = [failed EXCEPT ![k] = x.call] /\ UNCHANGED cache
        BY <1>6 DEF Promote, Oldest
      <3>2. x.call \in Nat BY DEF TypeOK
      <3> QED BY <3>1, <3>2 DEF TypeOK
    <2>3. pc'[s] = "log" BY <2>1 DEF Goto, TypeOK
    <2> QED BY <2>1, <2>2, <2>3, GotoKeeps, CoreUntouched DEF core, TypeOK, Ids
  <1>7. CASE UNCHANGED vars
    <2>1. TypeOK' /\ OnPage' BY <1>7 DEF vars, script, shared, TypeOK, OnPage, Ids
    <2> QED BY <1>7, <2>1, CoreUntouched DEF vars, script, shared, core
  <1> QED BY <1>1, <1>2, <1>3, <1>4, <1>5, <1>6, <1>7, AskKeeps, ClaimKeeps, LogKeeps, WorkKeeps
       DEF Next, Step

LEMMA Invariant == Spec => []Inv
  BY InitHolds, StepKeeps, PTL DEF Spec

-----------------------------------------------------------------------------
(* Every variable of the explainers has its type. *)
THEOREM TypeCorrect == Spec => []TypeOK
  <1>1. Inv => TypeOK BY DEF Inv
  <1> QED BY <1>1, Invariant, PTL

(* No dispatched call is orphaned, promoted twice or logged twice. *)
THEOREM OwnedOnce == Spec => []OneOwner
  <1>1. Inv => OneOwner BY DEF Inv, CallInv
  <1> QED BY <1>1, Invariant, PTL

(* Every row of ai_interactions.jsonl is in the asking session's run directory
   and says how the call ended. *)
THEOREM AuditedToAsker == Spec => []LoggedToAsker
  <1>1. Inv => LoggedToAsker BY DEF Inv, CallInv
  <1> QED BY <1>1, Invariant, PTL

(* Two calls for one key are never unanswered together. *)
THEOREM AskedOnceAtATime == Spec => []OneUnanswered
  <1>1. Inv => OneUnanswered
    <2> SUFFICES ASSUME Awaited, NEW c \in Ids, NEW d \in Ids,
                        calls[c].key = calls[d].key, ~Done(c), ~Done(d)
                 PROVE c = d
      BY DEF Inv, CallInv, OneUnanswered
    <2> QED BY DEF Awaited
  <1> QED BY <1>1, Invariant, PTL

-----------------------------------------------------------------------------
(* A call for key k ended with o.  An answered call stays as it is. *)
Ended(k, o) == \E c \in Ids : calls[c].key = k /\ calls[c].state = o

LEMMA AnswersStay ==
    ASSUME Inv, [Next]_vars
    PROVE  \A c \in Ids : Done(c) => c \in Ids' /\ calls'[c] = calls[c]
  <1>1. calls \in Seq(CallRec) BY DEF Inv, TypeOK, CallRec
  <1>2. CASE calls' = calls BY <1>2 DEF Ids
  <1>3. ASSUME NEW s \in Sessions, NEW k \in Keys, Dispatch(s, k)
        PROVE  \A c \in Ids : c \in Ids' /\ calls'[c] = calls[c]
    <2>1. \E r : r \in CallRec /\ calls' = Append(calls, r)
      <3> DEFINE r == [key |-> k, dir |-> <<s, runs[s]>>, state |-> "queued"]
      <3>1. r \in CallRec BY DEF CallRec, Dirs, Inv, TypeOK
      <3> QED BY <1>3, <3>1 DEF Dispatch
    <2> QED BY <1>1, <2>1, AppendProperties DEF Ids
  <1>4. ASSUME NEW d \in Ids, ~Done(d), NEW o \in {"running", "ok", "error"},
               calls' = [calls EXCEPT ![d].state = o]
        PROVE  \A c \in Ids : Done(c) => c \in Ids' /\ calls'[c] = calls[c]
    <2>1. Len(calls) \in Nat /\ DOMAIN calls = 1..Len(calls) BY <1>1, LenProperties
    <2>2. calls[d] \in CallRec BY IdsAreNat DEF Inv
    <2>3. [calls[d] EXCEPT !.state = o] \in CallRec BY <2>2 DEF CallRec
    <2>4. calls' = [calls EXCEPT ![d] = [calls[d] EXCEPT !.state = o]] BY <1>4
    <2>5. Len(calls') = Len(calls) BY <1>1, <2>3, <2>4, ExceptSeq DEF Ids
    <2> QED BY <1>4, <2>1, <2>5 DEF Ids
  <1>5. ASSUME NEW c \in Ids, Start(c) PROVE ~Done(c) /\ calls' = [calls EXCEPT ![c].state = "running"]
    BY <1>5 DEF Start, Done
  <1>6. ASSUME NEW c \in Ids, NEW o \in {"ok", "error"}, Finish(c, o)
        PROVE  ~Done(c) /\ calls' = [calls EXCEPT ![c].state = o]
    BY <1>6 DEF Finish, Done
  <1>7. \/ calls' = calls
        \/ \E s \in Sessions, k \in Keys : Dispatch(s, k)
        \/ Work
    <2>1. ASSUME NEW s \in Sessions, Ask(s) PROVE calls' = calls \/ \E k \in Keys : Dispatch(s, k)
      <3>1. Key(s) \in Keys BY <2>1, KeyOnPage DEF Ask, Inv
      <3> QED BY <2>1, <3>1 DEF Ask
    <2> QED BY <2>1 DEF Next, Step, Look, Pop, Claim, PollNothing, Promote, Log, Close, Visit, vars
  <1> QED BY <1>2, <1>3, <1>4, <1>5, <1>6, <1>7 DEF Work

LEMMA EndedStays ==
    ASSUME Inv, [Next]_vars, NEW k, NEW o \in {"ok", "error"}, Ended(k, o) PROVE Ended(k, o)'
  <1>1. PICK c \in Ids : calls[c].key = k /\ calls[c].state = o BY DEF Ended
  <1>2. c \in Ids' /\ calls'[c] = calls[c] BY <1>1, AnswersStay DEF Done
  <1> QED BY <1>1, <1>2 DEF Ended

(* The cache holds replies, the failures hold failures, and a section shows
   one or the other only of its key. *)
SeenInv ==
  /\ \A k \in Keys : (cache[k] # 0 => Ended(k, "ok")) /\ (failed[k] # 0 => Ended(k, "error"))
  /\ \A s \in Sessions, k \in Keys :
        /\ screen[s][k] = "reply" => Ended(k, "ok")
        /\ screen[s][k] = "error" => Ended(k, "error")

LEMMA SeenStep == Inv /\ SeenInv /\ [Next]_vars => SeenInv'
  <1> SUFFICES ASSUME Inv, SeenInv, [Next]_vars PROVE SeenInv' OBVIOUS
  <1>0. TypeOK /\ OnPage BY DEF Inv
  <1>1. ASSUME NEW k \in Keys
        PROVE  /\ cache[k] # 0 => Ended(k, "ok")'
               /\ failed[k] # 0 => Ended(k, "error")'
               /\ \A s \in Sessions : /\ screen[s][k] = "reply" => Ended(k, "ok")'
                                      /\ screen[s][k] = "error" => Ended(k, "error")'
    BY EndedStays DEF SeenInv
  <1>2. ASSUME \A k \in Keys : /\ cache'[k] \in {0, cache[k]} \/ Ended(k, "ok")'
                               /\ failed'[k] \in {0, failed[k]} \/ Ended(k, "error")',
               \A s \in Sessions, k \in Keys :
                  \/ screen'[s][k] \in {"blank", "waiting", screen[s][k]}
                  \/ screen'[s][k] = "reply" /\ Ended(k, "ok")'
                  \/ screen'[s][k] = "error" /\ Ended(k, "error")'
        PROVE  SeenInv'
    BY <1>1, <1>2 DEF SeenInv
  <1>3. ASSUME NEW s \in Sessions, NEW p, Rerun(s, p), UNCHANGED <<cache, failed>>
        PROVE  SeenInv'
    <2>1. \A t \in Sessions, k \in Keys : screen'[t][k] \in {"blank", screen[t][k]}
      BY <1>0, <1>3 DEF Rerun, TypeOK
    <2> QED BY <1>2, <1>3, <2>1
  <1>4. ASSUME NEW s \in Sessions, NEW here \in Keys, here = Key(s), NEW w, Show(s, w),
               cache' = cache, \A k \in Keys : failed'[k] \in {0, failed[k]},
               \/ w = "waiting"
               \/ w = "reply" /\ Ended(here, "ok")'
               \/ w = "error" /\ Ended(here, "error")'
        PROVE  SeenInv'
    <2>1. \A t \in Sessions, k \in Keys :
             screen'[t][k] = IF t = s /\ k = here THEN w ELSE screen[t][k]
      BY <1>0, <1>4 DEF Show, TypeOK
    <2> QED BY <1>2, <1>4, <2>1
  <1>5. ASSUME screen' = screen, cache' = cache, failed' = failed PROVE SeenInv'
    BY <1>2, <1>5
  <1>6. ASSUME NEW s \in Sessions, Look(s) PROVE SeenInv'
    <2>1. PICK here \in Keys : here = Key(s) BY <1>0, <1>6, KeyOnPage DEF Look
    <2>2. UNCHANGED shared BY <1>6 DEF Look
    <2>3. CASE cache[here] # 0
      <3>1. Show(s, "reply") /\ pc[s] # "away" BY <1>6, <2>1, <2>3 DEF Look
      <3>2. Ended(here, "ok")' BY <1>1, <2>3
      <3> QED BY <1>4, <2>1, <2>2, <3>1, <3>2 DEF shared
    <2>4. CASE cache[here] = 0
      BY <1>5, <1>6, <2>1, <2>2, <2>4 DEF Look, Goto, shared
    <2> QED BY <2>3, <2>4
  <1>7. ASSUME NEW s \in Sessions, Pop(s) PROVE SeenInv'
    <2>1. PICK here \in Keys : here = Key(s) BY <1>0, <1>7, KeyOnPage DEF Pop
    <2>2. cache' = cache /\ \A k \in Keys : failed'[k] \in {0, failed[k]}
      BY <1>0, <1>7 DEF Pop, TypeOK
    <2>3. CASE failed[here] # 0
      <3>1. Show(s, "error") /\ pc[s] # "away" BY <1>7, <2>1, <2>3 DEF Pop
      <3>2. Ended(here, "error")' BY <1>1, <2>3
      <3> QED BY <1>4, <2>1, <2>2, <3>1, <3>2
    <2>4. CASE failed[here] = 0
      <3>1. screen' = screen BY <1>7, <2>1, <2>4 DEF Pop, Goto
      <3> QED BY <1>2, <2>2, <3>1
    <2> QED BY <2>3, <2>4
  <1>8. ASSUME NEW s \in Sessions, Ask(s) PROVE SeenInv'
    <2>1. PICK here \in Keys : here = Key(s) BY <1>0, <1>8, KeyOnPage DEF Ask
    <2>2. Show(s, "waiting") /\ cache' = cache /\ failed' = failed BY <1>8 DEF Ask
    <2> QED BY <1>4, <2>1, <2>2
  <1>9. ASSUME NEW s \in Sessions, Promote(s) PROVE SeenInv'
    <2>1. PICK x \in hand[s] : LET k == calls[x.call].key IN
               IF calls[x.call].state = "ok"
               THEN cache' = [cache EXCEPT ![k] = x.call] /\ UNCHANGED failed
               ELSE failed' = [failed EXCEPT ![k] = x.call] /\ UNCHANGED cache
      BY <1>9 DEF Promote, Oldest
    <2>2. x.call \in Ids /\ Done(x.call) BY DEF Inv, CallInv, Held
    <2>3. PICK key, o : key = calls[x.call].key /\ o = calls[x.call].state OBVIOUS
    <2>4. o \in {"ok", "error"} /\ Ended(key, o) BY <2>2, <2>3 DEF Done, Ended
    <2>5. Ended(key, o)' BY <2>4, EndedStays
    <2>6. screen' = screen BY <1>9 DEF Promote, Goto
    <2>7. \A k \in Keys : /\ cache'[k] = cache[k] \/ (k = key /\ o = "ok")
                          /\ failed'[k] = failed[k] \/ (k = key /\ o = "error")
      BY <1>0, <2>1, <2>3, <2>4 DEF TypeOK
    <2> QED BY <1>2, <2>5, <2>6, <2>7
  <1>10. ASSUME NEW s \in Sessions, Log(s) PROVE SeenInv'
    <2>1. UNCHANGED <<cache, failed>> BY <1>10 DEF Log
    <2>2. (\E p : Rerun(s, p)) \/ screen' = screen BY <1>10 DEF Log, Release, Goto
    <2> QED BY <1>3, <1>5, <2>1, <2>2
  <1>11. ASSUME NEW s \in Sessions, NEW p \in Pages, NEW switch \in BOOLEAN, Visit(s, p, switch)
         PROVE  SeenInv'
    BY <1>3, <1>11 DEF Visit, shared
  <1>12. ASSUME NEW s \in Sessions, Close(s) PROVE SeenInv'
    <2>1. \A t \in Sessions, k \in Keys : screen'[t][k] \in {"blank", screen[t][k]}
      BY <1>0, <1>12 DEF Close, TypeOK
    <2> QED BY <1>2, <1>12, <2>1 DEF Close, shared
  <1>13. ASSUME NEW s \in Sessions, Claim(s) \/ PollNothing(s) PROVE SeenInv'
    BY <1>5, <1>13 DEF Claim, PollNothing, Goto, shared
  <1>14. CASE Work \/ UNCHANGED vars
    BY <1>5, <1>14 DEF Work, Start, Finish, vars, script, shared
  <1> QED BY <1>6, <1>7, <1>8, <1>9, <1>10, <1>11, <1>12, <1>13, <1>14 DEF Next, Step

(* A section that shows a reply was answered with one, and one that shows an
   error was failed: no cached reply, of any session, hides a failure of a
   key that was never answered. *)
THEOREM FailuresShow == Spec => []FailureVisible
  <1>1. Init => SeenInv BY DEF Init, SeenInv
  <1>2. SeenInv => FailureVisible BY DEF SeenInv, FailureVisible, Ended
  <1> QED BY <1>1, <1>2, SeenStep, Invariant, PTL DEF Spec
============================================================================
