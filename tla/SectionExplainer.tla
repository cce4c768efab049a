-------------------------- MODULE SectionExplainer --------------------------
(***************************************************************************)
(* The AI explanations of dashboard sections                               *)
(* (dashboard/section_explainer.py).  Every browser session is a thread    *)
(* that renders a page of sections from top to bottom and, between         *)
(* renders, ticks a poller.  All sessions of one process share a cache of  *)
(* replies, a table of calls in flight, a table of failures and a pool of  *)
(* workers that call the language model.  Only the table of calls in       *)
(* flight is protected by a lock, so a render is three steps (cache,       *)
(* failure, dispatch) and a poll is a claim followed by two steps for      *)
(* every call it claimed.                                                  *)
(*                                                                         *)
(* Calls are numbered in the order of their dispatch, which is also the    *)
(* order of the in-flight table and of the pool's queue.  0 is no call.    *)
(* A run directory is <<session, n>>: a session gets a fresh one whenever  *)
(* it runs the engine.                                                     *)
(***************************************************************************)
EXTENDS Naturals, Sequences, FiniteSets

CONSTANTS
  Sessions,    \* the browser sessions of one process
  Keys,        \* (page, section, persona, data hash)
  Pages,       \* what a session can look at: sequences of keys
  Workers,     \* size of the pool, 4 in the code
  MaxVisits,   \* bound: page loads and clicks, all sessions together
  MaxErrors,   \* bound: calls that the model backend fails
  MaxDrops     \* bound: audit rows that cannot be written

ASSUME PagesAssumption == Pages \subseteq (Seq(Keys) \ {<<>>})
ASSUME WorkersAssumption == Workers \in Nat \ {0}

VARIABLES
  pc,        \* where each session's script is
  view,      \* the page it renders
  sec,       \* the section it has come to
  screen,    \* what each section shows
  runs,      \* engine runs a session has made: its run directory is the last
  cache,     \* _PROCESS_CACHE
  failed,    \* _FAILED
  futures,   \* _FUTURES
  meta,      \* _FUTURE_META, of which only run_dir matters
  calls,     \* every call dispatched: its key, who asked, how far it is
  hand,      \* what each poller has claimed and not yet promoted
  log,       \* ai_interactions.jsonl: the rows written about each call
  dropped,   \* calls whose row could not be written: a warning is all there is
  visits, errors

script == <<pc, view, sec, screen, runs, visits>>
shared == <<cache, failed, futures, meta, hand, log, dropped>>
vars == <<script, shared, calls, errors>>

Ids == 1..Len(calls)
Dirs == Sessions \X Nat
Done(c) == calls[c].state \in {"ok", "error"}

Init ==
  /\ pc = [s \in Sessions |-> "away"]
  /\ view = [s \in Sessions |-> <<>>]
  /\ sec = [s \in Sessions |-> 0]
  /\ screen = [s \in Sessions |-> [k \in Keys |-> "blank"]]
  /\ runs = [s \in Sessions |-> 0]
  /\ cache = [k \in Keys |-> 0]
  /\ failed = [k \in Keys |-> 0]
  /\ futures = [k \in Keys |-> 0]
  /\ meta = [k \in Keys |-> <<>>]
  /\ calls = <<>>
  /\ hand = [s \in Sessions |-> {}]
  /\ log = <<>> /\ dropped = {}
  /\ visits = 0
  /\ errors = 0

-----------------------------------------------------------------------------
(* A session's script. *)

(* The script starts again at the top of page p. *)
Rerun(s, p) ==
  /\ view' = [view EXCEPT ![s] = p]
  /\ sec' = [sec EXCEPT ![s] = 1]
  /\ screen' = [screen EXCEPT ![s] = [k \in Keys |-> "blank"]]

(* A user opens or refreshes a page, clicks, or switches tenant, which runs
   the engine again and moves the session to a new run directory. *)
Visit(s, p, switch) ==
  /\ pc[s] \in {"away", "idle"} /\ visits < MaxVisits
  /\ switch \/ runs[s] > 0
  /\ runs' = [runs EXCEPT ![s] = IF switch THEN @ + 1 ELSE @]
  /\ Rerun(s, p)
  /\ pc' = [pc EXCEPT ![s] = "poll"]
  /\ visits' = visits + 1
  /\ UNCHANGED <<shared, calls, errors>>

(* The tab is closed: its script and its poller run no more. *)
Close(s) ==
  /\ pc[s] = "idle"
  /\ pc' = [pc EXCEPT ![s] = "away"]
  /\ screen' = [screen EXCEPT ![s] = [k \in Keys |-> "blank"]]
  /\ UNCHANGED <<view, sec, runs, visits, shared, calls, errors>>

Key(s) == view[s][sec[s]]

(* The current section shows w, and the script goes on to the next one. *)
Show(s, w) ==
  /\ screen' = [screen EXCEPT ![s][Key(s)] = w]
  /\ pc' = [pc EXCEPT ![s] = IF sec[s] < Len(view[s]) THEN "look" ELSE "idle"]
  /\ sec' = [sec EXCEPT ![s] = IF sec[s] < Len(view[s]) THEN @ + 1 ELSE @]
  /\ UNCHANGED <<view, runs, visits>>

Goto(s, where) ==
  /\ pc' = [pc EXCEPT ![s] = where]
  /\ UNCHANGED <<view, sec, screen, runs, visits>>

(* _cache_get, outside the lock. *)
Look(s) ==
  /\ pc[s] = "look"
  /\ IF cache[Key(s)] # 0 THEN Show(s, "reply") ELSE Goto(s, "pop")
  /\ UNCHANGED <<shared, calls, errors>>

(* _FAILED.pop, outside the lock: whoever renders first sees the error. *)
Pop(s) ==
  /\ pc[s] = "pop"
  /\ failed' = [failed EXCEPT ![Key(s)] = 0]
  /\ IF failed[Key(s)] # 0 THEN Show(s, "error") ELSE Goto(s, "ask")
  /\ UNCHANGED <<cache, futures, meta, hand, log, dropped, calls, errors>>

(* Submit a call for key k and publish it with the asking session's run
   directory. *)
Dispatch(s, k) ==
  LET c == Len(calls) + 1 IN
  /\ calls' = Append(calls, [key |-> k, dir |-> <<s, runs[s]>>, state |-> "queued"])
  /\ log' = Append(log, <<>>)
  /\ futures' = [futures EXCEPT ![k] = c]
  /\ meta' = [meta EXCEPT ![k] = <<s, runs[s]>>]

(* Under _DRAIN_LOCK: dispatch unless the key is in flight.  The cache and
   the failures are not looked at again. *)
Ask(s) ==
  /\ pc[s] = "ask"
  /\ IF futures[Key(s)] = 0
     THEN Dispatch(s, Key(s))
     ELSE UNCHANGED <<calls, log, futures, meta>>
  /\ Show(s, "waiting")
  /\ UNCHANGED <<cache, failed, hand, dropped, errors>>

-----------------------------------------------------------------------------
(* The pool. *)

(* A free worker takes the oldest call of the queue. *)
Start(c) ==
  /\ calls[c].state = "queued"
  /\ \A d \in 1..(c - 1) : calls[d].state # "queued"
  /\ Cardinality({d \in Ids : calls[d].state = "running"}) < Workers
  /\ calls' = [calls EXCEPT ![c].state = "running"]
  /\ UNCHANGED <<script, shared, errors>>

(* The backend answers or raises: HTTP timeouts bound the wait. *)
Finish(c, outcome) ==
  /\ calls[c].state = "running"
  /\ outcome = "error" => errors < MaxErrors
  /\ errors' = IF outcome = "error" THEN errors + 1 ELSE errors
  /\ calls' = [calls EXCEPT ![c].state = outcome]
  /\ UNCHANGED <<script, shared>>

-----------------------------------------------------------------------------
(* The poller: page_header mounts it at the top of every page, so it runs at
   the start of a render and then ticks while the page is idle. *)

Resolved == {k \in Keys : futures[k] # 0 /\ Done(futures[k])}

(* Mutants: the table is read and not popped; the poller is mounted only when
   something is pending as the page starts, and ticks no more. *)
ClaimUnpopped(s) ==
  /\ pc[s] \in {"poll", "idle"} /\ Resolved # {}
  /\ hand' = [hand EXCEPT ![s] =
                {[call |-> futures[k], dir |-> meta[k]] : k \in Resolved}]
  /\ Goto(s, "promote")
  /\ UNCHANGED <<futures, meta, cache, failed, log, dropped, calls, errors>>

ClaimAtRender(s) ==
  /\ pc[s] = "poll" /\ Resolved # {}
  /\ hand' = [hand EXCEPT ![s] =
                {[call |-> futures[k], dir |-> meta[k]] : k \in Resolved}]
  /\ futures' = [k \in Keys |-> IF k \in Resolved THEN 0 ELSE futures[k]]
  /\ meta' = [k \in Keys |-> IF k \in Resolved THEN <<>> ELSE meta[k]]
  /\ Goto(s, "promote")
  /\ UNCHANGED <<cache, failed, log, dropped, calls, errors>>

(* Phase 1, under _DRAIN_LOCK: take every resolved call with its meta. *)
Claim(s) ==
  /\ pc[s] \in {"poll", "idle"} /\ Resolved # {}
  /\ hand' = [hand EXCEPT ![s] =
                {[call |-> futures[k], dir |-> meta[k]] : k \in Resolved}]
  /\ futures' = [k \in Keys |-> IF k \in Resolved THEN 0 ELSE futures[k]]
  /\ meta' = [k \in Keys |-> IF k \in Resolved THEN <<>> ELSE meta[k]]
  /\ Goto(s, "promote")
  /\ UNCHANGED <<cache, failed, log, dropped, calls, errors>>

(* Nothing to drain at the start of a render. *)
PollNothing(s) ==
  /\ pc[s] = "poll" /\ Resolved = {}
  /\ Goto(s, "look")
  /\ UNCHANGED <<shared, calls, errors>>

(* Claims are handled in the order of the in-flight table. *)
Oldest(h) == {x \in h : \A y \in h : x.call <= y.call}

(* A mutant: a failed call is answered with a canned reply. *)
PromoteMasked(s) ==
  /\ pc[s] = "promote"
  /\ \E x \in Oldest(hand[s]) :
       cache' = [cache EXCEPT ![calls[x.call].key] = x.call] /\ UNCHANGED failed
  /\ Goto(s, "log")
  /\ UNCHANGED <<futures, meta, hand, log, dropped, calls, errors>>

(* Phase 2, the lock released: the reply goes to the cache, the exception to
   the failures ... *)
Promote(s) ==
  /\ pc[s] = "promote"
  /\ \E x \in Oldest(hand[s]) :
       LET k == calls[x.call].key IN
       IF calls[x.call].state = "ok"
       THEN cache' = [cache EXCEPT ![k] = x.call] /\ UNCHANGED failed
       ELSE failed' = [failed EXCEPT ![k] = x.call] /\ UNCHANGED cache
  /\ Goto(s, "log")
  /\ UNCHANGED <<futures, meta, hand, log, dropped, calls, errors>>

(* The row about call c goes to directory d, or, if that cannot be written,
   is dropped with a warning. *)
WriteRow(c, d) ==
  \/ /\ log' = [log EXCEPT ![c] = Append(@, <<d, calls[c].state>>)]
     /\ UNCHANGED dropped
  \/ /\ Cardinality(dropped) < MaxDrops
     /\ dropped' = dropped \cup {c}
     /\ UNCHANGED log

(* The claim is done with.  After the last one st.rerun() renders the page
   again, in this session only. *)
Release(s, x) ==
  /\ hand' = [hand EXCEPT ![s] = @ \ {x}]
  /\ IF hand'[s] = {}
     THEN /\ Rerun(s, view[s])
          /\ pc' = [pc EXCEPT ![s] = "poll"]
          /\ UNCHANGED <<runs, visits>>
     ELSE Goto(s, "promote")

(* A mutant: the row goes to the run directory of the session that drains. *)
LogToDrainer(s) ==
  /\ pc[s] = "log"
  /\ \E x \in Oldest(hand[s]) : WriteRow(x.call, <<s, runs[s]>>) /\ Release(s, x)
  /\ UNCHANGED <<cache, failed, futures, meta, calls, errors>>

(* ... then one row to the run directory of the meta. *)
Log(s) ==
  /\ pc[s] = "log"
  /\ \E x \in Oldest(hand[s]) : WriteRow(x.call, x.dir) /\ Release(s, x)
  /\ UNCHANGED <<cache, failed, futures, meta, calls, errors>>

Step(s) == Look(s) \/ Pop(s) \/ Ask(s) \/ Claim(s) \/ PollNothing(s) \/ Promote(s) \/ Log(s)
Work == \E c \in Ids : Start(c) \/ \E o \in {"ok", "error"} : Finish(c, o)

Next ==
  \/ \E s \in Sessions : Step(s) \/ Close(s)
  \/ \E s \in Sessions, p \in Pages, switch \in BOOLEAN : Visit(s, p, switch)
  \/ Work

(* A script runs to its end, an open page ticks every 1.2 seconds, a free
   worker takes the next call and every call returns.  Nobody has to visit a
   page or close one. *)
Spec == Init /\ [][Next]_vars /\ (\A s \in Sessions : WF_vars(Step(s))) /\ WF_vars(Work)

-----------------------------------------------------------------------------
(* Every variable has its type. *)
TypeOK ==
  /\ pc \in [Sessions -> {"away", "idle", "poll", "look", "pop", "ask", "promote", "log"}]
  /\ view \in [Sessions -> Pages \cup {<<>>}]
  /\ sec \in [Sessions -> Nat]
  /\ screen \in [Sessions -> [Keys -> {"blank", "waiting", "reply", "error"}]]
  /\ runs \in [Sessions -> Nat]
  /\ calls \in Seq([key : Keys, dir : Dirs, state : {"queued", "running", "ok", "error"}])
  /\ cache \in [Keys -> Nat] /\ failed \in [Keys -> Nat] /\ futures \in [Keys -> Nat]
  /\ meta \in [Keys -> Dirs \cup {<<>>}]
  /\ hand \in [Sessions -> SUBSET [call : Nat, dir : Dirs]]
  /\ log \in Seq(Seq(Dirs \X {"ok", "error"})) /\ Len(log) = Len(calls)
  /\ dropped \subseteq Ids
  /\ visits \in Nat /\ errors \in Nat

(* A dispatched call is in flight, in the hands of one poller, or accounted
   for by one audit row or one warning that it was dropped: none is orphaned
   and none is promoted twice, however renders and pollers interleave. *)
InFlight(c) == \E k \in Keys : futures[k] = c
HeldBy(s, c) == \E x \in hand[s] : x.call = c
Claimed(c) == \E s \in Sessions : HeldBy(s, c)
OneOwner ==
  \A c \in Ids :
    /\ InFlight(c) => \A s \in Sessions : ~HeldBy(s, c)
    /\ \A s, t \in Sessions : HeldBy(s, c) /\ HeldBy(t, c) => s = t
    /\ Len(log[c]) = IF InFlight(c) \/ Claimed(c) \/ c \in dropped THEN 0 ELSE 1
    /\ c \in dropped => ~InFlight(c) /\ ~Claimed(c)

(* The row about a call says how it ended and is in the run directory the
   asking session had when it asked, whichever session drained it and
   whatever the asker has switched to since. *)
LoggedToAsker ==
  \A c \in Ids : \A i \in DOMAIN log[c] : log[c][i] = <<calls[c].dir, calls[c].state>>

(* The model is never asked the same thing twice at once: of the calls for one
   key at most one is unanswered. *)
OneUnanswered ==
  \A c, d \in Ids : calls[c].key = calls[d].key /\ ~Done(c) /\ ~Done(d) => c = d

(* A failure is not masked: a section that has been answered with nothing but
   failures never shows a reply, and one that shows an error was failed. *)
FailureVisible ==
  \A s \in Sessions, k \in Keys :
    /\ screen[s][k] = "reply" => \E c \in Ids : calls[c].key = k /\ calls[c].state = "ok"
    /\ screen[s][k] = "error" => \E c \in Ids : calls[c].key = k /\ calls[c].state = "error"

(* Every call is promoted in the end and has its row, or the warning that it
   could not be written, unless every session has gone: a tick of any open
   page drains the calls of all. *)
EveryCallSettles ==
  []<>((\A c \in Ids : log[c] # <<>> \/ c \in dropped) \/ (\A s \in Sessions : pc[s] = "away"))
=============================================================================
