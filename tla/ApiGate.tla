------------------------------ MODULE ApiGate ------------------------------
(***************************************************************************)
(* One worker of the API: the rate limiter each request passes, and the    *)
(* check of its token against two cached documents of the identity         *)
(* provider.  The provider publishes a key, withdraws another and moves    *)
(* its key set whenever it likes.  Neither step yields to the event loop:  *)
(* while a document is fetched the worker serves nobody.  Times are ages   *)
(* in ticks of the clock, cut off where nothing more depends on them.      *)
(***************************************************************************)
EXTENDS Integers, Sequences, FiniteSets, SequencesExt, Rows

CONSTANTS
    Clients,
    Limit, Window, MaxTracked,  \* API_RATE_LIMIT, its window, API_RATE_LIMIT_MAX_IPS
    TTL,                        \* OIDC_CACHE_SECONDS
    MaxLag                      \* bound: the ticks one token check takes, its fetches included

ASSUME ClientsAssumption == IsFiniteSet(Clients)
ASSUME LimitsAssumption == {Limit, Window, MaxTracked, TTL} \subseteq Nat \ {0}
ASSUME LagAssumption == MaxLag \in 0..TTL

Keys == {"old", "new"}
Never == 2 * TTL                \* as old as no cached answer can be

VARIABLES
    counts,     \* client -> the ages of its requests in _request_counts, oldest first
    lost,       \* client -> the ages of its recent requests an eviction forgot
    here, gone, \* the key sets at the place the provider names and at the one it left
    moved,      \* the provider named a new place
    published, withdrawn,       \* how long ago "new" appeared and "old" disappeared
    config,     \* the cached discovery document: its age, and whether it names the new place
    jwks,       \* the cached key set: its age and its keys
    check,      \* the token check that holds the worker: its step, and ticks so far
    answer      \* the verdict on a token just given, if one was

provider == <<here, gone, moved, published, withdrawn>>
limiter == <<counts, lost>>
gateVars == <<limiter, provider, config, jwks, check, answer>>

Free == [step |-> "free", lag |-> 0]
Silent == [key |-> "old", verdict |-> "none"]
Accepted(key) == [key |-> key, verdict |-> "accepted"]
Verdict(key, keys) == [key |-> key, verdict |-> IF key \in keys THEN "accepted" ELSE "refused"]

GateInit ==
    /\ counts = [c \in Clients |-> <<>>] /\ lost = [c \in Clients |-> {}]
    /\ here = {"old"} /\ gone = {} /\ moved = FALSE
    /\ published = 0 /\ withdrawn = 0
    /\ config = [age |-> TTL, new |-> FALSE] /\ jwks = [age |-> TTL, keys |-> {}]
    /\ check = Free /\ answer = Silent

Cut(age, top) == IF age > top THEN top ELSE age
Older(ages) == [i \in DOMAIN ages |-> Cut(ages[i] + 1, Window)]
Recent == 0..(Window - 1)
InWindow(ages) == Picked(ages, {i \in DOMAIN ages : ages[i] \in Recent})

Tick ==
    /\ check.step # "free" => check.lag < MaxLag
    /\ counts' = [c \in Clients |-> Older(counts[c])]
    /\ lost' = [c \in Clients |-> {a + 1 : a \in lost[c]} \cap Recent]
    /\ published' = IF "new" \in here THEN Cut(published + 1, Never) ELSE 0
    /\ withdrawn' = IF "old" \in here THEN 0 ELSE Cut(withdrawn + 1, Never)
    /\ config' = [config EXCEPT !.age = Cut(@ + 1, TTL)]
    /\ jwks' = [jwks EXCEPT !.age = Cut(@ + 1, TTL)]
    /\ check' = IF check.step = "free" THEN check ELSE [check EXCEPT !.lag = @ + 1]
    /\ answer' = Silent
    /\ UNCHANGED <<here, gone, moved>>

----------------------------------------------------------------------------
(* The rate limiter.                                                        *)
Tracked(table) == {c \in Clients : table[c] # <<>>}

(* Mutant: the clients are sorted the other way round.                      *)
EvictedNewest(table, out) ==
    \A c \in out, d \in Tracked(table) \ out : Last(table[c]) <= Last(table[d])

(* Those whose latest request is the oldest; a tie falls to the dictionary. *)
Evicted(table, out) ==
    \A c \in out, d \in Tracked(table) \ out : Last(table[c]) >= Last(table[d])

Drops(table) == IF Cardinality(Tracked(table)) <= MaxTracked THEN 0
                ELSE Cardinality(Tracked(table)) - MaxTracked

(* A refused client's window is trimmed; an admitted one's grows, and then  *)
(* the clients idle longest are forgotten if too many are tracked.          *)
Refuse(c) ==
    /\ check.step = "free" /\ Len(InWindow(counts[c])) >= Limit
    /\ counts' = [counts EXCEPT ![c] = InWindow(@)]
    /\ answer' = Silent
    /\ UNCHANGED <<lost, provider, config, jwks, check>>

Admit(c) ==
    /\ check.step = "free" /\ Len(InWindow(counts[c])) < Limit
    /\ LET table == [counts EXCEPT ![c] = Append(InWindow(@), 0)] IN
       \E out \in SUBSET Tracked(table) :
           /\ Cardinality(out) = Drops(table) /\ Evicted(table, out)
           /\ counts' = [d \in Clients |-> IF d \in out THEN <<>> ELSE table[d]]
           /\ lost' = [d \in Clients |-> IF d \in out THEN lost[d] \cup (ToSet(table[d]) \cap Recent)
                                         ELSE lost[d]]
    /\ answer' = Silent
    /\ UNCHANGED <<provider, config, jwks, check>>

----------------------------------------------------------------------------
(* The provider.                                                            *)
Provider == UNCHANGED <<limiter, config, jwks, check>> /\ answer' = Silent

Publish == /\ "new" \notin here /\ here' = here \cup {"new"} /\ published' = 0
           /\ Provider /\ UNCHANGED <<gone, moved, withdrawn>>

Withdraw == /\ "old" \in here /\ here' = here \ {"old"} /\ withdrawn' = 0
            /\ Provider /\ UNCHANGED <<gone, moved, published>>

(* The place it left keeps answering with what it had.                      *)
Move == /\ ~moved /\ moved' = TRUE /\ gone' = here
        /\ Provider /\ UNCHANGED <<here, published, withdrawn>>

----------------------------------------------------------------------------
(* Mutant: a hit renews the key set.                                        *)
CheckRenewing(key) ==
    /\ check.step = "free" /\ jwks.age < TTL
    /\ answer' = Verdict(key, jwks.keys) /\ jwks' = [jwks EXCEPT !.age = 0]
    /\ UNCHANGED <<limiter, provider, config, check>>

(* The check of a token signed with key; which key it was tells only in the *)
(* answer, so a check that has to fetch picks it last.                      *)
CheckCached(key) ==
    /\ check.step = "free" /\ jwks.age < TTL
    /\ answer' = Verdict(key, jwks.keys)
    /\ UNCHANGED <<limiter, provider, config, jwks, check>>

Check ==
    /\ check.step = "free" /\ jwks.age >= TTL
    /\ check' = [step |-> IF config.age < TTL THEN "jwks" ELSE "config", lag |-> 0]
    /\ answer' = Silent
    /\ UNCHANGED <<limiter, provider, config, jwks>>

(* Both documents are stamped with the time before the first was asked for. *)
FetchConfig ==
    /\ check.step = "config"
    /\ config' = [age |-> check.lag, new |-> moved]
    /\ check' = [check EXCEPT !.step = "jwks"]
    /\ answer' = Silent
    /\ UNCHANGED <<limiter, provider, jwks>>

FetchKeys(key) ==
    LET keys == IF moved /\ ~config.new THEN gone ELSE here IN
    /\ check.step = "jwks"
    /\ jwks' = [age |-> check.lag, keys |-> keys]
    /\ answer' = Verdict(key, keys)
    /\ check' = Free
    /\ UNCHANGED <<limiter, provider, config>>

(* Mutant: when the provider is out of reach the expired keys will do.      *)
FetchFailsOpen(key) ==
    /\ check.step # "free"
    /\ answer' = Verdict(key, jwks.keys)
    /\ check' = Free
    /\ UNCHANGED <<limiter, provider, config, jwks>>

(* Either fetch raises: the token is refused and nothing more is cached.    *)
FetchFails(key) ==
    /\ check.step # "free"
    /\ answer' = Silent
    /\ check' = Free
    /\ UNCHANGED <<limiter, provider, config, jwks>>

GateNext ==
    \/ Tick
    \/ \E c \in Clients : Refuse(c) \/ Admit(c)
    \/ Publish \/ Withdraw \/ Move
    \/ Check \/ FetchConfig
    \/ \E key \in Keys : CheckCached(key) \/ FetchKeys(key) \/ FetchFails(key)

GateSpec == GateInit /\ [][GateNext]_gateVars

----------------------------------------------------------------------------
(* A withdrawn key is refused one cache lifetime after it disappeared, and  *)
(* two if the provider moved its keys and the place it left still has it.   *)
RevokedSoonRefused ==
    answer = Accepted("old") /\ "old" \notin here =>
        withdrawn < IF "old" \in gone THEN 2 * TTL ELSE TTL

(* A published key is refused for as long at the most, unless a fetch fails.*)
RotatedSoonAccepted ==
    answer = [key |-> "new", verdict |-> "refused"] /\ "new" \in here =>
        published < IF moved /\ "new" \notin gone THEN 2 * TTL ELSE TTL

(* The limiter counts every request of the window, save those of a client   *)
(* it forgot for MaxTracked others who were all let in after them.          *)
ForgottenForNewer ==
    \A c \in Clients : \A a \in lost[c] :
        Cardinality({d \in Clients \ {c} :
            \E b \in lost[d] \cup ToSet(counts[d]) : b <= a}) >= MaxTracked
=============================================================================
