---------------------------- MODULE SessionAuth ----------------------------
(***************************************************************************)
(* session_auth (nc-server middleware/auth.rs) with the session identity   *)
(* cache (nc-auth session.rs) and resolve_session (nc-fastcgi lib.rs):     *)
(* browser requests that carry one session cookie, the cache entry of that *)
(* cookie, and PHP-FPM, which alone knows whether the session is valid.    *)
(* Requests run concurrently; nothing joins two resolutions of one cookie. *)
(***************************************************************************)
EXTENDS Integers, FiniteSets

CONSTANTS
    Reqs,
    PositiveTtl,     \* session_cache_ttl
    NegativeTtl,     \* SESSION_NEGATIVE_CACHE_TTL
    EvictTtl,        \* SESSION_CACHE_TTL, what the eviction task goes by
    AcquireTimeout,  \* RESOLVE_ACQUIRE_TIMEOUT
    ResolveTimeout,  \* RESOLVE_TIMEOUT, until the answer starts
    Permits,         \* session_resolve_concurrency
    MaxLag,          \* an answer is complete so soon after the session was
                     \* looked at, or it stalls (no timeout enforces either)
    MaxClock         \* bound on the clock

ASSUME SessionAssumption ==
    /\ PositiveTtl \in Nat /\ NegativeTtl \in Nat /\ EvictTtl \in Nat
    /\ AcquireTimeout \in Nat /\ ResolveTimeout \in Nat /\ Permits \in Nat \ {0}
    /\ MaxLag \in Nat /\ MaxClock \in Nat

VARIABLES
    valid,       \* PHP's view of the session
    lastValid,   \* the last moment it was valid before a logout
    validSince,  \* the last login
    cache,       \* the cache entry: [kind, at]
    told,        \* history: whether PHP's answer wrote the entry, or an error
    rq,          \* the requests
    holders,     \* requests holding a permit of session_resolve_semaphore
    clock

vars == <<valid, lastValid, validSince, cache, told, rq, holders, clock>>

NoEntry == [kind |-> "none", at |-> 0]
Fresh   == [pc |-> "idle", login |-> FALSE, remember |-> FALSE, since |-> 0, answer |-> FALSE]

Init ==
    /\ valid \in BOOLEAN /\ lastValid = 0 /\ validSince = 0
    /\ cache = NoEntry /\ told = TRUE
    /\ rq = [r \in Reqs |-> Fresh]
    /\ holders = {} /\ clock = 0

(* Faulty variant: entries never expire at lookup. *)
LookupIgnoresAge ==
    IF cache.kind = "pos" THEN "Positive" ELSE IF cache.kind = "neg" THEN "Negative" ELSE "Miss"

cache_lookup ==
    IF cache.kind = "pos" /\ clock - cache.at < PositiveTtl THEN "Positive"
    ELSE IF cache.kind = "neg" /\ clock - cache.at < NegativeTtl THEN "Negative"
    ELSE "Miss"

At(r, s)  == rq[r].pc = s
Goto(r, s) == rq' = [rq EXCEPT ![r] = [@ EXCEPT !.pc = s, !.since = clock]]
Decide(r, s) == rq' = [rq EXCEPT ![r] = [Fresh EXCEPT !.pc = s]]

(* The timer r started has run out; at MaxClock every timer may have. *)
Expired(r, timeout) == clock - rq[r].since >= timeout \/ clock = MaxClock

(* A request arrives: `login` when Rust serves the path itself, `remember` *)
(* when it has the three remember-me cookies.                              *)
Arrive(r, login, remember) ==
    /\ At(r, "idle")
    /\ \/ cache_lookup = "Positive" /\ Decide(r, "in")
       \/ cache_lookup = "Negative" /\ Decide(r, "anonymous")
       \/ /\ cache_lookup = "Miss"
          /\ rq' = [rq EXCEPT ![r] = [Fresh EXCEPT !.pc = "wait", !.since = clock,
                                        !.login = login, !.remember = remember]]
    /\ UNCHANGED <<valid, lastValid, validSince, cache, told, holders, clock>>

Acquire(r) ==
    /\ At(r, "wait") /\ Cardinality(holders) < Permits
    /\ holders' = holders \cup {r}
    /\ Goto(r, "granted")
    /\ UNCHANGED <<valid, lastValid, validSince, cache, told, clock>>

GiveUpWaiting(r) ==
    /\ At(r, "wait") /\ Cardinality(holders) >= Permits
    /\ Expired(r, AcquireTimeout)
    /\ Decide(r, "anonymous")
    /\ UNCHANGED <<valid, lastValid, validSince, cache, told, holders, clock>>

(* `Ok(Ok(_permit)) => {}`: the permit goes with the match arm, before the *)
(* round-trip it was meant for.                                            *)
Send(r) ==
    /\ At(r, "granted")
    /\ holders' = holders \ {r}
    /\ Goto(r, "sent")
    /\ UNCHANGED <<valid, lastValid, validSince, cache, told, clock>>

(* PHP-FPM looks at the session and starts its answer; with `login` it may *)
(* restore the session from the remember-me cookies first.                 *)
Answer(r) ==
    /\ At(r, "sent")
    /\ \E v \in {valid} \cup {x \in {TRUE} : rq[r].login /\ rq[r].remember} :
          /\ rq' = [rq EXCEPT ![r] = [@ EXCEPT !.pc = "collect", !.since = clock, !.answer = v]]
          /\ valid' = v
          /\ validSince' = IF v /\ ~valid THEN clock ELSE validSince
    /\ UNCHANGED <<lastValid, cache, told, holders, clock>>

should_cache_negative_resolve(login, remember) == login \/ ~remember

(* resolve_session returned None, for whatever reason. *)
Unresolved(r, answered) ==
    /\ IF should_cache_negative_resolve(rq[r].login, rq[r].remember)
       THEN cache' = [kind |-> "neg", at |-> clock] /\ told' = answered
       ELSE UNCHANGED <<cache, told>>
    /\ Decide(r, "anonymous")
    /\ UNCHANGED <<valid, lastValid, validSince, holders, clock>>

(* Faulty variant: an answer without a uid is asked for again. *)
CollectAsksAgain(r) ==
    \/ /\ At(r, "collect") /\ rq[r].answer
       /\ cache' = [kind |-> "pos", at |-> clock] /\ told' = TRUE
       /\ Decide(r, "in")
       /\ UNCHANGED <<valid, lastValid, validSince, holders, clock>>
    \/ /\ At(r, "collect") /\ ~rq[r].answer
       /\ Goto(r, "sent")
       /\ UNCHANGED <<valid, lastValid, validSince, cache, told, holders, clock>>

(* The answer is complete and parsed. *)
Collect(r) ==
    \/ /\ At(r, "collect") /\ rq[r].answer
       /\ cache' = [kind |-> "pos", at |-> clock] /\ told' = TRUE
       /\ Decide(r, "in")
       /\ UNCHANGED <<valid, lastValid, validSince, holders, clock>>
    \/ At(r, "collect") /\ ~rq[r].answer /\ Unresolved(r, TRUE)

(* The answer started and goes on without end: no record follows and the   *)
(* stream stays open.  RESOLVE_TIMEOUT covers the start of the answer only, *)
(* so the collecting loop waits for as long as the stream does.            *)
Stall(r) ==
    /\ At(r, "collect")
    /\ Goto(r, "stalled")
    /\ UNCHANGED <<valid, lastValid, validSince, cache, told, holders, clock>>

(* No connection, an error, no answer within RESOLVE_TIMEOUT, or a stream  *)
(* that breaks: resolve_session returns None as for an invalid session.    *)
FpmError(r) ==
    /\ rq[r].pc \in {"sent", "collect", "stalled"}
    /\ Unresolved(r, FALSE)

ResolveExpires(r) ==
    /\ At(r, "sent") /\ Expired(r, ResolveTimeout)
    /\ Unresolved(r, FALSE)

(* The eviction task. *)
cache_evict_expired ==
    /\ \/ cache.kind = "pos" /\ clock - cache.at >= EvictTtl
       \/ cache.kind = "neg" /\ clock - cache.at >= NegativeTtl
    /\ cache' = NoEntry /\ told' = TRUE
    /\ UNCHANGED <<valid, lastValid, validSince, rq, holders, clock>>

(* PHP ends the session, or a PHP page logs the user in. *)
Logout == /\ valid /\ valid' = FALSE /\ lastValid' = clock
          /\ UNCHANGED <<validSince, cache, told, rq, holders, clock>>
Login  == /\ ~valid /\ valid' = TRUE /\ validSince' = clock
          /\ UNCHANGED <<lastValid, cache, told, rq, holders, clock>>

Tick ==
    /\ clock < MaxClock
    /\ \A r \in Reqs : At(r, "collect") => clock - rq[r].since < MaxLag
    /\ clock' = clock + 1
    /\ UNCHANGED <<valid, lastValid, validSince, cache, told, rq, holders>>

(* What the server does by itself, whatever PHP-FPM does. *)
ServerStep(r) == Acquire(r) \/ GiveUpWaiting(r) \/ Send(r) \/ ResolveExpires(r)

Next ==
    \/ \E r \in Reqs, login, remember \in BOOLEAN : Arrive(r, login, remember)
    \/ \E r \in Reqs : ServerStep(r) \/ Answer(r) \/ Collect(r) \/ Stall(r) \/ FpmError(r)
    \/ cache_evict_expired \/ Logout \/ Login \/ Tick

Spec == Init /\ [][Next]_vars

(***************************************************************************)
(* The server's own steps and timers always go on.  PHP-FPM owes nothing:  *)
(* it need not start an answer, and one it started is either complete      *)
(* within MaxLag or stalls for good.  That one of the two happens is how   *)
(* the passing of time shows in a state; it promises no end of any answer. *)
(***************************************************************************)
FairSpec ==
    /\ Spec /\ WF_vars(Tick)
    /\ \A r \in Reqs : WF_vars(ServerStep(r)) /\ WF_vars(Collect(r) \/ Stall(r))
-----------------------------------------------------------------------------
RequestT == [pc : {"idle", "wait", "granted", "sent", "collect", "stalled", "in", "anonymous"},
             login : BOOLEAN, remember : BOOLEAN, since : Nat, answer : BOOLEAN]
EntryT   == [kind : {"none", "pos", "neg"}, at : Nat]

(* The types of the state; no time stamp is ahead of the clock.            *)
TypeOK ==
    /\ valid \in BOOLEAN /\ clock \in Nat
    /\ lastValid \in 0..clock /\ validSince \in 0..clock
    /\ cache \in EntryT /\ cache.at <= clock /\ told \in BOOLEAN
    /\ rq \in [Reqs -> RequestT] /\ \A r \in Reqs : rq[r].since <= clock
    /\ holders \subseteq Reqs

(***************************************************************************)
(* How long a session outlives its logout: a resolution that looked at the *)
(* session before the logout may store its answer after it, and last, so   *)
(* the time the answer takes comes on top of the TTL (cache_insert dates   *)
(* the entry by the end of the round-trip, session.rs).                    *)
(***************************************************************************)
LogoutWithinTtlAndLag ==
    cache_lookup = "Positive" => valid \/ clock - lastValid < PositiveTtl + MaxLag

(***************************************************************************)
(* "Negative entries are written only when the failure is definitive"      *)
(* (auth.rs): while a negative entry turns requests away, PHP did find the *)
(* session invalid not long ago -- unless an error of PHP-FPM wrote it,    *)
(* which resolve_session does not tell from an invalid session.            *)
(***************************************************************************)
NegativeIsDefinitive ==
    cache_lookup = "Negative" /\ told =>
        ~valid \/ clock - validSince < NegativeTtl + MaxLag

(***************************************************************************)
(* A browser request is let in or goes on anonymously unless its own       *)
(* answer stalls.  The answers of the others do not matter: a stalled      *)
(* resolution keeps no permit (session_auth drops it before it asks) and   *)
(* no request waits for the answer of another one, so a request behind a   *)
(* hundred stalled ones still gets its turn or gives up waiting (auth.rs). *)
(***************************************************************************)
DecidedUnlessStalled ==
    \A r \in Reqs :
        At(r, "wait") ~> (At(r, "in") \/ At(r, "anonymous") \/ At(r, "stalled"))

(* "Returns `None` on any error: timeout, ...", "A fixed **5-second**      *)
(* timeout is applied ... because this function is called on the hot path  *)
(* of every browser request" (resolve_session, nc-fastcgi lib.rs): every   *)
(* browser request is decided, whatever PHP-FPM does.                      *)
EveryRequestDecided ==
    \A r \in Reqs : At(r, "wait") ~> (At(r, "in") \/ At(r, "anonymous"))
=============================================================================
