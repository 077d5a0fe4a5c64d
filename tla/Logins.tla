------------------------------- MODULE Logins -------------------------------
(***************************************************************************)
(* http_middleware_stack (nc-server router.rs) and auth_check (middleware/ *)
(* auth.rs) with the brute-force throttle, bearer and Basic verification,  *)
(* the token cache and the user-state cache of nc-auth.  Requests run      *)
(* concurrently; every DB statement is a step of its own and may fail.     *)
(* The PHP side creates and revokes tokens and changes users in the same   *)
(* database.  The session branch is SessionAuth seen from outside: it      *)
(* yields the identity of the cookie or nothing.                           *)
(***************************************************************************)
EXTENDS Routing, Integers, Sequences, FiniteSetsExt

CONSTANTS
    Reqs,
    Plans,           \* client requests, changes made by PHP, whether statements fail
    Tokens, TokenRow, \* rows of oc_authtoken: [uid, login, type, expires]
    Users, Password, \* oc_users: the password of each user
    Cfg,             \* [installed, maintenance, protection, allowlist, fpm]
    MaxAttempts,     \* bruteforce.max-attempts
    ShortWindow, LongWindow,
    CountTtl, TokenTtl, UserTtl,
    BaseDelay, MaxShift, MaxDelay,
    ActivityInterval,
    MaxLag,          \* assumed of the DB: a statement is answered so soon
    MaxRows,         \* bound on the recorded attempts
    MaxClock

Never  == -1
NoTok  == "no token"
NoUser == "nobody"

ASSUME LoginAssumption ==
    /\ MaxAttempts \in Nat /\ ShortWindow \in Nat /\ LongWindow \in Nat /\ ShortWindow <= LongWindow
    /\ CountTtl \in Nat \ {0} /\ TokenTtl \in Nat \ {0} /\ UserTtl \in Nat \ {0}
    /\ BaseDelay \in Nat /\ MaxShift \in Nat /\ MaxDelay \in Nat /\ ActivityInterval \in Nat
    /\ MaxLag \in Nat /\ MaxRows \in Nat /\ MaxClock \in Nat
    /\ NoTok \notin Tokens /\ NoUser \notin Users

(* A token belongs to a user and has an expiry, Never for none.            *)
ASSUME TokenAssumption ==
    \A t \in Tokens : /\ TokenRow[t].uid \in Users /\ TokenRow[t].type \in Int
                      /\ TokenRow[t].expires \in Int

(* Arithmetic that the provers lack: powers of two are natural numbers.    *)
ASSUME DelayAssumption == \A n \in 0..MaxShift : BaseDelay * 2 ^ n \in Nat

VARIABLES
    revoked,     \* oc_authtoken: when the row of a token was deleted, or Never
    activity,    \* oc_authtoken.last_activity
    twofa,       \* oc_twofactor_providers: since when the user has a provider, or Never
    demoted,     \* oc_group_user: since when the user is no admin, or Never
    attempts,    \* oc_bruteforce_attempts: a sequence of [subnet, at]
    counts,      \* count_cache
    tokens,      \* token_cache
    states,      \* user_state_cache
    tasks,       \* spawned last_activity updates
    plan, rq, clock

db   == <<revoked, twofa, demoted, plan>>
vars == <<revoked, activity, twofa, demoted, attempts, counts, tokens, states, tasks, plan, rq, clock>>

Kinds == UNION {p.kinds : p \in Plans}

Fresh == [pc |-> "idle", kind |-> CHOOSE k \in Kinds : TRUE, since |-> 0, wake |-> 0,
          short |-> 0, act |-> 0, asked |-> Never, blind |-> FALSE, tok |-> NoTok, type |-> 0, seen |-> Never,
          uid |-> NoUser, admin |-> FALSE, tfa |-> FALSE, state |-> Never, status |-> 0]

Subnets == {k.subnet : k \in Kinds}
NoCount == [short |-> 0, long |-> 0, at |-> Never]
NoToken == [at |-> Never, act |-> 0]
NoState == [tfa |-> FALSE, admin |-> FALSE, at |-> Never]

Init ==
    /\ revoked = [t \in Tokens |-> Never] /\ activity = [t \in Tokens |-> 0]
    /\ twofa = [u \in Users |-> Never] /\ demoted = [u \in Users |-> Never]
    /\ attempts = <<>>
    /\ counts = [s \in Subnets |-> NoCount]
    /\ tokens = [t \in Tokens |-> NoToken]
    /\ states = [u \in Users |-> NoState]
    /\ tasks = {}
    /\ plan \in Plans /\ rq = [r \in Reqs |-> Fresh] /\ clock = 0

Kind(r)   == rq[r].kind
At(r, s)  == rq[r].pc = s
InDb(pc)  == pc \in {"long", "store", "password", "state", "admin", "record"}
Put(r, f) == rq' = [rq EXCEPT ![r] = [f EXCEPT !.since = IF InDb(f.pc) THEN clock ELSE 0]]
Goto(r, s) == Put(r, [rq[r] EXCEPT !.pc = s])
Answer(r, status) == Put(r, [Fresh EXCEPT !.pc = "done", !.kind = Kind(r), !.status = status])
-----------------------------------------------------------------------------
maintenance_check(k) ==
    IF Cfg.maintenance /\ k.path.mount \notin {"/status.php", "/heartbeat"} THEN 503 ELSE 0

(* What comes before authentication: assets, trusted domains, maintenance. *)
Early(k) ==
    IF static_asset(k.path, k.method, TRUE) THEN 200
    ELSE IF Cfg.installed /\ ~k.trustedHost THEN 400
    ELSE maintenance_check(k)

(* check_samesite_cookies: a session cookie without the two guard cookies. *)
check_samesite_cookies(k) == IF k.session # NoUser /\ ~k.guards THEN "StrictCheckFailed" ELSE "Valid"

(* Faulty variant: any session passes. *)
dav_session_guard_open(k) == TRUE

(* The guard of the session branch: the session was not used on DAV before *)
(* or by the same user.                                                    *)
dav_session_guard(k) == k.davUid \in {NoUser, k.session}

(* session_auth, from outside: the identity of the cookie, or nothing when *)
(* PHP-FPM does not confirm it.                                            *)
session_auth(k) == IF k.session = NoUser \/ ~Cfg.fpm THEN {NoUser} ELSE {k.session, NoUser}

(* is_admin_user: a failed query counts as "no". *)
is_admin_user(u) == {demoted[u] = Never} \cup {x \in {FALSE} : plan.faults}

Accept(r, u, admin) ==
    Put(r, [Fresh EXCEPT !.pc = "done", !.kind = Kind(r), !.status = 200, !.uid = u, !.admin = admin])

Anonymous(r) == Answer(r, 200)

(* Basic credentials beside a cookie: the session is tried first. *)
session_first(k) == k.auth \in {"basic", "garbled"} /\ k.session # NoUser

(* A request arrives.  A session goes before Basic credentials; Bearer     *)
(* before both.                                                            *)
Arrive(r, k) ==
    /\ At(r, "idle")
    /\ LET new  == [Fresh EXCEPT !.kind = k]
           Go(s, status) == rq' = [rq EXCEPT ![r] = [new EXCEPT !.pc = s, !.status = status]]
       IN  IF Early(k) # 0 THEN Go("done", Early(k))
           ELSE IF k.path.mount \in {"/status.php", "/heartbeat"} THEN Go("done", 200)
           ELSE IF /\ k.auth = "none" /\ ~k.ocsApi /\ samesite_gated(k.path)
                   /\ check_samesite_cookies(k) = "StrictCheckFailed" THEN Go("done", 412)
           ELSE IF k.auth = "none" \/ session_first(k) THEN Go("session", 0)
           ELSE Go("throttle", 0)
    /\ UNCHANGED <<db, activity, attempts, counts, tokens, states, tasks, clock>>

(* The cookie branch, and session_first of a Basic request. *)
SessionStep(r) ==
    /\ At(r, "session")
    /\ \E u \in session_auth(Kind(r)) :
          LET guarded == ~is_dav_path(Kind(r).path) \/ dav_session_guard(Kind(r)) IN
          \/ u # NoUser /\ guarded /\ \E a \in is_admin_user(u) : Accept(r, u, a)
          \/ u # NoUser /\ ~guarded /\ Kind(r).auth = "none" /\ Answer(r, 401)
          \/ u = NoUser /\ Kind(r).auth = "none" /\ Anonymous(r)
          \/ (u = NoUser \/ ~guarded) /\ Kind(r).auth # "none" /\ Goto(r, "throttle")
    /\ UNCHANGED <<db, activity, attempts, counts, tokens, states, tasks, clock>>
-----------------------------------------------------------------------------
(* check_throttle. *)
Since(subnet, t) == Cardinality({i \in DOMAIN attempts : attempts[i].subnet = subnet /\ attempts[i].at >= t})

delay_ms(n) == Min({BaseDelay * 2 ^ Min({n, MaxShift}), MaxDelay})

is_ip_allowlisted(subnet) == subnet \in Cfg.allowlist

(* Nothing known, or nothing to hold against the client: no delay. *)
Unthrottled(r, blind) ==
    Put(r, [rq[r] EXCEPT !.pc = "lookup", !.asked = clock, !.blind = blind])

Throttled(r, short, long) ==
    IF short > MaxAttempts THEN Answer(r, 429)
    ELSE IF long = 0 THEN Unthrottled(r, FALSE)
    ELSE Put(r, [rq[r] EXCEPT !.pc = "sleep", !.asked = clock, !.wake = clock + delay_ms(long)])

(* Faulty variant: the cached counts never expire. *)
FreshCountForever(c) == c.at # Never

FreshCount(c) == c.at # Never /\ clock - c.at < CountTtl

check_throttle(r) ==
    /\ At(r, "throttle")
    /\ LET s == Kind(r).subnet
           c == counts[s] IN
       IF ~Cfg.protection \/ is_ip_allowlisted(s) THEN Unthrottled(r, TRUE)
       ELSE IF FreshCount(c) THEN Throttled(r, c.short, c.long)
       ELSE \/ plan.faults /\ Unthrottled(r, TRUE)
            \/ LET n == Since(s, clock - ShortWindow) IN
               IF n > MaxAttempts THEN Answer(r, 429)
               ELSE Put(r, [rq[r] EXCEPT !.pc = "long", !.short = n])
    /\ UNCHANGED <<db, activity, attempts, counts, tokens, states, tasks, clock>>

(* The second COUNT; the cut-off was computed with the first one's. *)
CountLong(r) ==
    /\ At(r, "long")
    /\ LET s == Kind(r).subnet
           n == Since(s, rq[r].since - LongWindow) IN
       \/ plan.faults /\ Unthrottled(r, TRUE) /\ UNCHANGED counts
       \/ /\ counts' = [counts EXCEPT ![s] = [short |-> rq[r].short, long |-> n, at |-> clock]]
          /\ Throttled(r, rq[r].short, n)
    /\ UNCHANGED <<db, activity, attempts, tokens, states, tasks, clock>>

(* At MaxClock every sleep may be over. *)
WakeUp(r) ==
    /\ At(r, "sleep") /\ (clock >= rq[r].wake \/ clock = MaxClock)
    /\ Goto(r, "lookup")
    /\ UNCHANGED <<db, activity, attempts, counts, tokens, states, tasks, clock>>

(* A failed attempt is recorded, or not when the INSERT fails; the cached  *)
(* counts stay as they are.                                                *)
record_attempt(r) ==
    /\ At(r, "record")
    /\ \/ /\ Len(attempts) < MaxRows
          /\ attempts' = Append(attempts, [subnet |-> Kind(r).subnet, at |-> clock])
       \/ (plan.faults \/ Len(attempts) = MaxRows) /\ UNCHANGED attempts
    /\ Answer(r, 401)
    /\ UNCHANGED <<db, activity, counts, tokens, states, tasks, clock>>
-----------------------------------------------------------------------------
is_expired(t) == TokenRow[t].expires # Never /\ clock > TokenRow[t].expires
Live(t)       == t \in Tokens /\ revoked[t] = Never /\ ~is_expired(t)

FreshToken(t) == /\ tokens[t].at # Never /\ clock - tokens[t].at < TokenTtl
                 /\ ~is_expired(t)

(* spawn_last_activity_update: by the last_activity of the cached row. *)
Spawn(t, act) == tasks' = IF clock - act < ActivityInterval THEN tasks ELSE tasks \cup {t}

(* The token's owner is the user; `seen` is when it was found good. *)
Identified(r, t, seen) ==
    Put(r, [rq[r] EXCEPT !.pc = "state", !.tok = t, !.uid = TokenRow[t].uid,
                         !.type = TokenRow[t].type, !.seen = seen])

(* The credentials are wrong, or could not be looked up. *)
Refuse(r) == Goto(r, "record")

(* lookup_bearer: the cache, or a row that is not expired. *)
lookup_bearer(r) ==
    /\ At(r, "lookup") /\ Kind(r).auth = "bearer"
    /\ LET t == Kind(r).secret IN
       IF t \in Tokens /\ FreshToken(t)
       THEN Identified(r, t, clock) /\ Spawn(t, tokens[t].act)
       ELSE /\ \/ /\ Live(t)
                  /\ Put(r, [rq[r] EXCEPT !.pc = "store", !.act = activity[t], !.seen = clock])
               \/ (plan.faults \/ ~Live(t)) /\ Refuse(r)
            /\ UNCHANGED tasks
    /\ UNCHANGED <<db, activity, attempts, counts, tokens, states, clock>>

StoreToken(r) ==
    /\ At(r, "store")
    /\ LET t == Kind(r).secret IN
       /\ tokens' = [tokens EXCEPT ![t] = [at |-> clock, act |-> rq[r].act]]
       /\ Identified(r, t, rq[r].seen) /\ Spawn(t, rq[r].act)
    /\ UNCHANGED <<db, activity, attempts, counts, states, clock>>

(* verify_basic: the password as an app token of that login, then as the   *)
(* password of the user.  A header that does not decode costs no attempt.  *)
try_app_token(r) ==
    /\ At(r, "lookup") /\ Kind(r).auth \in {"basic", "garbled"}
    /\ LET t == Kind(r).secret IN
       IF Kind(r).auth = "garbled" THEN Answer(r, 401)
       ELSE LET ok == Live(t) /\ TokenRow[t].login = Kind(r).login IN
            \/ ok /\ Identified(r, t, clock)
            \/ (plan.faults \/ ~ok) /\ Goto(r, "password")
    /\ UNCHANGED <<db, activity, attempts, counts, tokens, states, tasks, clock>>

PlainPassword(r) ==
    /\ At(r, "password")
    /\ LET u  == Kind(r).login
           ok == u \in Users /\ Password[u] = Kind(r).secret IN
       \/ ok /\ Put(r, [rq[r] EXCEPT !.pc = "state", !.uid = u, !.type = 0, !.seen = clock])
       \/ (plan.faults \/ ~ok) /\ Refuse(r)
    /\ UNCHANGED <<db, activity, attempts, counts, tokens, states, tasks, clock>>
-----------------------------------------------------------------------------
(* Faulty variant: the second factor is not asked for. *)
GateOpen(r, tfa, admin) ==
    Put(r, [rq[r] EXCEPT !.pc = "done", !.status = 200, !.admin = admin, !.state = clock])

(* The second-factor gate: app tokens are exempt. *)
Gate(r, tfa, admin) ==
    IF rq[r].type # 1 /\ tfa
    THEN Answer(r, 401)
    ELSE Put(r, [Fresh EXCEPT !.pc = "done", !.kind = Kind(r), !.status = 200, !.uid = rq[r].uid,
                   !.tok = rq[r].tok, !.type = rq[r].type, !.seen = rq[r].seen,
                   !.admin = admin, !.state = clock])

FreshState(u) == states[u].at # Never /\ clock - states[u].at < UserTtl

requires_2fa(u) == twofa[u] # Never

(* cached_user_state: a failed second-factor query is a 500. *)
cached_user_state(r) ==
    /\ At(r, "state")
    /\ LET u == rq[r].uid IN
       IF FreshState(u) THEN Gate(r, states[u].tfa, states[u].admin)
       ELSE \/ plan.faults /\ Answer(r, 500)
            \/ Put(r, [rq[r] EXCEPT !.pc = "admin", !.tfa = requires_2fa(u)])
    /\ UNCHANGED <<db, activity, attempts, counts, tokens, states, tasks, clock>>

(* The other queries, whose failures are stored as defaults. *)
StoreState(r) ==
    /\ At(r, "admin")
    /\ \E a \in is_admin_user(rq[r].uid) :
          /\ states' = [states EXCEPT ![rq[r].uid] = [tfa |-> rq[r].tfa, admin |-> a, at |-> clock]]
          /\ Gate(r, rq[r].tfa, a)
    /\ UNCHANGED <<db, activity, attempts, counts, tokens, tasks, clock>>

(* The handler has run and the connection takes the next request. *)
NextRequest(r) ==
    /\ At(r, "done")
    /\ rq' = [rq EXCEPT ![r] = Fresh]
    /\ UNCHANGED <<db, activity, attempts, counts, tokens, states, tasks, clock>>

update_last_activity(t) ==
    /\ t \in tasks /\ tasks' = tasks \ {t}
    /\ activity' = [activity EXCEPT ![t] = clock]
    /\ UNCHANGED <<db, attempts, counts, tokens, states, rq, clock>>

(* PHP: a token is revoked, a second factor is set up, an admin demoted. *)
PhpChange ==
    /\ \E c \in plan.changes :
          \/ /\ c.what = "revoke" /\ revoked[c.of] = Never
             /\ revoked' = [revoked EXCEPT ![c.of] = clock] /\ UNCHANGED <<twofa, demoted>>
          \/ /\ c.what = "twofa" /\ twofa[c.of] = Never
             /\ twofa' = [twofa EXCEPT ![c.of] = clock] /\ UNCHANGED <<revoked, demoted>>
          \/ /\ c.what = "demote" /\ demoted[c.of] = Never
             /\ demoted' = [demoted EXCEPT ![c.of] = clock] /\ UNCHANGED <<revoked, twofa>>
    /\ UNCHANGED <<plan, activity, attempts, counts, tokens, states, tasks, rq, clock>>

Tick ==
    /\ clock < MaxClock
    /\ \A r \in Reqs : InDb(rq[r].pc) => clock - rq[r].since < MaxLag
    /\ clock' = clock + 1
    /\ UNCHANGED <<db, activity, attempts, counts, tokens, states, tasks, rq>>

Step(r) ==
    \/ SessionStep(r) \/ check_throttle(r) \/ CountLong(r) \/ WakeUp(r) \/ record_attempt(r)
    \/ lookup_bearer(r) \/ StoreToken(r) \/ try_app_token(r) \/ PlainPassword(r)
    \/ cached_user_state(r) \/ StoreState(r)

Next ==
    \/ \E r \in Reqs, k \in plan.kinds : Arrive(r, k)
    \/ \E r \in Reqs : Step(r) \/ NextRequest(r)
    \/ \E t \in Tokens : update_last_activity(t)
    \/ PhpChange \/ Tick

Spec == Init /\ [][Next]_vars
-----------------------------------------------------------------------------
Done(r, status) == At(r, "done") /\ rq[r].status = status

(***************************************************************************)
(* A bearer token that was revoked is accepted for less than the TTL of    *)
(* the token cache and the time of one statement: a lookup that read the   *)
(* row before the revocation stores it after (lookup_bearer).              *)
(***************************************************************************)
RevokedWithinTtl ==
    \A r \in Reqs : Done(r, 200) /\ rq[r].tok # NoTok /\ revoked[rq[r].tok] # Never =>
        rq[r].seen - revoked[rq[r].tok] < TokenTtl + MaxLag

(* No request is accepted with a token past its expiry, also when the      *)
(* token cache still holds it (CachedToken::is_expired).                   *)
ExpiredRefused ==
    \A r \in Reqs : Done(r, 200) /\ rq[r].tok # NoTok =>
        TokenRow[rq[r].tok].expires = Never \/ rq[r].seen <= TokenRow[rq[r].tok].expires

(***************************************************************************)
(* A user who sets up a second factor is not let in by password or session *)
(* token for longer than the TTL of the user-state cache and the time of   *)
(* one statement after it, and an admin who was demoted is no admin by     *)
(* then (cached_user_state and the two gates of auth_check).               *)
(***************************************************************************)
UserChangesWithinTtl ==
    \A r \in Reqs : Done(r, 200) /\ rq[r].state # Never =>
        LET u == rq[r].uid
            late == UserTtl + MaxLag
        IN  /\ twofa[u] # Never /\ rq[r].type # 1 => rq[r].state - twofa[u] < late
            /\ demoted[u] # Never /\ rq[r].admin => rq[r].state - demoted[u] < late

(* What was taken away is not granted for longer than the caches and one   *)
(* statement explain: revoked and expired tokens, logins without a second  *)
(* factor, admin rights (lookup_bearer, cached_user_state).                *)
GrantsLapse == RevokedWithinTtl /\ ExpiredRefused /\ UserChangesWithinTtl

(***************************************************************************)
(* The throttle misses only what is younger than its count cache: a        *)
(* request whose counts could be read and that goes on undelayed had no    *)
(* older failed attempt of its subnet in the long window, and one that is  *)
(* not rejected had no more than MaxAttempts older ones in the short       *)
(* window (check_throttle; record_attempt does not touch the cache).       *)
(***************************************************************************)
ThrottleMissesOnlyRecent ==
    \A r \in Reqs : rq[r].asked # Never /\ ~rq[r].blind =>
        LET Old(w) == {i \in DOMAIN attempts :
                          /\ attempts[i].subnet = Kind(r).subnet
                          /\ attempts[i].at >= rq[r].asked - w
                          /\ attempts[i].at <= rq[r].asked - CountTtl - MaxLag}
        IN  /\ rq[r].wake = 0 => Old(LongWindow) = {}
            /\ Cardinality(Old(ShortWindow)) <= MaxAttempts

(* Request k proves to be of user u: it has u's token, password or session. *)
Proven(k, u) ==
    \/ k.auth \in {"bearer", "basic"} /\ k.secret \in Tokens /\ TokenRow[k.secret].uid = u
    \/ k.auth = "basic" /\ k.login = u /\ k.secret = Password[u]
    \/ /\ k.auth # "bearer" /\ k.session = u
       /\ is_dav_path(k.path) => k.davUid \in {NoUser, u}

(***************************************************************************)
(* A request runs as the user of a credential it brought: the owner of its *)
(* token, the user of its password, or the user of its session, which on a *)
(* DAV path was not another user's before (auth_check, dav_session_guard). *)
(***************************************************************************)
IdentityProven ==
    \A r \in Reqs : Done(r, 200) /\ rq[r].uid # NoUser => Proven(Kind(r), rq[r].uid)

=============================================================================
