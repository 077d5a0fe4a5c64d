---------------------------- MODULE Capabilities ----------------------------
(***************************************************************************)
(* The clients of PHP-FPM: proxied requests, and the capability cache      *)
(* (nc-ocs capabilities.rs, handlers.rs) that main.rs fills at startup and *)
(* refreshes in a background task.  The two share only the exchange code   *)
(* of FastCgi, each on a connection of its own: a behaviour runs one of    *)
(* them.                                                                   *)
(*                                                                         *)
(* oc_appconfig and the capabilities of the PHP apps are version numbers.  *)
(* A payload is [native, keys, ver]: the version of the appconfig part,    *)
(* the PHP capabilities merged into it and their version.                  *)
(***************************************************************************)
EXTENDS FastCgi

CONSTANTS
    MaxWrites,    \* bound on the changes made on the PHP side
    MaxFaults     \* bound on the failing DB statements

ASSUME CapabilitiesAssumption == MaxWrites \in Nat /\ MaxFaults \in Nat

(* PHP answers the fetch of an admin with all capabilities and the         *)
(* anonymous one with the public ones, in one JSON document at the end of  *)
(* its output.                                                             *)
ASSUME PhpAnswersAssumption ==
    /\ \A r \in Replies["caps"] \cup Replies["public"] : \A i \in 1..(Len(r) - 1) : r[i] # "close"
    /\ \A r \in Replies["caps"] : Payload(r) \in {<<>>, <<"public", "private">>}
    /\ \A r \in Replies["public"] : Payload(r) \in {<<>>, <<"public">>}

VARIABLES
    who,         \* "client" or "refresh"
    pc,          \* where the startup code or the refresh task stands
    booted,      \* the server listens
    config,      \* version of oc_appconfig in the database
    apps,        \* version of what the PHP apps answer
    asked,       \* that version when the running fetch was executed
    appconfig,   \* version in SharedAppConfigCache
    cache,       \* CapabilityCache
    faults

vars == <<ex, who, pc, booted, config, apps, asked, appconfig, cache, faults>>

NoCaps == [keys |-> <<>>, ver |-> 0]     \* Value::Null
Merge(native, caps) == [native |-> native, keys |-> caps.keys, ver |-> caps.ver]

rebuild_serialized(c) ==
    [c EXCEPT !.auth = Merge(c.native, c.app), !.pub = Merge(c.native, c.public)]

build_capability_cache(version) ==
    [native |-> version, app |-> NoCaps, public |-> NoCaps,
     auth |-> Merge(version, NoCaps), pub |-> Merge(version, NoCaps)]

apply_php_capabilities(c, caps)        == rebuild_serialized([c EXCEPT !.app = caps])
apply_php_public_capabilities(c, caps) == rebuild_serialized([c EXCEPT !.public = caps])

RebuildDropsPhp(c, version) == \* mutant: forgets the PHP parts
    [build_capability_cache(version) EXCEPT !.app = c.app, !.public = c.public]

(* Both PHP parts are read before the rebuild and merged again after it;   *)
(* nothing else writes the cache meanwhile.                                *)
rebuild_capability_cache(c, version) ==
    LET fresh == build_capability_cache(version)
        app   == IF c.app = NoCaps THEN fresh ELSE apply_php_capabilities(fresh, c.app)
    IN IF c.public = NoCaps THEN app ELSE apply_php_public_capabilities(app, c.public)

Init ==
    /\ ex = Idle /\ who \in {"client", "refresh"} /\ config = 0 /\ apps = 1 /\ asked = 0
    /\ pc = IF who = "client" THEN "serving" ELSE "admin"
    /\ booted = (who = "client")
    /\ appconfig = 0 /\ cache = build_capability_cache(0) /\ faults = 0

----------------------------------------------------------------------------
(* A proxied request. *)
Keep == <<who, pc, booted, config, apps, appconfig, cache, faults>>

Request ==
    /\ who = "client" /\ ex = Idle
    /\ proxy_handler /\ UNCHANGED <<asked, Keep>>

Leaves == who = "client" /\ ClientGone /\ UNCHANGED <<asked, Keep>>

PhpStep == Php /\ UNCHANGED <<asked, Keep>>

ServerStep == Server /\ UNCHANGED <<asked, Keep>>

PeerStep ==
    /\ Peers
    /\ asked' = IF ex.pc = "execute" THEN apps ELSE asked
    /\ UNCHANGED Keep

----------------------------------------------------------------------------
(* The refresh task. *)
Goto(next) == pc' = next /\ UNCHANGED <<who, config, apps>>
Fault      == faults < MaxFaults /\ faults' = faults + 1

(* sleep(INTERVAL) is over. *)
Wake ==
    /\ pc = "sleep"
    /\ Goto("reload") /\ UNCHANGED <<ex, asked, booted, appconfig, cache, faults>>

(* A failed reload skips the cycle. *)
ReloadAppconfig ==
    /\ pc = "reload"
    /\ \/ appconfig' = config /\ Goto("rebuild") /\ UNCHANGED faults
       \/ Fault /\ Goto("sleep") /\ UNCHANGED appconfig
    /\ UNCHANGED <<ex, asked, booted, cache>>

Rebuild ==
    /\ pc = "rebuild"
    /\ cache' = rebuild_capability_cache(cache, appconfig)
    /\ Goto("admin") /\ UNCHANGED <<ex, asked, booted, appconfig, faults>>

(* SELECT uid ... gid = 'admin' LIMIT 1: without an admin the startup code *)
(* fetches nothing, the refresh task only the public capabilities.         *)
QueryAdmin ==
    /\ pc = "admin"
    /\ \/ fetch_php_capabilities /\ Goto("caps") /\ UNCHANGED <<booted, faults>>
       \/ /\ Fault
          /\ IF booted THEN fetch_php_public_capabilities /\ Goto("public") /\ UNCHANGED booted
                       ELSE ex' = ex /\ Goto("sleep") /\ booted' = TRUE
    /\ UNCHANGED <<asked, appconfig, cache>>

Fetched == [keys |-> ex.caps, ver |-> asked]

(* A fetch without a payload keeps what the cache has. *)
CapsFetched ==
    /\ pc = "caps" /\ ex.pc = "done"
    /\ cache' = IF ex.caps = <<>> THEN cache ELSE apply_php_capabilities(cache, Fetched)
    /\ fetch_php_public_capabilities /\ Goto("public") /\ UNCHANGED <<asked, booted, appconfig, faults>>

PublicFetchedRetries == \* mutant: a failed fetch is repeated at once
    /\ pc = "public" /\ ex.pc = "done"
    /\ IF ex.caps = <<>> THEN fetch_php_public_capabilities /\ Goto("public") /\ UNCHANGED <<cache, asked, booted>>
       ELSE /\ cache' = apply_php_public_capabilities(cache, Fetched)
            /\ ex' = Idle /\ asked' = 0 /\ booted' = TRUE /\ Goto("sleep")
    /\ UNCHANGED <<appconfig, faults>>

PublicFetched ==
    /\ pc = "public" /\ ex.pc = "done"
    /\ cache' = IF ex.caps = <<>> THEN cache ELSE apply_php_public_capabilities(cache, Fetched)
    /\ ex' = Idle /\ asked' = 0 /\ booted' = TRUE
    /\ Goto("sleep") /\ UNCHANGED <<appconfig, faults>>

(* PHP changes oc_appconfig, or enables an app. *)
PhpWrites ==
    /\ who = "refresh" /\ config < MaxWrites
    /\ config' = config + 1 /\ apps' = apps + 1
    /\ UNCHANGED <<ex, who, pc, booted, asked, appconfig, cache, faults>>

(* GET cloud/capabilities reads one variant under the read lock. *)
ocs_capabilities(authenticated) == IF authenticated THEN cache.auth ELSE cache.pub

Refresh == Wake \/ ReloadAppconfig \/ Rebuild \/ QueryAdmin \/ CapsFetched \/ PublicFetched

Next == Request \/ Leaves \/ PhpStep \/ PeerStep \/ ServerStep \/ Refresh \/ PhpWrites

(* The server's own steps and timers are fair; PHP-FPM owes nothing: it    *)
(* may stop in the middle of any answer and leave the stream open.         *)
ServerFair == WF_vars(ServerStep) /\ WF_vars(Refresh)
Spec       == Init /\ [][Next]_vars /\ ServerFair

----------------------------------------------------------------------------
(* proxy_handler with CgiBodyStream: what a client has received is exactly *)
(* what PHP wrote after the first header separator, in order, however the  *)
(* records cut it; a stream that ended well was delivered whole, and an    *)
(* error answer carries nothing of PHP's output.                           *)
BodyExact ==
    /\ ex.status # 0 /\ ex.pc = "stream"
          => ex.out \o ex.prefix = AfterHeaders(SubSeq(ex.reply, 1, ex.sent))
    /\ ex.kind = "proxy" /\ ex.pc = "done" /\ ex.status \in {200, 404} /\ ~ex.cut
          => ex.out = AfterHeaders(ex.reply)
    /\ ex.status \in {413, 502, 504} => ex.out = <<>>

(* proxy_handler: connect, execute and the header block have one timer     *)
(* each, so the status line leaves within three timeouts, however slowly   *)
(* PHP feeds the header block.                                             *)
HeadInTime ==
    /\ ex.spent <= 3 * Timeout
    /\ ex.pc = "headers" => ex.spent + ex.left <= 3 * Timeout

(* CapabilityCache: each variant is served either without PHP capabilities *)
(* or with a complete answer to its own fetch; a broken or truncated       *)
(* answer is never merged, and a capability that is not public never gets  *)
(* into the payload for anonymous clients.                                 *)
PayloadsExact ==
    /\ ocs_capabilities(TRUE).keys \in {<<>>, <<"public", "private">>}
    /\ ocs_capabilities(FALSE).keys \in {<<>>, <<"public">>}
    /\ \A a \in BOOLEAN : ocs_capabilities(a).ver <= apps

(* rebuild_capability_cache and the fetches: what clients are served never *)
(* goes back, neither by a rebuild from appconfig nor by a failed fetch,   *)
(* and both variants show the same appconfig.                              *)
GoesOn ==
    /\ \A a \in BOOLEAN : /\ ocs_capabilities(a)'.native >= ocs_capabilities(a).native
                          /\ ocs_capabilities(a)'.ver >= ocs_capabilities(a).ver
    /\ ocs_capabilities(TRUE)'.native = ocs_capabilities(FALSE)'.native
PayloadsNeverRegress == [][GoesOn]_vars

(* Both together are what a client of the capabilities can rely on, while  *)
(* the refresh task rebuilds them from three sources (CapabilityCache).    *)
PayloadsServed == []PayloadsExact /\ PayloadsNeverRegress

(* proxy_handler: a proxied request gets a status, within three timeouts,  *)
(* or its client leaves.                                                   *)
EveryProxiedAnswered ==
    /\ []HeadInTime
    /\ (ex.pc = "connect" /\ ex.kind = "proxy") ~> (ex.status # 0 \/ ex.cut)

(* A fetch of the startup code or of the refresh task that collects an     *)
(* answer: no timer covers that loop (fetch_php_capabilities).             *)
Collecting == ex.kind # "proxy" /\ ex.pc = "collect"

(***************************************************************************)
(* spawn_capability_refresh_task: a change of oc_appconfig made through    *)
(* PHP reaches the served capabilities -- unless one answer of PHP never   *)
(* ends, which stops the task, or the startup before it, for good.  Short  *)
(* of that nothing PHP does holds the task up: not an answer that never    *)
(* starts, one without a payload, or one that breaks off.                  *)
(***************************************************************************)
ConfigReachesUnlessStalled ==
    \/ <>[]Collecting
    \/ \A v \in 1..MaxWrites : (config = v) ~> (ocs_capabilities(TRUE).native >= v)
=============================================================================
