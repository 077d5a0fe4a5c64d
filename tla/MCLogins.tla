------------------------------ MODULE MCLogins ------------------------------
(***************************************************************************)
(* Small instances of Logins for TLC.                                      *)
(***************************************************************************)
EXTENDS Logins, TLC

Dav   == [mount |-> "/remote.php/dav", child |-> "files"]
Other(m) == [mount |-> m, child |-> ""]
Base  == [path |-> Dav, method |-> "GET", auth |-> "none", login |-> NoUser, secret |-> "none",
          session |-> NoUser, davUid |-> NoUser, guards |-> TRUE, ocsApi |-> FALSE,
          trustedHost |-> TRUE, subnet |-> "net"]
Bearer(t)     == [Base EXCEPT !.auth = "bearer", !.secret = t]
Basic(u, pwd) == [Base EXCEPT !.auth = "basic", !.login = u, !.secret = pwd]

(* A session token that expires, an app token, and a user with a password. *)
MCTokens   == {"session", "app"}
MCTokenRow == [session |-> [uid |-> "alice", login |-> "alice", type |-> 0, expires |-> 1],
               app     |-> [uid |-> "alice", login |-> "alice", type |-> 1, expires |-> Never]]
MCUsers    == {"alice", "bob"}
MCPassword == [alice |-> "pw", bob |-> "bobs"]
MCCfg      == [installed |-> TRUE, maintenance |-> FALSE, protection |-> TRUE,
               allowlist |-> {"office"}, fpm |-> TRUE]

MCPlans == {
    [kinds |-> {Bearer("session")}, faults |-> FALSE, changes |-> {}],
    [kinds |-> {Basic("alice", "pw"), Basic("alice", "app")}, faults |-> FALSE,
     changes |-> {[what |-> "twofa", of |-> "alice"]}],
    [kinds |-> {Bearer("app")}, faults |-> FALSE, changes |-> {[what |-> "demote", of |-> "alice"]}],
    [kinds |-> {Bearer("app")}, faults |-> FALSE, changes |-> {[what |-> "revoke", of |-> "app"]}],
    [kinds |-> {Bearer("junk")}, faults |-> FALSE, changes |-> {}],
    [kinds |-> {Basic("alice", "pw")}, faults |-> TRUE, changes |-> {}],
    [kinds |-> {[Bearer("junk") EXCEPT !.subnet = "office"], [Base EXCEPT !.auth = "garbled"]},
     faults |-> FALSE, changes |-> {}],
    [kinds |-> {Base, [Base EXCEPT !.session = "alice"],
                [Base EXCEPT !.session = "alice", !.guards = FALSE],
                [Base EXCEPT !.session = "alice", !.davUid = "bob"],
                [Basic("alice", "wrong") EXCEPT !.session = "bob"],
                [Base EXCEPT !.path = Other("asset")],
                [Base EXCEPT !.path = Other("/status.php")],
                [Base EXCEPT !.trustedHost = FALSE]}, faults |-> FALSE, changes |-> {}]}

Symmetry == Permutations(Reqs)
=============================================================================
