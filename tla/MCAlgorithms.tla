---------------------------- MODULE MCAlgorithms ----------------------------
(***************************************************************************)
(* Bounded inputs of the pure functions, for TLC.                          *)
(***************************************************************************)
EXTENDS Algorithms

(* Peers, proxies and forwarded headers. *)
Addrs    == {[fam |-> "v4", n |-> i] : i \in 0..3} \cup {[fam |-> "v6", n |-> i] : i \in {0, 5}}
Entries  == {[fam |-> a.fam, n |-> a.n, bits |-> b] :
                a \in {x \in Addrs : x.n \in {0, 2, 5}}, b \in {NoBits, 0, 1, 3}}
Elem(form, ip, spelled) == [form |-> form, ip |-> ip, spelled |-> spelled]
Elements == {Elem("bare", a, NoAddr) : a \in Addrs} \cup
            {Elem(f, [fam |-> m, n |-> 0], NoAddr) : f \in {"port", "bracket", "word"}, m \in {"v4", "v6"}} \cup
            {Elem("port", [fam |-> "v6", n |-> 0], [fam |-> "v6", n |-> 5])}
UpTo(S, k) == UNION {[1..n -> S] : n \in 0..k}

(* A header in no line, in one, or with a second one that somebody added.  *)
ALine(r, es) == [readable |-> r, elems |-> es]
Added     == ALine(TRUE, <<Elem("bare", [fam |-> "v4", n |-> 1], NoAddr)>>)
Header(S) == {<<>>} \cup {<<ALine(r, es)>> : r \in BOOLEAN, es \in S} \cup
             {<<ALine(r, es), Added>> : r \in BOOLEAN, es \in S}

IdentityInputs ==
    {[fn |-> "identity", peer |-> p, headers |-> [a |-> ha, b |-> hb],
      cfg |-> [trusted_proxies |-> {e, [fam |-> "v4", n |-> 3, bits |-> NoBits]},
               forwarded_for_headers |-> <<"a", "none", "b">>]] :
        e \in Entries, p \in {a \in Addrs : a.n \in {0, 3}},
        ha \in Header({<<Elem("bare", [fam |-> "v4", n |-> 2], NoAddr)>>}),
        hb \in Header(UpTo(Elements, 1)) \cup {<<ALine(TRUE, es)>> : es \in [1..2 -> Elements]}}

(* Hosts and schemes as configured, as sent, and as a proxy adds them. *)
Peers == {[fam |-> "v4", n |-> 3], [fam |-> "v4", n |-> 0]}
HostInputs ==
    {[fn |-> "host", peer |-> p, xfp |-> x, css |-> c, req |-> [host |-> h, xfh |-> f],
      cfg |-> [trusted_proxies |-> t, overwritecondaddr |-> a, overwriteprotocol |-> o,
               overwritehost |-> w, trusted_domains |-> {"cloud"}, installed |-> i]] :
        p \in Peers, x \in {NoProto, "http", "https"}, c \in BOOLEAN,
        h \in {NoHost, "cloud", "other"}, f \in {NoHost, "cloud", "other"},
        t \in {{}, {[fam |-> "v4", n |-> 3, bits |-> NoBits]}},
        a \in SUBSET Peers, o \in {NoProto, "http", "https"}, w \in {NoHost, "cloud"}, i \in BOOLEAN}

(* Every mount and DAV child, with a method of each kind. *)
RouteInputs ==
    {[fn |-> "route", method |-> m, path |-> [mount |-> t, child |-> c]] :
        m \in {"GET", "PUT", "POST", "SEARCH", "REPORT"}, t \in Mounts, c \in DavChildren}

(* DAV requests below and beside the user's files, written in every way. *)
Segments == {[name |-> n, enc |-> e] : n \in {"a", ".part"}, e \in BOOLEAN}
DavInputs ==
    {[fn |-> "dav", method |-> m, own |-> o, segs |-> s, dest |-> d, node |-> w, fits |-> q,
      opts |-> x, fault |-> f] :
        m \in {"GET", "PUT", "MKCOL", "MOVE", "COPY", "DELETE", "REPORT", "PROPFIND"},
        o \in BOOLEAN, s \in {<<>>} \cup {<<a>> : a \in Segments} \cup {<<[name |-> "a", enc |-> TRUE], a>> : a \in Segments},
        d \in {NoDest, <<[name |-> "a", enc |-> TRUE]>>, <<[name |-> ".part", enc |-> TRUE]>>},
        w \in {"none", "file", "dir"}, q \in BOOLEAN,
        x \in {{}, {"archive"}, {"trash"}, {"trash", "skip"}},
        f \in {"", "mtime", "auth", "storage", "chunked", "body", "report"}}

(* Nodes that differ from an empty one or a full one in one family. *)
Share(type, with, owner, note, stime) ==
    [type |-> type, with |-> with, owner |-> owner, initiator |-> owner, note |-> note, stime |-> stime]
ShareRows == {Share("user", "bob", User, "", 1), Share("user", "bob", User, "n2", 2),
              Share("user", User, "bob", "n3", 3), Share("group", "g", User, "n4", 4),
              Share("link", "", "bob", "n5", 5), Share("guest", "x", User, "", 6)}
CommentRows == {[actor_type |-> "users", actor |-> User, at |-> 2],
                [actor_type |-> "users", actor |-> "bob", at |-> 1],
                [actor_type |-> "users", actor |-> "bob", at |-> 2],
                [actor_type |-> "guests", actor |-> "x", at |-> 2]}
Empty == [dir |-> FALSE, dirs |-> 0, files |-> 0, shares |-> <<>>, comments |-> <<>>, marker |-> 0,
          names |-> [bob |-> [users |-> "", accounts |-> "Bob"]],
          stags |-> {}, tags |-> {}, meta |-> NoMeta, props |-> {}]
Full  == [dir |-> TRUE, dirs |-> 1, files |-> 2, shares |-> <<Share("user", "bob", User, "n2", 2)>>,
          comments |-> <<[actor_type |-> "users", actor |-> "bob", at |-> 2]>>, marker |-> 1,
          names |-> [bob |-> [users |-> "Bobby", accounts |-> "Bob"]],
          stags |-> {[name |-> "s", visible |-> TRUE], [name |-> "h", visible |-> FALSE]},
          tags |-> {"favorite", "t"}, meta |-> "m", props |-> {"v"}]
NodesFrom(w) ==
    {w}
    \cup {[w EXCEPT !.dir = d[1], !.dirs = d[2], !.files = d[3]] :
            d \in {<<FALSE, 0, 0>>, <<TRUE, 0, 0>>, <<TRUE, 2, 0>>, <<TRUE, 0, 1>>}}
    \cup {[w EXCEPT !.shares = s] : s \in UpTo(ShareRows, 2)}
    \cup {[w EXCEPT !.comments = c, !.marker = t] : c \in UpTo(CommentRows, 2), t \in 0..2}
    \cup {[w EXCEPT !.stags = {}], [w EXCEPT !.tags = {"t"}], [w EXCEPT !.tags = {"favorite"}],
          [w EXCEPT !.meta = NoMeta], [w EXCEPT !.props = {"v", "x"}]}

ListingInputs ==
    {[fn |-> "listing", node |-> w, req |-> r, backend |-> b] :
        w \in NodesFrom(Empty) \cup NodesFrom(Full), b \in {"pg", "sqlite"},
        r \in {AllProp} \cup {{p, q} : p \in PropNames, q \in PropNames}}

PermissionInputs ==
    {[fn |-> "permissions", perms |-> p, disabled |-> d, dir |-> f \/ r, root |-> r] :
        p \in SUBSET Bits, d \in BOOLEAN, f \in BOOLEAN, r \in BOOLEAN}

MCInputs == {IdentityInputs, HostInputs, RouteInputs, ListingInputs, PermissionInputs, DavInputs}
=============================================================================
