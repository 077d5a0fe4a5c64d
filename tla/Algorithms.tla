----------------------------- MODULE Algorithms -----------------------------
(***************************************************************************)
(* The pure functions of the server, each checked against what it is meant *)
(* to compute.  A behaviour is one input; nothing happens to it.           *)
(***************************************************************************)
EXTENDS ClientIdentity, Routing, Listings, DavDispatch

CONSTANTS Inputs     \* a set of sets of bounded inputs, records with a field `fn`

(* An input has the fields its function reads, of the kinds it can parse   *)
(* out of a request: the elements of a header, the segments of a path.     *)
Address  == [fam : STRING, n : Nat]
Element  == [form : STRING, ip : Address, spelled : Address]
HeaderLine == [readable : BOOLEAN, elems : Seq(Element)]
UrlSegment == [name : STRING, enc : BOOLEAN]
UrlPath  == Seq(UrlSegment)
DavRequest == [fn : {"dav"}, method : STRING, own : BOOLEAN, segs : UrlPath, dest : UrlPath,
               node : STRING, fits : BOOLEAN, opts : SUBSET STRING, fault : STRING]

(* A node of the file tree.  Of the notes of one second none is the newest.*)
ShareRow == [type : STRING, with : STRING, owner : STRING, initiator : STRING,
             note : STRING, stime : Int]
Node(w) ==
    /\ w.dir \in BOOLEAN /\ w.dirs \in Nat /\ w.files \in Nat
    /\ w.shares \in Seq(ShareRow)
    /\ \A i, j \in DOMAIN w.shares :
          /\ w.shares[i].note # "" /\ w.shares[j].note # ""
          /\ w.shares[i].stime = w.shares[j].stime
          => w.shares[i].note = w.shares[j].note

ASSUME InputsAssumption ==
    \A inputs \in Inputs : \A x \in inputs :
        /\ x.fn = "identity" =>
              /\ x.cfg.forwarded_for_headers \in Seq(STRING)
              /\ \A h \in DOMAIN x.headers : x.headers[h] \in Seq(HeaderLine)
        /\ x.fn = "host" => x.req \in [host : STRING, xfh : STRING]
        /\ x.fn = "dav" => x \in DavRequest
        /\ x.fn = "listing" => Node(x.node) /\ x.backend \in {"pg", "sqlite"}

VARIABLE in

Init == \E inputs \in Inputs : in \in inputs
Next == UNCHANGED in
Spec == Init /\ [][Next]_in
-----------------------------------------------------------------------------
(* All that was sent in the configured headers, whatever line it is in.    *)
EveryElement(cfg, headers) ==
    LET Lines(name) == IF name \in DOMAIN headers THEN headers[name] ELSE <<>>
        Joined(name) == FlattenSeq([l \in DOMAIN Lines(name) |-> Lines(name)[l].elems])
    IN  FlattenSeq([i \in DOMAIN cfg.forwarded_for_headers |-> Joined(cfg.forwarded_for_headers[i])])

OneReadableLine(headers, name) ==
    name \in DOMAIN headers =>
        Len(headers[name]) <= 1 /\ \A l \in DOMAIN headers[name] : headers[name][l].readable

(***************************************************************************)
(* The client is the peer, or behind trusted proxies the last address that *)
(* is read and is not itself a trusted proxy (remote_address), for every   *)
(* mixture of proxies, prefixes, malformed entries, lines and elements.    *)
(* What is read is the first line of each configured header.  So the       *)
(* client is the "rightmost-untrusted" address (ClientIdentity in nc-auth  *)
(* lib.rs) of all that was sent if every configured header comes in one    *)
(* line of visible ASCII, as from a proxy that extends the line it got; of *)
(* a proxy that adds a line of its own the address is not seen.            *)
(***************************************************************************)
ClientIsLastUntrusted ==
    in.fn = "identity" =>
        LET chain == Chain(in.cfg, in.headers)
            res   == remote_address(in.cfg, in.peer, in.headers)
            Ok(i) == ~Skipped(in.cfg, chain[i])
        IN  /\ IF is_trusted_proxy(in.cfg, in.peer) /\ \E i \in DOMAIN chain : Ok(i)
               THEN \E i \in DOMAIN chain : /\ Ok(i) /\ res = Candidate(chain[i])
                                            /\ \A j \in i + 1..Len(chain) : ~Ok(j)
               ELSE res = in.peer
            /\ (\A name \in Range(in.cfg.forwarded_for_headers) : OneReadableLine(in.headers, name))
               => chain = EveryElement(in.cfg, in.headers)

(***************************************************************************)
(* Headers that only a proxy may set decide nothing for a peer that is not *)
(* one, whatever is overwritten in the configuration: neither the scheme   *)
(* (the SameSite check and the cookies go by it) nor whether the host is   *)
(* let in.  Behind a proxy it is the Host header that decides nothing      *)
(* (server_protocol, insecure_server_host, trusted_domains_response).      *)
(***************************************************************************)
ForwardedOnlyFromProxies ==
    in.fn = "host" =>
        LET Scheme(xfp) == server_protocol(in.cfg, in.peer, xfp)
            Let(req)    == trusted_domains_response(in.cfg, in.peer, req, in.css)
        IN  IF is_trusted_proxy(in.cfg, in.peer)
            THEN Let(in.req) = Let([in.req EXCEPT !.host = NoHost])
            ELSE /\ Scheme(in.xfp) = Scheme(NoProto)
                 /\ Let(in.req) = Let([in.req EXCEPT !.xfh = NoHost])

(* Who the client is, by which scheme it came and which host it asked for  *)
(* are believed of trusted proxies only (client_identity.rs).              *)
OnlyProxiesBelieved == ClientIsLastUntrusted /\ ForwardedOnlyFromProxies

(* Served by Rust, yet dav_served_by_rust ("`true` when Rust serves the    *)
(* path itself") is false of them: there an expired session is not renewed *)
(* by remember-me cookies.  A preview may still go on to PHP, which renews *)
(* it; /status.php and /heartbeat resolve no session.                      *)
ReadOnlyNative == {"/remote.php/webdav", "ocs_native", "/core/preview", "/core/preview.png",
                   "thumbnail", "photos_preview", "/status.php", "/heartbeat"}

(***************************************************************************)
(* The lists the router keeps beside its route table agree with it, for    *)
(* every path and not only under the DAV mounts.  What Rust serves itself  *)
(* to a browser session is gated by the SameSite cookies ("Must be kept in *)
(* sync with the native route registrations in `build`") and what PHP      *)
(* serves for index.php is not (the login callbacks), but for a route of   *)
(* an app that begins with "/dav".  PHP's login chain is not run for a     *)
(* session whose request goes on to PHP, where it would run once more and  *)
(* lose the session's state, but for a route of an app that reads like a   *)
(* child of DAV.  And it is run for all that Rust serves but for           *)
(* ReadOnlyNative.                                                         *)
(***************************************************************************)
RoutingTablesAgree ==
    in.fn = "route" =>
        LET by     == build(in.path, in.method, TRUE)
            mount  == in.path.mount
            login  == dav_served_by_rust(in.path, in.method)
            native == by \notin {"php", "404"}
        IN  /\ native => samesite_gated(in.path)
                         \/ mount \in {"/status.php", "/heartbeat", "photos_preview"}
            /\ mount \in PhpMounts \ {"/remote.php/direct"} =>
                   ~samesite_gated(in.path) \/ (mount = "registry" /\ in.path.child = "davx")
            /\ login => by \notin {"php", "preview"} \/ mount = "registry"
            /\ native /\ ~login => mount \in ReadOnlyNative

(***************************************************************************)
(* How a client writes a URL does not matter: a DAV request is answered by *)
(* the same part of the server, or refused for the same reason, with and   *)
(* without percent-encoding, in its path and in its Destination, so that a *)
(* name is validated, charged and trashed as the one it is stored under.   *)
(* But for GET, which looks the path up as it was sent (dav_handler).      *)
(***************************************************************************)
EncodingIrrelevant ==
    in.fn = "dav" /\ in.method # "GET" =>
        dav_handler(in) = dav_handler([in EXCEPT !.segs = percent_decode_path(in.segs),
                                                 !.dest = percent_decode_path(in.dest)])

(***************************************************************************)
(* A folder's listing says of a child what the child says of itself        *)
(* ("identical bytes, less work", read_dir_batched), whatever was asked    *)
(* for and on both databases, but for the gaps named here: SQLite has no   *)
(* batch for the metadata, and nc:sharees alone does not open the gate of  *)
(* the shares, which looks for oc:sharees.  Sharees are compared as a set: *)
(* the batch repeats one that has two shares.                              *)
(***************************************************************************)
Gap(p) == \/ p = "nc:metadata-x" /\ in.backend = "sqlite"
          \/ p = "nc:sharees" /\ ~Gates(in.req).shares

ListingAgrees ==
    in.fn = "listing" =>
        LET alone == Answer(build_props(collect_single(in.node, in.req)), in.req)
            child == Answer(build_props(collect_batched(in.node, in.req, in.backend)), in.req)
        IN  \A p \in DOMAIN alone :
                \/ Gap(p)
                \/ IF p = "nc:sharees" THEN Range(alone[p]) = Range(child[p])
                   ELSE alone[p] = child[p]

(***************************************************************************)
(* The three forms in which PROPFIND shows permissions do not contradict   *)
(* each other: where sharing is disabled for the user none offers it,      *)
(* elsewhere all offer it or none, and but for the root, which gains       *)
(* rights for shares, the federated "write" is there exactly when the      *)
(* letters allow a write (props.rs, row/sharing.rs).                       *)
(***************************************************************************)
PermissionsAgree ==
    in.fn = "permissions" =>
        LET p == PermissionProps(in.perms, in.disabled, in.dir, in.root)
        IN  /\ \A offered \in {"R" \in p.oc, "share" \in p.ocs, "share" \in p.ocm} :
                   offered <=> ("share" \in in.perms /\ ~in.disabled)
            /\ p.oc \cap {"V", "W", "C"} # {} => "write" \in p.ocm
            /\ "write" \in p.ocm /\ ~in.root => p.oc \cap {"V", "W", "C"} # {}

(* What PROPFIND says of a file does not depend on which of its ways to    *)
(* compute an answer was taken (propfind.rs, props.rs).                    *)
PropfindAgrees == ListingAgrees /\ PermissionsAgree
=============================================================================
