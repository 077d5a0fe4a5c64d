--------------------------- MODULE ClientIdentity ---------------------------
(***************************************************************************)
(* nc-server client_identity.rs: who the client of a request is, resolved  *)
(* once per request from the TCP peer, the forwarded headers and the       *)
(* configuration, and the trusted-domain check that follows.               *)
(*                                                                         *)
(* An address is [fam, n] with n of Width(fam) bits; an entry of           *)
(* trusted_proxies is [fam, n, bits], bits = NoBits without a "/bits".     *)
(* A host name is an opaque value; the wildcards of trusted_domains are    *)
(* the set of host names they match.                                       *)
(***************************************************************************)
EXTENDS Integers, Sequences, SequencesExt

NoBits   == -1
NoAddr   == [fam |-> "none", n |-> 0]
NoHost   == "none"
NoProto  == "none"

(* The width of an address, scaled down from 32 and 128 bits. *)
Width(fam) == IF fam = "v4" THEN 2 ELSE 3

(* A malformed entry is one whose prefix is longer than the address. *)
Malformed(e)  == e.bits > Width(e.fam)
Prefix(n, fam, bits) == n \div 2 ^ (Width(fam) - bits)

cidr_matches(e, ip) ==
    LET bits == IF e.bits = NoBits THEN Width(e.fam) ELSE e.bits IN
    /\ e.fam = ip.fam
    /\ ~Malformed(e)
    /\ Prefix(e.n, e.fam, bits) = Prefix(ip.n, e.fam, bits)

is_trusted_proxy(cfg, ip) == \E e \in cfg.trusted_proxies : cidr_matches(e, ip)

(* An element of a forwarded header: `form` is how the address is written, *)
(* "bare", with a port, in brackets (with or without a port), or not as an *)
(* address at all.  A port is cut off an IPv4 address and brackets off an  *)
(* IPv6 address.  Nothing is cut off an IPv6 address with a port and no    *)
(* brackets: the text may spell another address, x.spelled.                *)
Candidate(x) ==
    IF x.form = "bare" \/ <<x.form, x.ip.fam>> \in {<<"port", "v4">>, <<"bracket", "v6">>}
    THEN x.ip
    ELSE IF <<x.form, x.ip.fam>> = <<"port", "v6">> THEN x.spelled
    ELSE NoAddr

(* A header is the sequence of its lines.  HeaderMap::get returns the      *)
(* first one; a value that is not visible ASCII (to_str) is as none.       *)
header_value(headers, name) ==
    IF name \in DOMAIN headers /\ headers[name] # <<>> /\ headers[name][1].readable
    THEN headers[name][1].elems ELSE <<>>

(* The elements that are read of the configured headers, in the order a    *)
(* chain of proxies wrote them; the code walks them backwards.             *)
Chain(cfg, headers) ==
    FlattenSeq([i \in DOMAIN cfg.forwarded_for_headers |->
                   header_value(headers, cfg.forwarded_for_headers[i])])

Skipped(cfg, x) == Candidate(x) = NoAddr \/ is_trusted_proxy(cfg, Candidate(x))

(* Faulty variant: the nearest address is taken, a trusted proxy or not. *)
remote_address_nearest(cfg, peer, headers) ==
    LET chain == Chain(cfg, headers)
        walk[k \in 0..Len(chain)] ==
            IF k = 0 THEN peer
            ELSE IF Candidate(chain[k]) = NoAddr THEN walk[k - 1]
            ELSE Candidate(chain[k])
    IN  IF is_trusted_proxy(cfg, peer) THEN walk[Len(chain)] ELSE peer

remote_address(cfg, peer, headers) ==
    LET chain == Chain(cfg, headers)
        walk[k \in 0..Len(chain)] ==
            IF k = 0 THEN peer
            ELSE IF Skipped(cfg, chain[k]) THEN walk[k - 1]
            ELSE Candidate(chain[k])
    IN  IF is_trusted_proxy(cfg, peer) THEN walk[Len(chain)] ELSE peer

is_overwrite_condition(cfg, peer) == cfg.overwritecondaddr = {} \/ peer \in cfg.overwritecondaddr

server_protocol(cfg, peer, xfp) ==
    LET proto == IF cfg.overwriteprotocol # NoProto
                 THEN IF is_overwrite_condition(cfg, peer) THEN cfg.overwriteprotocol ELSE "http"
                 ELSE IF is_trusted_proxy(cfg, peer) /\ xfp # NoProto THEN xfp ELSE "http"
    IN  proto = "https"

(* Behind a trusted proxy the Host header is not looked at.  req.host and  *)
(* req.xfh are what header_value finds.                                    *)
insecure_server_host(cfg, peer, req) ==
    IF is_trusted_proxy(cfg, peer)
    THEN IF cfg.overwritehost # NoHost /\ is_overwrite_condition(cfg, peer) THEN cfg.overwritehost
         ELSE IF req.xfh # NoHost THEN req.xfh ELSE "localhost"
    ELSE IF req.host # NoHost THEN req.host ELSE "localhost"

is_trusted_domain(cfg, host) ==
    \/ cfg.overwritehost # NoHost
    \/ host = "localhost"
    \/ host \in cfg.trusted_domains

(* 400 for a host the administrator has not listed, style sheets excepted. *)
trusted_domains_response(cfg, peer, req, css) ==
    IF ~cfg.installed \/ is_trusted_domain(cfg, insecure_server_host(cfg, peer, req)) \/ css
    THEN "pass" ELSE "400"
=============================================================================
