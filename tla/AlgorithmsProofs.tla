-------------------------- MODULE AlgorithmsProofs --------------------------
(***************************************************************************)
(* The pure functions agree with what they are meant to compute, for every *)
(* input.                                                                  *)
(***************************************************************************)
EXTENDS Algorithms, TLAPS, WellFoundedInduction, FiniteSetTheorems

(* The state is one of the inputs. *)
IsInput == \E inputs \in Inputs : in \in inputs

(* The input never changes. *)
LEMMA AlwaysInput == Spec => []IsInput
<1>1. Init => IsInput  BY DEF Init, IsInput
<1>2. IsInput /\ [Next]_in => IsInput'  BY DEF Next, IsInput
<1> QED BY <1>1, <1>2, PTL DEF Spec

-----------------------------------------------------------------------------
(* The lists beside the route table agree with it for every path and every *)
(* method, not only for those that are registered today (router.rs).       *)
LEMMA RoutesOfOnePath ==
    ASSUME NEW path, NEW method
    PROVE  LET by     == build(path, method, TRUE)
               mount  == path.mount
               login  == dav_served_by_rust(path, method)
               native == by \notin {"php", "404"}
           IN  /\ native => samesite_gated(path)
                            \/ mount \in {"/status.php", "/heartbeat", "photos_preview"}
               /\ mount \in PhpMounts \ {"/remote.php/direct"} =>
                      ~samesite_gated(path) \/ (mount = "registry" /\ path.child = "davx")
               /\ login => by \notin {"php", "preview"} \/ mount = "registry"
               /\ native /\ ~login => mount \in ReadOnlyNative
<1> DEFINE by     == build(path, method, TRUE)
           mount  == path.mount
           login  == dav_served_by_rust(path, method)
           native == by \notin {"php", "404"}
<1>1. CASE mount \in DavMounts
  <2>1. by = dav_arbiter_handler(path, method, TRUE)  BY <1>1 DEF build, DavMounts, PhpMounts
  <2>2. login <=> by # "php"  BY <2>1 DEF dav_arbiter_handler
  <2>3. by \in {"php", "upload_handler", "bulk_handler", "dav_handler"}
    BY <2>1 DEF dav_arbiter_handler
  <2>4. samesite_gated(path) /\ mount \notin PhpMounts
    BY <1>1 DEF samesite_gated, BeginsLikeDav, DavMounts, PhpMounts
  <2> QED BY <2>2, <2>3, <2>4
<1>2. CASE mount \in ReadOnlyNative
  <2>1. samesite_gated(path) \/ mount \in {"/status.php", "/heartbeat", "photos_preview"}
    BY <1>2 DEF ReadOnlyNative, samesite_gated
  <2>2. ~login /\ mount \notin PhpMounts
    BY <1>2 DEF ReadOnlyNative, dav_served_by_rust, remainder, DavMounts, TopLevel, PhpMounts
  <2> QED BY <1>2, <2>1, <2>2
<1>3. CASE mount \in PhpMounts
  <2>1. by = "php"  BY <1>3 DEF build, php_fpm_fallback, DavMounts, PhpMounts
  <2>2. login => mount = "registry"
    BY <1>3 DEF dav_served_by_rust, remainder, DavMounts, TopLevel, PhpMounts
  <2>3. mount # "/remote.php/direct" =>
            ~samesite_gated(path) \/ (mount = "registry" /\ path.child = "davx")
    BY <1>3 DEF samesite_gated, BeginsLikeDav, DavMounts, TopLevel, PhpMounts
  <2> QED BY <2>1, <2>2, <2>3
<1>4. CASE mount \notin DavMounts \cup ReadOnlyNative \cup PhpMounts
  <2>1. by \in {"php", "404"}
    BY <1>4 DEF build, php_fpm_fallback, ReadOnlyNative, DavMounts, PhpMounts
  <2>2. login => by # "php"
    BY <1>4 DEF build, ReadOnlyNative, dav_served_by_rust, remainder, DavMounts, TopLevel, PhpMounts
  <2> QED BY <1>4, <2>1, <2>2
<1> QED BY <1>1, <1>2, <1>3, <1>4

(* RoutingTablesAgree for all inputs. *)
THEOREM RoutingTablesAlwaysAgree == Spec => []RoutingTablesAgree
<1>1. RoutingTablesAgree  BY RoutesOfOnePath DEF RoutingTablesAgree
<1> QED BY <1>1, PTL
-----------------------------------------------------------------------------
(* ForwardedOnlyFromProxies for every configuration and every header.      *)
LEMMA HeadersOfAnyPeer ==
    ASSUME NEW cfg, NEW peer, NEW xfp, NEW css, NEW req \in [host : STRING, xfh : STRING]
    PROVE  LET Scheme(x) == server_protocol(cfg, peer, x)
               Let(q)    == trusted_domains_response(cfg, peer, q, css)
           IN  IF is_trusted_proxy(cfg, peer)
               THEN Let(req) = Let([req EXCEPT !.host = NoHost])
               ELSE /\ Scheme(xfp) = Scheme(NoProto)
                    /\ Let(req) = Let([req EXCEPT !.xfh = NoHost])
<1>1. [req EXCEPT !.host = NoHost].xfh = req.xfh  OBVIOUS
<1>2. [req EXCEPT !.xfh = NoHost].host = req.host  OBVIOUS
<1>3. is_trusted_proxy(cfg, peer) =>
        insecure_server_host(cfg, peer, req)
          = insecure_server_host(cfg, peer, [req EXCEPT !.host = NoHost])
  BY <1>1 DEF insecure_server_host
<1>4. ~is_trusted_proxy(cfg, peer) =>
        insecure_server_host(cfg, peer, req)
          = insecure_server_host(cfg, peer, [req EXCEPT !.xfh = NoHost])
  BY <1>2 DEF insecure_server_host
<1>5. ~is_trusted_proxy(cfg, peer) =>
        server_protocol(cfg, peer, xfp) = server_protocol(cfg, peer, NoProto)
  BY DEF server_protocol
<1> QED BY <1>3, <1>4, <1>5 DEF trusted_domains_response

-----------------------------------------------------------------------------
(* A non-empty set of numbers has a least element. *)
LEMMA LeastOf ==
    ASSUME NEW T, T \subseteq Nat, T # {}
    PROVE  \E x \in T : \A y \in T : x <= y
<1> DEFINE R == OpToRel(<, Nat)
<1>1. IsWellFoundedOn(R, Nat)  BY NatLessThanWellFounded
<1>2. \A x, y \in Nat : y < x => <<y, x>> \in R  BY DEF R, OpToRel
<1> HIDE DEF R
<1>3. PICK x \in T : \A y \in T : ~(<<y, x>> \in R)  BY <1>1, WFMin
<1>4. \A y \in T : ~(y < x)  BY <1>2, <1>3
<1> QED BY <1>3, <1>4

(* A segment as it is once decoded. *)
LEMMA PlainSegment ==
    ASSUME NEW s \in UrlSegment
    PROVE  [s EXCEPT !.enc = FALSE] = [name |-> s.name, enc |-> FALSE]
<1> DEFINE t == [s EXCEPT !.enc = FALSE]
<1>1. t \in [name : STRING, enc : BOOLEAN]  BY DEF UrlSegment
<1>2. t.name = s.name /\ t.enc = FALSE  BY DEF UrlSegment
<1> HIDE DEF t
<1>3. t = [name |-> s.name, enc |-> FALSE]  BY <1>1, <1>2
<1> QED BY <1>3 DEF t

(* A path that is percent-decoded a second time stays what it was. *)
LEMMA DecodingOnce ==
    ASSUME NEW p \in UrlPath
    PROVE  /\ percent_decode_path(p) \in UrlPath
           /\ Len(percent_decode_path(p)) = Len(p)
           /\ \A i \in 1..Len(p) : percent_decode_path(p)[i] = [name |-> p[i].name, enc |-> FALSE]
           /\ percent_decode_path(percent_decode_path(p)) = percent_decode_path(p)
<1> DEFINE d == [i \in 1..Len(p) |-> [name |-> p[i].name, enc |-> FALSE]]
<1>1. \A i \in 1..Len(p) : p[i] \in UrlSegment  BY DEF UrlPath
<1>2. percent_decode_path(p) = d
  BY <1>1, PlainSegment DEF percent_decode_path, UrlPath
<1>3. \A i \in 1..Len(p) : d[i] \in UrlSegment
  BY <1>1 DEF UrlSegment
<1>4. d \in UrlPath /\ Len(d) = Len(p)  BY <1>3 DEF UrlPath
<1>5. \A i \in 1..Len(p) : [d[i] EXCEPT !.enc = FALSE] = d[i]  BY <1>3, PlainSegment
<1>6. percent_decode_path(d) = d
  <2>1. percent_decode_path(d) = [i \in 1..Len(p) |-> [d[i] EXCEPT !.enc = FALSE]]
    BY DEF percent_decode_path
  <2>2. [i \in 1..Len(p) |-> [d[i] EXCEPT !.enc = FALSE]] = [i \in 1..Len(p) |-> d[i]]
    BY <1>5
  <2> QED BY <2>1, <2>2
<1>7. \A i \in 1..Len(p) : d[i] = [name |-> p[i].name, enc |-> FALSE]  OBVIOUS
<1> HIDE DEF d
<1> QED BY <1>2, <1>4, <1>6, <1>7

(* To decode below a prefix is to decode what follows it. *)
LEMMA DecodeBelow ==
    ASSUME NEW S, NEW a \in Seq(S), NEW p \in UrlPath
    PROVE  percent_decode_path(a \o percent_decode_path(p)) = percent_decode_path(a \o p)
<1> DEFINE d    == percent_decode_path(p)
           E(x) == [x EXCEPT !.enc = FALSE]
<1>1. d \in Seq(UrlSegment) /\ p \in Seq(UrlSegment) /\ Len(d) = Len(p)
  BY DecodingOnce DEF UrlPath
<1>2. \A i \in 1..Len(p) : E(d[i]) = E(p[i])
  <2> SUFFICES ASSUME NEW i \in 1..Len(p)  PROVE E(d[i]) = E(p[i])
    OBVIOUS
  <2>1. d[i] = [name |-> p[i].name, enc |-> FALSE]  BY DecodingOnce
  <2>2. d[i] \in UrlSegment /\ p[i] \in UrlSegment  BY <1>1
  <2>3. E(p[i]) = [name |-> p[i].name, enc |-> FALSE]  BY <2>2, PlainSegment
  <2>4. E(d[i]) = [name |-> d[i].name, enc |-> FALSE]  BY <2>2, PlainSegment
  <2>5. d[i].name = p[i].name  BY <2>1
  <2> QED BY <2>3, <2>4, <2>5
<1>3. percent_decode_path(a \o d) = [i \in DOMAIN (a \o d) |-> E((a \o d)[i])]
  BY DEF percent_decode_path
<1>4. percent_decode_path(a \o p) = [i \in DOMAIN (a \o p) |-> E((a \o p)[i])]
  BY DEF percent_decode_path
<1> HIDE DEF d, E
<1>5. DOMAIN (a \o d) = DOMAIN (a \o p)  BY <1>1
<1>6. ASSUME NEW i \in DOMAIN (a \o p)  PROVE E((a \o d)[i]) = E((a \o p)[i])
  <2>0. i \in 1..(Len(a) + Len(p)) /\ i \in Nat /\ Len(a) \in Nat  BY <1>1
  <2>1. CASE i <= Len(a)
    <3>1. (a \o d)[i] = a[i] /\ (a \o p)[i] = a[i]  BY <1>1, <2>0, <2>1
    <3> QED BY <3>1
  <2>2. CASE i > Len(a)
    <3>1. i - Len(a) \in 1..Len(p)  BY <2>0, <2>2
    <3>2. (a \o d)[i] = d[i - Len(a)] /\ (a \o p)[i] = p[i - Len(a)]
      BY <1>1, <2>0, <2>2, <3>1
    <3> QED BY <3>1, <3>2, <1>2
  <2>3. i <= Len(a) \/ i > Len(a)  BY <2>0
  <2> QED BY ONLY <2>1, <2>2, <2>3, Zenon
<1> QED BY <1>3, <1>4, <1>5, <1>6 DEF d

(* Two requests that differ in their encoding only are answered alike.     *)
LEMMA EncodingOfOneRequest ==
    ASSUME NEW rq \in DavRequest, NEW r2 \in DavRequest,
           r2.method = rq.method, r2.own = rq.own, r2.node = rq.node, r2.fits = rq.fits,
           r2.opts = rq.opts, r2.fault = rq.fault,
           r2.segs = percent_decode_path(rq.segs), r2.dest = percent_decode_path(rq.dest),
           rq.method # "GET"
    PROVE  dav_handler(r2) = dav_handler(rq)
<1>1. rq.segs \in UrlPath /\ rq.dest \in UrlPath  BY DEF DavRequest
<1>2. percent_decode_path(dav_path(r2)) = percent_decode_path(dav_path(rq))
  <2>1. CASE rq.own  BY <2>1, <1>1, DecodingOnce DEF dav_path
  <2>2. CASE ~rq.own
    <3>1. <<Plain("files"), Plain("other")>> \in Seq({Plain("files"), Plain("other")})  OBVIOUS
    <3> QED BY <2>2, <1>1, <3>1, DecodeBelow DEF dav_path
  <2> QED BY <2>1, <2>2
<1>3. percent_decode_path(r2.dest) = percent_decode_path(rq.dest)  BY <1>1, DecodingOnce
<1>4. write_target_name(r2) = write_target_name(rq)
  BY <1>2, <1>3 DEF write_target_name
<1>5. \A s : RowAt(r2, s) = RowAt(rq, s)  BY <1>2 DEF RowAt
<1>6. DeletePath(r2) = DeletePath(rq) /\ CopyPath(r2) = CopyPath(rq)
  BY <1>2 DEF DeletePath, CopyPath
<1>7. TrashesDir(r2) = TrashesDir(rq)  BY <1>5, <1>6 DEF TrashesDir
<1>8. Charged(r2) = Charged(rq)  BY <1>5, <1>6 DEF Charged
<1>9. Refused(r2) = Refused(rq)
  <2>1. Unreadable(r2) = Unreadable(rq)  BY <1>4 DEF Unreadable
  <2> QED BY <2>1, <1>8 DEF Refused
<1>10. Delegated(r2) = Delegated(rq)  BY DEF Delegated
<1>11. Report(r2) = Report(rq)  BY DEF Report
<1> QED BY <1>7, <1>9, <1>10, <1>11 DEF dav_handler

(* EncodingIrrelevant for every path, name, method and fault. *)
THEOREM EncodingNeverMatters == Spec => []EncodingIrrelevant
<1>1. IsInput => EncodingIrrelevant
  <2> SUFFICES ASSUME IsInput, in.fn = "dav", in.method # "GET"
               PROVE  dav_handler(in) = dav_handler([in EXCEPT !.segs = percent_decode_path(in.segs),
                                                               !.dest = percent_decode_path(in.dest)])
    BY DEF EncodingIrrelevant
  <2>1. in \in DavRequest  BY InputsAssumption DEF IsInput
  <2>2. percent_decode_path(in.segs) \in UrlPath /\ percent_decode_path(in.dest) \in UrlPath
    BY <2>1, DecodingOnce DEF DavRequest
  <2> DEFINE r2 == [in EXCEPT !.segs = percent_decode_path(in.segs),
                              !.dest = percent_decode_path(in.dest)]
  <2>3. /\ r2.method = in.method /\ r2.own = in.own /\ r2.node = in.node /\ r2.fits = in.fits
        /\ r2.opts = in.opts /\ r2.fault = in.fault
        /\ r2.segs = percent_decode_path(in.segs) /\ r2.dest = percent_decode_path(in.dest)
    BY <2>1 DEF DavRequest
  <2>4. r2 \in DavRequest  BY <2>1, <2>2 DEF DavRequest
  <2> HIDE DEF r2
  <2>5. dav_handler(r2) = dav_handler(in)  BY <2>1, <2>3, <2>4, EncodingOfOneRequest
  <2> QED BY <2>5 DEF r2
<1> QED BY <1>1, AlwaysInput, PTL
-----------------------------------------------------------------------------
(* A recursion along 1..n in the values of a set has a solution.           *)
HasRun(n, V, z, G) ==
    \E f \in [0..n -> V] : f[0] = z /\ \A i \in 1..n : f[i] = G[i][f[i - 1]]

LEMMA RecursionExists ==
    ASSUME NEW n \in Nat, NEW V, NEW z \in V, NEW G \in [1..n -> [V -> V]]
    PROVE  HasRun(n, V, z, G)
<1> DEFINE Sol(m) == {f \in [0..m -> V] : f[0] = z /\ \A i \in 1..m : f[i] = G[i][f[i - 1]]}
           T == {m \in 0..n : Sol(m) = {}}
<1> SUFFICES ASSUME T # {}  PROVE FALSE
  <2>1. n \in 0..n  OBVIOUS
  <2> QED BY <2>1 DEF HasRun
<1>0. T \subseteq Nat  OBVIOUS
<1>1. PICK m \in T : \A y \in T : m <= y
  <2> HIDE DEF T
  <2> QED BY <1>0, LeastOf
<1>2. m \in 0..n /\ Sol(m) = {}  BY <1>1
<1>3. m # 0
  <2>1. [i \in 0..0 |-> z] \in Sol(0)  OBVIOUS
  <2> HIDE DEF Sol
  <2> QED BY <1>2, <2>1
<1>4. m - 1 \in 0..n /\ m - 1 \notin T
  <2> HIDE DEF T, Sol
  <2> QED BY <1>1, <1>2, <1>3
<1>5. PICK f \in [0..(m - 1) -> V] : f[0] = z /\ \A i \in 1..(m - 1) : f[i] = G[i][f[i - 1]]
  BY <1>4
<1> DEFINE g == [i \in 0..m |-> IF i = m THEN G[m][f[m - 1]] ELSE f[i]]
<1>6. g \in [0..m -> V]
  <2>1. G[m] \in [V -> V] /\ f[m - 1] \in V  BY <1>2, <1>3, <1>5
  <2>2. G[m][f[m - 1]] \in V  BY <2>1
  <2>3. ASSUME NEW i \in 0..m, i # m  PROVE f[i] \in V
    <3>0. m \in Nat  BY <1>2
    <3>1. i \in 0..(m - 1)  BY ONLY <3>0, <2>3, SMT
    <3>2. f \in [0..(m - 1) -> V]  BY <1>5
    <3> QED BY ONLY <3>1, <3>2
  <2> QED BY <2>2, <2>3
<1>7. g[0] = z  BY <1>2, <1>3, <1>5
<1>8. \A i \in 1..m : g[i] = G[i][g[i - 1]]
  <2> SUFFICES ASSUME NEW i \in 1..m  PROVE g[i] = G[i][g[i - 1]]
    OBVIOUS
  <2>1. i - 1 \in 0..(m - 1) /\ g[i - 1] = f[i - 1]  BY <1>2
  <2>2. CASE i = m  BY <2>1, <2>2
  <2>3. CASE i # m
    <3>1. i \in 1..(m - 1) /\ g[i] = f[i]  BY <2>3, <1>2
    <3> QED BY <3>1, <2>1, <1>5
  <2> QED BY <2>2, <2>3
<1> HIDE DEF g
<1>9. g \in Sol(m)  BY <1>6, <1>7, <1>8
<1> HIDE DEF Sol
<1> QED BY <1>9, <1>2

(* A function on 0..n that is defined along k, from peer at 0: it keeps    *)
(* its value where k is in s and takes c[k] elsewhere.                     *)
WalkEq(w, n, peer, s, c) ==
    w = [k \in 0..n |-> IF k = 0 THEN peer ELSE IF k \in s THEN w[k - 1] ELSE c[k]]

(* There is such a function. *)
LEMMA WalkExists ==
    ASSUME NEW n \in Nat, NEW peer, NEW s, NEW c
    PROVE  \E w : WalkEq(w, n, peer, s, c)
<1> DEFINE V == {peer} \cup {c[k] : k \in 1..n}
           G == [k \in 1..n |-> [v \in V |-> IF k \in s THEN v ELSE c[k]]]
<1>1. peer \in V /\ G \in [1..n -> [V -> V]]  OBVIOUS
<1>2. \A k \in 1..n, v \in V : G[k][v] = IF k \in s THEN v ELSE c[k]  OBVIOUS
<1> HIDE DEF V, G
<1>3. PICK w \in [0..n -> V] : w[0] = peer /\ \A k \in 1..n : w[k] = G[k][w[k - 1]]
  <2>1. HasRun(n, V, peer, G)  BY <1>1, RecursionExists, Zenon
  <2> QED BY <2>1 DEF HasRun
<1>4. \A k \in 0..n : w[k] = IF k = 0 THEN peer ELSE IF k \in s THEN w[k - 1] ELSE c[k]
  <2> SUFFICES ASSUME NEW k \in 1..n  PROVE w[k] = IF k \in s THEN w[k - 1] ELSE c[k]
    BY <1>3
  <2>0. k - 1 \in 0..n  OBVIOUS
  <2>1. w[k - 1] \in V  BY <1>3, <2>0
  <2> QED BY <2>1, <1>2, <1>3
<1>5. WalkEq(w, n, peer, s, c)  BY <1>3, <1>4 DEF WalkEq
<1> QED BY <1>5

(* Its value is that of the last k outside s, or peer when there is none.  *)
LEMMA WalkFindsLast ==
    ASSUME NEW n \in Nat, NEW peer, NEW s, NEW c, NEW w, WalkEq(w, n, peer, s, c)
    PROVE  IF \E i \in 1..n : i \notin s
           THEN \E i \in 1..n : i \notin s /\ w[n] = c[i] /\ \A j \in (i + 1)..n : j \in s
           ELSE w[n] = peer
<1> DEFINE P(k) == IF \E i \in 1..k : i \notin s
                   THEN \E i \in 1..k : i \notin s /\ w[k] = c[i] /\ \A j \in (i + 1)..k : j \in s
                   ELSE w[k] = peer
           T == {k \in 0..n : ~P(k)}
<1> SUFFICES ASSUME T # {}  PROVE FALSE
  OBVIOUS
<1>1. PICK k \in T : \A y \in T : k <= y
  <2>1. T \subseteq Nat  OBVIOUS
  <2> HIDE DEF T
  <2> QED BY <2>1, LeastOf
<1>2. k \in 0..n /\ ~P(k)  BY <1>1
<1>3. w[k] = IF k = 0 THEN peer ELSE IF k \in s THEN w[k - 1] ELSE c[k]  BY <1>2 DEF WalkEq
<1>4. k # 0
  <2>1. k = 0 => P(k)  BY <1>3
  <2> QED BY <1>2, <2>1
<1>5. k - 1 \in 0..n /\ P(k - 1)  BY <1>1, <1>2, <1>4
<1>6. CASE k \in s
  <2>1. w[k] = w[k - 1]  BY <1>3, <1>4, <1>6
  <2>2. CASE \E i \in 1..k : i \notin s
    <3>1. \E i \in 1..(k - 1) : i \notin s  BY <2>2, <1>6, <1>2
    <3>2. PICK i \in 1..(k - 1) : i \notin s /\ w[k - 1] = c[i] /\ \A j \in (i + 1)..(k - 1) : j \in s
      BY <3>1, <1>5
    <3>3. i \in 1..k /\ i \notin s /\ w[k] = c[i]  BY <3>2, <2>1, <1>2
    <3>4. \A j \in (i + 1)..k : j \in s  BY <3>2, <1>6, <1>2
    <3> QED BY <3>3, <3>4, <1>2, <2>2
  <2>3. CASE ~ \E i \in 1..k : i \notin s
    <3>1. ~ \E i \in 1..(k - 1) : i \notin s  BY <2>3, <1>2
    <3>2. w[k - 1] = peer  BY <3>1, <1>5
    <3> QED BY <3>2, <2>1, <2>3, <1>2
  <2> QED BY <2>2, <2>3
<1>7. CASE k \notin s
  <2>1. w[k] = c[k] /\ k \in 1..k /\ \A j \in (k + 1)..k : j \in s  BY <1>3, <1>4, <1>7, <1>2
  <2> QED BY <2>1, <1>7, <1>2
<1> QED BY <1>6, <1>7
(* Flattening a sequence of sequences gives a sequence. *)
LEMMA FlattenIsSeq ==
    ASSUME NEW S, NEW seqs \in Seq(Seq(S))
    PROVE  FlattenSeq(seqs) \in Seq(S)
<1> DEFINE n == Len(seqs)
           f == CHOOSE h : h = [i \in 1..n |-> IF i = 1 THEN seqs[i] ELSE h[i - 1] \o seqs[i]]
           V == Seq(S)
<1>1. CASE n = 0
  <2>1. seqs = <<>>  BY <1>1
  <2> QED BY <2>1, <1>1 DEF FlattenSeq
<1>2. CASE n # 0
  <2>1. FlattenSeq(seqs) = f[n]  BY <1>2 DEF FlattenSeq
  <2>2. n \in Nat /\ \A k \in 1..n : seqs[k] \in V  OBVIOUS
  <2> HIDE DEF f, n
  <2> DEFINE G == [k \in 1..n |-> [v \in V |-> v \o seqs[k]]]
  <2>3. PICK g \in [0..n -> V] : g[0] = <<>> /\ \A k \in 1..n : g[k] = g[k - 1] \o seqs[k]
    <3>1. n \in Nat /\ <<>> \in V  BY <2>2
    <3>2. \A k \in 1..n, v \in V : v \o seqs[k] \in V  BY <2>2
    <3>3. G \in [1..n -> [V -> V]]  BY <3>2
    <3>4. \A k \in 1..n, v \in V : G[k][v] = v \o seqs[k]  OBVIOUS
    <3> HIDE DEF G, V
    <3>5. HasRun(n, V, <<>>, G)  BY <3>1, <3>3, RecursionExists, Zenon
    <3>6. PICK g \in [0..n -> V] : g[0] = <<>> /\ \A k \in 1..n : g[k] = G[k][g[k - 1]]
      BY <3>5, Zenon DEF HasRun
    <3>7. ASSUME NEW k \in 1..n  PROVE g[k] = g[k - 1] \o seqs[k]
      <4>1. k - 1 \in 0..n  BY <2>2
      <4>2. g[k - 1] \in V  BY <4>1, <3>6
      <4> QED BY <4>2, <3>4, <3>6
    <3> QED BY <3>6, <3>7
  <2> DEFINE h == [i \in 1..n |-> g[i]]
  <2>4. h = [i \in 1..n |-> IF i = 1 THEN seqs[i] ELSE h[i - 1] \o seqs[i]]
    <3> SUFFICES ASSUME NEW i \in 1..n
                 PROVE  h[i] = IF i = 1 THEN seqs[i] ELSE h[i - 1] \o seqs[i]
      BY Zenon
    <3>1. h[i] = g[i - 1] \o seqs[i] /\ seqs[i] \in Seq(S)  BY <2>3, <2>2
    <3>2. CASE i = 1
      <4>1. g[i - 1] = <<>>  BY <3>2, <2>3
      <4>2. <<>> \o seqs[i] = seqs[i]  BY <3>1
      <4> QED BY ONLY <3>1, <3>2, <4>1, <4>2, Zenon
    <3>3. CASE i # 1
      <4>1. h[i - 1] = g[i - 1]  BY <3>3, <2>2
      <4> HIDE DEF h
      <4> QED BY <3>3, <4>1, <3>1
    <3> QED BY <3>2, <3>3
  <2> HIDE DEF h
  <2>5. f = [i \in 1..n |-> IF i = 1 THEN seqs[i] ELSE f[i - 1] \o seqs[i]]
    BY <2>4, Zenon DEF f
  <2> DEFINE T == {i \in 1..n : f[i] \notin V}
  <2>6. T = {}
    <3> SUFFICES ASSUME T # {}  PROVE FALSE
      OBVIOUS
    <3>1. T \subseteq Nat  BY <2>2
    <3>2. PICK i \in T : \A y \in T : i <= y
      <4> HIDE DEF T
      <4> QED BY <3>1, LeastOf
    <3>3. i \in 1..n /\ f[i] \notin V  BY <3>2
    <3>4. f[i] = IF i = 1 THEN seqs[i] ELSE f[i - 1] \o seqs[i]  BY <3>3, <2>5
    <3>5. i # 1 => f[i - 1] \in V  BY <3>2, <3>3, <2>2
    <3> QED BY <3>3, <3>4, <3>5, <2>2
  <2>7. n \in 1..n  BY <1>2, <2>2 DEF n
  <2> QED BY <2>1, <2>6, <2>7
<1> QED BY <1>1, <1>2

(* A sequence of no sequences and a sequence of one. *)
LEMMA FlattenAtMostOne ==
    ASSUME NEW S, NEW seqs \in Seq(Seq(S)), Len(seqs) <= 1
    PROVE  FlattenSeq(seqs) = IF Len(seqs) = 0 THEN <<>> ELSE seqs[1]
<1> DEFINE n == Len(seqs)
           f == CHOOSE h : h = [i \in 1..n |-> IF i = 1 THEN seqs[i] ELSE h[i - 1] \o seqs[i]]
<1>1. CASE n = 0
  <2>1. seqs = <<>>  BY <1>1
  <2> QED BY <2>1, <1>1 DEF FlattenSeq
<1>2. CASE n = 1
  <2>1. FlattenSeq(seqs) = f[n]  BY <1>2 DEF FlattenSeq
  <2> HIDE DEF f
  <2>2. \A i \in 1..n : i = 1  BY <1>2
  <2> DEFINE g == [i \in 1..n |-> seqs[i]]
  <2>3. g = [i \in 1..n |-> IF i = 1 THEN seqs[i] ELSE g[i - 1] \o seqs[i]]
    BY <2>2
  <2> HIDE DEF g, n
  <2>4. f = [i \in 1..n |-> IF i = 1 THEN seqs[i] ELSE f[i - 1] \o seqs[i]]
    BY <2>3, Zenon DEF f
  <2>5. 1 \in 1..n  BY <1>2
  <2>6. f[1] = seqs[1]  BY <2>4, <2>5
  <2> QED BY <2>1, <2>6, <1>2 DEF n
<1>3. n = 0 \/ n = 1
  <2>1. n \in Nat /\ n <= 1  OBVIOUS
  <2> HIDE DEF n
  <2> QED BY ONLY <2>1
<1> QED BY <1>1, <1>2, <1>3

(* A header that comes in one readable line is read whole. *)
LEMMA OneLineReadWhole ==
    ASSUME NEW headers, NEW name, OneReadableLine(headers, name),
           name \in DOMAIN headers => headers[name] \in Seq(HeaderLine)
    PROVE  LET lines == IF name \in DOMAIN headers THEN headers[name] ELSE <<>>
           IN  header_value(headers, name) = FlattenSeq([l \in DOMAIN lines |-> lines[l].elems])
<1> DEFINE lines == IF name \in DOMAIN headers THEN headers[name] ELSE <<>>
           elems == [l \in DOMAIN lines |-> lines[l].elems]
<1>1. lines \in Seq(HeaderLine) /\ Len(lines) <= 1 /\ \A l \in DOMAIN lines : lines[l].readable
  BY DEF OneReadableLine
<1>2. header_value(headers, name) = IF lines # <<>> /\ lines[1].readable THEN lines[1].elems ELSE <<>>
  BY DEF header_value
<1> HIDE DEF lines
<1>3. Len(lines) \in Nat /\ DOMAIN lines = 1..Len(lines) /\ \A l \in 1..Len(lines) : lines[l] \in HeaderLine
  BY <1>1
<1>4. elems \in Seq(Seq(Element)) /\ Len(elems) = Len(lines)  BY <1>3 DEF HeaderLine
<1>5. CASE lines = <<>>
  <2>1. Len(elems) = 0  BY <1>4, <1>5
  <2>2. FlattenSeq(elems) = <<>>
    <3> HIDE DEF elems
    <3>1. Len(elems) <= 1  BY ONLY <2>1
    <3>2. FlattenSeq(elems) = IF Len(elems) = 0 THEN <<>> ELSE elems[1]
      BY <3>1, <1>4, FlattenAtMostOne, Zenon
    <3> QED BY ONLY <2>1, <3>2
  <2> QED BY <2>2, <1>2, <1>5 DEF lines
<1>6. CASE lines # <<>>
  <2>1. Len(lines) = 1 /\ 1 \in DOMAIN lines  BY <1>1, <1>3, <1>6
  <2>2. elems[1] = lines[1].elems  BY <2>1
  <2>3. FlattenSeq(elems) = elems[1]
    <3> HIDE DEF elems
    <3>1. Len(elems) <= 1 /\ Len(elems) # 0  BY ONLY <2>1, <1>4
    <3>2. FlattenSeq(elems) = IF Len(elems) = 0 THEN <<>> ELSE elems[1]
      BY <3>1, <1>4, FlattenAtMostOne, Zenon
    <3> QED BY ONLY <3>1, <3>2
  <2>4. lines[1].readable  BY <2>1, <1>1
  <2>5. header_value(headers, name) = lines[1].elems  BY <2>4, <1>2, <1>6
  <2> QED BY <2>2, <2>3, <2>5 DEF lines
<1> QED BY <1>5, <1>6

(* Headers that come in one readable line each are all of the chain. *)
LEMMA ChainOfOneLines ==
    ASSUME NEW cfg, NEW headers,
           \A h \in DOMAIN headers : headers[h] \in Seq(HeaderLine),
           \A name \in Range(cfg.forwarded_for_headers) : OneReadableLine(headers, name)
    PROVE  Chain(cfg, headers) = EveryElement(cfg, headers)
<1> DEFINE fs == cfg.forwarded_for_headers
           Lines(name) == IF name \in DOMAIN headers THEN headers[name] ELSE <<>>
           Joined(name) == FlattenSeq([l \in DOMAIN Lines(name) |-> Lines(name)[l].elems])
<1>1. ASSUME NEW i \in DOMAIN fs
      PROVE  header_value(headers, fs[i]) = Joined(fs[i])
  <2>1. OneReadableLine(headers, fs[i])  BY DEF Range
  <2> QED BY <2>1, OneLineReadWhole
<1>2. [i \in DOMAIN fs |-> header_value(headers, fs[i])] = [i \in DOMAIN fs |-> Joined(fs[i])]
  <2> HIDE DEF Joined
  <2> QED BY <1>1
<1>3. Chain(cfg, headers) = FlattenSeq([i \in DOMAIN fs |-> header_value(headers, fs[i])])
  BY DEF Chain
<1>4. EveryElement(cfg, headers) = FlattenSeq([i \in DOMAIN fs |-> Joined(fs[i])])
  BY DEF EveryElement
<1> HIDE DEF fs, Joined
<1> QED BY <1>2, <1>3, <1>4

(* ClientIsLastUntrusted for any configuration, peer and headers. *)
LEMMA ClientOfOneRequest ==
    ASSUME NEW cfg, NEW peer, NEW headers,
           cfg.forwarded_for_headers \in Seq(STRING),
           \A h \in DOMAIN headers : headers[h] \in Seq(HeaderLine)
    PROVE  LET chain == Chain(cfg, headers)
               res   == remote_address(cfg, peer, headers)
               Ok(i) == ~Skipped(cfg, chain[i])
           IN  IF is_trusted_proxy(cfg, peer) /\ \E i \in DOMAIN chain : Ok(i)
               THEN \E i \in DOMAIN chain : /\ Ok(i) /\ res = Candidate(chain[i])
                                            /\ \A j \in i + 1..Len(chain) : ~Ok(j)
               ELSE res = peer
<1> DEFINE chain == Chain(cfg, headers)
           res   == remote_address(cfg, peer, headers)
           n     == Len(chain)
           s     == {k \in 1..n : Skipped(cfg, chain[k])}
           c     == [k \in 1..n |-> Candidate(chain[k])]
           walk  == CHOOSE w : w = [k \in 0..n |->
                        IF k = 0 THEN peer
                        ELSE IF Skipped(cfg, chain[k]) THEN w[k - 1]
                        ELSE Candidate(chain[k])]
<1>1. chain \in Seq(Element)
  <2> DEFINE fs == cfg.forwarded_for_headers
             ss == [i \in DOMAIN fs |-> header_value(headers, fs[i])]
  <2>1. ASSUME NEW name  PROVE header_value(headers, name) \in Seq(Element)
    <3>1. CASE name \in DOMAIN headers /\ headers[name] # <<>> /\ headers[name][1].readable
      <4>1. headers[name] \in Seq(HeaderLine) /\ headers[name] # <<>>  BY <3>1
      <4>2. headers[name][1] \in HeaderLine  BY <4>1
      <4> QED BY <3>1, <4>2 DEF header_value, HeaderLine
    <3>2. CASE ~(name \in DOMAIN headers /\ headers[name] # <<>> /\ headers[name][1].readable)
      <4>1. header_value(headers, name) = <<>>  BY <3>2 DEF header_value
      <4> QED BY <4>1
    <3> QED BY <3>1, <3>2
  <2>2. ss \in Seq(Seq(Element))
    <3>1. DOMAIN fs = 1..Len(fs) /\ Len(fs) \in Nat  OBVIOUS
    <3> HIDE DEF fs
    <3>2. ss = [i \in 1..Len(fs) |-> header_value(headers, fs[i])]  BY <3>1
    <3> QED BY <2>1, <3>1, <3>2
  <2>3. chain = FlattenSeq(ss)  BY DEF Chain
  <2> HIDE DEF ss
  <2> QED BY <2>2, <2>3, FlattenIsSeq
<1>2. res = IF is_trusted_proxy(cfg, peer) THEN walk[n] ELSE peer
  BY DEF remote_address
<1> HIDE DEF chain
<1>3. n \in Nat /\ DOMAIN chain = 1..n  BY <1>1
<1>4. WalkEq(walk, n, peer, s, c)
  <2>1. \A w : [k \in 0..n |-> IF k = 0 THEN peer
                               ELSE IF Skipped(cfg, chain[k]) THEN w[k - 1]
                               ELSE Candidate(chain[k])]
              = [k \in 0..n |-> IF k = 0 THEN peer ELSE IF k \in s THEN w[k - 1] ELSE c[k]]
    BY <1>3
  <2>2. PICK w : WalkEq(w, n, peer, s, c)  BY <1>3, WalkExists
  <2>3. \E v : v = [k \in 0..n |-> IF k = 0 THEN peer
                               ELSE IF Skipped(cfg, chain[k]) THEN v[k - 1]
                               ELSE Candidate(chain[k])]
    <3> HIDE DEF s, c, n
    <3>1. w = [k \in 0..n |-> IF k = 0 THEN peer ELSE IF k \in s THEN w[k - 1] ELSE c[k]]
      BY <2>2 DEF WalkEq
    <3>2. [k \in 0..n |-> IF k = 0 THEN peer
                          ELSE IF Skipped(cfg, chain[k]) THEN w[k - 1]
                          ELSE Candidate(chain[k])]
            = [k \in 0..n |-> IF k = 0 THEN peer ELSE IF k \in s THEN w[k - 1] ELSE c[k]]
      BY <2>1, Zenon
    <3> QED BY <3>1, <3>2, Zenon
  <2>4. walk = [k \in 0..n |-> IF k = 0 THEN peer
                               ELSE IF Skipped(cfg, chain[k]) THEN walk[k - 1]
                               ELSE Candidate(chain[k])]
    BY <2>3, Zenon
  <2> HIDE DEF walk, s, c, n
  <2> QED BY <2>1, <2>4 DEF WalkEq
<1> HIDE DEF walk, n
<1>5. IF \E i \in 1..n : i \notin s
      THEN \E i \in 1..n : i \notin s /\ walk[n] = c[i] /\ \A j \in (i + 1)..n : j \in s
      ELSE walk[n] = peer
  <2> HIDE DEF s, c
  <2> QED BY <1>3, <1>4, WalkFindsLast
<1>6. \A i \in 1..n : i \notin s <=> ~Skipped(cfg, chain[i])  OBVIOUS
<1>7. \A i \in 1..n : c[i] = Candidate(chain[i])  OBVIOUS
<1> HIDE DEF s, c, res
<1>8. CASE is_trusted_proxy(cfg, peer) /\ \E i \in DOMAIN chain : ~Skipped(cfg, chain[i])
  <2>1. PICK i \in 1..n : i \notin s /\ walk[n] = c[i] /\ \A j \in (i + 1)..n : j \in s
    BY <1>8, <1>3, <1>5, <1>6
  <2>2. res = Candidate(chain[i])  BY <1>8, <1>2, <2>1, <1>7
  <2>3. \A j \in (i + 1)..n : Skipped(cfg, chain[j])
    BY <2>1, <1>3, <1>6
  <2>4. ~Skipped(cfg, chain[i])  BY <2>1, <1>6
  <2> QED BY <1>8, <1>3, <2>1, <2>2, <2>3, <2>4 DEF chain, res, n
<1>9. CASE ~(is_trusted_proxy(cfg, peer) /\ \E i \in DOMAIN chain : ~Skipped(cfg, chain[i]))
  <2>1. res = peer  BY <1>9, <1>2, <1>3, <1>5, <1>6
  <2> QED BY <1>9, <2>1 DEF chain, res
<1> QED BY <1>8, <1>9

(* OnlyProxiesBelieved: the client, the scheme and the host.               *)
THEOREM OnlyProxiesAreBelieved == Spec => []OnlyProxiesBelieved
<1>1. IsInput => ClientIsLastUntrusted
  <2> SUFFICES ASSUME IsInput, in.fn = "identity"  PROVE ClientIsLastUntrusted
    BY DEF ClientIsLastUntrusted
  <2> DEFINE fs == in.cfg.forwarded_for_headers
  <2>1. /\ fs \in Seq(STRING)
        /\ \A h \in DOMAIN in.headers : in.headers[h] \in Seq(HeaderLine)
    BY InputsAssumption DEF IsInput
  <2>2. ASSUME \A name \in Range(fs) : OneReadableLine(in.headers, name)
        PROVE  Chain(in.cfg, in.headers) = EveryElement(in.cfg, in.headers)
    BY <2>1, <2>2, ChainOfOneLines
  <2> QED BY <2>1, <2>2, ClientOfOneRequest DEF ClientIsLastUntrusted
<1>2. IsInput => ForwardedOnlyFromProxies
  <2> SUFFICES ASSUME IsInput, in.fn = "host"  PROVE ForwardedOnlyFromProxies
    BY DEF ForwardedOnlyFromProxies
  <2>1. in.req \in [host : STRING, xfh : STRING]  BY InputsAssumption DEF IsInput
  <2> QED BY <2>1, HeadersOfAnyPeer DEF ForwardedOnlyFromProxies
<1> QED BY <1>1, <1>2, AlwaysInput, PTL DEF OnlyProxiesBelieved
-----------------------------------------------------------------------------
(* SetToSeq lists a finite set: nothing is left out. *)
LEMMA ListedWhole ==
    ASSUME NEW S, IsFiniteSet(S)
    PROVE  Range(SetToSeq(S)) = S
<1> DEFINE n == Cardinality(S)
           f == SetToSeq(S)
<1>1. n \in Nat /\ ExistsBijection(1..n, S)  BY FS_CardinalityType
<1>2. IsFiniteSet(1..n) /\ Cardinality(1..n) = n
  <2>1. 1 \in Int /\ n \in Int  BY <1>1
  <2> HIDE DEF n
  <2> QED BY <1>1, <2>1, FS_Interval
<1>3. \E h \in [1..n -> S] : IsInjective(h)
  BY <1>1 DEF ExistsBijection, Bijection, Injection
<1>4. f \in [1..n -> S] /\ IsInjective(f)
  BY <1>3 DEF SetToSeq
<1> HIDE DEF f
<1>5. f \in Injection(1..n, S)  BY <1>4 DEF Injection
<1>6. f \in Surjection(1..n, S)  BY <1>2, <1>5, FS_Injection
<1>7. Range(f) = S  BY <1>4, <1>6 DEF Range, Surjection
<1> QED BY <1>7 DEF f

(* Of one scan of the shares the newest note remains, the one that a query *)
(* ordered by time puts first.                                             *)
BestEq(best, shares, z) ==
    best = [i \in 0..Len(shares) |->
              IF i = 0 THEN z
              ELSE IF \/ shares[i].note = ""
                      \/ (best[i - 1].note # "" /\ best[i - 1].stime >= shares[i].stime)
              THEN best[i - 1] ELSE shares[i]]

LEMMA BestExists ==
    ASSUME NEW shares \in Seq(ShareRow), NEW z
    PROVE  \E best : BestEq(best, shares, z)
<1> DEFINE n == Len(shares)
           V == ShareRow \cup {z}
           G == [i \in 1..n |-> [v \in V |->
                    IF shares[i].note = "" \/ (v.note # "" /\ v.stime >= shares[i].stime)
                    THEN v ELSE shares[i]]]
<1>1. n \in Nat /\ z \in V /\ \A i \in 1..n : shares[i] \in V  OBVIOUS
<1> HIDE DEF V
<1>2. G \in [1..n -> [V -> V]]  BY <1>1
<1>3. \A i \in 1..n, v \in V : G[i][v] =
         IF shares[i].note = "" \/ (v.note # "" /\ v.stime >= shares[i].stime)
         THEN v ELSE shares[i]
  OBVIOUS
<1> HIDE DEF G
<1>4. HasRun(n, V, z, G)  BY <1>1, <1>2, RecursionExists, Zenon
<1>5. PICK f \in [0..n -> V] : f[0] = z /\ \A i \in 1..n : f[i] = G[i][f[i - 1]]
  BY <1>4 DEF HasRun
<1>6. ASSUME NEW i \in 1..n
      PROVE  f[i] = IF shares[i].note = "" \/ (f[i - 1].note # "" /\ f[i - 1].stime >= shares[i].stime)
                    THEN f[i - 1] ELSE shares[i]
  <2>1. i - 1 \in 0..n  BY <1>1
  <2>2. f[i - 1] \in V /\ f[i] = G[i][f[i - 1]]  BY <2>1, <1>5
  <2> QED BY <2>2, <1>3, Zenon
<1>7. BestEq(f, shares, z)
  <2> DEFINE F(i) == IF i = 0 THEN z
              ELSE IF \/ shares[i].note = ""
                      \/ (f[i - 1].note # "" /\ f[i - 1].stime >= shares[i].stime)
              THEN f[i - 1] ELSE shares[i]
  <2>1. \A i \in 0..n : f[i] = F(i)
    <3> SUFFICES ASSUME NEW i \in 0..n  PROVE f[i] = F(i)
      OBVIOUS
    <3>1. CASE i = 0  BY <3>1, <1>5
    <3>2. CASE i # 0
      <4>1. i \in 1..n  BY <3>2, <1>1
      <4> QED BY <4>1, <3>2, <1>6, Zenon
    <3> QED BY <3>1, <3>2
  <2> HIDE DEF F
  <2>2. f = [i \in 0..n |-> F(i)]  BY <2>1, <1>5
  <2> QED BY <2>2 DEF BestEq, F
<1> QED BY <1>7

(* The row b is the newest with a note among the first k, if there is one. *)
Newest(shares, k, b) ==
    /\ (\E i \in 1..k : shares[i].note # "") =>
          \E i \in 1..k : /\ shares[i].note # "" /\ b = shares[i]
                          /\ \A j \in 1..k : shares[j].note # "" => shares[j].stime <= b.stime
    /\ (\A i \in 1..k : shares[i].note = "") => b.note = ""

LEMMA NewestStep ==
    ASSUME NEW m \in Nat, NEW k \in Nat, k = m + 1, NEW shares, \A i \in 1..k : shares[i].stime \in Int,
           NEW a, NEW b, Newest(shares, m, a),
           b = IF shares[k].note = "" \/ (a.note # "" /\ a.stime >= shares[k].stime)
               THEN a ELSE shares[k]
    PROVE  Newest(shares, k, b)
<1>0. m \in Nat /\ k \in Nat /\ k = m + 1  OBVIOUS
<1>1. k \in 1..k /\ \A j : j \in 1..k <=> j \in 1..m \/ j = k  BY ONLY <1>0
<1>a. CASE shares[k].note = "" \/ (a.note # "" /\ a.stime >= shares[k].stime)
  <2>0. b = a  BY ONLY <1>a, b = IF shares[k].note = "" \/ (a.note # "" /\ a.stime >= shares[k].stime)
               THEN a ELSE shares[k], Zenon
  <2>1. CASE shares[k].note = ""
    <3>1. ASSUME \E i \in 1..k : shares[i].note # ""
          PROVE  \E i \in 1..k : /\ shares[i].note # "" /\ a = shares[i]
                                 /\ \A j \in 1..k : shares[j].note # "" => shares[j].stime <= a.stime
      <4>1. \E i \in 1..m : shares[i].note # ""  BY ONLY <3>1, <1>1, <2>1, Zenon
      <4>2. PICK i \in 1..m : /\ shares[i].note # "" /\ a = shares[i]
                              /\ \A j \in 1..m : shares[j].note # "" => shares[j].stime <= a.stime
        BY ONLY <4>1, Newest(shares, m, a), Zenon DEF Newest
      <4>3. \A j \in 1..k : shares[j].note # "" => shares[j].stime <= a.stime
        BY ONLY <4>2, <1>1, <2>1, Zenon
      <4>4. i \in 1..k  BY ONLY <1>1, i \in 1..m, Zenon
      <4> QED BY ONLY <4>2, <4>3, <4>4, Zenon
    <3>2. (\A i \in 1..k : shares[i].note = "") => a.note = ""
      BY ONLY <1>1, Newest(shares, m, a), Zenon DEF Newest
    <3> QED BY ONLY <2>0, <3>1, <3>2, Zenon DEF Newest
  <2>2. CASE shares[k].note # "" /\ a.note # "" /\ a.stime >= shares[k].stime
    <3>2. PICK i \in 1..m : /\ shares[i].note # "" /\ a = shares[i]
                            /\ \A j \in 1..m : shares[j].note # "" => shares[j].stime <= a.stime
      BY ONLY <2>2, Newest(shares, m, a), Zenon DEF Newest
    <3>3. i \in 1..k /\ shares[i].stime \in Int /\ shares[k].stime \in Int
      BY ONLY <1>1, \A l \in 1..k : shares[l].stime \in Int, i \in 1..m, Zenon
    <3>4. shares[k].stime <= a.stime
      <4> DEFINE x == a.stime  y == shares[k].stime
      <4>1. x \in Int /\ y \in Int /\ x >= y  BY ONLY <3>2, <3>3, <2>2, Zenon
      <4> HIDE DEF x, y
      <4>2. y <= x  BY ONLY <4>1
      <4> QED BY ONLY <4>2 DEF x, y
    <3>5. \A j \in 1..k : shares[j].note # "" => shares[j].stime <= a.stime
      BY ONLY <1>1, <3>2, <3>4, Zenon
    <3> QED BY ONLY <2>0, <3>2, <3>3, <3>5, Zenon DEF Newest
  <2> QED BY ONLY <1>a, <2>1, <2>2, Zenon
<1>b. CASE ~(shares[k].note = "" \/ (a.note # "" /\ a.stime >= shares[k].stime))
  <2>1. b = shares[k]
    BY ONLY <1>b, b = IF shares[k].note = "" \/ (a.note # "" /\ a.stime >= shares[k].stime)
                 THEN a ELSE shares[k], Zenon
  <2> DEFINE y == shares[k].stime
  <2>2. ASSUME NEW j \in 1..k, shares[j].note # ""  PROVE shares[j].stime <= y
    <3> DEFINE x == shares[j].stime
    <3>0. x \in Int /\ y \in Int
      BY ONLY <1>1, \A l \in 1..k : shares[l].stime \in Int, j \in 1..k, Zenon
    <3>1. CASE j = k
      <4>1. x = y  BY ONLY <3>1
      <4> HIDE DEF x, y
      <4> QED BY ONLY <4>1, <3>0 DEF x
    <3>2. CASE j # k
      <4>0. j \in 1..m  BY ONLY <3>2, <1>1, j \in 1..k, Zenon
      <4>1. PICK i \in 1..m : /\ shares[i].note # "" /\ a = shares[i]
                              /\ \A l \in 1..m : shares[l].note # "" => shares[l].stime <= a.stime
        BY ONLY <2>2, <4>0, Newest(shares, m, a), Zenon DEF Newest
      <4> DEFINE u == a.stime
      <4>2. x <= u /\ a.note # ""  BY ONLY <4>0, <4>1, <2>2, Zenon
      <4>6. x <= u  BY ONLY <4>2, Zenon
      <4>3. u \in Int
        BY ONLY <4>1, <1>1, i \in 1..m, \A l \in 1..k : shares[l].stime \in Int, Zenon
      <4>4. ~(u >= y)  BY ONLY <4>2, <1>b, Zenon
      <4> HIDE DEF x, y, u
      <4>5. x <= y  BY ONLY <3>0, <4>6, <4>3, <4>4
      <4> QED BY ONLY <4>5 DEF x
    <3> QED BY ONLY <3>1, <3>2, Zenon
  <2> QED BY ONLY <1>1, <1>b, <2>1, <2>2, Zenon DEF Newest
<1> QED BY ONLY <1>a, <1>b, Zenon

LEMMA NoneBelowOne == 1..0 = {}
OBVIOUS

LEMMA BestIsNewest ==
    ASSUME NEW n \in Nat, NEW shares, \A i \in 1..n : shares[i].stime \in Int,
           NEW best, best[0].note = "",
           \A i \in 1..n : best[i] =
               IF shares[i].note = "" \/ (best[i - 1].note # "" /\ best[i - 1].stime >= shares[i].stime)
               THEN best[i - 1] ELSE shares[i]
    PROVE  Newest(shares, n, best[n])
<1> DEFINE T == {k \in 0..n : ~Newest(shares, k, best[k])}
<1>0. n \in Nat  OBVIOUS
<1> SUFFICES ASSUME ~Newest(shares, n, best[n])  PROVE FALSE
  OBVIOUS
<1>9. T # {}
  <2>1. n \in 0..n  BY ONLY <1>0
  <2>2. n \in T  BY ONLY <2>1, ~Newest(shares, n, best[n])
  <2> QED BY ONLY <2>2
<1>1. PICK k \in T : \A y \in T : k <= y
  <2>1. T \subseteq Nat  BY ONLY <1>0
  <2> HIDE DEF T
  <2> QED BY ONLY <2>1, <1>9, LeastOf
<1>2. k \in 0..n /\ ~Newest(shares, k, best[k])  BY ONLY k \in T
<1>3. k # 0
  <2>1. 1..0 = {}  BY ONLY NoneBelowOne
  <2>2. Newest(shares, 0, best[0])  BY ONLY <2>1, best[0].note = "" DEF Newest
  <2> QED BY ONLY <2>2, <1>2, Zenon
<1> DEFINE m == k - 1
<1>4. m \in Nat /\ k \in Nat /\ k = m + 1 /\ k \in 1..n /\ m \in 0..n /\ ~(k <= m)
      /\ \A i \in 1..k : i \in 1..n
  BY ONLY <1>0, <1>2, <1>3
<1>6. best[k] = IF shares[k].note = "" \/ (best[m].note # "" /\ best[m].stime >= shares[k].stime)
                THEN best[m] ELSE shares[k]
  BY <1>4, Zenon
<1> HIDE DEF m
<1>5. Newest(shares, m, best[m])
  <2>1. m \notin T
    <3> HIDE DEF T
    <3> QED BY ONLY <1>1, <1>4, Zenon
  <2> QED BY ONLY <2>1, <1>4, Zenon
<1>7. \A i \in 1..k : shares[i].stime \in Int  BY <1>4, Zenon
<1>8. Newest(shares, k, best[k])
  BY ONLY <1>4, <1>5, <1>6, <1>7, NewestStep, Zenon
<1> QED BY ONLY <1>8, <1>2, Zenon

(* The batch's note is the one the query for a single node finds. *)
LEMMA NoteOfOneScan ==
    ASSUME NEW w, Node(w)
    PROVE  NewestNote(w.shares) = get_share_note(w)
<1> DEFINE sh == w.shares
           n  == Len(sh)
           z  == [note |-> "", stime |-> 0]
           best == CHOOSE f : f = [i \in 0..n |->
                      IF i = 0 THEN z
                      ELSE IF \/ sh[i].note = ""
                              \/ (f[i - 1].note # "" /\ f[i - 1].stime >= sh[i].stime)
                      THEN f[i - 1] ELSE sh[i]]
           noted == {s \in Range(sh) : s.note # ""}
           s0 == CHOOSE s \in noted : \A t \in noted : t.stime <= s.stime
<1>1. NewestNote(sh) = best[n].note  BY DEF NewestNote
<1>2. sh \in Seq(ShareRow)  BY DEF Node
<1>3. n \in Nat /\ DOMAIN sh = 1..n  BY <1>2
<1>4. BestEq(best, sh, z)
  <2>1. \E f : BestEq(f, sh, z)  BY <1>2, BestExists
  <2>2. \E f : f = [i \in 0..n |->
                      IF i = 0 THEN z
                      ELSE IF \/ sh[i].note = ""
                              \/ (f[i - 1].note # "" /\ f[i - 1].stime >= sh[i].stime)
                      THEN f[i - 1] ELSE sh[i]]
    BY ONLY <2>1 DEF BestEq
  <2>3. best = [i \in 0..n |->
                      IF i = 0 THEN z
                      ELSE IF \/ sh[i].note = ""
                              \/ best[i - 1].note # "" /\ best[i - 1].stime >= sh[i].stime
                      THEN best[i - 1] ELSE sh[i]]
    BY ONLY <2>2, Zenon
  <2> HIDE DEF best
  <2> QED BY ONLY <2>3 DEF BestEq
<1>5. \A i \in 1..n : sh[i] \in ShareRow  BY <1>2
<1>6. \A i \in 1..n : sh[i].stime \in Int  BY <1>5 DEF ShareRow
<1>7. \A i, j \in 1..n : sh[i].note # "" /\ sh[j].note # "" /\ sh[i].stime = sh[j].stime
                            => sh[i].note = sh[j].note
  BY <1>3 DEF Node
<1> HIDE DEF best, sh, n
<1>8. Newest(sh, n, best[n])
  <2>0. best = [i \in 0..n |->
                      IF i = 0 THEN z
                      ELSE IF \/ sh[i].note = ""
                              \/ (best[i - 1].note # "" /\ best[i - 1].stime >= sh[i].stime)
                      THEN best[i - 1] ELSE sh[i]]
    BY ONLY <1>4, Zenon DEF BestEq, n
  <2>a. n \in Nat  BY <1>3
  <2>b. z.note = ""  OBVIOUS
  <2> HIDE DEF z
  <2>1. best[0] = z /\ z.note = ""
    <3>1. 0 \in 0..n  BY ONLY <2>a
    <3> QED BY ONLY <2>0, <3>1, <2>b, Zenon
  <2>2. ASSUME NEW i \in 1..n
        PROVE  best[i] =
               IF sh[i].note = "" \/ (best[i - 1].note # "" /\ best[i - 1].stime >= sh[i].stime)
               THEN best[i - 1] ELSE sh[i]
    <3>1. i \in 0..n /\ i # 0  BY ONLY <2>a, i \in 1..n
    <3> QED BY ONLY <2>0, <3>1, Zenon
  <2>3. best[0].note = ""  BY ONLY <2>1, Zenon
  <2> QED BY ONLY <1>3, <1>6, <2>3, <2>2, BestIsNewest
<1>9. get_share_note(w) = IF noted = {} THEN "" ELSE s0.note
  BY Zenon DEF get_share_note, sh
<1>10. \A s : s \in noted <=> \E i \in 1..n : s = sh[i] /\ sh[i].note # ""
  BY ONLY <1>3, Zenon DEF Range
<1> HIDE DEF noted, s0
<1>11. CASE \A i \in 1..n : sh[i].note = ""
  <2>1. best[n].note = ""  BY ONLY <1>8, <1>11, Zenon DEF Newest
  <2>2. noted = {}
    <3>1. ASSUME NEW s \in noted  PROVE FALSE  BY ONLY <1>10, <1>11, s \in noted, Zenon
    <3> QED BY <3>1
  <2> QED BY <2>1, <2>2, <1>1, <1>9 DEF sh
<1>12. CASE \E i \in 1..n : sh[i].note # ""
  <2>1. PICK i \in 1..n : /\ sh[i].note # "" /\ best[n] = sh[i]
                          /\ \A j \in 1..n : sh[j].note # "" => sh[j].stime <= best[n].stime
    BY ONLY <1>12, <1>8, Zenon DEF Newest
  <2>2. sh[i] \in noted  BY ONLY <1>10, <2>1, i \in 1..n, Zenon
  <2>3. \A t \in noted : t.stime <= sh[i].stime  BY ONLY <1>10, <2>1, Zenon
  <2>4. s0 \in noted /\ \A t \in noted : t.stime <= s0.stime
    BY ONLY <2>2, <2>3, Zenon DEF s0
  <2>5. PICK k \in 1..n : s0 = sh[k] /\ sh[k].note # ""  BY ONLY <2>4, <1>10, Zenon
  <2>6. sh[k].stime <= sh[i].stime /\ sh[i].stime <= sh[k].stime
    BY ONLY <2>2, <2>3, <2>4, <2>5, Zenon
  <2>7. sh[k].stime = sh[i].stime
    <3> DEFINE x == sh[k].stime  y == sh[i].stime
    <3>1. x \in Int /\ y \in Int  BY ONLY <1>6, i \in 1..n, k \in 1..n, Zenon
    <3> HIDE DEF x, y
    <3>2. x <= y /\ y <= x  BY ONLY <2>6 DEF x, y
    <3>3. x = y  BY ONLY <3>1, <3>2
    <3> QED BY ONLY <3>3 DEF x, y
  <2>8. sh[k].note = sh[i].note  BY ONLY <2>1, <2>5, <2>7, <1>7, i \in 1..n, k \in 1..n, Zenon
  <2>9. noted # {}  BY ONLY <2>2
  <2>10. get_share_note(w) = s0.note  BY ONLY <2>9, <1>9, Zenon
  <2> QED BY ONLY <1>1, <2>10, <2>1, <2>5, <2>8, Zenon DEF sh
<1> QED BY ONLY <1>11, <1>12, Zenon

(* What is found in a map that holds one value. *)
LEMMA OrElseFound == \A x, d : OrElse({x}, d) = x /\ OrElse({}, d) = d
<1> TAKE x, d
<1>1. (CHOOSE y \in {x} : TRUE) = x  OBVIOUS
<1> QED BY <1>1 DEF OrElse

(* A folder's numbers, where a folder that is absent counts as empty. *)
LEMMA CountsAgree ==
    ASSUME NEW w, Node(w), NEW backend \in {"pg", "sqlite"}
    PROVE  (IF w.dir THEN OrElse(count_children_batch(w, backend), <<0, 0>>) ELSE <<0, 0>>)
           = IF w.dir THEN count_children(w) ELSE <<0, 0>>
<1>1. w.dirs \in Nat /\ w.files \in Nat  BY DEF Node
<1>2. CASE w.dir /\ (backend = "pg" \/ w.dirs + w.files > 0)
  <2>1. count_children_batch(w, backend) = {<<w.dirs, w.files>>}
    BY <1>2 DEF count_children_batch
  <2> QED BY <2>1, <1>2, OrElseFound DEF count_children
<1>3. CASE w.dir /\ backend # "pg" /\ ~(w.dirs + w.files > 0)
  <2>1. count_children_batch(w, backend) = {}  BY <1>3 DEF count_children_batch
  <2>2. w.dirs = 0 /\ w.files = 0  BY <1>1, <1>3
  <2> QED BY <2>1, <2>2, <1>3, OrElseFound DEF count_children
<1> QED BY <1>2, <1>3

(* The details of the shares, in whatever order. *)
LEMMA DetailsAgree ==
    ASSUME NEW w, Node(w)
    PROVE  Range(get_share_details(w)) = Range(share_details_and_notes_batch(w).details)
<1> DEFINE sh == w.shares
           D  == {ShareDetail(w, s) : s \in {x \in Range(sh) : PartyTo(x)}}
           K  == {k \in DOMAIN sh : PartyTo(sh[k])}
           f  == [i \in K |-> ShareDetail(w, sh[i])]
<1>1. sh \in Seq(ShareRow)  BY DEF Node
<1>2. f \in Surjection(K, D)
  <2>1. \A i \in K : f[i] \in D  BY DEF Range
  <2>2. \A d \in D : \E i \in K : f[i] = d  BY DEF Range
  <2> HIDE DEF D, K
  <2> QED BY <2>1, <2>2 DEF Surjection
<1>3. IsFiniteSet(D)
  <2>1. IsFiniteSet(1..Len(sh))
    <3>1. Len(sh) \in Nat  BY <1>1
    <3> HIDE DEF sh
    <3> QED BY <3>1, FS_Interval
  <2>2. K \in SUBSET (1..Len(sh))  BY <1>1
  <2> HIDE DEF K, f, D
  <2>3. IsFiniteSet(K)  BY <2>1, <2>2, FS_Subset
  <2> QED BY <2>3, <1>2, FS_Surjection
<1>4. Range(f) = D
  <2> HIDE DEF D, K
  <2>1. \A d : d \in D <=> \E i \in K : f[i] = d
    BY <1>2 DEF Surjection
  <2> QED BY <2>1 DEF Range
<1>5. share_details_and_notes_batch(w).details = f  BY DEF share_details_and_notes_batch
<1>6. get_share_details(w) = SetToSeq(D)  BY DEF get_share_details
<1> HIDE DEF D, f
<1> QED BY <1>3, <1>4, <1>5, <1>6, ListedWhole

(* The numbers of comments, where a file that is absent has none. *)
LEMMA CommentsAgree ==
    ASSUME NEW w
    PROVE  OrElse(comments_counts_batch(w), <<0, 0>>) = <<get_comments_count(w), get_comments_unread(w)>>
<1>1. CASE w.comments = <<>>
  <2>1. comments_counts_batch(w) = {}  BY <1>1 DEF comments_counts_batch
  <2>2. get_comments_count(w) = 0  BY <1>1 DEF get_comments_count
  <2>3. {i \in DOMAIN w.comments : Unread(w, w.comments[i])} = {}  BY <1>1
  <2>4. get_comments_unread(w) = 0  BY <2>3, FS_EmptySet DEF get_comments_unread
  <2> QED BY <2>1, <2>2, <2>4, OrElseFound
<1>2. CASE w.comments # <<>>
  BY <1>2, OrElseFound DEF comments_counts_batch
<1> QED BY <1>1, <1>2

(* What is collected is the same, family by family, when it was asked for. *)
LEMMA CollectedAlike ==
    ASSUME NEW w, Node(w), NEW req, NEW backend \in {"pg", "sqlite"}
    PROVE  LET g == Gates(req)
               a == collect_single(w, req)
               c == collect_batched(w, req, backend)
           IN  /\ g.counts => a.counts = c.counts
               /\ g.shares => Range(a.details) = Range(c.details) /\ a.note = c.note
               /\ g.comments => a.comments = c.comments
               /\ g.stags => a.stags = c.stags
               /\ g.meta /\ backend = "pg" => a.meta = c.meta
               /\ a.tags = c.tags
               /\ g.props => a.props = c.props
<1> DEFINE g == Gates(req)
           a == collect_single(w, req)
           c == collect_batched(w, req, backend)
           d == share_details_and_notes_batch(w)
           b == IF backend = "pg" THEN propfind_batch_cte(w, g) ELSE sqlite_batch(w, g)
<1>1. /\ a.counts = IF w.dir THEN count_children(w) ELSE <<0, 0>>
      /\ a.details = get_share_details(w) /\ a.note = get_share_note(w)
      /\ a.comments = <<get_comments_count(w), get_comments_unread(w)>>
      /\ a.stags = get_system_tags_for_file(w) /\ a.meta = w.meta
      /\ a.tags = (IF g.tags THEN w.tags ELSE {}) /\ a.props = w.props
  BY DEF collect_single
<1>2. /\ c.counts = IF w.dir THEN OrElse(b.counts, <<0, 0>>) ELSE <<0, 0>>
      /\ c.details = OrElse(b.details, <<>>) /\ c.note = OrElse(b.note, "")
      /\ c.comments = OrElse(b.comments, <<0, 0>>)
      /\ c.stags = OrElse(b.stags, {}) /\ c.meta = OrElse(b.meta, NoMeta)
      /\ c.tags = (IF g.tags THEN OrElse(If(g.tags, {w.tags}), w.tags) ELSE {})
      /\ c.props = If(g.props, w.props)
  BY DEF collect_batched, read_dir_batched
<1>3. /\ b.counts = If(g.counts, count_children_batch(w, backend))
      /\ b.details = If(g.shares, {d.details}) /\ b.note = If(g.shares, {d.note})
      /\ b.stags = If(g.stags, {get_system_tags_for_file(w)})
      /\ b.comments = If(g.comments, IF backend = "pg"
                           THEN {<<get_comments_count(w), get_comments_unread(w)>>}
                           ELSE comments_counts_batch(w))
      /\ backend = "pg" => b.meta = If(g.meta /\ w.meta # NoMeta, {w.meta})
  BY DEF propfind_batch_cte, sqlite_batch
<1>4. d.note = NewestNote(w.shares)  BY DEF share_details_and_notes_batch
<1> HIDE DEF g, a, b, c, d
<1>5. g.counts => a.counts = c.counts  BY <1>1, <1>2, <1>3, CountsAgree DEF If
<1>6. g.shares => Range(a.details) = Range(c.details) /\ a.note = c.note
  <2>1. ASSUME g.shares  PROVE c.details = d.details /\ c.note = d.note
    <3>1. b.details = {d.details} /\ b.note = {d.note}  BY <1>3, <2>1 DEF If
    <3>2. OrElse(b.details, <<>>) = d.details /\ OrElse(b.note, "") = d.note
      BY ONLY <3>1, OrElseFound, Zenon
    <3> QED BY <3>2, <1>2
  <2> QED BY <2>1, <1>1, <1>4, DetailsAgree, NoteOfOneScan DEF d
<1>7. g.comments => a.comments = c.comments
  <2> SUFFICES ASSUME g.comments  PROVE a.comments = c.comments
    OBVIOUS
  <2>1. CASE backend = "pg"
    <3>1. b.comments = {<<get_comments_count(w), get_comments_unread(w)>>}
      BY <1>3, <2>1 DEF If
    <3>2. OrElse(b.comments, <<0, 0>>) = <<get_comments_count(w), get_comments_unread(w)>>
      BY ONLY <3>1, OrElseFound, Zenon
    <3> QED BY <3>2, <1>1, <1>2
  <2>2. CASE backend # "pg"
    <3>1. b.comments = comments_counts_batch(w)  BY <1>3, <2>2 DEF If
    <3> QED BY ONLY <3>1, <1>1, <1>2, CommentsAgree, Zenon
  <2> QED BY <2>1, <2>2
<1>8. ASSUME g.stags  PROVE a.stags = c.stags
  <2>1. b.stags = {get_system_tags_for_file(w)}  BY <1>3, <1>8 DEF If
  <2>2. OrElse(b.stags, {}) = get_system_tags_for_file(w)  BY ONLY <2>1, OrElseFound, Zenon
  <2> QED BY <2>2, <1>1, <1>2
<1>9. ASSUME g.meta, backend = "pg"  PROVE a.meta = c.meta
  <2>1. b.meta = IF w.meta # NoMeta THEN {w.meta} ELSE {}  BY <1>3, <1>9 DEF If
  <2>2. CASE w.meta = NoMeta
    <3>1. b.meta = {}  BY <2>1, <2>2
    <3> QED BY ONLY <3>1, <2>2, <1>1, <1>2, OrElseFound, Zenon
  <2>3. CASE w.meta # NoMeta
    <3>1. b.meta = {w.meta}  BY <2>1, <2>3
    <3>2. OrElse(b.meta, NoMeta) = w.meta  BY ONLY <3>1, OrElseFound, Zenon
    <3> QED BY <3>2, <1>1, <1>2
  <2> QED BY <2>2, <2>3
<1>10. a.tags = c.tags
  <2>1. CASE g.tags
    <3>1. If(g.tags, {w.tags}) = {w.tags}  BY <2>1 DEF If
    <3>2. OrElse(If(g.tags, {w.tags}), w.tags) = w.tags  BY ONLY <3>1, OrElseFound, Zenon
    <3> QED BY <3>2, <2>1, <1>1, <1>2
  <2>2. CASE ~g.tags  BY <2>2, <1>1, <1>2
  <2> QED BY <2>1, <2>2
<1>11. g.props => a.props = c.props  BY <1>1, <1>2 DEF If
<1> QED BY <1>5, <1>6, <1>7, <1>8, <1>9, <1>10, <1>11 DEF g, a, c

(* ListingAgrees for every node, every set of properties, both databases. *)
LEMMA ListingOfOneNode ==
    ASSUME NEW w, Node(w), NEW req, NEW backend \in {"pg", "sqlite"}
    PROVE  LET alone == Answer(build_props(collect_single(w, req)), req)
               child == Answer(build_props(collect_batched(w, req, backend)), req)
           IN  \A p \in DOMAIN alone :
                  \/ p = "nc:metadata-x" /\ backend = "sqlite"
                  \/ p = "nc:sharees" /\ ~Gates(req).shares
                  \/ IF p = "nc:sharees" THEN Range(alone[p]) = Range(child[p])
                     ELSE alone[p] = child[p]
<1> DEFINE g == Gates(req)
           a == collect_single(w, req)
           c == collect_batched(w, req, backend)
           R == {p \in PropNames : prop_requested(req, p)}
           alone == Answer(build_props(a), req)
           child == Answer(build_props(c), req)
<1>1. DOMAIN alone = R /\ \A p \in R : alone[p] = build_props(a)[p] /\ child[p] = build_props(c)[p]
  BY DEF Answer, Restrict
<1>2. /\ g.counts => a.counts = c.counts
      /\ g.shares => Range(a.details) = Range(c.details) /\ a.note = c.note
      /\ g.comments => a.comments = c.comments
      /\ g.stags => a.stags = c.stags
      /\ g.meta /\ backend = "pg" => a.meta = c.meta
      /\ a.tags = c.tags
      /\ g.props => a.props = c.props
  BY CollectedAlike
<1>3. /\ g.counts <=> \/ prop_requested(req, "nc:contained-folder-count")
                      \/ prop_requested(req, "nc:contained-file-count")
      /\ g.shares <=> \/ prop_requested(req, "oc:share-types") \/ prop_requested(req, "oc:sharees")
                      \/ prop_requested(req, "nc:note")
      /\ g.comments <=> \/ prop_requested(req, "oc:comments-count")
                        \/ prop_requested(req, "oc:comments-unread")
      /\ g.stags <=> prop_requested(req, "nc:system-tags")
      /\ g.meta <=> prop_requested(req, "nc:metadata-x")
      /\ g.props <=> prop_requested(req, "urn:x")
  BY DEF Gates
<1> HIDE DEF g, a, c, alone, child
<1> SUFFICES ASSUME NEW p \in R,
                    ~(p = "nc:metadata-x" /\ backend = "sqlite"), ~(p = "nc:sharees" /\ ~g.shares)
             PROVE  IF p = "nc:sharees" THEN Range(alone[p]) = Range(child[p])
                    ELSE alone[p] = child[p]
  BY <1>1 DEF alone, child, a, c, g
<1>4. alone[p] = build_props(a)[p] /\ child[p] = build_props(c)[p]  BY <1>1
<1>5. prop_requested(req, p)  OBVIOUS
<1>6. CASE p \in {"nc:contained-folder-count", "nc:contained-file-count"}
  <2>1. a.counts = c.counts  BY <1>2, <1>3, <1>5, <1>6
  <2> QED BY <1>4, <1>6, <2>1 DEF build_props, PropNames
<1>7. CASE p = "oc:share-types"
  <2>1. Range(a.details) = Range(c.details)  BY <1>2, <1>3, <1>5, <1>7
  <2>2. alone[p] = {d[1] : d \in Range(a.details)} /\ child[p] = {d[1] : d \in Range(c.details)}
    BY <1>4, <1>7 DEF build_props, PropNames
  <2> QED BY <2>1, <2>2, <1>7
<1>8. CASE p = "nc:sharees"
  <2>1. Range(a.details) = Range(c.details)  BY <1>2, <1>8
  <2> QED BY <1>4, <1>8, <2>1 DEF build_props, PropNames
<1>9. CASE p = "nc:note"
  <2>1. a.note = c.note  BY <1>2, <1>3, <1>5, <1>9
  <2> QED BY <1>4, <1>9, <2>1 DEF build_props, PropNames
<1>10. CASE p \in {"oc:comments-count", "oc:comments-unread"}
  <2>1. a.comments = c.comments  BY <1>2, <1>3, <1>5, <1>10
  <2> QED BY <1>4, <1>10, <2>1 DEF build_props, PropNames
<1>11. CASE p = "nc:system-tags"
  <2>1. a.stags = c.stags  BY <1>2, <1>3, <1>5, <1>11
  <2> QED BY <1>4, <1>11, <2>1 DEF build_props, PropNames
<1>12. CASE p = "nc:metadata-x"
  <2>1. a.meta = c.meta  BY <1>2, <1>3, <1>5, <1>12
  <2> QED BY <1>4, <1>12, <2>1 DEF build_props, PropNames
<1>13. CASE p \in {"oc:favorite", "oc:tags"}
  <2>1. a.tags = c.tags  BY <1>2
  <2> QED BY <1>4, <1>13, <2>1 DEF build_props, PropNames
<1>14. CASE p = "urn:x"
  <2>1. a.props = c.props  BY <1>2, <1>3, <1>5, <1>14
  <2> QED BY <1>4, <1>14, <2>1 DEF build_props, PropNames
<1>15. p \in PropNames  OBVIOUS
<1> QED BY <1>6, <1>7, <1>8, <1>9, <1>10, <1>11, <1>12, <1>13, <1>14, <1>15 DEF PropNames

-----------------------------------------------------------------------------
(* PermissionsAgree for every set of permission bits.                      *)
LEMMA PermissionsOfOneNode ==
    ASSUME NEW perms, NEW disabled, NEW dir, NEW root
    PROVE  LET p == PermissionProps(perms, disabled, dir, root)
           IN  /\ \A offered \in {"R" \in p.oc, "share" \in p.ocs, "share" \in p.ocm} :
                      offered <=> ("share" \in perms /\ ~disabled)
               /\ p.oc \cap {"V", "W", "C"} # {} => "write" \in p.ocm
               /\ "write" \in p.ocm /\ ~root => p.oc \cap {"V", "W", "C"} # {}
<1> DEFINE p  == apply_sharing_mask(perms, disabled)
           oc == PermissionProps(perms, disabled, dir, root).oc
           ocs == PermissionProps(perms, disabled, dir, root).ocs
           ocm == PermissionProps(perms, disabled, dir, root).ocm
<1>1. oc = encode_permissions(p, dir, FALSE, FALSE, "update" \in p)  BY DEF PermissionProps
<1>2. ocs = compute_share_permissions(p, dir, root)  BY DEF PermissionProps
<1>3. ocm = permissions_to_ocm_json(ocs)  BY DEF PermissionProps
<1>4. "share" \in p <=> "share" \in perms /\ ~disabled  BY DEF apply_sharing_mask
<1> HIDE DEF p, oc, ocs, ocm
<1>5. "R" \in oc <=> "share" \in p  BY <1>1 DEF encode_permissions
<1>6. "share" \in ocs <=> "share" \in p  BY <1>2 DEF compute_share_permissions
<1>7. "share" \in ocm <=> "share" \in ocs  BY <1>3 DEF permissions_to_ocm_json
<1>8. "write" \in ocm <=> "create" \in ocs \/ "update" \in ocs  BY <1>3 DEF permissions_to_ocm_json
<1>9. /\ "V" \in oc <=> "update" \in p
      /\ "W" \in oc <=> "update" \in p /\ ~dir
      /\ "C" \in oc <=> "create" \in p /\ dir
  BY <1>1 DEF encode_permissions
<1>10. /\ "update" \in ocs <=> "update" \in p \/ root
       /\ "create" \in ocs <=> "create" \in p /\ dir
  BY <1>2 DEF compute_share_permissions
<1>11. oc \cap {"V", "W", "C"} # {} <=> "V" \in oc \/ "W" \in oc \/ "C" \in oc  OBVIOUS
<1>12. \A offered \in {"R" \in oc, "share" \in ocs, "share" \in ocm} :
          offered <=> ("share" \in perms /\ ~disabled)
  BY <1>4, <1>5, <1>6, <1>7
<1>13. oc \cap {"V", "W", "C"} # {} => "write" \in ocm  BY <1>8, <1>9, <1>10, <1>11
<1>14. "write" \in ocm /\ ~root => oc \cap {"V", "W", "C"} # {}  BY <1>8, <1>9, <1>10, <1>11
<1> QED BY <1>12, <1>13, <1>14 DEF oc, ocs, ocm

(* PropfindAgrees: the listings and the permissions.                       *)
THEOREM PropfindAlwaysAgrees == Spec => []PropfindAgrees
<1>1. IsInput => ListingAgrees
  <2> SUFFICES ASSUME IsInput, in.fn = "listing"  PROVE ListingAgrees
    BY DEF ListingAgrees
  <2>1. Node(in.node) /\ in.backend \in {"pg", "sqlite"}  BY InputsAssumption DEF IsInput
  <2> QED BY <2>1, ListingOfOneNode DEF ListingAgrees, Gap
<1>2. PermissionsAgree
  BY PermissionsOfOneNode DEF PermissionsAgree
<1> QED BY <1>1, <1>2, AlwaysInput, PTL DEF PropfindAgrees
=============================================================================
