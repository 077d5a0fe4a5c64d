------------------------- MODULE CapabilitiesProofs -------------------------
(***************************************************************************)
(* Proofs about a FastCGI exchange and the capability cache, for whatever  *)
(* PHP writes, however it is cut into records, and any timeout.            *)
(***************************************************************************)
EXTENDS Capabilities, SequenceTheorems, WellFoundedInduction, TLAPS

(* The separator of the header block is the first one there is.            *)
LEMMA FirstSeparator ==
    ASSUME NEW s \in Seq(Tokens), HasSeparator(s)
    PROVE  SeparatorAt(s) \in Separators(s) /\ \A j \in Separators(s) : SeparatorAt(s) <= j
<1>0. Len(s) \in Nat
  BY LenProperties
<1>1. Separators(s) \subseteq Nat /\ Separators(s) # {}
  BY <1>0 DEF Separators, HasSeparator
<1>2. PICK x \in Separators(s) : \A y \in Separators(s) : ~(<<y, x>> \in OpToRel(<, Nat))
  BY <1>1, WFMin, NatLessThanWellFounded, Zenon
<1>3. ASSUME NEW y \in Separators(s) PROVE x <= y
  <2>1. x \in Nat /\ y \in Nat
    BY <1>1
  <2>2. ~(y < x)
    BY <1>2, <2>1, Zenon DEF OpToRel
  <2> QED
    BY <2>1, <2>2
<1> QED
  BY <1>2, <1>3 DEF SeparatorAt

(* What comes after the headers does not move them: more output is only    *)
(* appended to the body (parse_streaming_headers, CgiBodyStream).          *)
LEMMA BodyGrows ==
    ASSUME NEW s \in Seq(Tokens), NEW t \in Seq(Tokens), HasSeparator(s)
    PROVE  HasSeparator(s \o t) /\ AfterHeaders(s \o t) = AfterHeaders(s) \o t
<1> DEFINE u == s \o t
           p == SeparatorAt(s)
<1>0. Len(s) \in Nat /\ Len(t) \in Nat
  BY LenProperties
<1>1. /\ u \in Seq(Tokens) /\ Len(u) = Len(s) + Len(t)
      /\ \A i \in 1..(Len(s) + Len(t)) : u[i] = IF i <= Len(s) THEN s[i] ELSE t[i - Len(s)]
  BY ConcatProperties
<1>2. p \in Separators(s) /\ \A j \in Separators(s) : p <= j
  BY FirstSeparator
<1>3. p \in 1..(Len(s) - 1) /\ s[p] = "crlf" /\ s[p + 1] = "crlf"
  BY <1>2 DEF Separators
<1> HIDE DEF u, p
<1>4. p \in Separators(u)
  BY <1>0, <1>1, <1>3 DEF Separators
<1>5. HasSeparator(u)
  BY <1>4 DEF HasSeparator
<1>6. SeparatorAt(u) \in Separators(u) /\ \A j \in Separators(u) : SeparatorAt(u) <= j
  BY <1>1, <1>5, FirstSeparator
<1>7. SeparatorAt(u) = p
  <2> DEFINE q == SeparatorAt(u)
  <2>1. q \in 1..(Len(u) - 1) /\ u[q] = "crlf" /\ u[q + 1] = "crlf" /\ q <= p
    BY <1>4, <1>6 DEF Separators
  <2> HIDE DEF q
  <2>2. q \in 1..(Len(s) - 1) /\ s[q] = "crlf" /\ s[q + 1] = "crlf"
    BY <1>0, <1>1, <1>3, <2>1
  <2>3. p <= q
    BY <1>2, <2>2 DEF Separators
  <2> QED
    BY <1>3, <2>1, <2>3 DEF q
<1>8. SubSeq(u, p + 2, Len(u)) = SubSeq(s, p + 2, Len(s)) \o t
  <2> DEFINE a == SubSeq(s, p + 2, Len(s))
             b == SubSeq(u, p + 2, Len(u))
  <2>1. \A i \in (p + 2)..Len(s) : s[i] \in Tokens
    BY <1>0, <1>3, ElementOfSeq
  <2>2. \A i \in (p + 2)..Len(u) : u[i] \in Tokens
    BY <1>0, <1>1, <1>3, ElementOfSeq
  <2>3. p + 2 \in Int /\ Len(s) \in Int /\ Len(u) \in Int
    BY <1>0, <1>1, <1>3
  <2>4. /\ a \in Seq(Tokens) /\ Len(a) = Len(s) - p - 1
        /\ \A i \in 1..(Len(s) - p - 1) : a[i] = s[p + i + 1]
    BY <1>0, <1>3, <2>1, <2>3, SubSeqProperties
  <2>5. /\ b \in Seq(Tokens) /\ Len(b) = Len(u) - p - 1
        /\ \A i \in 1..(Len(u) - p - 1) : b[i] = u[p + i + 1]
    BY <1>0, <1>1, <1>3, <2>2, <2>3, SubSeqProperties
  <2> HIDE DEF a, b
  <2>6. /\ a \o t \in Seq(Tokens) /\ Len(a \o t) = Len(a) + Len(t)
        /\ \A i \in 1..(Len(a) + Len(t)) : (a \o t)[i] = IF i <= Len(a) THEN a[i] ELSE t[i - Len(a)]
    BY <2>4, ConcatProperties
  <2>7. Len(b) = Len(a \o t)
    BY <1>0, <1>1, <1>3, <2>4, <2>5, <2>6
  <2>8. ASSUME NEW i \in 1..Len(b) PROVE b[i] = (a \o t)[i]
    <3>1. b[i] = u[p + i + 1] /\ p + i + 1 \in 1..Len(u)
      BY <1>0, <1>1, <1>3, <2>5
    <3>2. CASE i <= Len(a)
      <4>1. p + i + 1 <= Len(s)
        BY <1>0, <1>3, <2>4, <3>2
      <4>2. u[p + i + 1] = s[p + i + 1]
        BY <1>0, <1>1, <3>1, <4>1
      <4>3. (a \o t)[i] = a[i] /\ a[i] = s[p + i + 1]
        BY <1>0, <1>3, <2>4, <2>6, <2>7, <3>2
      <4> QED
        BY <3>1, <4>2, <4>3
    <3>3. CASE i > Len(a)
      <4>1. p + i + 1 > Len(s) /\ (p + i + 1) - Len(s) = i - Len(a)
        BY <1>0, <1>3, <2>4, <3>3
      <4>2. u[p + i + 1] = t[i - Len(a)]
        BY <1>0, <1>1, <1>3, <2>4, <3>1, <4>1
      <4>3. (a \o t)[i] = t[i - Len(a)]
        BY <1>0, <1>3, <2>4, <2>6, <2>7, <3>3
      <4> QED
        BY <3>1, <4>2, <4>3
    <3>4. Len(a) \in Int /\ i \in Int
      BY <1>0, <1>1, <1>3, <2>4, <2>5
    <3>5. i <= Len(a) \/ i > Len(a)
      BY <3>4
    <3> QED
      BY <3>2, <3>3, <3>5
  <2>9. b = a \o t
    BY <2>5, <2>6, <2>7, <2>8, SeqEqual
  <2> QED
    BY <2>9 DEF a, b
<1> QED
  BY <1>5, <1>7, <1>8 DEF AfterHeaders, u, p

(* The tokens sent so far and the next record are what is sent after it.   *)
LEMMA SentGrows ==
    ASSUME NEW r \in Seq(Tokens), NEW k \in Nat, NEW n \in Nat \ {0}, k + n <= Len(r)
    PROVE  /\ SubSeq(r, 1, k) \in Seq(Tokens) /\ SubSeq(r, k + 1, k + n) \in Seq(Tokens)
           /\ SubSeq(r, 1, k) \o SubSeq(r, k + 1, k + n) = SubSeq(r, 1, k + n)
<1>0. Len(r) \in Nat
  BY LenProperties
<1>1. \A i \in 1..Len(r) : r[i] \in Tokens
  BY ElementOfSeq
<1>2. SubSeq(r, 1, k) \in Seq(Tokens)
  BY <1>0, <1>1, SubSeqProperties
<1>3. SubSeq(r, k + 1, k + n) \in Seq(Tokens)
  <2>1. \A i \in (k + 1)..(k + n) : r[i] \in Tokens
    BY <1>0, <1>1
  <2> QED
    BY <2>1, SubSeqProperties
<1>4. 1 \in 1..(Len(r) + 1) /\ k \in (1 - 1)..Len(r) /\ k + n \in k..Len(r)
  BY <1>0
<1>5. SubSeq(r, 1, k) \o SubSeq(r, k + 1, k + n) = SubSeq(r, 1, k + n)
  BY <1>4, ConcatAdjacentSubSeq
<1> QED
  BY <1>2, <1>3, <1>5

(* An answer that was cut short holds no payload: the document it begins   *)
(* is not closed (fetch_php_capabilities parses what it has collected).    *)
LEMMA CutPayload ==
    ASSUME NEW r \in Seq(Tokens), \A i \in 1..(Len(r) - 1) : r[i] # "close", NEW n \in 0..Len(r)
    PROVE  Payload(SubSeq(r, 1, n)) \in {<<>>, Payload(r)}
<1>0. Len(r) \in Nat /\ n \in Nat /\ n <= Len(r)
  BY LenProperties
<1>1. CASE n = Len(r)
  BY <1>1, SubSeqFull
<1>2. CASE n # Len(r)
  <2> DEFINE s == SubSeq(r, 1, n)
             p == SeparatorAt(s)
             body == AfterHeaders(s)
  <2>1. \A i \in 1..n : r[i] \in Tokens
    BY <1>0, ElementOfSeq
  <2>2. s \in Seq(Tokens) /\ Len(s) = n /\ \A i \in 1..n : s[i] = r[i]
    <3>1. 1 \in Int /\ n \in Int
      BY <1>0
    <3>2. /\ s \in Seq(Tokens) /\ Len(s) = IF 1 <= n THEN n - 1 + 1 ELSE 0
          /\ \A i \in 1..(n - 1 + 1) : s[i] = r[1 + i - 1]
      BY <2>1, <3>1, SubSeqProperties
    <3> HIDE DEF s
    <3> QED
      BY <1>0, <3>2
  <2> HIDE DEF s, p, body
  <2>3. ASSUME HasSeparator(s), Len(body) > 2 PROVE body[Len(body)] # "close"
    <3>1. p \in Separators(s)
      BY <2>2, <2>3, FirstSeparator DEF p
    <3>2. p \in 1..(n - 1)
      BY <2>2, <3>1 DEF Separators
    <3>3. body = SubSeq(s, p + 2, n)
      BY <2>2 DEF body, AfterHeaders, p
    <3>4. \A i \in (p + 2)..n : s[i] \in Tokens
      BY <1>0, <2>1, <2>2, <3>2
    <3>5. /\ Len(body) = n - p - 1
          /\ \A i \in 1..(n - p - 1) : body[i] = s[p + i + 1]
      <4>1. p + 2 \in Int /\ n \in Int
        BY <1>0, <3>2
      <4> QED
        BY <1>0, <3>2, <3>3, <3>4, <4>1, SubSeqProperties
    <3>6. body[Len(body)] = s[n]
      BY <1>0, <2>3, <3>2, <3>5
    <3>7. n \in 1..n /\ n \in 1..(Len(r) - 1)
      BY <1>0, <1>2, <3>2
    <3> QED
      BY <2>2, <3>6, <3>7
  <2>4. Payload(s) = <<>>
    BY <2>3 DEF Payload, body
  <2> QED
    BY <2>4 DEF s
<1> QED
  BY <1>1, <1>2

----------------------------------------------------------------------------
(* The exchange. *)
ExKinds == {"proxy", "caps", "public"}
Before  == {"idle", "body", "connect", "execute"}
Phases  == Before \cup {"headers", "stream", "collect", "done"}
Codes   == {0, 200, 404, 413, 502, 504}
CapSets == {<<>>, <<"public">>, <<"public", "private">>}
Text    == Seq(Tokens)
ExT     == [kind : ExKinds, pc : Phases, left : Nat, spent : Nat, reply : Text, sent : Nat, noise : Nat,
            accum : Text, prefix : Text, out : Text, status : Codes, cut : BOOLEAN, caps : CapSets]

(* One timer for each of connect, execute and the header block.            *)
Budget(e) ==
    /\ e.pc \in {"idle", "body"} => e.spent = 0
    /\ e.pc = "connect" => e.spent + e.left <= Timeout
    /\ e.pc = "execute" => e.spent + e.left <= 2 * Timeout
    /\ e.pc = "headers" => e.spent + e.left <= 3 * Timeout
    /\ e.spent <= 3 * Timeout

(* Where the output of PHP is: still unread, accumulated, or parsed and    *)
(* handed on.                                                              *)
Seen(e)  == SubSeq(e.reply, 1, e.sent)
Blank(e) == e.out = <<>> /\ e.prefix = <<>> /\ e.status = 0 /\ e.caps = <<>>
Opened(e)  == e.pc \in Before => Blank(e) /\ e.sent = 0 /\ e.accum = <<>>
Reads(e) ==
    e.pc \in {"headers", "stream", "collect"} =>
        /\ e.reply \in Replies[e.kind] /\ e.sent <= Len(e.reply)
        /\ e.pc = "collect" <=> e.kind # "proxy"
Collects(e) == e.pc \in {"headers", "collect"} => Blank(e) /\ e.accum = Seen(e)
Streams(e) ==
    e.pc = "stream" => /\ e.status \in {200, 404} /\ e.caps = <<>>
                       /\ HasSeparator(Seen(e)) /\ e.out \o e.prefix = AfterHeaders(Seen(e))
Ended(e) ==
    e.pc = "done" =>
        /\ e.kind = "proxy" /\ e.status \in {200, 404} /\ ~e.cut => e.out = AfterHeaders(e.reply)
        /\ e.status \in {413, 502, 504} => e.out = <<>>
        /\ e.kind = "caps" => e.caps \in {<<>>, <<"public", "private">>}
        /\ e.kind = "public" => e.caps \in {<<>>, <<"public">>}
Exchange(e) == e \in ExT /\ Budget(e) /\ Opened(e) /\ Reads(e) /\ Collects(e) /\ Streams(e) /\ Ended(e)

SameWho(f, e)  == f.kind = e.kind /\ f.reply = e.reply
SameTime(f, e) == f.left = e.left /\ f.spent = e.spent
SameSent(f, e) == f.sent = e.sent /\ f.accum = e.accum
SameOut(f, e)  == f.prefix = e.prefix /\ f.out = e.out
SameEnd(f, e)  == f.status = e.status /\ f.cut = e.cut /\ f.caps = e.caps

(* The empty sequence and the constants of the records.                    *)
LEMMA Empty == /\ <<>> \in Text /\ <<>> \in CapSets /\ 0 \in Codes /\ Len(<<>>) = 0 /\ Timeout \in Nat
BY EmptySeq, FastCgiAssumption DEF Text, CapSets, Codes

(* ToPhase(e, phase) starts the timer of a phase.                          *)
LEMMA ToPhaseTyped ==
    ASSUME NEW e \in ExT, NEW p \in Phases
    PROVE  LET f == ToPhase(e, p)
           IN /\ f \in ExT /\ f.pc = p /\ f.left = Timeout /\ f.spent = e.spent
              /\ SameWho(f, e) /\ SameSent(f, e) /\ SameOut(f, e) /\ SameEnd(f, e)
BY Empty DEF ToPhase, ExT, SameWho, SameSent, SameOut, SameEnd

(* error_response(e, code) ends the exchange.                              *)
LEMMA ErrorTyped ==
    ASSUME NEW e \in ExT, NEW c \in Codes
    PROVE  LET f == error_response(e, c)
           IN /\ f \in ExT /\ f.pc = "done" /\ f.status = c /\ f.cut = e.cut /\ f.caps = e.caps
              /\ SameWho(f, e) /\ SameTime(f, e) /\ SameSent(f, e) /\ SameOut(f, e)
<1>1. "done" \in Phases
  BY DEF Phases
<1> QED
  BY <1>1 DEF error_response, ExT, SameWho, SameTime, SameSent, SameOut

(* A refused or failed request keeps nothing of PHP's output.              *)
LEMMA ErrorKeeps ==
    ASSUME NEW e, Exchange(e), e.out = <<>>, e.caps = <<>>, NEW c \in {413, 502, 504}
    PROVE  Exchange(error_response(e, c)) /\ error_response(e, c).kind = e.kind
           /\ error_response(e, c).pc = "done" /\ error_response(e, c).caps = <<>>
<1> DEFINE f == error_response(e, c)
<1>0. c \in Codes /\ c \notin {200, 404}
  BY DEF Codes
<1>1. /\ f \in ExT /\ f.pc = "done" /\ f.status = c /\ f.cut = e.cut /\ f.caps = e.caps
      /\ SameWho(f, e) /\ SameTime(f, e) /\ SameSent(f, e) /\ SameOut(f, e)
  BY <1>0, ErrorTyped DEF Exchange
<1> HIDE DEF f
<1>2. Budget(f)
  BY <1>1 DEF Exchange, Budget, SameTime
<1>3. Opened(f) /\ Reads(f) /\ Collects(f) /\ Streams(f)
  BY <1>1 DEF Opened, Reads, Collects, Streams, Before
<1>4. Ended(f)
  BY <1>0, <1>1 DEF Ended, SameOut
<1> QED
  BY <1>1, <1>2, <1>3, <1>4 DEF Exchange, SameWho, f

(* The first phases: nothing is sent yet, each with a timer of its own.    *)
LEMMA ToPhaseKeeps ==
    ASSUME NEW e, Exchange(e), NEW p,
           (e.pc \in {"idle", "body"} /\ p = "connect") \/ (e.pc = "connect" /\ p = "execute")
    PROVE  Exchange(ToPhase(e, p)) /\ ToPhase(e, p).kind = e.kind /\ ToPhase(e, p).caps = <<>>
           /\ ToPhase(e, p).pc = p
<1> DEFINE f == ToPhase(e, p)
<1>0. p \in Phases /\ p \in Before /\ e.pc \in Before /\ e \in ExT
  BY DEF Phases, Before, Exchange
<1>1. /\ f \in ExT /\ f.pc = p /\ f.left = Timeout /\ f.spent = e.spent
      /\ SameWho(f, e) /\ SameSent(f, e) /\ SameOut(f, e) /\ SameEnd(f, e)
  BY <1>0, ToPhaseTyped
<1>t. Timeout \in Nat /\ e.spent \in Nat /\ e.left \in Nat
  BY <1>0, Empty DEF ExT
<1> HIDE DEF f
<1>2. Budget(f)
  <2>1. e.pc \in {"idle", "body"} => e.spent = 0
    BY DEF Exchange, Budget
  <2>2. e.pc = "connect" => e.spent + e.left <= Timeout
    BY DEF Exchange, Budget
  <2> QED
    BY <1>1, <1>t, <2>1, <2>2 DEF Budget
<1>3. Opened(f)
  BY <1>0, <1>1 DEF Exchange, Opened, Blank, SameSent, SameOut, SameEnd
<1>4. Reads(f) /\ Collects(f) /\ Streams(f) /\ Ended(f)
  BY <1>0, <1>1 DEF Reads, Collects, Streams, Ended, Before
<1> QED
  BY <1>0, <1>1, <1>2, <1>3, <1>4 DEF Exchange, Opened, Blank, SameWho, f

Replying(e, p, r) == [ToPhase(e, p) EXCEPT !.reply = r]

(* Execute: PHP has the request and may answer.                            *)
LEMMA ReplyKeeps ==
    ASSUME NEW e, Exchange(e), e.pc = "execute", NEW r \in Replies[e.kind]
    PROVE  LET f == Replying(e, IF e.kind = "proxy" THEN "headers" ELSE "collect", r)
           IN Exchange(f) /\ f.kind = e.kind /\ f.caps = <<>>
<1> DEFINE p == IF e.kind = "proxy" THEN "headers" ELSE "collect"
           g == ToPhase(e, p)
           f == [g EXCEPT !.reply = r]
<1>0. p \in Phases /\ e \in ExT /\ e.pc \in Before
  BY DEF Phases, Before, Exchange
<1>k. e.kind \in ExKinds /\ e.spent \in Nat /\ e.left \in Nat /\ Timeout \in Nat
  BY <1>0, Empty DEF ExT
<1>r. r \in Text
  BY <1>k, FastCgiAssumption DEF ExKinds, Text
<1>1. /\ g \in ExT /\ g.pc = p /\ g.left = Timeout /\ g.spent = e.spent
      /\ SameWho(g, e) /\ SameSent(g, e) /\ SameOut(g, e) /\ SameEnd(g, e)
  <2> HIDE DEF p
  <2> QED
    BY <1>0, ToPhaseTyped
<1>p. (p = "headers" /\ e.kind = "proxy") \/ (p = "collect" /\ e.kind # "proxy")
  OBVIOUS
<1> HIDE DEF g, p
<1>2. /\ f \in ExT /\ f.pc = p /\ f.left = Timeout /\ f.spent = e.spent /\ f.reply = r /\ f.kind = e.kind
      /\ SameSent(f, e) /\ SameOut(f, e) /\ SameEnd(f, e)
  BY <1>1, <1>r DEF ExT, SameSent, SameOut, SameEnd, SameWho
<1> HIDE DEF f
<1>3. Budget(f)
  <2>1. e.spent + e.left <= 2 * Timeout
    BY DEF Exchange, Budget
  <2> QED
    BY <1>2, <1>k, <1>p, <2>1 DEF Budget
<1>4. Blank(e) /\ e.sent = 0 /\ e.accum = <<>>
  BY <1>0 DEF Exchange, Opened
<1>5. Blank(f) /\ f.sent = 0 /\ f.accum = <<>>
  BY <1>2, <1>4 DEF Blank, SameSent, SameOut, SameEnd
<1>6. Reads(f)
  <2>1. Len(r) \in Nat
    BY <1>r, LenProperties DEF Text
  <2>2. 0 <= Len(r)
    BY <2>1
  <2> QED
    BY <1>2, <1>5, <1>p, <2>2 DEF Reads
<1>7. Collects(f)
  <2>1. SubSeq(r, 1, 0) = <<>>
    BY SubSeqEmpty
  <2> QED
    BY <1>2, <1>5, <2>1 DEF Collects, Seen
<1>8. Opened(f) /\ Streams(f) /\ Ended(f)
  BY <1>2, <1>p DEF Opened, Streams, Ended, Before
<1>9. Exchange(f) /\ f.kind = e.kind /\ f.caps = <<>>
  BY <1>2, <1>3, <1>5, <1>6, <1>7, <1>8 DEF Exchange, Blank
<1> QED
  BY <1>9 DEF f, g, p, Replying

(* Where the output is does not depend on the timers or on stderr.         *)
LEMMA FlowKept ==
    ASSUME NEW e, NEW f, Exchange(e), f.pc = e.pc, SameWho(f, e), SameSent(f, e), SameOut(f, e), SameEnd(f, e)
    PROVE  Opened(f) /\ Reads(f) /\ Collects(f) /\ Streams(f) /\ Ended(f)
<1>1. /\ f.kind = e.kind /\ f.reply = e.reply /\ f.sent = e.sent /\ f.accum = e.accum /\ f.prefix = e.prefix
      /\ f.out = e.out /\ f.status = e.status /\ f.cut = e.cut /\ f.caps = e.caps /\ f.pc = e.pc
  BY DEF SameWho, SameSent, SameOut, SameEnd
<1>2. Seen(f) = Seen(e) /\ (Blank(f) <=> Blank(e))
  BY <1>1 DEF Seen, Blank
<1>3. Opened(f) /\ Reads(f)
  BY <1>1, <1>2 DEF Exchange, Opened, Reads
<1>4. Collects(f) /\ Streams(f)
  BY <1>1, <1>2 DEF Exchange, Collects, Streams
<1>5. Ended(f)
  <2>1. Ended(e)
    BY DEF Exchange
  <2> QED
    BY <1>1, <2>1, SMT DEF Ended
<1> QED
  BY <1>3, <1>4, <1>5

Ticked(e) == [e EXCEPT !.left = @ - 1, !.spent = @ + 1]

(* Tick: what a timer loses the request has spent.                         *)
LEMMA TickKeeps ==
    ASSUME NEW e, Exchange(e), e.pc \in Timed, e.left > 0
    PROVE  Exchange(Ticked(e)) /\ Ticked(e).kind = e.kind /\ Ticked(e).caps = e.caps /\ Ticked(e).pc = e.pc
<1> DEFINE f == Ticked(e)
<1>0. e \in ExT /\ e.left \in Nat /\ e.spent \in Nat /\ Timeout \in Nat
  BY Empty DEF Exchange, ExT
<1>n. e.left - 1 \in Nat /\ e.spent + 1 \in Nat
  BY <1>0
<1>1. /\ f \in ExT /\ f.pc = e.pc /\ f.left = e.left - 1 /\ f.spent = e.spent + 1
      /\ SameWho(f, e) /\ SameSent(f, e) /\ SameOut(f, e) /\ SameEnd(f, e)
  BY <1>0, <1>n DEF Ticked, ExT, SameWho, SameSent, SameOut, SameEnd
<1> HIDE DEF f
<1>2. Budget(f)
  <2>1. /\ e.pc = "connect" => e.spent + e.left <= Timeout
        /\ e.pc = "execute" => e.spent + e.left <= 2 * Timeout
        /\ e.pc = "headers" => e.spent + e.left <= 3 * Timeout
    BY DEF Exchange, Budget
  <2> QED
    BY <1>0, <1>1, <2>1 DEF Budget, Timed
<1>3. Opened(f) /\ Reads(f) /\ Collects(f) /\ Streams(f) /\ Ended(f)
  BY <1>1, FlowKept
<1> QED
  BY <1>1, <1>2, <1>3 DEF Exchange, SameWho, SameEnd, f

(* A fetch has capabilities, or is about to.                               *)
Fetching(e) == e.pc = "collect" \/ e.caps # <<>>

Sent(e, n)      == [e EXCEPT !.sent = @ + n]
Kept(e, bytes)  == [e EXCEPT !.accum = bytes]
Parsed(e, code, rest) ==
    [e EXCEPT !.pc = "stream", !.accum = <<>>, !.status = code, !.prefix = rest]
Passed(e, more) == [e EXCEPT !.out = @ \o more]

(* The records that the reading of a record may leave: more was sent,      *)
LEMMA SentTyped ==
    ASSUME NEW e \in ExT, NEW n \in Nat
    PROVE  LET f == Sent(e, n)
           IN /\ f \in ExT /\ f.sent = e.sent + n /\ f.pc = e.pc /\ f.accum = e.accum
              /\ SameWho(f, e) /\ SameTime(f, e) /\ SameOut(f, e) /\ SameEnd(f, e)
<1>1. e.sent \in Nat
  BY DEF ExT
<1>2. e.sent + n \in Nat
  BY <1>1
<1> QED
  BY <1>2 DEF Sent, ExT, SameWho, SameTime, SameOut, SameEnd

(* more was read,                                                          *)
LEMMA KeptTyped ==
    ASSUME NEW e \in ExT, NEW b \in Text
    PROVE  LET f == Kept(e, b)
           IN /\ f \in ExT /\ f.accum = b /\ f.sent = e.sent /\ f.pc = e.pc
              /\ SameWho(f, e) /\ SameTime(f, e) /\ SameOut(f, e) /\ SameEnd(f, e)
BY DEF Kept, ExT, SameWho, SameTime, SameOut, SameEnd

(* the header block was parsed,                                            *)
LEMMA ParsedTyped ==
    ASSUME NEW e \in ExT, NEW c \in Codes, NEW b \in Text
    PROVE  LET f == Parsed(e, c, b)
           IN /\ f \in ExT /\ f.pc = "stream" /\ f.status = c /\ f.prefix = b /\ f.out = e.out
              /\ f.caps = e.caps /\ f.sent = e.sent /\ SameWho(f, e) /\ SameTime(f, e)
<1>0. "stream" \in Phases /\ <<>> \in Text
  BY Empty DEF Phases
<1> QED
  BY <1>0 DEF Parsed, ExT, SameWho, SameTime

(* or more of the body was passed on.                                      *)
LEMMA PassedTyped ==
    ASSUME NEW e \in ExT, NEW b \in Text
    PROVE  LET f == Passed(e, b)
           IN /\ f \in ExT /\ f.out = e.out \o b /\ f.prefix = e.prefix /\ f.pc = e.pc
              /\ SameWho(f, e) /\ SameTime(f, e) /\ SameSent(f, e) /\ SameEnd(f, e)
<1>1. e.out \in Text
  BY DEF ExT
<1>2. e.out \o b \in Text
  BY <1>1, ConcatProperties DEF Text
<1> QED
  BY <1>2 DEF Passed, ExT, SameWho, SameTime, SameSent, SameEnd

(* Stdout: however PHP's output is cut into records, the header block is   *)
(* looked for in all that was read, and the rest is passed on in order.    *)
LEMMA ReceiveKeeps ==
    ASSUME NEW e, Exchange(e), e.pc \in {"headers", "stream", "collect"}, e.prefix = <<>>,
           NEW n \in Nat \ {0}, e.sent + n <= Len(e.reply)
    PROVE  LET f == Receive(Sent(e, n), SubSeq(e.reply, e.sent + 1, e.sent + n))
           IN Exchange(f) /\ f.kind = e.kind /\ (Fetching(f) => Fetching(e))
<1> DEFINE g == Sent(e, n)
           k == e.sent
           record == SubSeq(e.reply, k + 1, k + n)
           seen == SubSeq(e.reply, 1, k)
           all  == SubSeq(e.reply, 1, k + n)
           f == Receive(g, record)
<1>0. e \in ExT /\ e.reply \in Seq(Tokens) /\ e.sent \in Nat /\ k + n <= Len(e.reply) /\ k \in Nat /\ e.out \in Text
  BY DEF Exchange, ExT, Text
<1>1. /\ g \in ExT /\ g.sent = k + n /\ g.pc = e.pc /\ g.accum = e.accum
      /\ g.kind = e.kind /\ g.reply = e.reply /\ g.left = e.left /\ g.spent = e.spent
      /\ g.prefix = <<>> /\ g.out = e.out /\ g.status = e.status /\ g.cut = e.cut /\ g.caps = e.caps
  BY <1>0, SentTyped DEF SameWho, SameTime, SameOut, SameEnd
<1>2. seen \in Text /\ record \in Text /\ seen \o record = all /\ all \in Text
  <2>1. seen \in Text /\ record \in Text /\ seen \o record = all
    <3> HIDE DEF k
    <3> QED
      BY <1>0, SentGrows DEF Text
  <2>2. all \in Text
    BY <2>1, ConcatProperties DEF Text
  <2> QED
    BY <2>1, <2>2
<1>3. /\ e.reply \in Replies[e.kind] /\ (e.pc = "collect" <=> e.kind # "proxy")
  BY DEF Exchange, Reads
<1>b. Budget(e)
  BY DEF Exchange
<1>4. CASE e.pc = "collect"
  <2>1. f = Kept(g, e.accum \o record)
    BY <1>1, <1>4 DEF Receive, Kept
  <2>2. e.accum = seen /\ Blank(e)
    BY <1>4 DEF Exchange, Collects, Seen
  <2>3. f = Kept(g, all)
    BY <1>2, <2>1, <2>2
  <2> HIDE DEF f, g, all, seen, record
  <2>4. /\ f \in ExT /\ f.accum = all /\ f.sent = k + n /\ f.pc = "collect"
        /\ f.kind = e.kind /\ f.reply = e.reply /\ f.spent = e.spent
        /\ f.prefix = <<>> /\ f.out = e.out /\ f.status = e.status /\ f.caps = e.caps
    BY <1>1, <1>2, <1>4, <2>3, KeptTyped DEF SameWho, SameTime, SameOut, SameEnd
  <2>5. Budget(f)
    BY <1>b, <2>4 DEF Budget
  <2>6. Reads(f)
    BY <1>0, <1>3, <1>4, <2>4 DEF Reads
  <2>7. Collects(f)
    BY <2>2, <2>4 DEF Collects, Blank, Seen, all
  <2>8. Opened(f) /\ Streams(f) /\ Ended(f)
    BY <2>4 DEF Opened, Streams, Ended, Before
  <2> QED
    BY <1>4, <2>4, <2>5, <2>6, <2>7, <2>8 DEF Exchange, Fetching, f, g, record
<1>5. CASE e.pc = "stream"
  <2>1. f = Passed(g, record)
    BY <1>1, <1>5 DEF Receive, Passed
  <2>2. /\ e.status \in {200, 404} /\ e.caps = <<>> /\ HasSeparator(seen) /\ e.out \o e.prefix = AfterHeaders(seen)
    BY <1>5 DEF Exchange, Streams, Seen
  <2>3. e.out = AfterHeaders(seen)
    BY <1>0, <2>2, ConcatEmptySeq DEF Text
  <2>4. HasSeparator(all) /\ AfterHeaders(all) = AfterHeaders(seen) \o record
    <3> HIDE DEF seen, record, all
    <3> QED
      BY <1>2, <2>2, BodyGrows DEF Text
  <2> HIDE DEF f, g, all, seen, record
  <2>5. /\ f \in ExT /\ f.sent = k + n /\ f.pc = "stream" /\ f.out = e.out \o record /\ f.prefix = <<>>
        /\ f.kind = e.kind /\ f.reply = e.reply /\ f.spent = e.spent
        /\ f.status = e.status /\ f.caps = e.caps
    <3>1. /\ f \in ExT /\ f.out = g.out \o record /\ f.prefix = g.prefix /\ f.pc = g.pc
          /\ SameWho(f, g) /\ SameTime(f, g) /\ SameSent(f, g) /\ SameEnd(f, g)
      BY <1>1, <1>2, <2>1, PassedTyped
    <3> QED
      BY <1>1, <1>5, <3>1 DEF SameWho, SameTime, SameSent, SameEnd
  <2>6. Budget(f)
    BY <1>b, <2>5 DEF Budget
  <2>7. Reads(f)
    BY <1>0, <1>3, <1>5, <2>5 DEF Reads
  <2>8. Streams(f)
    <3>1. f.out = AfterHeaders(all) /\ f.out \in Text
      BY <2>3, <2>4, <2>5 DEF ExT
    <3>2. f.out \o f.prefix = f.out
      BY <2>5, <3>1, ConcatEmptySeq DEF Text
    <3>3. Seen(f) = all
      BY <2>5 DEF Seen, all
    <3> QED
      BY <2>2, <2>4, <2>5, <3>1, <3>2, <3>3 DEF Streams
  <2>9. Opened(f) /\ Collects(f) /\ Ended(f)
    BY <2>5 DEF Opened, Collects, Ended, Before
  <2> QED
    BY <2>2, <2>5, <2>6, <2>7, <2>8, <2>9 DEF Exchange, Fetching, f, g, record
<1>6. CASE e.pc = "headers"
  <2>1. f = ParseHeaders(g, e.accum \o record)
    BY <1>1, <1>6 DEF Receive
  <2>2. e.accum = seen /\ Blank(e)
    BY <1>6 DEF Exchange, Collects, Seen
  <2>3. f = ParseHeaders(g, all)
    BY <1>2, <2>1, <2>2
  <2> DEFINE code == parse_cgi_header_block(HeaderBlock(all)).status
  <2>4. code \in {200, 404} /\ code \in Codes
    BY DEF parse_cgi_header_block, Codes
  <2>5. \/ f = error_response(g, 502) \/ f = Kept(g, all)
        \/ HasSeparator(all) /\ f = Parsed(g, code, AfterHeaders(all))
    BY <2>3 DEF ParseHeaders, Kept, Parsed
  <2>g. Exchange(error_response(g, 502)) /\ error_response(g, 502).kind = e.kind /\ ~Fetching(error_response(g, 502))
    <3> DEFINE h == error_response(g, 502)
    <3> HIDE DEF g
    <3>0. 502 \in Codes
      BY DEF Codes
    <3>1. /\ h \in ExT /\ h.pc = "done" /\ h.status = 502 /\ h.caps = g.caps
          /\ SameWho(h, g) /\ SameTime(h, g) /\ SameOut(h, g)
      BY <1>1, <3>0, ErrorTyped
    <3> HIDE DEF h
    <3>2. h.out = <<>> /\ h.caps = <<>> /\ h.kind = e.kind /\ h.spent = e.spent
      BY <1>1, <2>2, <3>1 DEF Blank, SameWho, SameTime, SameOut
    <3>3. Budget(h)
      BY <1>b, <3>1, <3>2 DEF Budget
    <3>4. Opened(h) /\ Reads(h) /\ Collects(h) /\ Streams(h)
      BY <3>1 DEF Opened, Reads, Collects, Streams, Before
    <3>5. Ended(h)
      BY <3>1, <3>2 DEF Ended
    <3> QED
      BY <3>1, <3>2, <3>3, <3>4, <3>5 DEF Exchange, Fetching, h
  <2>6. CASE f = error_response(g, 502)
    <3> HIDE DEF f, g
    <3>1. Exchange(f) /\ f.kind = e.kind /\ ~Fetching(f)
      BY <2>6, <2>g
    <3> QED
      BY <3>1 DEF f, g, record
  <2>7. CASE f = Kept(g, all)
    <3> HIDE DEF f, g, all, seen, record
    <3>1. /\ f \in ExT /\ f.accum = all /\ f.sent = k + n /\ f.pc = "headers"
          /\ f.kind = e.kind /\ f.reply = e.reply /\ f.spent = e.spent /\ f.left = e.left
          /\ f.prefix = <<>> /\ f.out = e.out /\ f.status = e.status /\ f.caps = e.caps
      BY <1>1, <1>2, <1>6, <2>7, KeptTyped DEF SameWho, SameTime, SameOut, SameEnd
    <3>2. Budget(f)
      BY <1>6, <1>b, <3>1 DEF Budget
    <3>3. Reads(f)
      BY <1>0, <1>3, <1>6, <3>1 DEF Reads
    <3>4. Collects(f)
      BY <2>2, <3>1 DEF Collects, Blank, Seen, all
    <3>5. Opened(f) /\ Streams(f) /\ Ended(f)
      BY <3>1 DEF Opened, Streams, Ended, Before
    <3> QED
      BY <2>2, <3>1, <3>2, <3>3, <3>4, <3>5 DEF Exchange, Fetching, Blank, f, g, record
  <2>8. CASE HasSeparator(all) /\ f = Parsed(g, code, AfterHeaders(all))
    <3>0. AfterHeaders(all) \in Text
      <4> DEFINE p == SeparatorAt(all)
      <4>1. Len(all) \in Nat /\ p \in 1..(Len(all) - 1)
        <5> HIDE DEF all
        <5> QED
          BY <1>2, <2>8, LenProperties, FirstSeparator DEF Text, Separators
      <4> HIDE DEF p, all
      <4>2. \A i \in (p + 2)..Len(all) : all[i] \in Tokens
        <5>1. ASSUME NEW i \in (p + 2)..Len(all) PROVE i \in 1..Len(all)
          BY <4>1
        <5>2. all \in Seq(Tokens)
          BY <1>2 DEF Text
        <5> QED
          BY <5>1, <5>2, ElementOfSeq
      <4>3. SubSeq(all, p + 2, Len(all)) \in Seq(Tokens)
        BY <4>1, <4>2, SubSeqProperties
      <4> QED
        BY <4>3 DEF AfterHeaders, Text, p
    <3> HIDE DEF f, g, all, seen, record, code
    <3>1. /\ f \in ExT /\ f.sent = k + n /\ f.pc = "stream" /\ f.status = code
          /\ f.kind = e.kind /\ f.reply = e.reply /\ f.spent = e.spent
          /\ f.prefix = AfterHeaders(all) /\ f.out = e.out /\ f.caps = e.caps
      BY <1>1, <2>4, <2>8, <3>0, ParsedTyped DEF SameWho, SameTime
    <3>2. Budget(f)
      BY <1>b, <3>1 DEF Budget
    <3>3. Reads(f)
      BY <1>0, <1>3, <1>6, <3>1 DEF Reads
    <3>4. Streams(f)
      <4>1. f.out = <<>> /\ f.caps = <<>>
        BY <2>2, <3>1 DEF Blank
      <4>2. f.out \o f.prefix = AfterHeaders(all)
        BY <3>0, <3>1, <4>1, ConcatEmptySeq DEF Text
      <4>3. Seen(f) = all
        BY <3>1 DEF Seen, all
      <4> QED
        BY <2>4, <2>8, <3>1, <4>1, <4>2, <4>3 DEF Streams
    <3>5. Opened(f) /\ Collects(f) /\ Ended(f)
      BY <3>1 DEF Opened, Collects, Ended, Before
    <3> QED
      BY <2>2, <3>1, <3>2, <3>3, <3>4, <3>5 DEF Exchange, Fetching, Blank, f, g, record
  <2> QED
    BY <2>5, <2>6, <2>7, <2>8
<1> QED
  BY <1>4, <1>5, <1>6

Noisy(e)       == [e EXCEPT !.noise = @ + 1]
Drained(e)     == [e EXCEPT !.out = @ \o e.prefix, !.prefix = <<>>]
Closed(e)      == [e EXCEPT !.pc = "done"]
Broken(e)      == [e EXCEPT !.pc = "done", !.cut = TRUE]
Left(e)        == [e EXCEPT !.pc = "done", !.cut = TRUE, !.prefix = <<>>]
Fetches(e, cs) == [e EXCEPT !.pc = "done", !.caps = cs]

(* Stderr is not part of the answer.                                       *)
LEMMA NoiseKeeps ==
    ASSUME NEW e, Exchange(e)
    PROVE  Exchange(Noisy(e)) /\ Noisy(e).kind = e.kind /\ (Fetching(Noisy(e)) => Fetching(e))
<1> DEFINE f == Noisy(e)
<1>0. e \in ExT /\ e.noise + 1 \in Nat
  BY DEF Exchange, ExT
<1>1. /\ f \in ExT /\ f.pc = e.pc /\ SameTime(f, e)
      /\ SameWho(f, e) /\ SameSent(f, e) /\ SameOut(f, e) /\ SameEnd(f, e)
  BY <1>0 DEF Noisy, ExT, SameWho, SameTime, SameSent, SameOut, SameEnd
<1> HIDE DEF f
<1>2. Budget(f)
  BY <1>1 DEF Exchange, Budget, SameTime
<1>3. Opened(f) /\ Reads(f) /\ Collects(f) /\ Streams(f) /\ Ended(f)
  BY <1>1, FlowKept
<1> QED
  BY <1>1, <1>2, <1>3 DEF Exchange, Fetching, SameWho, SameEnd, f

(* DrainPrefix: the bytes that came with the headers go out first.         *)
LEMMA DrainKeeps ==
    ASSUME NEW e, Exchange(e), e.pc = "stream"
    PROVE  Exchange(Drained(e)) /\ Drained(e).kind = e.kind /\ (Fetching(Drained(e)) => Fetching(e))
<1> DEFINE f == Drained(e)
           o == e.out \o e.prefix
<1>0. e \in ExT /\ e.out \in Text /\ e.prefix \in Text
  BY DEF Exchange, ExT
<1>o. o \in Text /\ o \o <<>> = o
  <2>1. o \in Text
    BY <1>0, ConcatProperties DEF Text
  <2> HIDE DEF o
  <2> QED
    BY <2>1, ConcatEmptySeq DEF Text
<1>1. /\ f \in ExT /\ f.pc = e.pc /\ SameTime(f, e) /\ f.out = o /\ f.prefix = <<>>
      /\ SameWho(f, e) /\ SameSent(f, e) /\ SameEnd(f, e)
  BY <1>0, <1>o, Empty DEF Drained, ExT, SameWho, SameTime, SameSent, SameEnd
<1> HIDE DEF f
<1>2. Budget(f)
  BY <1>1 DEF Exchange, Budget, SameTime
<1>3. Reads(f)
  BY <1>1 DEF Exchange, Reads, SameWho, SameSent
<1>4. Streams(f)
  <2>1. Seen(f) = Seen(e)
    BY <1>1 DEF Seen, SameWho, SameSent
  <2>2. /\ e.status \in {200, 404} /\ e.caps = <<>> /\ HasSeparator(Seen(e)) /\ o = AfterHeaders(Seen(e))
    BY DEF Exchange, Streams
  <2>3. f.out \o f.prefix = o
    BY <1>1, <1>o
  <2> QED
    BY <1>1, <2>1, <2>2, <2>3 DEF Streams, SameEnd
<1>5. Opened(f) /\ Collects(f) /\ Ended(f)
  BY <1>1 DEF Opened, Collects, Ended, Before
<1> QED
  BY <1>1, <1>2, <1>3, <1>4, <1>5 DEF Exchange, Fetching, SameWho, SameEnd, f

(* StreamEnds of a proxied answer: all that PHP wrote after the headers    *)
(* was delivered.                                                          *)
LEMMA CloseKeeps ==
    ASSUME NEW e, Exchange(e), e.pc = "stream", e.prefix = <<>>, e.sent = Len(e.reply)
    PROVE  Exchange(Closed(e)) /\ Closed(e).kind = e.kind /\ (Fetching(Closed(e)) => Fetching(e))
<1> DEFINE f == Closed(e)
<1>0. e \in ExT /\ "done" \in Phases /\ e.out \in Text /\ e.reply \in Text
  BY DEF Exchange, ExT, Phases
<1>1. /\ f \in ExT /\ f.pc = "done" /\ SameTime(f, e)
      /\ SameWho(f, e) /\ SameSent(f, e) /\ SameOut(f, e) /\ SameEnd(f, e)
  BY <1>0 DEF Closed, ExT, SameWho, SameTime, SameSent, SameOut, SameEnd
<1>2. /\ e.status \in {200, 404} /\ e.caps = <<>> /\ e.out \o e.prefix = AfterHeaders(Seen(e))
  BY DEF Exchange, Streams
<1>3. e.out = AfterHeaders(e.reply)
  <2>1. e.out \o e.prefix = e.out
    BY <1>0, ConcatEmptySeq DEF Text
  <2>2. Seen(e) = e.reply
    BY <1>0, SubSeqFull DEF Seen, Text
  <2> QED
    BY <1>2, <2>1, <2>2
<1> HIDE DEF f
<1>4. Budget(f)
  BY <1>1 DEF Exchange, Budget, SameTime
<1>5. Opened(f) /\ Reads(f) /\ Collects(f) /\ Streams(f)
  BY <1>1 DEF Opened, Reads, Collects, Streams, Before
<1>6. Ended(f)
  BY <1>1, <1>2, <1>3 DEF Ended, SameWho, SameOut, SameEnd
<1> QED
  BY <1>1, <1>2, <1>4, <1>5, <1>6 DEF Exchange, Fetching, SameWho, SameEnd, f

(* A body that is cut, by PHP or by the client, is marked so.              *)
LEMMA CutKeeps ==
    ASSUME NEW e, Exchange(e), e.kind = "proxy", NEW f, f \in {Broken(e), Left(e)}, e.pc # "done"
    PROVE  Exchange(f) /\ f.kind = e.kind /\ (Fetching(f) => Fetching(e))
<1>0. e \in ExT /\ "done" \in Phases /\ <<>> \in Text /\ TRUE \in BOOLEAN
  BY Empty DEF Exchange, Phases
<1>b. /\ Broken(e) \in ExT /\ Broken(e).pc = "done" /\ Broken(e).out = e.out /\ Broken(e).kind = e.kind
      /\ Broken(e).status = e.status /\ Broken(e).spent = e.spent /\ Broken(e).caps = e.caps /\ Broken(e).cut = TRUE
  BY <1>0 DEF Broken, ExT
<1>l. /\ Left(e) \in ExT /\ Left(e).pc = "done" /\ Left(e).out = e.out /\ Left(e).kind = e.kind
      /\ Left(e).status = e.status /\ Left(e).spent = e.spent /\ Left(e).caps = e.caps /\ Left(e).cut = TRUE
  BY <1>0 DEF Left, ExT
<1>1. /\ f \in ExT /\ f.pc = "done" /\ f.out = e.out /\ f.kind = e.kind
      /\ f.status = e.status /\ f.spent = e.spent /\ f.caps = e.caps /\ f.cut = TRUE
  BY <1>b, <1>l
<1>2. Budget(f)
  BY <1>1 DEF Exchange, Budget
<1>3. e.pc \in Phases
  BY <1>0 DEF ExT
<1>4. e.status \notin {413, 502, 504}
  <2>1. /\ e.pc \in Before => e.status = 0
        /\ e.pc \in {"headers", "collect"} => e.status = 0
        /\ e.pc = "stream" => e.status \in {200, 404}
    BY DEF Exchange, Opened, Collects, Streams, Blank
  <2>2. e.pc \in Before \/ e.pc \in {"headers", "collect"} \/ e.pc = "stream"
    BY <1>3 DEF Phases
  <2>3. e.status = 0 \/ e.status \in {200, 404}
    BY <2>1, <2>2
  <2> QED
    BY <2>3
<1>5. Opened(f) /\ Reads(f) /\ Collects(f) /\ Streams(f)
  BY <1>1 DEF Opened, Reads, Collects, Streams, Before
<1>6. Ended(f)
  BY <1>1, <1>4 DEF Ended
<1> QED
  BY <1>1, <1>2, <1>5, <1>6 DEF Exchange, Fetching

(* The end of a fetch: its capabilities are those of one document that PHP *)
(* wrote, or none.                                                         *)
LEMMA FetchKeeps ==
    ASSUME NEW e, Exchange(e), e.pc = "collect"
    PROVE  LET f == Fetches(e, Payload(e.accum)) IN Exchange(f) /\ f.kind = e.kind
<1> DEFINE cs == Payload(e.accum)
           f == Fetches(e, cs)
<1>0. e \in ExT /\ "done" \in Phases /\ e.kind \in ExKinds /\ e.sent \in Nat
  BY DEF Exchange, ExT, Phases
<1>1. /\ e.reply \in Replies[e.kind] /\ e.sent <= Len(e.reply) /\ e.kind # "proxy"
      /\ e.accum = SubSeq(e.reply, 1, e.sent) /\ Blank(e)
  BY DEF Exchange, Reads, Collects, Seen
<1>l. Len(e.reply) \in Nat
  BY <1>0, LenProperties DEF ExT, Text
<1>2. e.sent \in 0..Len(e.reply)
  BY <1>0, <1>1, <1>l
<1>3. /\ e.kind = "caps" => cs \in {<<>>, <<"public", "private">>}
      /\ e.kind = "public" => cs \in {<<>>, <<"public">>}
  <2> HIDE DEF cs
  <2>1. cs = Payload(SubSeq(e.reply, 1, e.sent))
    BY <1>1 DEF cs
  <2> QED
    <3>1. e.kind \in {"caps", "public"}
      BY <1>0, <1>1 DEF ExKinds
    <3>2. e.reply \in Seq(Tokens) /\ \A i \in 1..(Len(e.reply) - 1) : e.reply[i] # "close"
      BY <1>0, <1>1, <3>1, PhpAnswersAssumption DEF ExT, Text
    <3>3. cs \in {<<>>, Payload(e.reply)}
      BY <1>2, <2>1, <3>2, CutPayload
    <3>4. /\ e.kind = "caps" => Payload(e.reply) \in {<<>>, <<"public", "private">>}
          /\ e.kind = "public" => Payload(e.reply) \in {<<>>, <<"public">>}
      BY <1>1, PhpAnswersAssumption
    <3> QED
      BY <3>3, <3>4
<1>4. cs \in CapSets
  BY <1>0, <1>1, <1>3 DEF ExKinds, CapSets
<1> HIDE DEF cs
<1>5. /\ f \in ExT /\ f.pc = "done" /\ f.caps = cs /\ f.kind = e.kind /\ f.out = e.out
      /\ f.status = e.status /\ f.spent = e.spent
  BY <1>0, <1>4 DEF Fetches, ExT
<1> HIDE DEF f
<1>6. Budget(f)
  BY <1>5 DEF Exchange, Budget
<1>7. Opened(f) /\ Reads(f) /\ Collects(f) /\ Streams(f)
  BY <1>5 DEF Opened, Reads, Collects, Streams, Before
<1>8. Ended(f)
  BY <1>1, <1>3, <1>5 DEF Ended, Blank
<1> QED
  BY <1>5, <1>6, <1>7, <1>8 DEF Exchange, f, cs

(* How a new exchange begins.                                              *)
LEMMA BeginKeeps ==
    /\ Exchange(Idle) /\ ~Fetching(Idle)
    /\ Exchange([Idle EXCEPT !.pc = "body"]) /\ ~Fetching([Idle EXCEPT !.pc = "body"])
    /\ \A k \in {"caps", "public"} :
          LET f == [ToPhase(Idle, "connect") EXCEPT !.kind = k]
          IN Exchange(f) /\ f.kind = k /\ ~Fetching(f)
<1>0. /\ "idle" \in Phases /\ "body" \in Phases /\ "connect" \in Phases /\ "idle" \in Before /\ "body" \in Before
      /\ "connect" \in Before /\ "proxy" \in ExKinds /\ "caps" \in ExKinds /\ "public" \in ExKinds
      /\ FALSE \in BOOLEAN
  BY DEF Phases, Before, ExKinds
<1>1. Idle \in ExT
  BY <1>0, Empty DEF Idle, ExT
<1>2. ASSUME NEW f \in ExT, f.pc \in {"idle", "body", "connect"}, f.spent = 0, f.left \in {0, Timeout},
             Blank(f), f.sent = 0, f.accum = <<>>
      PROVE  Exchange(f) /\ ~Fetching(f)
  <2>1. Budget(f)
    <3>1. f.spent + f.left <= Timeout /\ f.spent <= 3 * Timeout
      BY <1>2, Empty
    <3> QED
      BY <1>2, <3>1 DEF Budget
  <2>2. Opened(f) /\ Reads(f) /\ Collects(f)
    BY <1>2 DEF Opened, Reads, Collects
  <2>3. Streams(f) /\ Ended(f)
    BY <1>2 DEF Streams, Ended
  <2> QED
    BY <1>2, <2>1, <2>2, <2>3 DEF Exchange, Fetching, Blank
<1>3. Exchange(Idle) /\ ~Fetching(Idle)
  <2>1. Idle.pc = "idle" /\ Idle.spent = 0 /\ Idle.left = 0 /\ Blank(Idle) /\ Idle.sent = 0 /\ Idle.accum = <<>>
    BY DEF Idle, Blank
  <2> QED
    BY <1>1, <1>2, <2>1
<1>4. Exchange([Idle EXCEPT !.pc = "body"]) /\ ~Fetching([Idle EXCEPT !.pc = "body"])
  <2> DEFINE f == [Idle EXCEPT !.pc = "body"]
  <2>1. f \in ExT
    BY <1>0, <1>1 DEF ExT
  <2>2. f.pc = "body" /\ f.spent = 0 /\ f.left = 0 /\ Blank(f) /\ f.sent = 0 /\ f.accum = <<>>
    BY DEF Idle, Blank
  <2> HIDE DEF f
  <2>3. Exchange(f) /\ ~Fetching(f)
    BY <1>2, <2>1, <2>2
  <2> QED
    BY <2>3 DEF f
<1>5. ASSUME NEW k \in {"caps", "public"}
      PROVE  LET f == [ToPhase(Idle, "connect") EXCEPT !.kind = k]
             IN Exchange(f) /\ f.kind = k /\ ~Fetching(f)
  <2> DEFINE g == ToPhase(Idle, "connect")
             f == [g EXCEPT !.kind = k]
  <2>1. g \in ExT
    BY <1>0, <1>1, ToPhaseTyped
  <2>2. f \in ExT /\ f.kind = k
    <3> HIDE DEF g
    <3> QED
      BY <1>0, <1>5, <2>1 DEF ExT
  <2>3. f.pc = "connect" /\ f.spent = 0 /\ f.left = Timeout /\ Blank(f) /\ f.sent = 0 /\ f.accum = <<>>
    BY DEF Idle, Blank, ToPhase
  <2> HIDE DEF f
  <2>4. Exchange(f) /\ ~Fetching(f)
    BY <1>2, <2>2, <2>3
  <2> QED
    BY <2>2, <2>4 DEF f
<1> QED
  BY <1>3, <1>4, <1>5

(* Every step of the exchange keeps its invariant; a fetch has something   *)
(* to show only after PHP has executed it.                                 *)
LEMMA ExchangeSteps ==
    ASSUME Exchange(ex)
    PROVE  /\ Php \/ Server \/ ClientGone => Exchange(ex') /\ ex'.kind = ex.kind /\ (Fetching(ex') => Fetching(ex))
           /\ Peers => Exchange(ex') /\ ex'.kind = ex.kind /\ (Fetching(ex') => Fetching(ex) \/ ex.pc = "execute")
<1>0. ex \in ExT /\ ex.pc \in Phases /\ ex.kind \in ExKinds
  BY DEF Exchange, ExT
<1>1. ASSUME NEW c \in {413, 502, 504}, ex.pc \in Before \cup {"headers", "collect"}, ex' = error_response(ex, c)
      PROVE  Exchange(ex') /\ ex'.kind = ex.kind /\ ~Fetching(ex')
  <2>1. ex.out = <<>> /\ ex.caps = <<>>
    BY <1>1 DEF Exchange, Opened, Collects, Blank
  <2> QED
    BY <1>1, <2>1, ErrorKeeps DEF Fetching
<1>2. ASSUME Stdout PROVE Exchange(ex') /\ ex'.kind = ex.kind /\ (Fetching(ex') => Fetching(ex))
  <2>1. PICK n \in 1..MaxRecord : /\ ex.sent + n <= Len(ex.reply)
                                  /\ ex' = Receive(Sent(ex, n), SubSeq(ex.reply, ex.sent + 1, ex.sent + n))
    BY <1>2 DEF Stdout, Sent
  <2>2. n \in Nat \ {0}
    BY FastCgiAssumption
  <2>3. ex.pc \in {"headers", "stream", "collect"} /\ ex.prefix = <<>>
    BY <1>2 DEF Stdout, Reading
  <2> QED
    BY <2>1, <2>2, <2>3, ReceiveKeeps
<1>3. ASSUME Stderr PROVE Exchange(ex') /\ ex'.kind = ex.kind /\ (Fetching(ex') => Fetching(ex))
  <2>1. ex' = Noisy(ex)
    BY <1>3 DEF Stderr, Noisy
  <2> QED
    BY <2>1, NoiseKeeps
<1>4. ASSUME StreamEnds PROVE Exchange(ex') /\ ex'.kind = ex.kind /\ (Fetching(ex') => Fetching(ex))
  <2>0. ex.pc \in {"headers", "stream", "collect"} /\ ex.prefix = <<>> /\ ex.sent = Len(ex.reply)
    BY <1>4 DEF StreamEnds, Reading
  <2>1. CASE ex.pc = "headers"
    <3>1. ex' = error_response(ex, 502)
      BY <1>4, <2>1 DEF StreamEnds
    <3> QED
      BY <1>1, <2>1, <3>1
  <2>2. CASE ex.pc = "stream"
    <3>1. ex' = Closed(ex)
      BY <1>4, <2>2 DEF StreamEnds, Closed
    <3> QED
      BY <2>0, <2>2, <3>1, CloseKeeps
  <2>3. CASE ex.pc = "collect"
    <3>1. ex' = Fetches(ex, Payload(ex.accum))
      BY <1>4, <2>3 DEF StreamEnds, Fetches
    <3> QED
      BY <2>3, <3>1, FetchKeeps DEF Fetching
  <2> QED
    BY <2>0, <2>1, <2>2, <2>3
<1>5. ASSUME StreamBreaks PROVE Exchange(ex') /\ ex'.kind = ex.kind /\ (Fetching(ex') => Fetching(ex))
  <2>0. ex.pc \in {"headers", "stream", "collect"} /\ ex.prefix = <<>>
    BY <1>5 DEF StreamBreaks, Reading
  <2>1. CASE ex.pc = "headers"
    <3>1. ex' = error_response(ex, 502)
      BY <1>5, <2>1 DEF StreamBreaks
    <3> QED
      BY <1>1, <2>1, <3>1
  <2>2. CASE ex.pc = "stream"
    <3>1. ex' = Broken(ex)
      BY <1>5, <2>2 DEF StreamBreaks, Broken
    <3>2. ex.kind = "proxy" /\ ex.pc # "done"
      BY <2>2 DEF Exchange, Reads
    <3>3. ex' \in {Broken(ex), Left(ex)}
      BY <3>1
    <3> QED
      BY <3>2, <3>3, CutKeeps
  <2>3. CASE ex.pc = "collect"
    <3>1. ex' = Fetches(ex, Payload(ex.accum))
      BY <1>5, <2>3 DEF StreamBreaks, Fetches
    <3> QED
      BY <2>3, <3>1, FetchKeeps DEF Fetching
  <2> QED
    BY <2>0, <2>1, <2>2, <2>3
<1>6. ASSUME Server PROVE Exchange(ex') /\ ex'.kind = ex.kind /\ (Fetching(ex') => Fetching(ex))
  <2>1. CASE Expire
    <3>1. ex.pc \in Before \cup {"headers", "collect"} /\ ex' = error_response(ex, 504)
      BY <2>1 DEF Expire, Timed, Before
    <3> QED
      BY <1>1, <3>1
  <2>2. CASE Tick
    <3>1. ex.pc \in Timed /\ ex.left > 0 /\ ex' = Ticked(ex)
      BY <2>2 DEF Tick, Ticked
    <3> QED
      BY <3>1, TickKeeps DEF Fetching
  <2>3. CASE DrainPrefix
    <3>1. ex.pc = "stream" /\ ex' = Drained(ex)
      BY <2>3 DEF DrainPrefix, Drained
    <3> QED
      BY <3>1, DrainKeeps
  <2> QED
    BY <1>6, <2>1, <2>2, <2>3 DEF Server
<1>7. ASSUME ClientGone PROVE Exchange(ex') /\ ex'.kind = ex.kind /\ (Fetching(ex') => Fetching(ex))
  <2>1. ex.kind = "proxy" /\ ex.pc # "done" /\ ex' \in {Broken(ex), Left(ex)}
    BY <1>7 DEF ClientGone, Left
  <2> QED
    BY <2>1, CutKeeps
<1>8. ASSUME Peers
      PROVE  Exchange(ex') /\ ex'.kind = ex.kind /\ (Fetching(ex') => Fetching(ex) \/ ex.pc = "execute")
  <2>p. "body" \in Before /\ "connect" \in Before /\ "execute" \in Before
    BY DEF Before
  <2>1. CASE BufferBody
    <3>1. ex.pc = "body"
      BY <2>1 DEF BufferBody
    <3>2. ex' = ToPhase(ex, "connect") \/ ex' = error_response(ex, 413) \/ ex' = error_response(ex, 502)
      BY <2>1 DEF BufferBody
    <3>3. CASE ex' = ToPhase(ex, "connect")
      BY <3>1, <3>3, ToPhaseKeeps DEF Fetching
    <3> QED
      BY <1>1, <2>p, <3>1, <3>2, <3>3
  <2>2. CASE Connect
    <3>1. ex.pc = "connect" /\ (ex' = ToPhase(ex, "execute") \/ ex' = error_response(ex, 502))
      BY <2>2 DEF Connect
    <3>2. CASE ex' = ToPhase(ex, "execute")
      BY <3>1, <3>2, ToPhaseKeeps DEF Fetching
    <3> QED
      BY <1>1, <2>p, <3>1, <3>2
  <2>3. CASE Execute
    <3>1. ex.pc = "execute"
      BY <2>3 DEF Execute
    <3>2. CASE ex' = error_response(ex, 502)
      BY <1>1, <2>p, <3>1, <3>2
    <3>3. CASE \E r \in Replies[ex.kind] : ex' = Replying(ex, IF ex.kind = "proxy" THEN "headers" ELSE "collect", r)
      BY <3>1, <3>3, ReplyKeeps
    <3> QED
      BY <2>3, <3>2, <3>3 DEF Execute, Replying
  <2> QED
    BY <1>8, <2>1, <2>2, <2>3 DEF Peers
<1> QED
  BY <1>2, <1>3, <1>4, <1>5, <1>6, <1>7, <1>8 DEF Php

----------------------------------------------------------------------------
(* The capability cache. *)
AppCaps    == [keys : {<<>>, <<"public", "private">>}, ver : Nat]
PublicCaps == [keys : {<<>>, <<"public">>}, ver : Nat]
Built(v, a, p) == [native |-> v, app |-> a, public |-> p, auth |-> Merge(v, a), pub |-> Merge(v, p)]

(* Both payloads are always merged from the parts the cache holds.         *)
Cached ==
    /\ cache.native \in Nat /\ cache.app \in AppCaps /\ cache.public \in PublicCaps
    /\ cache = Built(cache.native, cache.app, cache.public)

(* Nothing is newer than its source.                                       *)
Versions ==
    /\ {config, apps, asked, appconfig} \subseteq Nat
    /\ cache.native <= appconfig /\ appconfig <= config
    /\ cache.app.ver <= apps /\ cache.public.ver <= apps /\ asked <= apps

(* The running exchange is the fetch the task waits for, and what it will  *)
(* bring is not older than what the cache holds.                           *)
Running ==
    /\ who = "client" => pc = "serving"
    /\ pc = "caps" => ex.kind = "caps" /\ (Fetching(ex) => cache.app.ver <= asked)
    /\ pc = "public" => ex.kind = "public" /\ (Fetching(ex) => cache.public.ver <= asked)

Inv == Exchange(ex) /\ Cached /\ Versions /\ Running

(* What a step may do to the parts of the cache.                           *)
Grows ==
    /\ cache'.native >= cache.native
    /\ cache'.app.ver >= cache.app.ver /\ cache'.public.ver >= cache.public.ver

(* rebuild_capability_cache keeps both PHP parts; the two apply functions  *)
(* replace one each; and the payloads are merged again every time.         *)
LEMMA CacheBuilt ==
    ASSUME NEW v, NEW w, NEW a, NEW p, NEW c
    PROVE  /\ build_capability_cache(v) = Built(v, NoCaps, NoCaps)
           /\ apply_php_capabilities(Built(v, a, p), c) = Built(v, c, p)
           /\ apply_php_public_capabilities(Built(v, a, p), c) = Built(v, a, c)
           /\ rebuild_capability_cache(Built(w, a, p), v) = Built(v, a, p)
<1>1. \A x, y, z : /\ Built(x, y, z).native = x /\ Built(x, y, z).app = y /\ Built(x, y, z).public = z
                   /\ build_capability_cache(x) = Built(x, NoCaps, NoCaps)
  BY Zenon DEF Built, build_capability_cache
<1>2. ASSUME NEW x, NEW y, NEW z, NEW n
      PROVE  /\ apply_php_capabilities(Built(x, y, z), n) = Built(x, n, z)
             /\ apply_php_public_capabilities(Built(x, y, z), n) = Built(x, y, n)
  <2> DEFINE f == [Built(x, y, z) EXCEPT !.app = n]
             g == [Built(x, y, z) EXCEPT !.public = n]
  <2>1. f = [native |-> x, app |-> n, public |-> z, auth |-> Merge(x, y), pub |-> Merge(x, z)]
    BY DEF Built
  <2>2. g = [native |-> x, app |-> y, public |-> n, auth |-> Merge(x, y), pub |-> Merge(x, z)]
    BY DEF Built
  <2> HIDE DEF f, g
  <2>3. f.native = x /\ f.app = n /\ f.public = z /\ g.native = x /\ g.app = y /\ g.public = n
    BY <2>1, <2>2, Zenon
  <2>4. rebuild_serialized(f) = [f EXCEPT !.auth = Merge(x, n), !.pub = Merge(x, z)]
    BY <2>3, Zenon DEF rebuild_serialized
  <2>5. rebuild_serialized(g) = [g EXCEPT !.auth = Merge(x, y), !.pub = Merge(x, n)]
    BY <2>3, Zenon DEF rebuild_serialized
  <2>6. rebuild_serialized(f) = Built(x, n, z)
    BY <2>1, <2>4 DEF Built
  <2>7. rebuild_serialized(g) = Built(x, y, n)
    BY <2>2, <2>5 DEF Built
  <2> QED
    BY <2>6, <2>7 DEF apply_php_capabilities, apply_php_public_capabilities, f, g
<1>3. rebuild_capability_cache(Built(w, a, p), v) = Built(v, a, p)
  <2> DEFINE app == IF a = NoCaps THEN Built(v, NoCaps, NoCaps)
                    ELSE apply_php_capabilities(Built(v, NoCaps, NoCaps), a)
  <2>1. app = Built(v, a, NoCaps)
    <3>1. CASE a = NoCaps
      BY <3>1
    <3>2. CASE a # NoCaps
      BY <1>2, <3>2
    <3> QED
      BY <3>1, <3>2
  <2>2. rebuild_capability_cache(Built(w, a, p), v) = IF p = NoCaps THEN app ELSE apply_php_public_capabilities(app, p)
    <3>1. /\ build_capability_cache(v) = Built(v, NoCaps, NoCaps)
          /\ Built(w, a, p).app = a /\ Built(w, a, p).public = p
      BY <1>1
    <3> QED
      BY <3>1 DEF rebuild_capability_cache
  <2> HIDE DEF app
  <2>3. apply_php_public_capabilities(app, p) = Built(v, a, p)
    BY <1>2, <2>1
  <2> QED
    BY <2>1, <2>2, <2>3
<1> QED
  BY <1>1, <1>2, <1>3

(* The server starts with no PHP capabilities, idle.                       *)
LEMMA Starts == Init => Inv
<1> SUFFICES ASSUME Init PROVE Inv
  OBVIOUS
<1>1. cache = Built(0, NoCaps, NoCaps)
  BY CacheBuilt DEF Init
<1>2. NoCaps \in AppCaps /\ NoCaps \in PublicCaps /\ NoCaps.ver = 0
  BY DEF NoCaps, AppCaps, PublicCaps
<1>3. cache.native = 0 /\ cache.app = NoCaps /\ cache.public = NoCaps
  BY <1>1 DEF Built
<1>4. Cached
  BY <1>1, <1>2, <1>3 DEF Cached
<1>5. Versions
  BY <1>2, <1>3 DEF Init, Versions
<1>6. Running
  BY DEF Init, Running
<1> QED
  BY <1>4, <1>5, <1>6, BeginKeeps DEF Inv, Init

(* A cache put together from parts in their range is a cache.              *)
LEMMA BuiltCached ==
    ASSUME NEW v \in Nat, NEW a \in AppCaps, NEW p \in PublicCaps, cache' = Built(v, a, p)
    PROVE  Cached' /\ cache'.native = v /\ cache'.app = a /\ cache'.public = p
<1>1. cache'.native = v /\ cache'.app = a /\ cache'.public = p
  BY DEF Built
<1> QED
  BY <1>1 DEF Cached

(* Every step keeps the invariant, and no part of the cache goes back.     *)
LEMMA Steps == Inv /\ [Next]_vars => Inv' /\ Grows
<1> SUFFICES ASSUME Inv, [Next]_vars PROVE Inv' /\ Grows
  OBVIOUS
<1> DEFINE v == cache.native
           a == cache.app
           p == cache.public
<1>c. Exchange(ex) /\ Cached /\ Versions /\ Running
  BY DEF Inv
<1>n. /\ v \in Nat /\ a \in AppCaps /\ p \in PublicCaps /\ cache = Built(v, a, p)
      /\ a.ver \in Nat /\ p.ver \in Nat
      /\ config \in Nat /\ apps \in Nat /\ asked \in Nat /\ appconfig \in Nat
      /\ v <= appconfig /\ appconfig <= config /\ a.ver <= apps /\ p.ver <= apps /\ asked <= apps
  BY <1>c DEF Cached, Versions, AppCaps, PublicCaps
<1>k. /\ who = "client" => pc = "serving"
      /\ pc = "caps" => ex.kind = "caps" /\ (Fetching(ex) => a.ver <= asked)
      /\ pc = "public" => ex.kind = "public" /\ (Fetching(ex) => p.ver <= asked)
  BY <1>c DEF Running
<1> HIDE DEF v, a, p
<1>same. ASSUME cache' = cache
         PROVE  Cached' /\ Grows /\ cache'.native = v /\ cache'.app = a /\ cache'.public = p
  <2>1. Cached' /\ cache'.native = v /\ cache'.app = a /\ cache'.public = p
    BY <1>c, <1>same DEF Cached, v, a, p
  <2>2. v >= v /\ a.ver >= a.ver /\ p.ver >= p.ver
    BY <1>n
  <2> QED
    BY <2>1, <2>2 DEF Grows, v, a, p
<1>vs. ASSUME cache' = cache, UNCHANGED <<config, apps, asked, appconfig>> PROVE Versions'
  BY <1>c, <1>vs DEF Versions
<1>ex. ASSUME Exchange(ex'), UNCHANGED Keep, asked' \in {asked, apps},
              ex'.kind = ex.kind \/ who = "client",
              Fetching(ex') => Fetching(ex) \/ asked' = apps \/ who = "client"
       PROVE  Inv' /\ Grows
  <2>1. UNCHANGED <<who, pc, config, apps, appconfig, cache>>
    BY <1>ex DEF Keep
  <2>2. Cached' /\ Grows /\ cache'.app = a /\ cache'.public = p /\ cache'.native = v
    BY <1>same, <2>1
  <2>3. asked' \in Nat /\ asked' <= apps /\ (asked' = asked \/ asked' = apps)
    BY <1>ex, <1>n
  <2>4. Versions'
    BY <1>n, <2>1, <2>2, <2>3 DEF Versions
  <2>5. Running'
    <3>1. CASE who = "client"
      <4>1. who' = "client" /\ pc' = "serving"
        BY <1>k, <2>1, <3>1
      <4> QED
        BY <4>1 DEF Running
    <3>2. CASE who # "client"
      <4>1. ex'.kind = ex.kind /\ (Fetching(ex') => Fetching(ex) \/ asked' = apps)
        BY <1>ex, <3>2
      <4>2. \A n \in Nat : n <= asked /\ n <= apps => n <= asked'
        BY <2>3
      <4>3. asked' = apps => a.ver <= asked' /\ p.ver <= asked'
        BY <1>n
      <4>4. pc = "caps" => ex'.kind = "caps" /\ (Fetching(ex') => a.ver <= asked')
        BY <1>k, <1>n, <4>1, <4>2, <4>3
      <4>5. pc = "public" => ex'.kind = "public" /\ (Fetching(ex') => p.ver <= asked')
        BY <1>k, <1>n, <4>1, <4>2, <4>3
      <4>6. who' # "client"
        BY <2>1, <3>2
      <4>7. /\ pc' = "caps" => ex'.kind = "caps" /\ (Fetching(ex') => cache'.app.ver <= asked')
            /\ pc' = "public" => ex'.kind = "public" /\ (Fetching(ex') => cache'.public.ver <= asked')
        BY <2>1, <2>2, <4>4, <4>5
      <4>8. Fetching(ex)' <=> Fetching(ex')
        BY DEF Fetching
      <4> QED
        BY <4>6, <4>7, <4>8 DEF Running
    <3> QED
      BY <3>1, <3>2
  <2>6. Exchange(ex)'
    BY <1>ex
  <2> QED
    BY <2>2, <2>4, <2>5, <2>6 DEF Inv
<1>task. ASSUME Exchange(ex'), Cached', Versions', Grows, who' = who, pc # "serving",
                pc' = "caps" => ex'.kind = "caps" /\ ~Fetching(ex'),
                pc' = "public" => ex'.kind = "public" /\ ~Fetching(ex')
         PROVE  Inv' /\ Grows
  <2>1. who' # "client"
    BY <1>k, <1>task
  <2>2. Running'
    BY <1>task, <2>1 DEF Running
  <2>3. Exchange(ex)'
    BY <1>task
  <2> QED
    BY <1>task, <2>2, <2>3 DEF Inv
<1>0. CASE UNCHANGED vars
  <2>1. UNCHANGED Keep /\ ex' = ex /\ asked' = asked
    BY <1>0 DEF vars, Keep
  <2> QED
    BY <1>c, <1>ex, <2>1
<1>1. CASE Request
  <2>1. who = "client" /\ ex' = [Idle EXCEPT !.pc = "body"] /\ asked' = asked /\ UNCHANGED Keep
    BY <1>1 DEF Request, proxy_handler
  <2> QED
    BY <1>ex, <2>1, BeginKeeps
<1>2. CASE Leaves
  <2>1. ClientGone /\ asked' = asked /\ UNCHANGED Keep
    BY <1>2 DEF Leaves
  <2>2. Exchange(ex') /\ ex'.kind = ex.kind /\ (Fetching(ex') => Fetching(ex))
    BY <1>c, <2>1, ExchangeSteps
  <2> QED
    BY <1>ex, <2>1, <2>2
<1>3. CASE PhpStep
  <2>1. Php /\ asked' = asked /\ UNCHANGED Keep
    BY <1>3 DEF PhpStep
  <2>2. Exchange(ex') /\ ex'.kind = ex.kind /\ (Fetching(ex') => Fetching(ex))
    BY <1>c, <2>1, ExchangeSteps
  <2> QED
    BY <1>ex, <2>1, <2>2
<1>4. CASE ServerStep
  <2>1. Server /\ asked' = asked /\ UNCHANGED Keep
    BY <1>4 DEF ServerStep
  <2>2. Exchange(ex') /\ ex'.kind = ex.kind /\ (Fetching(ex') => Fetching(ex))
    BY <1>c, <2>1, ExchangeSteps
  <2> QED
    BY <1>ex, <2>1, <2>2
<1>5. CASE PeerStep
  <2>1. Peers /\ asked' = (IF ex.pc = "execute" THEN apps ELSE asked) /\ UNCHANGED Keep
    BY <1>5 DEF PeerStep
  <2>2. Exchange(ex') /\ ex'.kind = ex.kind /\ (Fetching(ex') => Fetching(ex) \/ ex.pc = "execute")
    BY <1>c, <2>1, ExchangeSteps
  <2>3. asked' \in {asked, apps} /\ (ex.pc = "execute" => asked' = apps)
    BY <2>1
  <2> QED
    BY <1>ex, <2>1, <2>2, <2>3
<1>6. CASE Wake
  <2>1. /\ pc = "sleep" /\ pc' = "reload" /\ cache' = cache /\ ex' = ex /\ who' = who
        /\ UNCHANGED <<config, apps, asked, appconfig>>
    BY <1>6 DEF Wake, Goto
  <2>2. Versions' /\ Cached' /\ Grows
    BY <1>same, <1>vs, <2>1
  <2> QED
    BY <1>c, <1>task, <2>1, <2>2
<1>7. CASE ReloadAppconfig
  <2>1. /\ pc = "reload" /\ pc' \in {"rebuild", "sleep"} /\ cache' = cache /\ ex' = ex /\ who' = who
        /\ UNCHANGED <<config, apps, asked>> /\ appconfig' \in {appconfig, config}
    BY <1>7 DEF ReloadAppconfig, Goto
  <2>2. Cached' /\ Grows /\ cache'.native = v /\ cache'.app = a /\ cache'.public = p
    BY <1>same, <2>1
  <2>3. Versions'
    BY <1>n, <2>1, <2>2 DEF Versions
  <2> QED
    BY <1>c, <1>task, <2>1, <2>2, <2>3
<1>8. CASE Rebuild
  <2>1. /\ pc = "rebuild" /\ pc' = "admin" /\ cache' = rebuild_capability_cache(cache, appconfig) /\ ex' = ex
        /\ who' = who /\ UNCHANGED <<config, apps, asked, appconfig>>
    BY <1>8 DEF Rebuild, Goto
  <2>2. cache' = Built(appconfig, a, p)
    BY <1>n, <2>1, CacheBuilt
  <2>3. Cached' /\ cache'.native = appconfig /\ cache'.app = a /\ cache'.public = p
    BY <1>n, <2>2, BuiltCached
  <2>4. Versions'
    BY <1>n, <2>1, <2>3 DEF Versions
  <2>5. Grows
    BY <1>n, <2>3 DEF Grows, v, a, p
  <2> QED
    BY <1>c, <1>task, <2>1, <2>3, <2>4, <2>5
<1>9. CASE QueryAdmin
  <2>1. /\ pc = "admin" /\ cache' = cache /\ who' = who /\ UNCHANGED <<config, apps, asked, appconfig>>
        /\ \/ pc' = "caps" /\ ex' = [ToPhase(Idle, "connect") EXCEPT !.kind = "caps"]
           \/ pc' = "public" /\ ex' = [ToPhase(Idle, "connect") EXCEPT !.kind = "public"]
           \/ pc' = "sleep" /\ ex' = ex
    BY <1>9 DEF QueryAdmin, Goto, fetch_php_capabilities, fetch_php_public_capabilities
  <2>2. Versions' /\ Cached' /\ Grows
    BY <1>same, <1>vs, <2>1
  <2>3. /\ Exchange(ex')
        /\ pc' = "caps" => ex'.kind = "caps" /\ ~Fetching(ex')
        /\ pc' = "public" => ex'.kind = "public" /\ ~Fetching(ex')
    BY <1>c, <2>1, BeginKeeps
  <2> QED
    BY <1>task, <2>1, <2>2, <2>3
<1>10. CASE CapsFetched
  <2>1. /\ pc = "caps" /\ ex.pc = "done" /\ pc' = "public" /\ who' = who /\ UNCHANGED <<config, apps, asked, appconfig>>
        /\ cache' = IF ex.caps = <<>> THEN cache ELSE apply_php_capabilities(cache, Fetched)
        /\ ex' = [ToPhase(Idle, "connect") EXCEPT !.kind = "public"]
    BY <1>10 DEF CapsFetched, Goto, fetch_php_public_capabilities
  <2>2. Exchange(ex') /\ ex'.kind = "public" /\ ~Fetching(ex')
    BY <2>1, BeginKeeps
  <2>3. CASE ex.caps = <<>>
    <3>1. Versions' /\ Cached' /\ Grows
      BY <1>same, <1>vs, <2>1, <2>3
    <3> QED
      BY <1>task, <2>1, <2>2, <3>1
  <2>4. CASE ex.caps # <<>>
    <3>1. cache' = Built(v, Fetched, p)
      <4>1. cache' = apply_php_capabilities(cache, Fetched) /\ cache = Built(v, a, p)
        BY <1>n, <2>1, <2>4
      <4>2. apply_php_capabilities(Built(v, a, p), Fetched) = Built(v, Fetched, p)
        BY CacheBuilt
      <4> QED
        BY <4>1, <4>2
    <3>2. ex.caps \in {<<>>, <<"public", "private">>} /\ a.ver <= asked
      <4>1. Fetching(ex) /\ ex.kind = "caps" /\ a.ver <= asked
        BY <1>k, <2>1, <2>4 DEF Fetching
      <4>2. ex.caps \in {<<>>, <<"public", "private">>}
        BY <1>c, <2>1, <4>1 DEF Exchange, Ended
      <4> QED
        BY <4>1, <4>2
    <3>3. Fetched \in AppCaps /\ Fetched.ver = asked
      BY <1>n, <3>2 DEF Fetched, AppCaps
    <3>4. Cached' /\ cache'.native = v /\ cache'.app = Fetched /\ cache'.public = p
      BY <1>n, <3>1, <3>3, BuiltCached
    <3>5. Versions'
      BY <1>n, <2>1, <3>3, <3>4 DEF Versions
    <3>6. Grows
      BY <1>n, <3>2, <3>3, <3>4 DEF Grows, v, a, p
    <3> QED
      BY <1>task, <2>1, <2>2, <3>4, <3>5, <3>6
  <2> QED
    BY <2>3, <2>4
<1>11. CASE PublicFetched
  <2>1. /\ pc = "public" /\ ex.pc = "done" /\ pc' = "sleep" /\ who' = who /\ UNCHANGED <<config, apps, appconfig>>
        /\ cache' = IF ex.caps = <<>> THEN cache ELSE apply_php_public_capabilities(cache, Fetched)
        /\ ex' = Idle /\ asked' = 0
    BY <1>11 DEF PublicFetched, Goto
  <2>2. Exchange(ex')
    BY <2>1, BeginKeeps
  <2>3. CASE ex.caps = <<>>
    <3>1. Cached' /\ Grows /\ cache'.native = v /\ cache'.app = a /\ cache'.public = p
      BY <1>same, <2>1, <2>3
    <3>2. Versions'
      BY <1>n, <2>1, <3>1 DEF Versions
    <3> QED
      BY <1>task, <2>1, <2>2, <3>1, <3>2
  <2>4. CASE ex.caps # <<>>
    <3>1. cache' = Built(v, a, Fetched)
      <4>1. cache' = apply_php_public_capabilities(cache, Fetched) /\ cache = Built(v, a, p)
        BY <1>n, <2>1, <2>4
      <4>2. apply_php_public_capabilities(Built(v, a, p), Fetched) = Built(v, a, Fetched)
        BY CacheBuilt
      <4> QED
        BY <4>1, <4>2
    <3>2. ex.caps \in {<<>>, <<"public">>} /\ p.ver <= asked
      <4>1. Fetching(ex) /\ ex.kind = "public" /\ p.ver <= asked
        BY <1>k, <2>1, <2>4 DEF Fetching
      <4>2. ex.caps \in {<<>>, <<"public">>}
        BY <1>c, <2>1, <4>1 DEF Exchange, Ended
      <4> QED
        BY <4>1, <4>2
    <3>3. Fetched \in PublicCaps /\ Fetched.ver = asked
      BY <1>n, <3>2 DEF Fetched, PublicCaps
    <3>4. Cached' /\ cache'.native = v /\ cache'.app = a /\ cache'.public = Fetched
      BY <1>n, <3>1, <3>3, BuiltCached
    <3>5. Versions'
      BY <1>n, <2>1, <3>3, <3>4 DEF Versions
    <3>6. Grows
      BY <1>n, <3>2, <3>3, <3>4 DEF Grows, v, a, p
    <3> QED
      BY <1>task, <2>1, <2>2, <3>4, <3>5, <3>6
  <2> QED
    BY <2>3, <2>4
<1>12. CASE PhpWrites
  <2>1. /\ config' = config + 1 /\ apps' = apps + 1 /\ cache' = cache
        /\ UNCHANGED <<ex, who, pc, asked, appconfig>>
    BY <1>12 DEF PhpWrites
  <2>2. Cached' /\ Grows /\ cache'.native = v /\ cache'.app = a /\ cache'.public = p
    BY <1>same, <2>1
  <2>3. Versions'
    BY <1>n, <2>1, <2>2 DEF Versions
  <2>4. Running'
    BY <1>c, <2>1 DEF Running
  <2>5. Exchange(ex)'
    BY <1>c, <2>1
  <2> QED
    BY <2>2, <2>3, <2>4, <2>5 DEF Inv
<1> QED
  BY <1>0, <1>1, <1>2, <1>3, <1>4, <1>5, <1>6, <1>7, <1>8, <1>9, <1>10, <1>11, <1>12 DEF Next, Refresh

(* The invariant, of the exchange and of the cache, always holds.          *)
THEOREM Invariant == Spec => []Inv
<1>1. Inv /\ [Next]_vars => Inv'
  BY Steps
<1> QED
  BY <1>1, Starts, PTL DEF Spec

(* proxy_handler: the status line of a proxied answer leaves within three  *)
(* timeouts, and a phase never has more time than is left of them.         *)
THEOREM HeadTimely == Spec => []HeadInTime
<1>1. Inv => HeadInTime
  BY DEF Inv, Exchange, Budget, HeadInTime
<1> QED
  BY <1>1, Invariant, PTL

(* proxy_handler and CgiBodyStream: for every output of PHP and every way  *)
(* of cutting it into records, a client gets exactly what follows the      *)
(* first separator, all of it when the stream ended well, and nothing of   *)
(* it with an error.                                                       *)
THEOREM BodyDelivered == Spec => []BodyExact
<1>1. ASSUME Inv PROVE BodyExact
  <2>0. Exchange(ex)
    BY <1>1 DEF Inv
  <2>1. ex.pc = "stream" => ex.out \o ex.prefix = AfterHeaders(SubSeq(ex.reply, 1, ex.sent))
    BY <2>0 DEF Exchange, Streams, Seen
  <2>2. ex.kind = "proxy" /\ ex.pc = "done" /\ ex.status \in {200, 404} /\ ~ex.cut => ex.out = AfterHeaders(ex.reply)
    BY <2>0 DEF Exchange, Ended
  <2>3. ex.status \in {413, 502, 504} => ex.out = <<>>
    <3>1. ex.pc \in Phases
      BY <2>0 DEF Exchange, ExT
    <3>2. CASE ex.pc \in Before \/ ex.pc \in {"headers", "collect"}
      BY <2>0, <3>2 DEF Exchange, Opened, Collects, Blank
    <3>3. CASE ex.pc = "stream"
      <4>1. ex.status \in {200, 404}
        BY <2>0, <3>3 DEF Exchange, Streams
      <4> QED
        BY <4>1
    <3>4. CASE ex.pc = "done"
      BY <2>0, <3>4 DEF Exchange, Ended
    <3> QED
      BY <3>1, <3>2, <3>3, <3>4 DEF Phases
  <2> QED
    BY <2>1, <2>2, <2>3 DEF BodyExact
<1> QED
  BY <1>1, Invariant, PTL

(* CapabilityCache: whatever PHP answers and whenever it changes, each     *)
(* variant is served without PHP capabilities or with a whole answer to    *)
(* its own fetch, and never goes back to an older one.                     *)
THEOREM Served == Spec => PayloadsServed
<1>0. ASSUME Cached
      PROVE  /\ cache.auth.native = cache.native /\ cache.pub.native = cache.native
             /\ cache.auth.keys = cache.app.keys /\ cache.pub.keys = cache.public.keys
             /\ cache.auth.ver = cache.app.ver /\ cache.pub.ver = cache.public.ver
  <2>1. cache = Built(cache.native, cache.app, cache.public)
    BY <1>0 DEF Cached
  <2>2. cache.auth = Merge(cache.native, cache.app) /\ cache.pub = Merge(cache.native, cache.public)
    BY <2>1 DEF Built
  <2> QED
    BY <2>2 DEF Merge
<1>1. ASSUME Inv PROVE PayloadsExact
  <2>1. Cached /\ Versions
    BY <1>1 DEF Inv
  <2>2. /\ cache.app.keys \in {<<>>, <<"public", "private">>} /\ cache.public.keys \in {<<>>, <<"public">>}
        /\ cache.app.ver <= apps /\ cache.public.ver <= apps
    BY <2>1 DEF Cached, Versions, AppCaps, PublicCaps
  <2> QED
    BY <1>0, <2>1, <2>2 DEF PayloadsExact, ocs_capabilities
<1>2. ASSUME Inv, [Next]_vars PROVE GoesOn
  <2>1. Cached /\ Cached' /\ Grows
    BY <1>2, Steps DEF Inv
  <2>2. /\ cache.auth.native = cache.native /\ cache.pub.native = cache.native
        /\ cache.auth.ver = cache.app.ver /\ cache.pub.ver = cache.public.ver
    BY <1>0, <2>1
  <2>3. /\ cache'.auth.native = cache'.native /\ cache'.pub.native = cache'.native
        /\ cache'.auth.ver = cache'.app.ver /\ cache'.pub.ver = cache'.public.ver
    <3>1. cache' = Built(cache'.native, cache'.app, cache'.public)
      BY <2>1 DEF Cached
    <3>2. cache'.auth = Merge(cache'.native, cache'.app) /\ cache'.pub = Merge(cache'.native, cache'.public)
      BY <3>1 DEF Built
    <3> QED
      BY <3>2 DEF Merge
  <2> QED
    BY <2>1, <2>2, <2>3 DEF GoesOn, ocs_capabilities, Grows
<1>3. Inv /\ [Next]_vars => [GoesOn]_vars
  BY <1>2
<1>4. Inv => PayloadsExact
  BY <1>1
<1> QED
  BY <1>3, <1>4, Invariant, PTL DEF PayloadsServed, PayloadsNeverRegress, Spec
=============================================================================
