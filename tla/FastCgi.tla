------------------------------ MODULE FastCgi ------------------------------
(***************************************************************************)
(* One FastCGI exchange with PHP-FPM (nc-fastcgi lib.rs): the request body *)
(* is buffered, a Unix socket is opened, the request is executed, and the  *)
(* records PHP writes are read until the stream ends.  A proxied request   *)
(* parses the CGI header block and streams the rest to its client; the     *)
(* fetches of the capabilities collect everything first.                   *)
(*                                                                         *)
(* PHP's output is a sequence of tokens: "crlf" is a line end, the header  *)
(* separator is two of them in a row, and a record cuts the sequence at    *)
(* any place, between the two line ends of the separator too.              *)
(***************************************************************************)
EXTENDS Integers, Sequences, SequencesExt

CONSTANTS
    Replies,      \* for each kind of request, what PHP may write to stdout
    Timeout,      \* fastcgi_timeout_ms, in ticks
    MaxHeader,    \* MAX_HEADER_BLOCK, in tokens
    MaxRecord,    \* bound on the tokens of one record
    MaxNoise      \* bound on the stderr records of an exchange

Tokens == {"crlf", "header", "badheader", "status", "body", "open", "public", "private", "error", "close"}

ASSUME FastCgiAssumption ==
    /\ Timeout \in Nat /\ MaxHeader \in Nat /\ MaxRecord \in Nat \ {0} /\ MaxNoise \in Nat
    /\ Replies \in [{"proxy", "caps", "public"} -> SUBSET Seq(Tokens)]

VARIABLE ex

Idle == [kind |-> "proxy", pc |-> "idle", left |-> 0, spent |-> 0, reply |-> <<>>, sent |-> 0, noise |-> 0,
         accum |-> <<>>, prefix |-> <<>>, out |-> <<>>, status |-> 0, cut |-> FALSE, caps |-> <<>>]

Separators(s)  == {i \in 1..(Len(s) - 1) : s[i] = "crlf" /\ s[i + 1] = "crlf"}
HasSeparator(s) == Separators(s) # {}
SeparatorAt(s) == CHOOSE i \in Separators(s) : \A j \in Separators(s) : i <= j
HeaderBlock(s) == SubSeq(s, 1, SeparatorAt(s) - 1)
AfterHeaders(s) == SubSeq(s, SeparatorAt(s) + 2, Len(s))

(* The Status pseudo-header sets the code and is not forwarded; a line     *)
(* without a colon is skipped.                                             *)
parse_cgi_header_block(block) ==
    [status  |-> IF "status" \in Range(block) THEN 404 ELSE 200,
     headers |-> SelectSeq(block, LAMBDA t : t \in {"header", "badheader"})]

ToPhase(e, phase) == [e EXCEPT !.pc = phase, !.left = Timeout]
error_response(e, code) == [e EXCEPT !.pc = "done", !.status = code]

(* Timed phases: tokio::time::timeout around connect, execute, and, for a  *)
(* proxied request, the wait for the whole header block.                   *)
Timed == {"connect", "execute", "headers"}

(* proxy_handler buffers the request body first.  The two fetches send no  *)
(* body, connect and execute under the same timeout, and collect.          *)
proxy_handler == ex' = [Idle EXCEPT !.pc = "body"]
fetch_php_capabilities == ex' = [ToPhase(Idle, "connect") EXCEPT !.kind = "caps"]
fetch_php_public_capabilities == ex' = [ToPhase(Idle, "connect") EXCEPT !.kind = "public"]

BufferBody ==
    /\ ex.pc = "body"
    /\ \E body \in {"fits", "over 64 MiB", "broken"} :
          ex' = CASE body = "fits" -> ToPhase(ex, "connect")
                  [] body = "over 64 MiB" -> error_response(ex, 413)
                  [] body = "broken" -> error_response(ex, 502)

Connect ==
    /\ ex.pc = "connect"
    /\ \/ ex' = ToPhase(ex, "execute")
       \/ ex' = error_response(ex, 502)

Execute ==
    /\ ex.pc = "execute"
    /\ \/ \E r \in Replies[ex.kind] :
             ex' = [ToPhase(ex, IF ex.kind = "proxy" THEN "headers" ELSE "collect") EXCEPT !.reply = r]
       \/ ex' = error_response(ex, 502)

ExpireOnceConnected == \* mutant: no timer around the connect
    /\ ex.pc \in Timed \ {"connect"} /\ ex.left = 0
    /\ ex' = error_response(ex, 504)

Expire ==
    /\ ex.pc \in Timed /\ ex.left = 0
    /\ ex' = error_response(ex, 504)

Tick ==
    /\ ex.pc \in Timed /\ ex.left > 0
    /\ ex' = [ex EXCEPT !.left = @ - 1, !.spent = @ + 1]

ParseHeadersOfRecord(e, bytes) == \* mutant: each record searched alone
    LET record == SubSeq(bytes, Len(e.accum) + 1, Len(bytes))
    IN IF ~HasSeparator(record) THEN [e EXCEPT !.accum = bytes]
       ELSE [e EXCEPT !.pc = "stream", !.accum = <<>>, !.status = 200, !.prefix = AfterHeaders(record)]

(* parse_streaming_headers on the bytes read so far: the cap is checked    *)
(* before the separator is looked for.  A header the response builder      *)
(* refuses turns the whole answer into 502.                                *)
ParseHeaders(e, bytes) ==
    LET head == parse_cgi_header_block(HeaderBlock(bytes))
    IN IF Len(bytes) > MaxHeader THEN error_response(e, 502)
       ELSE IF ~HasSeparator(bytes) THEN [e EXCEPT !.accum = bytes]
       ELSE IF "badheader" \in Range(head.headers) THEN error_response(e, 502)
       ELSE [e EXCEPT !.pc = "stream", !.accum = <<>>, !.status = head.status, !.prefix = AfterHeaders(bytes)]

Receive(e, record) ==
    CASE e.pc = "headers" -> ParseHeaders(e, e.accum \o record)
      [] e.pc = "stream"  -> [e EXCEPT !.out = @ \o record]
      [] e.pc = "collect" -> [e EXCEPT !.accum = @ \o record]

Reading == ex.pc \in {"headers", "stream", "collect"} /\ ex.prefix = <<>>

Stdout ==
    /\ Reading
    /\ \E n \in 1..MaxRecord :
          /\ ex.sent + n <= Len(ex.reply)
          /\ ex' = Receive([ex EXCEPT !.sent = @ + n], SubSeq(ex.reply, ex.sent + 1, ex.sent + n))

(* Logged in every phase and never forwarded. *)
Stderr ==
    /\ Reading /\ ex.noise < MaxNoise
    /\ ex' = [ex EXCEPT !.noise = @ + 1]

(* The body bytes that came with the end of the headers go out first. *)
DrainPrefix ==
    /\ ex.pc = "stream" /\ ex.prefix # <<>>
    /\ ex' = [ex EXCEPT !.out = @ \o ex.prefix, !.prefix = <<>>]

(* The payload of a capabilities answer: the JSON document after the       *)
(* headers, its ocs.data.capabilities.  Anything else is no payload.       *)
Payload(bytes) ==
    LET body == AfterHeaders(bytes)
        whole == /\ HasSeparator(bytes)
                 /\ Len(body) > 2 /\ body[1] = "open" /\ body[Len(body)] = "close"
    IN IF whole THEN SelectSeq(body, LAMBDA t : t \in {"public", "private"}) ELSE <<>>

(* FCGI_END_REQUEST after the last record. *)
StreamEnds ==
    /\ Reading /\ ex.sent = Len(ex.reply)
    /\ ex' = CASE ex.pc = "headers" -> error_response(ex, 502)
               [] ex.pc = "stream"  -> [ex EXCEPT !.pc = "done"]
               [] ex.pc = "collect" -> [ex EXCEPT !.pc = "done", !.caps = Payload(ex.accum)]

(* The worker dies or breaks the protocol.  The client of a proxied        *)
(* request sees its body cut; a fetch parses what it has.                  *)
StreamBreaks ==
    /\ Reading
    /\ ex' = CASE ex.pc = "headers" -> error_response(ex, 502)
               [] ex.pc = "stream"  -> [ex EXCEPT !.pc = "done", !.cut = TRUE]
               [] ex.pc = "collect" -> [ex EXCEPT !.pc = "done", !.caps = Payload(ex.accum)]

(* A client that disconnects drops the handler or the body stream, and     *)
(* with it the socket.                                                     *)
ClientGone ==
    /\ ex.kind = "proxy" /\ ex.pc \notin {"idle", "done"}
    /\ ex' = [ex EXCEPT !.pc = "done", !.cut = TRUE, !.prefix = <<>>]

(* What depends on the peers, what PHP does with a request it has begun to *)
(* answer, and what the server does by itself.                             *)
Peers  == BufferBody \/ Connect \/ Execute
Php    == Stdout \/ Stderr \/ StreamEnds \/ StreamBreaks
Server == Expire \/ Tick \/ DrainPrefix
=============================================================================
