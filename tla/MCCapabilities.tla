--------------------------- MODULE MCCapabilities ---------------------------
(***************************************************************************)
(* Small instances of Capabilities for TLC.                                *)
(***************************************************************************)
EXTENDS Capabilities

(* Header blocks with and without Status, one with a header that cannot be *)
(* forwarded, one longer than the cap, output without a separator, and     *)
(* bodies that hold line ends and a second separator.                      *)
Heads  == {<<"header">>, <<"status", "crlf", "header">>, <<"badheader">>, <<>>,
           <<"header", "crlf", "header", "crlf", "header">>}
Bodies == {<<>>, <<"body">>, <<"crlf">>, <<"body", "crlf", "crlf", "body">>}
Sep    == <<"crlf", "crlf">>

MCReplies ==
    [proxy  |-> {h \o Sep \o b : h \in Heads, b \in Bodies} \cup Heads \cup {<<"header", "crlf", "body">>},
     caps   |-> {<<"header">> \o Sep \o <<"open", "public", "private", "close">>,
                 <<"status">> \o Sep \o <<"open", "error", "close">>, <<"header", "crlf">>},
     public |-> {<<"header">> \o Sep \o <<"open", "public", "close">>, <<"status">> \o Sep \o <<"body">>}]
=============================================================================
