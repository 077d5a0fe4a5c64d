---------------------------- MODULE MCProperties ----------------------------
(***************************************************************************)
(* Small instances of Properties for TLC: the folder d with the file f, an *)
(* empty place e beside it.  The path e/f is longer than 250 bytes, d/f is *)
(* not, so that a move crosses the threshold; in the second instance it    *)
(* is neither, and the folders are a_b and axb.                            *)
(***************************************************************************)
EXTENDS Properties

D  == <<"d">>
DF == <<"d", "f">>
E  == <<"e">>
EF == <<"e", "f">>
G  == <<"g">>
MCPaths == {D, DF, E, EF, G}
MCDirs  == {D, E}
MCLong  == {EF}
MCNode  == [p \in MCPaths |-> CASE p = D -> 1 [] p = DF -> 2 [] OTHER -> 0]

I(set, prop, name, value) == [set |-> set, prop |-> prop, name |-> name, value |-> value]
Set(n, v)   == I(TRUE, "custom", n, v)
Drop(n)   == I(FALSE, "custom", n, 0)
Col(k, v)   == I(TRUE, k, "", v)
Fav(v)      == I(TRUE, "favorite", "", v)
Unfav       == I(FALSE, "favorite", "", 0)
Tags(S)     == I(TRUE, "tags", "", S)
Untag       == I(FALSE, "tags", "", {})
Proppatch(p, patch) == [kind |-> "proppatch", path |-> p, patch |-> patch]
MoveTo(p, q) == [kind |-> "move", path |-> p, to |-> q]
Do(k, p)    == [kind |-> k, path |-> p]

Symmetry == Permutations(Clients)

MCOps ==
    {Proppatch(DF, <<Set("x", 1), Set("x", 2)>>), Proppatch(D, <<Set("x", 1)>>),
     Proppatch(EF, <<Set("x", 3), Drop("x"), Set("x", 0)>>),
     Proppatch(DF, <<Fav(1), Tags({"a", ""}), Tags({"b"})>>),
     Proppatch(DF, <<Tags({"a_padded", TAG_FAVORITE}), Unfav>>), Proppatch(DF, <<Untag, Fav(0)>>),
     Proppatch(DF, <<Col("creation_time", 1), Col("upload_time", 2), Col("getetag", 0),
                     Col("getlastmodified", 1), Col("displayname", 1), I(FALSE, "getetag", "", 0)>>),
     MoveTo(D, E), MoveTo(E, D), MoveTo(DF, G),
     Do("trash", DF), Do("delete", DF), Do("delete", E), Do("delete", D), Do("put", DF)}

(* Two folders whose names differ where one of them has a `_`. *)
A  == <<"a_b">>
AF == <<"a_b", "f">>
X  == <<"axb">>
XG == <<"axb", "g">>
EG == <<"e", "g">>
WildPaths == {A, AF, X, XG, E, EF, EG}
WildDirs  == {A, X, E}
WildNode  == [p \in WildPaths |-> CASE p = A -> 1 [] p = AF -> 2 [] p = X -> 3 [] p = XG -> 4 [] OTHER -> 0]
WildNames == {<<"a_b", "axb">>}
WildOps   == {MoveTo(A, E), MoveTo(X, E), Do("delete", A), Proppatch(XG, <<Set("x", 1)>>)}
=============================================================================
