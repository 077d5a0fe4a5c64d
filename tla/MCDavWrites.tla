----------------------------- MODULE MCDavWrites -----------------------------
(***************************************************************************)
(* Small instances of DavWrites for TLC.                                   *)
(***************************************************************************)
EXTENDS DavWrites, TLC

(* files/, files/d/, files/d/f (2 bytes), files/f (1 byte). *)
D  == FilesPath \o <<Seg("d")>>
DF == D \o <<Seg("f")>>
F  == FilesPath \o <<Seg("f")>>
G  == FilesPath \o <<Seg("g")>>
DG == D \o <<Seg("g")>>
E  == FilesPath \o <<Seg("e")>>
EG == E \o <<Seg("g")>>

MCPaths == <<Root, FilesPath, D, DF, F>>
MCIsDir == <<TRUE, TRUE, TRUE, FALSE, FALSE>>
MCInitFc ==
    [i \in 1..5 |->
        [path |-> MCPaths[i], name |-> IF i = 1 THEN Seg("") ELSE Last(MCPaths[i]),
         parent |-> <<-1, 1, 2, 3, 2>>[i], dir |-> MCIsDir[i],
         etag |-> i, mtime |-> 1, smtime |-> 1]]
MCInitSize == <<3, 3, 2, 2, 1>>
MCInitDisk ==
    [p \in {MCPaths[i] : i \in 2..5} |->
        LET i == lookup_by_path(MCInitFc, p)
        IN  [dir |-> MCIsDir[i], size |-> IF MCIsDir[i] THEN 0 ELSE MCInitSize[i], mtime |-> 1]]

(* The same tree on an account whose trash and versions are set up. *)
MCPaths2 == MCPaths \o <<<<TrashSeg>>, TrashFiles, TrashVersions, TrashKeys,
                         CachePath, <<VersionsSeg>>>>
MCInitFc2 ==
    [i \in 1..11 |->
        IF i <= 5 THEN MCInitFc[i]
        ELSE [path |-> MCPaths2[i], name |-> Last(MCPaths2[i]),
              parent |-> IF i \in 7..9 THEN 6 ELSE 1, dir |-> TRUE,
              etag |-> i, mtime |-> 1, smtime |-> 1]]
MCInitSize2 == [i \in 1..11 |-> IF i <= 5 THEN MCInitSize[i] ELSE 0]
MCInitDisk2 ==
    [p \in {MCPaths2[i] : i \in (2..11) \ {10}} |->
        IF p \in DOMAIN MCInitDisk THEN MCInitDisk[p]
        ELSE [dir |-> TRUE, size |-> 0, mtime |-> 1]]

Put(p, n)      == [NoOp EXCEPT !.kind = "put", !.path = p, !.size = n, !.known = TRUE]
PutAt(p, n, m) == [Put(p, n) EXCEPT !.mtime = m]
Chunked(p, n)  == [Put(p, n) EXCEPT !.known = FALSE]
Mkcol(p)       == [NoOp EXCEPT !.kind = "mkcol", !.path = p]
Move(p, q)     == [NoOp EXCEPT !.kind = "move", !.path = p, !.to = q]
Copy(p, q)     == [NoOp EXCEPT !.kind = "copy", !.path = p, !.to = q]
Delete(p)      == [NoOp EXCEPT !.kind = "delete", !.path = p]
SkipDelete(p)  == [Delete(p) EXCEPT !.skip = TRUE]
Patch(p, m)    == [NoOp EXCEPT !.kind = "setmtime", !.path = p, !.mtime = m]
Propfind(p)    == [NoOp EXCEPT !.kind = "propfind", !.path = p]

(* Every kind of request.  Files with versions are moved and copied at the *)
(* top level only.                                                         *)
SequentialOps ==
    {Put(F, 3), PutAt(F, 2, 1), PutAt(F, 2, 2), Put(DF, 3), Put(EG, 1),
     [Put(G, 2) EXCEPT !.bad = TRUE],
     Chunked(G, 6), Mkcol(E), Copy(F, G), Patch(DF, 5), Delete(F), Delete(D),
     SkipDelete(DF), SkipDelete(D), Move(F, G), Move(D, E), Propfind(FilesPath), Propfind(D)}

ConcurrentOps ==
    {Put(F, 3), Put(G, 2), Put(DF, 3), Put(EG, 1), Mkcol(E), Copy(F, DG), Patch(DF, 5),
     Delete(F), Delete(DF), Delete(D), SkipDelete(D), Move(F, G), Move(D, E),
     Propfind(FilesPath)}

Symmetry == Permutations(Reqs)
=============================================================================
