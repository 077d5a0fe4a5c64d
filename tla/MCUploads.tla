----------------------------- MODULE MCUploads -----------------------------
(***************************************************************************)
(* A small instance of Uploads for TLC.                                    *)
(***************************************************************************)
EXTENDS Uploads, TLC

F == FilesPath \o <<Seg("f")>>
G == FilesPath \o <<Seg("g")>>
E == FilesPath \o <<Seg("k")>>
H == FilesPath \o <<Seg("e"), Seg("h")>>

(* files/, files/f (1 byte), files/d/ and files/d/f (empty). *)
D  == FilesPath \o <<Seg("d")>>
DF == D \o <<Seg("f")>>
MCPaths == <<Root, FilesPath, F, D, DF>>
MCInitFc ==
    [i \in 1..5 |->
        [path |-> MCPaths[i], name |-> IF i = 1 THEN Seg("") ELSE Last(MCPaths[i]),
         parent |-> <<-1, 1, 2, 2, 4>>[i], dir |-> i \in {1, 2, 4}, etag |-> i, mtime |-> 1, smtime |-> 1]]
MCInitSize == <<1, 1, 1, 0, 0>>
MCInitDisk == [p \in {FilesPath, F, D, DF} |->
                  [dir |-> p \in {FilesPath, D}, size |-> IF p = F THEN 1 ELSE 0, mtime |-> 1]]

MkSlot        == [NoOp EXCEPT !.kind = "mkslot", !.up = 1]
Chunk(n, sz)  == [NoOp EXCEPT !.kind = "putchunk", !.up = 1, !.part = n, !.size = sz, !.known = TRUE]
Streamed(n)   == [Chunk(n, 4) EXCEPT !.known = FALSE]
Broken(n)     == [Chunk(n, 1) EXCEPT !.bad = TRUE]
Assemble(p)   == [NoOp EXCEPT !.kind = "assemble", !.up = 1, !.to = p]
AssembleN(p, n) == [Assemble(p) EXCEPT !.known = TRUE, !.size = n]
Abort         == [NoOp EXCEPT !.kind = "abort", !.up = 1]
SlotInfo      == [NoOp EXCEPT !.kind = "slotinfo", !.up = 1]
Delete(p)     == [NoOp EXCEPT !.kind = "delete", !.path = p]
Mkcol(p)      == [NoOp EXCEPT !.kind = "mkcol", !.path = p]
File(p, sz, fault) == [path |-> p, size |-> sz, mtime |-> 0, fault |-> fault]
Bulk(fs)      == [NoOp EXCEPT !.kind = "bulk", !.files = fs]

(* An upload of two parts with a retry, a second MKCOL or an abort in the  *)
(* middle, and every kind of assembly or bulk upload at the end; a name    *)
(* that reaches the trash twice in a second.                               *)
Bulks ==
    {Bulk(<<File(F, 2, ""), File(G, 1, "nopath"), File(H, 1, ""), File(G, 1, "mtime"),
            File(E, 9, ""), File(G, 1, ""), File(E, 1, "hash"), File(E, 1, "")>>),
     Bulk(<<File(G, 1, ""), File(G, 2, "parse"), File(F, 1, "")>>)}
MCPlans ==
    {<<{MkSlot}, {Chunk(2, 2), Streamed(1)}, {MkSlot, Abort, Broken(2), Chunk(2, 1)},
       {Chunk(1, 1)}, {Assemble(G), AssembleN(F, 3)}>>,
     <<{MkSlot}, {Chunk(2, 2), Chunk(3, 1)}, {AssembleN(F, 2), SlotInfo}, {Assemble(G), Assemble(H)}>>,
     <<{MkSlot}, {Chunk(2, 2)}, {[Assemble(F) EXCEPT !.bad = TRUE], AssembleN(F, 1)}, {SlotInfo, [Abort EXCEPT !.skip = TRUE]}>>,
     <<Bulks, {Mkcol(H)}>>,
     <<{Delete(F)}, {Delete(DF)}>>}
MCReqs == 1..5
=============================================================================
