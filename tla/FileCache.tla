----------------------------- MODULE FileCache -----------------------------
(***************************************************************************)
(* The `oc_filecache` table of one user's home storage, and the statements *)
(* the write path issues against it (nc-dav propagator.rs, row/, path      *)
(* helpers of trashbin.rs and versions.rs).  No state of its own: every    *)
(* operator maps a table to a table.                                       *)
(*                                                                         *)
(* A table is a pair of functions on file ids: `fc` holds the columns      *)
(* path, name, parent, dir (the directory mimetype), etag, mtime and       *)
(* storage_mtime, `size` the size column.                                  *)
(*                                                                         *)
(* A path is a sequence of segments.  A segment <<n, v, d>> is the name n, *)
(* followed by `.v{v}` when v # 0 (a stored version) and by `.d{d}` when   *)
(* d # 0 (an item in the trash).  The storage root is <<>>.                *)
(***************************************************************************)
EXTENDS Integers, Sequences, FiniteSets, SequencesExt

Segment == STRING \X Nat \X Nat
Path    == Seq(Segment)
Row     == [path : Path, name : Segment, parent : Int, dir : BOOLEAN,
            etag : Nat, mtime : Int, smtime : Int]

Seg(n) == <<n, 0, 0>>

Root    == <<>>
FilesSeg    == Seg("files")
VersionsSeg == Seg("files_versions")
TrashSeg    == Seg("files_trashbin")
FilesPath     == <<FilesSeg>>
CachePath     == <<Seg("cache")>>
TrashFiles    == <<TrashSeg, Seg("files")>>
TrashVersions == <<TrashSeg, Seg("versions")>>
TrashKeys     == <<TrashSeg, Seg("keys")>>

ParentPath(p) == IF p = Root THEN Root ELSE Front(p)
Under(q, p)   == IsStrictPrefix(p, q)

(***************************************************************************)
(* files/a/f  ~>  files_versions/a/f, files_versions/a/f.v{m}, and the     *)
(* trash name {basename}.d{ts} with the directory dropped.                 *)
(***************************************************************************)
RelPath(p)          == SubSeq(p, 2, Len(p))
VersionBase(p)      == <<VersionsSeg>> \o RelPath(p)
VersionPath(p, m)   == <<VersionsSeg>> \o Front(RelPath(p)) \o <<<<Last(p)[1], m, 0>>>>
trash_fc_name(s, t) == TrashFiles \o <<<<s[1], s[2], t>>>>

(* q matches LIKE '{base}.v%' for the version base of p. *)
IsVersionOf(q, p) ==
    /\ Len(q) = Len(p)
    /\ Front(q) = Front(VersionBase(p))
    /\ Last(q)[1] = Last(p)[1] /\ Last(q)[2] # 0 /\ Last(q)[3] = 0

(***************************************************************************)
(* Queries.                                                                *)
(***************************************************************************)
Ids(fc, p)  == {i \in DOMAIN fc : fc[i].path = p}
Exists(fc, p) == Ids(fc, p) # {}
lookup_by_path(fc, p) == CHOOSE i \in Ids(fc, p) : TRUE
Children(fc, i) == {j \in DOMAIN fc : fc[j].parent = i}

get_parents(p) == IF p = Root THEN {Root} ELSE {SubSeq(p, 1, k) : k \in 0..(Len(p) - 1)}

(* get_parents reversed: deepest ancestor first, the root last. *)
ParentsDeepestFirst(p) ==
    IF p = Root THEN <<Root>> ELSE [k \in 1..Len(p) |-> SubSeq(p, 1, Len(p) - k)]

(***************************************************************************)
(* The single UPDATE of try_propagate: one etag for every ancestor, the    *)
(* size moved by diff where it is known (> -1), never below -1.  It also   *)
(* raises the ancestors' mtime; the mtime and the storage_mtime of a       *)
(* folder (correct_parent_storage_mtime too) are not tracked here, since   *)
(* no step of the write path and no property reads them.                   *)
(***************************************************************************)
PropagateEtag(fc, p, e) ==
    [i \in DOMAIN fc |->
        IF fc[i].path \in get_parents(p) THEN [fc[i] EXCEPT !.etag = e] ELSE fc[i]]

PropagateSize(fc, size, p, diff) ==
    [i \in DOMAIN size |->
        IF fc[i].path \in get_parents(p) /\ diff # 0 /\ size[i] > -1
        THEN IF size[i] + diff < -1 THEN -1 ELSE size[i] + diff
        ELSE size[i]]

(* The SUM/MIN query of recompute_folder_size and what it makes of it. *)
FolderSize(fc, size, i) ==
    IF \E j \in Children(fc, i) : size[j] = -1
    THEN -1
    ELSE SumFunctionOnSet(size, Children(fc, i))

(***************************************************************************)
(* Updates.                                                                *)
(***************************************************************************)
InsertRow(f, i, v) == [j \in DOMAIN f \cup {i} |-> IF j = i THEN v ELSE f[j]]
DeleteRows(f, S)   == Restrict(f, DOMAIN f \ S)

DirRow(p, par, e, t) ==
    [path |-> p, name |-> Last(p), parent |-> par, dir |-> TRUE,
     etag |-> e, mtime |-> t, smtime |-> t]

(* Faulty variant: the parent column left as it was. *)
MoveRowKeepsParent(fc, i, p, par) == [fc EXCEPT ![i].path = p, ![i].name = Last(p)]

(* UPDATE ... SET path, path_hash, name, parent WHERE fileid = i. *)
MoveRow(fc, i, p, par) ==
    [fc EXCEPT ![i].path = p, ![i].name = Last(p), ![i].parent = par]

Rebase(q, from, to) == to \o SubSeq(q, Len(from) + 1, Len(q))

(* path LIKE '{from}/%' re-keyed onto `to`; name and parent stay. *)
rekey_subtree_paths(fc, from, to) ==
    [i \in DOMAIN fc |->
        IF Under(fc[i].path, from)
        THEN [fc[i] EXCEPT !.path = Rebase(fc[i].path, from, to)]
        ELSE fc[i]]

(* The unique index fs_storage_path_hash. *)
UniquePaths(fc) == \A i, j \in DOMAIN fc : fc[i].path = fc[j].path => i = j

(* The UPDATE fails as a whole when a new path is taken; callers only warn. *)
Rekeyed(fc, from, to) ==
    LET new == rekey_subtree_paths(fc, from, to)
    IN  IF UniquePaths(new) THEN new ELSE fc
=============================================================================
