------------------------------ MODULE Versions ------------------------------
(***************************************************************************)
(* versions.rs: the stored versions of a file, files_versions/{rel}.v{ts}, *)
(* kept on disk and in oc_filecache, and the oc_files_versions entities.   *)
(* Errors in here are logged and never fail the request.                   *)
(***************************************************************************)
EXTENDS WriteCore

(***************************************************************************)
(* store_version(p), called by an overwriting write before it: copy the    *)
(* file that is still in place, create the version's ancestors, insert the *)
(* version's row unless the path already has one, propagate.               *)
(***************************************************************************)
StoreVersion(r) ==
    /\ At(r, "version")
    /\ LET p  == Arg(r).p
           vp == VersionPath(p, req[r].row.mtime)
           d  == WithDirs(disk, ParentPath(vp))
       IN  IF req[r].row.size = 0 \/ req[r].row.dir
           THEN Next1(r) /\ UNCHANGED disk
           ELSE IF ~OnDisk(p)
           THEN Next1(r) /\ disk' = d
           ELSE /\ disk' = InsertRow(d, vp, [dir |-> FALSE, size |-> disk[p].size, mtime |-> clock])
                /\ Advance(r, [k \in 1..(Len(vp) - 1) |-> DoAt("vsegment", SubSeq(vp, 1, k))]
                              \o <<DoAt("vrow", vp), Prop(vp, 0)>> \o SizeChain(vp),
                           req[r])
    /\ UNCHANGED <<fc, size, temps, trash, ents, clock, nextId, nextEtag, seen>>

(* ensure_version_parents: unlike ensure_parent_dir, a lost INSERT race is *)
(* an error, and store_version returns.                                    *)
VersionParentLookup(r) ==
    /\ At(r, "vsegment")
    /\ IF Exists(fc, Arg(r).p)
       THEN Next1(r)
       ELSE Advance(r, <<DoAt("vmkseg", Arg(r).p)>>, req[r])
    /\ UNCHANGED <<fc, size, disk, temps, trash, ents, clock, nextId, nextEtag, seen>>

VersionParentInsert(r) ==
    /\ At(r, "vmkseg")
    /\ LET p   == Arg(r).p
           top == Len(p) = 1
           anchor == IF top THEN FilesPath ELSE ParentPath(p)
           at  == lookup_by_path(fc, anchor)
       IN  IF Exists(fc, p) \/ ~Exists(fc, anchor)
           THEN GiveUp(r, {"quota", "bulkwrite"}) /\ UNCHANGED <<fc, size, nextId, nextEtag>>
           ELSE /\ fc'   = InsertRow(fc, nextId,
                             DirRow(p, IF top THEN fc[at].parent ELSE at, nextEtag, clock))
                /\ size' = InsertRow(size, nextId, 0)
                /\ Touch(1, 1)
                /\ Advance(r, <<Prop(p, 0)>>, req[r])
    /\ UNCHANGED <<disk, temps, trash, ents, clock, seen>>

(* insert_version_row: a clone of the overwritten row. *)
InsertVersionRow(r) ==
    /\ At(r, "vrow")
    /\ LET vp == Arg(r).p IN
       IF Exists(fc, vp) \/ ~Exists(fc, ParentPath(vp))
       THEN UNCHANGED <<fc, size, nextId, nextEtag>>
       ELSE /\ fc' = InsertRow(fc, nextId,
                       [path |-> vp, name |-> Last(vp),
                        parent |-> lookup_by_path(fc, ParentPath(vp)), dir |-> FALSE,
                        etag |-> req[r].row.etag, mtime |-> req[r].row.mtime,
                        smtime |-> clock])
            /\ size' = InsertRow(size, nextId, req[r].row.size)
            /\ Touch(0, 1)
    /\ Next1(r)
    /\ UNCHANGED <<disk, temps, trash, ents, clock, seen>>

(***************************************************************************)
(* rename_versions / copy_versions.  The version files are found by        *)
(* listing the directory of the old version path on disk; the row each one *)
(* is re-keyed from is files_versions/{name of the entry}.                 *)
(***************************************************************************)
VersionsOnDisk(p) == {q \in DOMAIN disk : q # Root /\ IsVersionOf(q, p) /\ ~disk[q].dir}
ListedRowPath(q)  == <<VersionsSeg, Last(q)>>
VersionAt(q, p)   == VersionPath(p, Last(q)[2])
IsVersionDir(p)   == OnDisk(VersionBase(p)) /\ disk[VersionBase(p)].dir

RenameVersionsDisk(r) ==
    /\ At(r, "vrename")
    /\ LET from == Arg(r).p  to == Arg(r).q
           old  == VersionBase(from)  new == VersionBase(to)
           vs   == VersionsOnDisk(from)
           d    == WithDirs(disk, ParentPath(new))
       IN  IF IsVersionDir(from)
           THEN /\ disk' = IF ~Replaceable(old, new) THEN d
                           ELSE [q \in (DOMAIN d \ Subtree(old)) \cup
                                       {Rebase(x, old, new) : x \in Subtree(old)} |->
                                   IF q = new \/ Under(q, new)
                                   THEN disk[Rebase(q, new, old)] ELSE d[q]]
                /\ Advance(r, <<Step("vrekey", old, new, 0, {})>>, req[r])
           ELSE IF vs = {}
           THEN Next1(r) /\ UNCHANGED disk
           ELSE /\ disk' = [q \in (DOMAIN d \ vs) \cup {VersionAt(x, to) : x \in vs} |->
                              IF \E x \in vs : VersionAt(x, to) = q
                              THEN disk[CHOOSE x \in vs : VersionAt(x, to) = q]
                              ELSE d[q]]
                /\ Advance(r, <<Step("vrepath", from, to, 0, vs)>>, req[r])
    /\ UNCHANGED <<fc, size, temps, trash, ents, clock, nextId, nextEtag, seen>>

(* Move rows along the pairs <<from, to>> of M; a missing parent row       *)
(* leaves the parent column, a path already taken fails that one UPDATE.   *)
RepathRows(f, M) ==
    [i \in DOMAIN f |->
        IF \E m \in M : f[i].path = m[1] /\ m[1] # m[2] /\ ~Exists(f, m[2])
        THEN LET to  == (CHOOSE m \in M : f[i].path = m[1])[2]
                 par == ParentPath(to)
             IN  [f[i] EXCEPT !.path = to, !.name = Last(to),
                              !.parent = IF Exists(f, par) THEN lookup_by_path(f, par) ELSE @]
        ELSE f[i]]

RepathVersionRows(r) ==
    /\ At(r, "vrepath")
    /\ fc' = RepathRows(fc, {<<ListedRowPath(x), VersionAt(x, Arg(r).q)>> : x \in Arg(r).s})
    /\ Next1(r)
    /\ UNCHANGED <<size, disk, temps, trash, ents, clock, nextId, nextEtag, seen>>

RepathVersionSubtree(r) ==
    /\ At(r, "vrekey")
    /\ LET old == Arg(r).p  new == Arg(r).q
       IN  fc' = RepathRows(Rekeyed(fc, old, new), {<<old, new>>})
    /\ Next1(r)
    /\ UNCHANGED <<size, disk, temps, trash, ents, clock, nextId, nextEtag, seen>>

(* copy_versions for a file: copy on disk, clone the listed rows. *)
CopyVersions(r) ==
    /\ At(r, "vcopy")
    /\ LET from == Arg(r).p  to == Arg(r).q
           vs   == VersionsOnDisk(from)
           par  == ParentPath(VersionBase(to))
           d    == IF vs = {} THEN disk ELSE WithDirs(disk, par)
           new  == {x \in vs : /\ Exists(fc, ListedRowPath(x)) /\ Exists(fc, par)
                               /\ ~Exists(fc, VersionAt(x, to))}
           id(x)  == nextId + Cardinality({y \in new : Last(y)[2] < Last(x)[2]})
           src(i) == lookup_by_path(fc, ListedRowPath(CHOOSE x \in new : id(x) = i))
           ids    == {id(x) : x \in new}
       IN  /\ disk' = [q \in DOMAIN d \cup {VersionAt(x, to) : x \in vs} |->
                         IF \E x \in vs : VersionAt(x, to) = q
                         THEN [disk[CHOOSE x \in vs : VersionAt(x, to) = q] EXCEPT !.mtime = clock]
                         ELSE d[q]]
           /\ fc' = [i \in DOMAIN fc \cup ids |->
                       IF i \in ids
                       THEN LET v == VersionAt(CHOOSE x \in new : id(x) = i, to)
                            IN  [fc[src(i)] EXCEPT !.path = v, !.name = Last(v),
                                                   !.parent = lookup_by_path(fc, par)]
                       ELSE fc[i]]
           /\ size' = [i \in DOMAIN size \cup ids |-> IF i \in ids THEN size[src(i)] ELSE size[i]]
           /\ Touch(0, Cardinality(new))
    /\ Next1(r)
    /\ UNCHANGED <<temps, trash, ents, clock, seen>>

(* sync_version_entities: an entity for every version file without one. *)
SyncVersionEntities(r) ==
    /\ At(r, "vsync")
    /\ LET p == Arg(r).p
           f == lookup_by_path(fc, p)
       IN  ents' = IF Exists(fc, p)
                   THEN ents \cup {<<f, Last(q)[2], disk[q].size>> :
                                   q \in {x \in VersionsOnDisk(p) : ~HasEnt(f, Last(x)[2])}}
                   ELSE ents
    /\ Next1(r)
    /\ UNCHANGED <<fc, size, disk, temps, trash, clock, nextId, nextEtag, seen>>

VersionStep(r) ==
    \/ StoreVersion(r) \/ VersionParentLookup(r) \/ VersionParentInsert(r)
    \/ InsertVersionRow(r) \/ RenameVersionsDisk(r) \/ RepathVersionRows(r)
    \/ RepathVersionSubtree(r) \/ CopyVersions(r) \/ SyncVersionEntities(r)
=============================================================================
