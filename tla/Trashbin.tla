------------------------------ MODULE Trashbin ------------------------------
(***************************************************************************)
(* trashbin.rs: DELETE of a file or a directory, into the trash or for     *)
(* good, with the versions of what is deleted.                             *)
(***************************************************************************)
EXTENDS Structure

should_move_to_trash(r) == TrashEnabled /\ ~req[r].op.skip

(***************************************************************************)
(* delete_file / delete_dir: the row and its size are read first and used  *)
(* at the very end.  The DAV framework empties a directory child by child  *)
(* before it asks for the directory itself, unless the trash takes it      *)
(* whole (the DELETE intercept of handler.rs).                             *)
(***************************************************************************)
DeleteLookup(r) ==
    /\ At(r, "delete")
    /\ LET p == Arg(r).p
           i == lookup_by_path(fc, p)
           l == [req[r] EXCEPT !.fid = i, !.row =
                  [size |-> size[i], etag |-> fc[i].etag, dir |-> fc[i].dir,
                   mtime |-> fc[i].mtime, smtime |-> fc[i].smtime]]
       IN  \/ ~Exists(fc, p) /\ Fail(r, "404")
           \/ /\ Exists(fc, p) /\ should_move_to_trash(r)
              /\ Advance(r, <<Step("tname", p, Root, clock, {})>>, l)
           \/ /\ Exists(fc, p) /\ ~should_move_to_trash(r)
              /\ IF fc[i].dir /\ Children(fc, i) # {}
                 THEN \E c \in Children(fc, i) :
                        Advance(r, <<DoAt("delete", fc[c].path), Arg(r)>>, req[r])
                 ELSE Advance(r, <<DoAt("hdisk", p), DoAt("hrow", p)>>, l)
    /\ UNCHANGED <<fc, size, disk, temps, trash, ents, clock, nextId, nextEtag, seen>>

(* Faulty variant: the next name tried is the same name again. *)
TrashNameNoBump(r) ==
    /\ At(r, "tname")
    /\ LET p == Arg(r).p
           t == trash_fc_name(Last(p), Arg(r).n)
       IN  IF Exists(fc, t) \/ OnDisk(t)
           THEN Advance(r, <<Arg(r)>>, req[r])
           ELSE Advance(r, <<Ensure(TrashFiles), Ensure(TrashVersions), Ensure(TrashKeys), Lazy,
                             Step("tdisk", p, t, 0, {}), Step("trow", p, t, 0, {})>>,
                        [req[r] EXCEPT !.ts = Arg(r).n])
    /\ UNCHANGED <<fc, size, disk, temps, trash, ents, clock, nextId, nextEtag, seen>>

(***************************************************************************)
(* move_to_trash: a free {basename}.d{ts}, bumping ts past taken names; the *)
(* trash skeleton and the cache row; the disk rename; the row; the item.   *)
(***************************************************************************)
TrashName(r) ==
    /\ At(r, "tname")
    /\ LET p == Arg(r).p
           t == trash_fc_name(Last(p), Arg(r).n)
       IN  IF Exists(fc, t) \/ OnDisk(t)
           THEN Advance(r, <<[Arg(r) EXCEPT !.n = @ + 1]>>, req[r])
           ELSE Advance(r, <<Ensure(TrashFiles), Ensure(TrashVersions), Ensure(TrashKeys), Lazy,
                             Step("tdisk", p, t, 0, {}), Step("trow", p, t, 0, {})>>,
                        [req[r] EXCEPT !.ts = Arg(r).n])
    /\ UNCHANGED <<fc, size, disk, temps, trash, ents, clock, nextId, nextEtag, seen>>

TrashDisk(r) ==
    /\ At(r, "tdisk")
    /\ LET p == Arg(r).p  t == Arg(r).q IN
       IF OnDisk(p) /\ Replaceable(p, t)
       THEN disk' = RenameOnDisk(p, t) /\ Next1(r)
       ELSE Fail(r, "404") /\ UNCHANGED disk
    /\ UNCHANGED <<fc, size, temps, trash, ents, clock, nextId, nextEtag, seen>>

(* Faulty variant: the folder the item came from is not stamped. *)
TrashTailNoSourceStamp(p, t, dir, sz) ==
    <<Step("titem", p, t, 0, {})>>
    \o (IF dir THEN <<Step("rekey", p, t, 0, {})>> ELSE <<>>)
    \o <<Do("tnow")>> \o SizeChain(t) \o <<Prop(t, 0), DoAt("tpick", p)>>

TrashTail(p, t, dir, sz) ==
    <<Step("titem", p, t, 0, {})>>
    \o (IF dir THEN <<Step("rekey", p, t, 0, {})>> ELSE <<>>)
    \o <<Do("tnow")>> \o SizeChain(t)
    \o <<Prop(t, 0), DoAt("tpick", p), Prop(p, IF sz > 0 THEN -sz ELSE 0)>>

TrashRow(r) ==
    /\ At(r, "trow")
    /\ LET p == Arg(r).p  t == Arg(r).q  f == req[r].fid IN
       IF ~Exists(fc, TrashFiles) \/ (f \in DOMAIN fc /\ Ids(fc, t) \ {f} # {})
       THEN Fail(r, "500") /\ UNCHANGED fc
       ELSE /\ fc' = IF f \in DOMAIN fc
                     THEN [MoveRow(fc, f, t, lookup_by_path(fc, TrashFiles)) EXCEPT
                             ![f].smtime = IF OnDisk(t) THEN disk[t].mtime ELSE req[r].ts]
                     ELSE fc
            /\ Advance(r, TrashTail(p, t, req[r].row.dir, req[r].row.size), req[r])
    /\ UNCHANGED <<size, disk, temps, trash, ents, clock, nextId, nextEtag, seen>>

(* Faulty variant: the item gets the time of the request, not the free one. *)
TrashItemUnbumped(r) ==
    /\ At(r, "titem")
    /\ trash' = trash \cup {[name |-> Last(Arg(r).p), ts |-> clock,
                             location |-> ParentPath(Arg(r).p)]}
    /\ Next1(r)
    /\ UNCHANGED <<fc, size, disk, temps, ents, clock, nextId, nextEtag, seen>>

TrashItem(r) ==
    /\ At(r, "titem")
    /\ trash' = trash \cup {[name |-> Last(Arg(r).p), ts |-> req[r].ts,
                             location |-> ParentPath(Arg(r).p)]}
    /\ Next1(r)
    /\ UNCHANGED <<fc, size, disk, temps, ents, clock, nextId, nextEtag, seen>>

(* The caller takes its own now_secs() once move_to_trash has returned. *)
TrashNow(r) ==
    /\ At(r, "tnow")
    /\ Advance(r, <<>>, [req[r] EXCEPT !.um = clock])
    /\ UNCHANGED <<fc, size, disk, temps, trash, ents, clock, nextId, nextEtag, seen>>

(***************************************************************************)
(* trash_versions: the entities go, the version rows and files move to     *)
(* files_trashbin/versions/{name}.d{now}.                                  *)
(***************************************************************************)
VersionRows(f, p) ==
    {i \in DOMAIN f : \/ f[i].path = VersionBase(p) \/ Under(f[i].path, VersionBase(p))
                      \/ f[i].path # Root /\ IsVersionOf(f[i].path, p)}

TrashVersionsPick(r) ==
    /\ At(r, "tpick")
    /\ ents' = {e \in ents : e[1] # req[r].fid}
    /\ LET p  == Arg(r).p
           rs == VersionRows(fc, p)
       IN  IF rs = {} \/ ~Exists(fc, TrashVersions)
           THEN Next1(r)
           ELSE Advance(r, <<Step("tvmove", p, Root, 0, {fc[i].path : i \in rs})>>, req[r])
    /\ UNCHANGED <<fc, size, disk, temps, trash, clock, nextId, nextEtag, seen>>

(* One path per distinct parent directory. *)
PerParent(P) == {CHOOSE x \in P : ParentPath(x) = q : q \in {ParentPath(x) : x \in P}}

TrashVersionsMove(r) ==
    /\ At(r, "tvmove")
    /\ LET p    == Arg(r).p
           base == VersionBase(p)
           kids == {x \in Arg(r).s : Under(x, base)}
           tgt(x) == TrashVersions \o <<<<Last(x)[1], Last(x)[2], req[r].um>>>>
           moved  == {x \in Arg(r).s \ kids : OnDisk(x) /\ Replaceable(x, tgt(x))}
           d    == WithDirs(disk, TrashVersions)
           gone == UNION {Subtree(x) : x \in moved}
           new  == {pr \in moved \X gone : pr[2] = pr[1] \/ Under(pr[2], pr[1])}
           to(pr) == Rebase(pr[2], pr[1], tgt(pr[1]))
           rekeyed == IF kids = {} THEN fc ELSE Rekeyed(fc, base, tgt(base))
           dests == {tgt(base) \o SubSeq(x, Len(base) + 1, Len(x)) : x \in kids}
                    \cup {tgt(x) : x \in moved}
       IN  /\ disk' = [q \in (DOMAIN d \ gone) \cup {to(pr) : pr \in new} |->
                         IF \E pr \in new : to(pr) = q
                         THEN disk[(CHOOSE pr \in new : to(pr) = q)[2]] ELSE d[q]]
           /\ fc' = RepathRows(rekeyed, {<<x, tgt(x)>> : x \in moved})
           /\ Advance(r, <<Step("props", Root, Root, 0, PerParent(kids \cup moved)),
                           Step("props", Root, Root, 0, PerParent(dests))>>
                         \o SizeChain(base) \o SizeChain(tgt(base)), req[r])
    /\ UNCHANGED <<size, temps, trash, ents, clock, nextId, nextEtag, seen>>

(***************************************************************************)
(* The hard delete.                                                        *)
(***************************************************************************)
HardDisk(r) ==
    /\ At(r, "hdisk")
    /\ LET p == Arg(r).p IN
       IF OnDisk(p)
       THEN disk' = DeleteRows(disk, Subtree(p)) /\ Next1(r)
       ELSE Fail(r, "404") /\ UNCHANGED disk
    /\ UNCHANGED <<fc, size, temps, trash, ents, clock, nextId, nextEtag, seen>>

(* Faulty variant: a hard delete does not propagate. *)
HardTailSilent(p, dir, sz) == IF dir THEN <<>> ELSE <<DoAt("hversions", p)>>

HardTail(p, dir, sz) ==
    <<Prop(p, IF sz > 0 THEN -sz ELSE 0)>> \o IF dir THEN <<>> ELSE <<DoAt("hversions", p)>>

HardRow(r) ==
    /\ At(r, "hrow")
    /\ LET p == Arg(r).p
           gone == IF req[r].row.dir
                   THEN {i \in DOMAIN fc : fc[i].path = p \/ Under(fc[i].path, p)}
                   ELSE {req[r].fid}
       IN  /\ fc'   = DeleteRows(fc, gone)
           /\ size' = DeleteRows(size, gone)
           /\ Advance(r, HardTail(p, req[r].row.dir, req[r].row.size), req[r])
    /\ UNCHANGED <<disk, temps, trash, ents, clock, nextId, nextEtag, seen>>

(* hard_delete_versions hands the parent of the version path to the        *)
(* propagator, which stamps and recomputes its strict ancestors.           *)
HardVersionsTail(p) ==
    <<Prop(ParentPath(VersionBase(p)), 0)>> \o SizeChain(ParentPath(VersionBase(p)))

HardDeleteVersions(r) ==
    /\ At(r, "hversions")
    /\ ents' = {e \in ents : e[1] # req[r].fid}
    /\ LET p  == Arg(r).p
           vs == {i \in DOMAIN fc : fc[i].path # Root /\ IsVersionOf(fc[i].path, p)}
       IN  IF vs = {}
           THEN Next1(r) /\ UNCHANGED <<fc, size, disk>>
           ELSE /\ disk' = DeleteRows(disk, {fc[i].path : i \in vs})
                /\ fc'   = DeleteRows(fc, vs)
                /\ size' = DeleteRows(size, vs)
                /\ Advance(r, HardVersionsTail(p), req[r])
    /\ UNCHANGED <<temps, trash, clock, nextId, nextEtag, seen>>

DeleteStep(r) ==
    \/ DeleteLookup(r) \/ TrashName(r) \/ TrashDisk(r) \/ TrashRow(r) \/ TrashItem(r)
    \/ TrashNow(r) \/ TrashVersionsPick(r) \/ TrashVersionsMove(r)
    \/ HardDisk(r) \/ HardRow(r) \/ HardDeleteVersions(r)
=============================================================================
