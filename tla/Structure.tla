----------------------------- MODULE Structure -----------------------------
(***************************************************************************)
(* mutations.rs: MKCOL, MOVE, COPY and the mtime-changing PROPPATCH.       *)
(* Destinations that exist when the request arrives are first deleted by   *)
(* the DAV framework; here MOVE and COPY start with a free destination,    *)
(* which another request may still take in the meantime.                   *)
(***************************************************************************)
EXTENDS Versions

(* create_dir_row. *)
MkcolCheck(r) ==
    /\ At(r, "mkcol")
    /\ IF ~check_quota(4096) THEN Fail(r, "507")
       ELSE IF Exists(fc, req[r].op.path) THEN Fail(r, "405")
       ELSE Advance(r, <<Ensure(ParentPath(req[r].op.path)), Do("mkdir"), Do("mkrow")>>, req[r])
    /\ UNCHANGED <<fc, size, disk, temps, trash, ents, clock, nextId, nextEtag, seen>>

MkcolDisk(r) ==
    /\ At(r, "mkdir")
    /\ LET p == req[r].op.path IN
       IF OnDisk(p) THEN Fail(r, "405") /\ UNCHANGED disk
       ELSE IF ~DiskDir(ParentPath(p)) THEN Fail(r, "404") /\ UNCHANGED disk
       ELSE /\ disk' = InsertRow(disk, p, [dir |-> TRUE, size |-> 0, mtime |-> 0])
            /\ Next1(r)
    /\ UNCHANGED <<fc, size, temps, trash, ents, clock, nextId, nextEtag, seen>>

MkcolInsert(r) ==
    /\ At(r, "mkrow")
    /\ LET p == req[r].op.path IN
       IF Exists(fc, p)
       THEN Fail(r, "500") /\ UNCHANGED <<fc, size, nextId, nextEtag>>
       ELSE /\ fc'   = InsertRow(fc, nextId, DirRow(p, req[r].pid, nextEtag, clock))
            /\ size' = InsertRow(size, nextId, 0)
            /\ Touch(1, 1)
            /\ Advance(r, <<Prop(p, 0), Do("done")>>, req[r])
    /\ UNCHANGED <<disk, temps, trash, ents, clock, seen>>

(***************************************************************************)
(* rename_node.                                                            *)
(***************************************************************************)
MoveLookup(r) ==
    /\ At(r, "move")
    /\ LET from == req[r].op.path  par == ParentPath(req[r].op.to) IN
       IF ~Exists(fc, from) \/ ~Exists(fc, par)
       THEN Fail(r, "404")
       ELSE LET i == lookup_by_path(fc, from) IN
            Advance(r, <<Do("mvdisk"), Do("mvrow")>>,
                    [req[r] EXCEPT !.fid = i, !.pid = lookup_by_path(fc, par),
                                   !.row.dir = fc[i].dir])
    /\ UNCHANGED <<fc, size, disk, temps, trash, ents, clock, nextId, nextEtag, seen>>

MoveDisk(r) ==
    /\ At(r, "mvdisk")
    /\ LET from == req[r].op.path  to == req[r].op.to IN
       IF OnDisk(from) /\ DiskDir(ParentPath(to)) /\ ~Under(to, from) /\ Replaceable(from, to)
       THEN disk' = RenameOnDisk(from, to) /\ Next1(r)
       ELSE Fail(r, "404") /\ UNCHANGED disk
    /\ UNCHANGED <<fc, size, temps, trash, ents, clock, nextId, nextEtag, seen>>

(* The chains rename_node recomputes: it hands the parents to              *)
(* correct_folder_size_chain, which walks their strict ancestors.          *)
MoveSizeChains(from, to) ==
    IF ParentPath(from) # ParentPath(to)
    THEN SizeChain(ParentPath(from)) \o SizeChain(ParentPath(to))
    ELSE SizeChain(ParentPath(to))

(* Faulty variant: the versions stay where they were. *)
MoveTailForgetsVersions(from, to, dir) ==
    (IF dir THEN <<Step("rekey", from, to, 0, {})>> ELSE <<>>)
    \o <<Prop(from, 0), Prop(to, 0)>> \o MoveSizeChains(from, to) \o <<Do("done")>>

MoveTail(from, to, dir) ==
    (IF dir THEN <<Step("rekey", from, to, 0, {})>> ELSE <<>>)
    \o <<Step("vrename", from, to, 0, {}), Prop(from, 0), Prop(to, 0)>>
    \o MoveSizeChains(from, to)
    \o <<Prop(VersionBase(to), 0)>> \o SizeChain(VersionBase(to))
    \o <<Do("done")>>

MoveUpdate(r) ==
    /\ At(r, "mvrow")
    /\ LET from == req[r].op.path  to == req[r].op.to  f == req[r].fid IN
       IF Ids(fc, to) \ {f} # {} /\ f \in DOMAIN fc
       THEN Fail(r, "500") /\ UNCHANGED fc
       ELSE /\ fc' = IF f \in DOMAIN fc THEN MoveRow(fc, f, to, req[r].pid) ELSE fc
            /\ Advance(r, MoveTail(from, to, req[r].row.dir), req[r])
    /\ UNCHANGED <<size, disk, temps, trash, ents, clock, nextId, nextEtag, seen>>

RekeySubtree(r) ==
    /\ At(r, "rekey")
    /\ fc' = Rekeyed(fc, Arg(r).p, Arg(r).q)
    /\ Next1(r)
    /\ UNCHANGED <<size, disk, temps, trash, ents, clock, nextId, nextEtag, seen>>

(***************************************************************************)
(* copy_node for a file.                                                   *)
(***************************************************************************)
CopyAdmit(r) ==
    /\ At(r, "copy")
    /\ LET from == req[r].op.path IN
       IF Exists(fc, from) /\ ~check_quota(size[lookup_by_path(fc, from)])
       THEN Fail(r, "507")
       ELSE Advance(r, <<Do("cpdisk"), Do("cpdel")>>, req[r])
    /\ UNCHANGED <<fc, size, disk, temps, trash, ents, clock, nextId, nextEtag, seen>>

CopyDisk(r) ==
    /\ At(r, "cpdisk")
    /\ LET from == req[r].op.path  to == req[r].op.to IN
       IF OnDisk(from) /\ ~disk[from].dir /\ DiskDir(ParentPath(to))
          /\ (OnDisk(to) => ~disk[to].dir)
       THEN disk' = InsertRow(disk, to, [disk[from] EXCEPT !.mtime = clock]) /\ Next1(r)
       ELSE Fail(r, "404") /\ UNCHANGED disk
    /\ UNCHANGED <<fc, size, temps, trash, ents, clock, nextId, nextEtag, seen>>

CopyTail(from, to) ==
    <<Step("vcopy", from, to, 0, {}), DoAt("vsync", to), Prop(to, 0)>>
    \o SizeChain(to) \o <<Prop(VersionBase(to), 0)>> \o SizeChain(VersionBase(to))
    \o <<Do("done")>>

CopyDelete(r) ==
    /\ At(r, "cpdel")
    /\ fc'   = DeleteRows(fc, Ids(fc, req[r].op.to))
    /\ size' = DeleteRows(size, Ids(fc, req[r].op.to))
    /\ Advance(r, <<Do("cplookup")>> \o CopyTail(req[r].op.path, req[r].op.to), req[r])
    /\ UNCHANGED <<disk, temps, trash, ents, clock, nextId, nextEtag, seen>>

CopyLookup(r) ==
    /\ At(r, "cplookup")
    /\ LET from == req[r].op.path  to == req[r].op.to  i == lookup_by_path(fc, from) IN
       IF Exists(fc, from)
       THEN Advance(r, <<Ensure(ParentPath(to)), Do("cprow")>>,
                    [req[r] EXCEPT !.fid = i,
                       !.row = [size |-> size[i], etag |-> fc[i].etag, dir |-> fc[i].dir,
                                mtime |-> fc[i].mtime, smtime |-> fc[i].smtime]])
       ELSE Next1(r)
    /\ UNCHANGED <<fc, size, disk, temps, trash, ents, clock, nextId, nextEtag, seen>>

(* The clone keeps the source's etag and mtime; a failed INSERT is only logged. *)
CopyInsert(r) ==
    /\ At(r, "cprow")
    /\ LET to == req[r].op.to  par == ParentPath(to) IN
       IF Exists(fc, to) \/ ~Exists(fc, par)
       THEN UNCHANGED <<fc, size, ents, nextId, nextEtag>>
       ELSE /\ fc' = InsertRow(fc, nextId,
                       [path |-> to, name |-> Last(to), parent |-> lookup_by_path(fc, par),
                        dir |-> req[r].row.dir, etag |-> req[r].row.etag,
                        mtime |-> req[r].row.mtime, smtime |-> clock])
            /\ size' = InsertRow(size, nextId, req[r].row.size)
            /\ ents' = insert_version_entity(nextId, req[r].row.mtime, req[r].row.size)
            /\ Touch(0, 1)
    /\ Next1(r)
    /\ UNCHANGED <<disk, temps, trash, clock, seen>>

(* set_mtime. *)
SetMtime(r) ==
    /\ At(r, "setmtime")
    /\ fc' = [i \in DOMAIN fc |->
                IF fc[i].path = req[r].op.path
                THEN [fc[i] EXCEPT !.mtime = req[r].op.mtime, !.smtime = req[r].op.mtime]
                ELSE fc[i]]
    /\ Advance(r, <<Prop(req[r].op.path, 0), Do("done")>>, req[r])
    /\ UNCHANGED <<size, disk, temps, trash, ents, clock, nextId, nextEtag, seen>>

StructureStep(r) ==
    \/ MkcolCheck(r) \/ MkcolDisk(r) \/ MkcolInsert(r)
    \/ MoveLookup(r) \/ MoveDisk(r) \/ MoveUpdate(r) \/ RekeySubtree(r)
    \/ CopyAdmit(r) \/ CopyDisk(r) \/ CopyDelete(r) \/ CopyLookup(r) \/ CopyInsert(r)
    \/ SetMtime(r)
=============================================================================
