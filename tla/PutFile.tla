------------------------------ MODULE PutFile ------------------------------
(***************************************************************************)
(* PUT: NcFileSystem::open for writing, the body into a temp file, then    *)
(* NcDavFile::flush.  What open read of the old row is kept in req[r].row  *)
(* and used, unrefreshed, by every later step.                             *)
(***************************************************************************)
EXTENDS Versions

(* The handler's quota check on the announced length, then open's lookup. *)
PutAdmit(r) ==
    /\ At(r, "put")
    /\ IF check_quota(IF req[r].op.known THEN req[r].op.size ELSE 0)
       THEN Advance(r, <<Do("open")>>, req[r])
       ELSE Fail(r, "507")
    /\ UNCHANGED <<fc, size, disk, temps, trash, ents, clock, nextId, nextEtag, seen>>

PutOpen(r) ==
    /\ At(r, "open")
    /\ LET p == req[r].op.path
           i == lookup_by_path(fc, p)
           old == IF Exists(fc, p)
                  THEN [req[r] EXCEPT !.fid = i,
                          !.row = [size |-> size[i], etag |-> fc[i].etag, dir |-> fc[i].dir,
                                   mtime |-> fc[i].mtime, smtime |-> fc[i].smtime]]
                  ELSE req[r]
       IN  Advance(r, <<Ensure(ParentPath(p)), Do("temp"), Do("flush")>>, old)
    /\ UNCHANGED <<fc, size, disk, temps, trash, ents, clock, nextId, nextEtag, seen>>

(* The temp file next to the target, and the body written into it. *)
PutBody(r) ==
    /\ At(r, "temp")
    /\ disk'  = WithDirs(disk, ParentPath(req[r].op.path))
    /\ temps' = temps \cup {r}
    /\ Advance(r, <<>>, [req[r] EXCEPT !.wm = clock])
    /\ UNCHANGED <<fc, size, trash, ents, clock, nextId, nextEtag, seen>>

(* flush: the checksum is compared before anything is stored. *)
PutChecksum(r) ==
    /\ At(r, "flush")
    /\ IF req[r].op.bad
       THEN temps' = temps \ {r} /\ Fail(r, "400")
       ELSE /\ UNCHANGED temps
            /\ Advance(r, (IF req[r].fid # 0 THEN <<DoAt("version", req[r].op.path)>> ELSE <<>>)
                          \o <<Do("quota"), Do("rename"), Do("touch"), Do("upsert")>>,
                       [req[r] EXCEPT !.um = IF req[r].op.mtime # 0 THEN req[r].op.mtime ELSE clock])
    /\ UNCHANGED <<fc, size, disk, trash, ents, clock, nextId, nextEtag, seen>>

PutQuota(r) ==
    /\ At(r, "quota")
    /\ IF CommitFits(req[r].op.size)
       THEN UNCHANGED temps /\ Next1(r)
       ELSE temps' = temps \ {r} /\ Fail(r, "507")
    /\ UNCHANGED <<fc, size, disk, trash, ents, clock, nextId, nextEtag, seen>>

(* rename(temp, final); a failing rename leaves the temp file behind. *)
PutRename(r) ==
    /\ At(r, "rename")
    /\ LET p == req[r].op.path IN
       IF DiskDir(ParentPath(p)) /\ ~(OnDisk(p) /\ disk[p].dir)
       THEN /\ disk'  = InsertRow(disk, p, [dir |-> FALSE, size |-> req[r].op.size,
                                            mtime |-> req[r].wm])
            /\ temps' = temps \ {r}
            /\ Next1(r)
       ELSE Fail(r, "404") /\ UNCHANGED <<disk, temps>>
    /\ UNCHANGED <<fc, size, trash, ents, clock, nextId, nextEtag, seen>>

(* write_mtime is read from the disk, then the disk takes the effective mtime. *)
PutTouch(r) ==
    /\ At(r, "touch")
    /\ LET p == req[r].op.path IN
       IF OnDisk(p)
       THEN /\ disk' = [disk EXCEPT ![p].mtime = req[r].um]
            /\ Advance(r, <<>>, [req[r] EXCEPT !.wm = disk[p].mtime])
       ELSE /\ UNCHANGED disk
            /\ Advance(r, <<>>, [req[r] EXCEPT !.wm = req[r].um])
    /\ UNCHANGED <<fc, size, temps, trash, ents, clock, nextId, nextEtag, seen>>

(* The row keeps its etag when the disk mtime did not move since open read it. *)
PutEtag(r) ==
    IF req[r].row.smtime # 0 /\ req[r].wm = req[r].row.smtime
    THEN req[r].row.etag ELSE nextEtag

(* Faulty variants: no recomputation for a new file; no delta for an old one. *)
AfterUpsertNoChain(p, chain, diff) == <<Prop(p, diff), Do("entity"), Lazy, Do("done")>>
AfterUpsertNoDelta(p, chain, diff) == chain \o <<Prop(p, 0), Do("entity"), Lazy, Do("done")>>

AfterUpsert(p, chain, diff) ==
    chain \o <<Prop(p, diff), Do("entity"), Lazy, Do("done")>>

(* Faulty variant: the UPDATE leaves the size column out. *)
PutUpdateKeepsSize(r) ==
    /\ At(r, "upsert") /\ req[r].fid # 0
    /\ fc' = [i \in DOMAIN fc |->
                 IF i = req[r].fid
                 THEN [fc[i] EXCEPT !.etag = PutEtag(r), !.mtime = req[r].um, !.smtime = req[r].um]
                 ELSE fc[i]]
    /\ Touch(1, 0)
    /\ Advance(r, AfterUpsert(req[r].op.path, <<>>, req[r].op.size - req[r].row.size),
               [req[r] EXCEPT !.retag = nextEtag])
    /\ UNCHANGED <<size, disk, temps, trash, ents, clock, seen>>

PutUpdate(r) ==
    /\ At(r, "upsert") /\ req[r].fid # 0
    /\ LET f == req[r].fid IN
       /\ fc' = [i \in DOMAIN fc |->
                   IF i = f THEN [fc[i] EXCEPT !.etag = PutEtag(r), !.mtime = req[r].um,
                                               !.smtime = req[r].um]
                   ELSE fc[i]]
       /\ size' = [i \in DOMAIN size |-> IF i = f THEN req[r].op.size ELSE size[i]]
    /\ Touch(1, 0)
    /\ Advance(r, AfterUpsert(req[r].op.path, <<>>, req[r].op.size - req[r].row.size),
               [req[r] EXCEPT !.retag = nextEtag])
    /\ UNCHANGED <<disk, temps, trash, ents, clock, seen>>

(* A new file: the INSERT fails when another request took the path first. *)
PutInsert(r) ==
    /\ At(r, "upsert") /\ req[r].fid = 0
    /\ LET p == req[r].op.path IN
       IF Exists(fc, p)
       THEN Fail(r, "500") /\ UNCHANGED <<fc, size, nextId, nextEtag>>
       ELSE /\ fc' = InsertRow(fc, nextId,
                       [path |-> p, name |-> Last(p), parent |-> req[r].pid, dir |-> FALSE,
                        etag |-> nextEtag, mtime |-> req[r].um, smtime |-> req[r].um])
            /\ size' = InsertRow(size, nextId, req[r].op.size)
            /\ Touch(1, 1)
            /\ Advance(r, AfterUpsert(p, SizeChain(p), 0),
                       [req[r] EXCEPT !.retag = nextEtag, !.fid = nextId])
    /\ UNCHANGED <<disk, temps, trash, ents, clock, seen>>

PutEntity(r) ==
    /\ At(r, "entity")
    /\ ents' = insert_version_entity(req[r].fid, req[r].um, req[r].op.size)
    /\ Next1(r)
    /\ UNCHANGED <<fc, size, disk, temps, trash, clock, nextId, nextEtag, seen>>

PutStep(r) ==
    \/ PutAdmit(r) \/ PutOpen(r) \/ PutBody(r) \/ PutChecksum(r) \/ PutQuota(r)
    \/ PutRename(r) \/ PutTouch(r) \/ PutUpdate(r) \/ PutInsert(r) \/ PutEntity(r)
=============================================================================
