------------------------------ MODULE Uploads ------------------------------
(***************************************************************************)
(* Chunked upload v2 (upload_handler.rs, upload.rs) and bulk upload        *)
(* (bulk_handler.rs) next to the rest of the DAV write path.               *)
(*                                                                         *)
(* A chunked upload is known twice: as a session in process memory         *)
(* (UploadStateStore: part -> recorded size) and as a directory of chunk   *)
(* files on disk.  Nothing ties the two together, and a restart loses the  *)
(* first.  The bytes of a chunk are modelled by the request that wrote     *)
(* them, one element per byte.                                             *)
(***************************************************************************)
EXTENDS DavWrites

CONSTANTS
    Plans,         \* sequences of sets: what clients may send as their first, second, ... request
    MaxPart,       \* the largest chunk name (10000)
    MaxRestarts    \* bound on the restarts of the server

VARIABLES
    plan,       \* the plan the clients follow
    sessions,   \* UploadStateStore: upload -> [gen, chunks], chunks: part -> size
    chunkdir,   \* upload -> (part -> [ino, data]), the directories on disk
    loc,        \* the locals of upload and bulk requests
    over,       \* history: requests that overlapped another one on their upload
    restarts

uvars == <<plan, sessions, chunkdir, over, restarts>>
allvars == <<vars, uvars, loc>>

(* gen tells sessions of one upload apart; no code reads it. *)
NoLoc == [gen |-> 0, ino |-> 0, data |-> <<>>, results |-> <<>>, status |-> "200"]

UploadsPath == <<Seg("uploads")>>
SourcePath  == UploadsPath \o <<Seg("user"), Seg("upload"), Seg(".file")>>

KeepFiles  == UNCHANGED <<fc, size, disk, temps, trash, ents, clock, nextId, nextEtag, seen>>
KeepUpload == UNCHANGED uvars

UploadOps == {"mkslot", "putchunk", "assemble", "abort", "slotinfo"}
Kinds     == UploadOps \cup {"bulk", "put", "mkcol", "move", "copy", "setmtime", "delete", "propfind"}

(* Clients send requests the router has a handler for, in numbered slots.  *)
ASSUME PlansAssumption ==
    /\ Reqs \subseteq Nat /\ MaxPart \in Nat
    /\ \A p \in Plans : /\ p \in Seq(SUBSET OpT) /\ 1..Len(p) \subseteq Reqs
                        /\ \A i \in 1..Len(p) : \A op \in p[i] : op.kind \in Kinds

Up(r)     == req[r].op.up
HasSession(u) == u \in DOMAIN sessions
HasDir(u)     == u \in DOMAIN chunkdir

RunningOf(S, u) == {s \in S : Active(s) /\ req[s].op.kind \in UploadOps /\ Up(s) = u}

(* upload_handler, bulk_handler: the uploads of another user (skip) are    *)
(* refused.                                                                *)
upload_handler(op) ==
    IF op.skip THEN [Idle EXCEPT !.op = op, !.resp = "403"]
    ELSE [Idle EXCEPT !.op = op, !.todo = <<Do(op.kind)>>]
bulk_handler(op) ==
    [Idle EXCEPT !.op = op,
        !.todo = [i \in 1..Len(op.files) |-> Step("part", op.files[i].path, Root, i, {})]
                 \o <<Do("bulkend")>>]

(* Requests are numbered in the order they arrive. *)
StartUpload(r, op) ==
    /\ req[r] = Idle
    /\ \A s \in Reqs : s < r => req[s] # Idle
    /\ Cardinality({x \in Reqs : Active(x)}) < MaxActive
    /\ req' = [req EXCEPT ![r] = IF op.kind = "bulk" THEN bulk_handler(op)
                                 ELSE IF op.kind \in UploadOps THEN upload_handler(op)
                                 ELSE [Idle EXCEPT !.op = op, !.todo = FirstStep(op)]]
    /\ over' = IF op.kind \in UploadOps /\ RunningOf(Reqs, op.up) # {}
               THEN over \cup {r} \cup RunningOf(Reqs, op.up) ELSE over
    /\ KeepFiles /\ UNCHANGED <<plan, sessions, chunkdir, loc, restarts>>

(***************************************************************************)
(* MKCOL: create_session replaces whatever session the upload had; the     *)
(* expected size it may carry is stored and never read.                    *)
(***************************************************************************)
create_session(u) == InsertRow(sessions, u, [gen |-> nextEtag, chunks |-> <<>>])

handle_mkcol(r) ==
    /\ At(r, "mkslot")
    /\ sessions' = create_session(Up(r))
    /\ nextEtag' = nextEtag + 1
    /\ Advance(r, <<Do("done")>>, req[r])
    /\ UNCHANGED <<fc, size, disk, temps, trash, ents, clock, nextId, seen>>
    /\ UNCHANGED <<plan, chunkdir, over, restarts, loc>>

(***************************************************************************)
(* PUT of a chunk.                                                         *)
(***************************************************************************)
RecordedSize(u) == IF HasSession(u)
                   THEN SumFunctionOnSet(sessions[u].chunks, DOMAIN sessions[u].chunks)
                   ELSE 0
ContentLength(op) == IF op.known THEN op.size ELSE 0

PutChunkAdmit(r) ==
    /\ At(r, "putchunk")
    /\ IF ~HasSession(Up(r)) THEN Fail(r, "404")
       ELSE IF req[r].op.part \notin 1..MaxPart THEN Fail(r, "400")
       ELSE Advance(r, <<Do("chunkquota"), Do("chunkcreate"), Do("chunkbody"), Do("addchunk")>>, req[r])
    /\ KeepFiles /\ KeepUpload /\ UNCHANGED loc

(* The quota covers the recorded chunks and this one. *)
ChunkQuota(r) ==
    /\ At(r, "chunkquota")
    /\ LET n == ContentLength(req[r].op)
       IN  IF n > 0 /\ ~check_quota(RecordedSize(Up(r)) + n) THEN Fail(r, "507") ELSE Next1(r)
    /\ KeepFiles /\ KeepUpload /\ UNCHANGED loc

(* create_dir_all and File::create: an existing chunk is truncated, in     *)
(* place, before the body is read.                                         *)
ChunkFiles(u) == IF HasDir(u) THEN chunkdir[u] ELSE <<>>

ChunkCreate(r) ==
    /\ At(r, "chunkcreate")
    /\ LET old == ChunkFiles(Up(r))
           n   == req[r].op.part
           ino == IF n \in DOMAIN old THEN old[n].ino ELSE r
       IN  /\ chunkdir' = InsertRow(chunkdir, Up(r), InsertRow(old, n, [ino |-> ino, data |-> <<>>]))
           /\ loc' = [loc EXCEPT ![r].ino = ino]
    /\ Next1(r)
    /\ KeepFiles /\ UNCHANGED <<plan, sessions, over, restarts>>

(* write_all through the open handle, from offset 0: two uploads of the    *)
(* same part write over each other; an unlinked file takes no bytes along. *)
Overwritten(data, w, n) ==
    [i \in 1..(IF n > Len(data) THEN n ELSE Len(data)) |-> IF i <= n THEN w ELSE data[i]]

ChunkBody(r) ==
    /\ At(r, "chunkbody")
    /\ LET files == ChunkFiles(Up(r))
           n     == req[r].op.part
       IN  IF req[r].op.bad
           THEN Fail(r, "500") /\ UNCHANGED chunkdir
           ELSE /\ Next1(r)
                /\ chunkdir' = IF n \in DOMAIN files /\ files[n].ino = loc[r].ino
                               THEN [chunkdir EXCEPT ![Up(r)][n].data = Overwritten(@, r, req[r].op.size)]
                               ELSE chunkdir
    /\ KeepFiles /\ UNCHANGED <<plan, sessions, over, restarts, loc>>

(* add_chunk: the session may be gone by now; the file then stays. *)
add_chunk(r) ==
    /\ At(r, "addchunk")
    /\ IF HasSession(Up(r))
       THEN /\ sessions' = [sessions EXCEPT ![Up(r)].chunks =
                              InsertRow(@, req[r].op.part, ContentLength(req[r].op))]
            /\ loc' = [loc EXCEPT ![r].gen = sessions[Up(r)].gen]
            /\ Advance(r, <<Do("done")>>, req[r])
       ELSE Fail(r, "404") /\ UNCHANGED <<sessions, loc>>
    /\ KeepFiles /\ UNCHANGED <<plan, chunkdir, over, restarts>>

(***************************************************************************)
(* MOVE of .file: assembly.                                                *)
(***************************************************************************)
remove_dir_all(u) == Restrict(chunkdir, DOMAIN chunkdir \ {u})

AssembleSession(r) ==
    /\ At(r, "assemble")
    /\ IF HasSession(Up(r))
       THEN /\ loc' = [loc EXCEPT ![r].gen = sessions[Up(r)].gen]
            /\ Advance(r, (IF req[r].op.known THEN <<Do("total")>> ELSE <<>>) \o <<Do("parts")>>, req[r])
       ELSE Fail(r, "404") /\ UNCHANGED loc
    /\ KeepFiles /\ KeepUpload

(* OC-Total-Length is compared with the recorded sizes; a mismatch removes *)
(* the chunks and leaves the session.                                      *)
AssembleTotal(r) ==
    /\ At(r, "total")
    /\ IF RecordedSize(Up(r)) = req[r].op.size
       THEN Next1(r) /\ UNCHANGED chunkdir
       ELSE Fail(r, "400") /\ chunkdir' = remove_dir_all(Up(r))
    /\ KeepFiles /\ UNCHANGED <<plan, sessions, over, restarts, loc>>

(* The part numbers in ascending order. *)
Sorted(S) == CHOOSE s \in [1..Cardinality(S) -> S] : \A i \in 2..Cardinality(S) : s[i - 1] < s[i]

(* Faulty variant: the names of the files in the directory. *)
get_part_ids_on_disk(u) == Sorted(DOMAIN ChunkFiles(u))

get_sorted_part_ids(u) ==
    IF HasSession(u) THEN Sorted(DOMAIN sessions[u].chunks) ELSE <<>>

AssembleParts(r) ==
    /\ At(r, "parts")
    /\ LET ids == get_sorted_part_ids(Up(r))
       IN  IF ids = <<>> THEN Fail(r, "400")
           ELSE Advance(r, [i \in 1..Len(ids) |-> Step("read", Root, Root, ids[i], {})]
                           \o <<Do("asmquota"), Do("target"), Do("parent"), Do("asmwrite"), Do("asmrow")>>,
                        req[r])
    /\ KeepFiles /\ KeepUpload /\ UNCHANGED loc

AssembleRead(r) ==
    /\ At(r, "read")
    /\ LET files == ChunkFiles(Up(r)) IN
       IF Arg(r).n \in DOMAIN files
       THEN loc' = [loc EXCEPT ![r].data = @ \o files[Arg(r).n].data] /\ Next1(r)
       ELSE Fail(r, "500") /\ UNCHANGED loc
    /\ KeepFiles /\ KeepUpload

AssembleQuota(r) ==
    /\ At(r, "asmquota")
    /\ IF check_quota(Len(loc[r].data))
       THEN Next1(r) /\ UNCHANGED chunkdir
       ELSE Fail(r, "507") /\ chunkdir' = remove_dir_all(Up(r))
    /\ KeepFiles /\ UNCHANGED <<plan, sessions, over, restarts, loc>>

(* Faulty variant: the row of an earlier file is still there. *)
FoundRowStale(r, p) ==
    LET i == lookup_by_path(fc, p)
    IN  IF Exists(fc, p)
        THEN [req[r] EXCEPT !.fid = i,
                !.row = [size |-> size[i], etag |-> fc[i].etag, dir |-> fc[i].dir,
                         mtime |-> fc[i].mtime, smtime |-> fc[i].smtime]]
        ELSE req[r]

(* The row of the target, kept for the UPDATE and the size difference. *)
FoundRow(r, p) ==
    LET i == lookup_by_path(fc, p)
    IN  IF Exists(fc, p)
        THEN [req[r] EXCEPT !.fid = i,
                !.row = [size |-> size[i], etag |-> fc[i].etag, dir |-> fc[i].dir,
                         mtime |-> fc[i].mtime, smtime |-> fc[i].smtime]]
        ELSE [req[r] EXCEPT !.fid = 0, !.row = Idle.row]

AssembleTarget(r) ==
    /\ At(r, "target")
    /\ Advance(r, <<>>, FoundRow(r, req[r].op.to))
    /\ KeepFiles /\ KeepUpload /\ UNCHANGED loc

AssembleParent(r) ==
    /\ At(r, "parent")
    /\ LET par == ParentPath(req[r].op.to) IN
       IF Exists(fc, par)
       THEN Advance(r, <<>>, [req[r] EXCEPT !.pid = lookup_by_path(fc, par)])
       ELSE Fail(r, "500")
    /\ KeepFiles /\ KeepUpload /\ UNCHANGED loc

(* fs::write to the final path, create_dir_all before it.  The mtime and   *)
(* ctime headers are validated only now.                                   *)
Writable(d, p) == ~(p \in DOMAIN d /\ d[p].dir)
WrittenFile(p, n, m) == InsertRow(WithDirs(disk, ParentPath(p)), p, [dir |-> FALSE, size |-> n, mtime |-> m])

AssembleWrite(r) ==
    /\ At(r, "asmwrite")
    /\ LET p == req[r].op.to
           m == IF req[r].op.mtime # 0 THEN req[r].op.mtime ELSE clock
       IN  IF ~Writable(disk, p)
           THEN Fail(r, "500") /\ disk' = WithDirs(disk, ParentPath(p))
           ELSE IF req[r].op.bad
           THEN Fail(r, "400") /\ disk' = WrittenFile(p, Len(loc[r].data), clock)
           ELSE /\ disk' = WrittenFile(p, Len(loc[r].data), m)
                /\ Advance(r, <<>>, [req[r] EXCEPT !.um = m])
    /\ UNCHANGED <<fc, size, temps, trash, ents, clock, nextId, nextEtag, seen>>
    /\ KeepUpload /\ UNCHANGED loc

(* UPDATE of the row that was found, INSERT of a new one; a lost INSERT    *)
(* race is an error.                                                       *)
UpdatedRows(r) ==
    /\ fc' = [i \in DOMAIN fc |->
                IF i = req[r].fid
                THEN [fc[i] EXCEPT !.etag = nextEtag, !.mtime = req[r].um, !.smtime = req[r].um]
                ELSE fc[i]]
    /\ Touch(1, 0)
InsertedRow(r, p, n) ==
    /\ fc' = InsertRow(fc, nextId,
               [path |-> p, name |-> Last(p), parent |-> req[r].pid, dir |-> FALSE,
                etag |-> nextEtag, mtime |-> req[r].um, smtime |-> req[r].um])
    /\ size' = InsertRow(size, nextId, n)
    /\ Touch(1, 1)
SizeSet(i, n) == [j \in DOMAIN size |-> IF j = i THEN n ELSE size[j]]

(* Faulty variant: the old size is not taken off. *)
AfterAssemblyNoDiff(r, n) ==
    <<DoAt("lazy", UploadsPath), Prop(req[r].op.to, n), Prop(SourcePath, 0),
      Do("asmentity"), Do("rmchunks"), Do("endsession"), Do("done")>>

AfterAssembly(r, n) ==
    <<DoAt("lazy", UploadsPath), Prop(req[r].op.to, n - req[r].row.size), Prop(SourcePath, 0),
      Do("asmentity"), Do("rmchunks"), Do("endsession"), Do("done")>>

AssembleRow(r) ==
    /\ At(r, "asmrow")
    /\ LET p == req[r].op.to  n == Len(loc[r].data) IN
       IF req[r].fid # 0
       THEN /\ UpdatedRows(r)
            /\ size' = SizeSet(req[r].fid, n)
            /\ Advance(r, AfterAssembly(r, n), req[r])
       ELSE IF Exists(fc, p)
       THEN Fail(r, "500") /\ UNCHANGED <<fc, size, nextId, nextEtag>>
       ELSE /\ InsertedRow(r, p, n)
            /\ Advance(r, AfterAssembly(r, n), [req[r] EXCEPT !.fid = nextId])
    /\ UNCHANGED <<disk, temps, trash, ents, clock, seen>>
    /\ KeepUpload /\ UNCHANGED loc

AssembleEntity(r) ==
    /\ At(r, "asmentity")
    /\ ents' = insert_version_entity(req[r].fid, req[r].um, Len(loc[r].data))
    /\ Next1(r)
    /\ UNCHANGED <<fc, size, disk, temps, trash, clock, nextId, nextEtag, seen>>
    /\ KeepUpload /\ UNCHANGED loc

(* Faulty variant: the directory stays. *)
cleanup_nothing(r) ==
    /\ At(r, "rmchunks")
    /\ Next1(r)
    /\ KeepFiles /\ KeepUpload /\ UNCHANGED loc

(* remove_dir_all and remove_session, at the end of an assembly and, in    *)
(* this order too, for a DELETE of the upload.                             *)
cleanup_chunks(r) ==
    /\ At(r, "rmchunks")
    /\ chunkdir' = remove_dir_all(Up(r))
    /\ Next1(r)
    /\ KeepFiles /\ UNCHANGED <<plan, sessions, over, restarts, loc>>

remove_session(r) ==
    /\ At(r, "endsession")
    /\ sessions' = Restrict(sessions, DOMAIN sessions \ {Up(r)})
    /\ Next1(r)
    /\ KeepFiles /\ UNCHANGED <<plan, chunkdir, over, restarts, loc>>

handle_delete(r) ==
    /\ At(r, "abort")
    /\ Advance(r, <<Do("rmchunks"), Do("endsession"), Do("done")>>, req[r])
    /\ KeepFiles /\ KeepUpload /\ UNCHANGED loc

(* PROPFIND of a slot: known to the store, or on disk. *)
handle_propfind(r) ==
    /\ At(r, "slotinfo")
    /\ IF HasSession(Up(r)) \/ HasDir(Up(r)) THEN Advance(r, <<Do("done")>>, req[r]) ELSE Fail(r, "404")
    /\ KeepFiles /\ KeepUpload /\ UNCHANGED loc

UploadStep(r) ==
    \/ handle_mkcol(r) \/ PutChunkAdmit(r) \/ ChunkQuota(r) \/ ChunkCreate(r) \/ ChunkBody(r)
    \/ add_chunk(r) \/ AssembleSession(r) \/ AssembleTotal(r) \/ AssembleParts(r)
    \/ AssembleRead(r) \/ AssembleQuota(r) \/ AssembleTarget(r) \/ AssembleParent(r)
    \/ AssembleWrite(r) \/ AssembleRow(r) \/ AssembleEntity(r) \/ cleanup_chunks(r)
    \/ remove_session(r) \/ handle_delete(r) \/ handle_propfind(r)

(* The process ends and starts again: running requests are cut off where   *)
(* they are, the session store starts empty, the disk and the database     *)
(* stay.                                                                   *)
Restart ==
    /\ restarts < MaxRestarts
    /\ restarts' = restarts + 1
    /\ sessions' = <<>>
    /\ req' = [r \in Reqs |-> IF Active(r) THEN [req[r] EXCEPT !.todo = <<>>, !.resp = "lost"] ELSE req[r]]
    /\ KeepFiles /\ UNCHANGED <<plan, chunkdir, over, loc>>

-----------------------------------------------------------------------------
(***************************************************************************)
(* POST /dav/bulk: the parts of the body one after the other.  A part that *)
(* cannot be parsed or whose length or hash is wrong ends the loop with    *)
(* 400; any other failure is reported for that part only.                  *)
(***************************************************************************)
PartOf(r) == req[r].op.files[Arg(r).n]
Result(r, p, v) == loc' = [loc EXCEPT ![r].results = InsertRow(@, p, v)]
NextPart == {"part", "bulkend"}
(* The part failed: its entry says so and the loop goes on. *)
PartFails(r, p) == Result(r, p, FALSE) /\ GiveUp(r, NextPart)

BulkPart(r) ==
    /\ At(r, "part")
    /\ LET f == PartOf(r) IN
       CASE f.fault = "parse" ->
              /\ loc' = [loc EXCEPT ![r].status = "400"]
              /\ req' = [req EXCEPT ![r].todo = SkipTo(@, {"bulkend"})]
         [] f.fault = "nopath" -> Next1(r) /\ UNCHANGED loc
         [] f.fault = "mtime"  -> Result(r, f.path, FALSE) /\ Next1(r)
         [] f.fault = "hash"   ->
              /\ loc' = [loc EXCEPT ![r].status = "400",
                                    ![r].results = InsertRow(@, f.path, FALSE)]
              /\ req' = [req EXCEPT ![r].todo = SkipTo(@, {"bulkend"})]
         [] OTHER ->
              IF check_quota(f.size)
              THEN /\ UNCHANGED loc
                   /\ Advance(r, <<DoAt("bulkparent", Arg(r).p),
                                   Step("bulkfind", Arg(r).p, Root, Arg(r).n, {})>>, req[r])
              ELSE Result(r, f.path, FALSE) /\ Next1(r)
    /\ KeepFiles /\ KeepUpload

BulkParent(r) ==
    /\ At(r, "bulkparent")
    /\ LET par == ParentPath(Arg(r).p) IN
       IF Exists(fc, par)
       THEN Advance(r, <<>>, [req[r] EXCEPT !.pid = lookup_by_path(fc, par)]) /\ UNCHANGED loc
       ELSE PartFails(r, Arg(r).p)
    /\ KeepFiles /\ KeepUpload

(* The existing row, create_dir_all, and a version before the overwrite. *)
BulkFind(r) ==
    /\ At(r, "bulkfind")
    /\ LET p == Arg(r).p  n == Arg(r).n IN
       /\ disk' = WithDirs(disk, ParentPath(p))
       /\ Advance(r, (IF Exists(fc, p) THEN <<DoAt("version", p)>> ELSE <<>>)
                     \o <<Step("bulkwrite", p, Root, n, {}), Step("bulkrow", p, Root, n, {})>>,
                  FoundRow(r, p))
    /\ UNCHANGED <<fc, size, temps, trash, ents, clock, nextId, nextEtag, seen>>
    /\ KeepUpload /\ UNCHANGED loc

BulkWrite(r) ==
    /\ At(r, "bulkwrite")
    /\ LET p == Arg(r).p
           f == PartOf(r)
           m == IF f.mtime # 0 THEN f.mtime ELSE clock
       IN  IF DiskDir(ParentPath(p)) /\ Writable(disk, p)
           THEN /\ disk' = InsertRow(disk, p, [dir |-> FALSE, size |-> f.size, mtime |-> m])
                /\ Advance(r, <<>>, [req[r] EXCEPT !.um = m]) /\ UNCHANGED loc
           ELSE PartFails(r, p) /\ UNCHANGED disk
    /\ UNCHANGED <<fc, size, temps, trash, ents, clock, nextId, nextEtag, seen>>
    /\ KeepUpload

(* The delta of a new file is its whole size. *)
AfterBulkRow(r, p, n) == <<Prop(p, PartOf(r).size - req[r].row.size), Step("bulkentity", p, Root, n, {})>>
BulkRow(r) ==
    /\ At(r, "bulkrow")
    /\ LET p == Arg(r).p  n == Arg(r).n  sz == PartOf(r).size IN
       IF req[r].fid # 0
       THEN /\ UpdatedRows(r)
            /\ size' = SizeSet(req[r].fid, sz)
            /\ Advance(r, AfterBulkRow(r, p, n), req[r])
            /\ UNCHANGED loc
       ELSE IF Exists(fc, p)
       THEN PartFails(r, p) /\ UNCHANGED <<fc, size, nextId, nextEtag>>
       ELSE /\ InsertedRow(r, p, sz)
            /\ Advance(r, AfterBulkRow(r, p, n), [req[r] EXCEPT !.fid = nextId])
            /\ UNCHANGED loc
    /\ UNCHANGED <<disk, temps, trash, ents, clock, seen>>
    /\ KeepUpload

BulkEntity(r) ==
    /\ At(r, "bulkentity")
    /\ ents' = insert_version_entity(req[r].fid, req[r].um, PartOf(r).size)
    /\ Result(r, Arg(r).p, TRUE)
    /\ Next1(r)
    /\ UNCHANGED <<fc, size, disk, temps, trash, clock, nextId, nextEtag, seen>>
    /\ KeepUpload

BulkEnd(r) ==
    /\ At(r, "bulkend")
    /\ Advance(r, <<>>, [req[r] EXCEPT !.resp = loc[r].status])
    /\ KeepFiles /\ KeepUpload /\ UNCHANGED loc

BulkStep(r) ==
    \/ BulkPart(r) \/ BulkParent(r) \/ BulkFind(r) \/ BulkWrite(r)
    \/ BulkRow(r) \/ BulkEntity(r) \/ BulkEnd(r)
-----------------------------------------------------------------------------
AnyStep(r) ==
    \/ RequestStep(r) /\ UNCHANGED <<uvars, loc>>
    \/ UploadStep(r)
    \/ BulkStep(r)

UploadInit ==
    /\ Init
    /\ plan \in Plans
    /\ sessions = <<>> /\ chunkdir = <<>> /\ over = {} /\ restarts = 0
    /\ loc = [r \in Reqs |-> NoLoc]

UploadFinished == (\A r \in 1..Len(plan) : req[r] # Idle /\ ~Active(r)) /\ UNCHANGED allvars

UploadNext ==
    \/ \E r \in Reqs : AnyStep(r)
    \/ \E r \in 1..Len(plan) : \E op \in plan[r] : StartUpload(r, op)
    \/ Restart
    \/ UploadFinished

UploadSpec == UploadInit /\ [][UploadNext]_allvars
FairUploadSpec == UploadSpec /\ WF_allvars(\E r \in Reqs : AnyStep(r))
-----------------------------------------------------------------------------
Acked(r, kind) == req[r].op.kind = kind /\ req[r].resp = "ok"

(* The requests of an upload ran one after the other and no body broke off. *)
Undisturbed(u) ==
    \A s \in Reqs : req[s].op.kind \in UploadOps /\ Up(s) = u =>
        s \notin over /\ ~(req[s].op.kind = "putchunk" /\ req[s].op.bad)

(***************************************************************************)
(* An assembled file is the parts in their order, each with the bytes of   *)
(* the last acknowledged PUT of that part since the slot was made, and     *)
(* nothing else: no chunk of an earlier slot of the same name, of before a *)
(* restart or an abort, although its file may still be there               *)
(* (create_session, add_chunk, handle_move).                               *)
(***************************************************************************)
Puts(g, n)   == {s \in Reqs : Acked(s, "putchunk") /\ loc[s].gen = g /\ req[s].op.part = n}
PartBytes(g, n) ==
    LET s == Max(Puts(g, n)) IN [i \in 1..req[s].op.size |-> s]
PartNames(g) == {n \in 1..MaxPart : Puts(g, n) # {}}

AssemblyExact ==
    \A r \in Reqs : Acked(r, "assemble") /\ Undisturbed(Up(r)) =>
        loc[r].data = FlattenSeq([i \in 1..Cardinality(PartNames(loc[r].gen)) |->
                         PartBytes(loc[r].gen, Sorted(PartNames(loc[r].gen))[i])])

(***************************************************************************)
(* No chunks are left behind: without a restart, a directory of chunks     *)
(* belongs to a slot that can still be assembled or aborted.               *)
(***************************************************************************)
NoOrphanChunks ==
    Quiescent /\ restarts = 0 =>
        \A u \in DOMAIN chunkdir : Undisturbed(u) => HasSession(u)

(* No request was cut off by a restart, and none refused an mtime after    *)
(* the file was written.                                                   *)
Undamaged == \A r \in Reqs : req[r].resp # "lost" /\ ~(req[r].op.kind = "assemble" /\ req[r].op.bad)

(***************************************************************************)
(* After assemblies and bulk uploads, one at a time or of different files, *)
(* the tree, the disk and the folder sizes agree as they do after PUTs     *)
(* (handle_move and write_file move sizes by deltas only); and the quota   *)
(* is kept at every step, whatever happens (AssembleQuota, write_file).    *)
(***************************************************************************)
Targets(r) ==
    IF req[r].op.kind = "bulk" THEN {req[r].op.files[i].path : i \in 1..Len(req[r].op.files)}
    ELSE {req[r].op.to, req[r].op.path} \ {Root}
Apart == \A r, s \in Reqs : r # s => Targets(r) \cap Targets(s) = {}

NoDelete == \A r \in Reqs : req[r].op.kind # "delete"

UploadedTree ==
    /\ WithinQuota
    /\ Undamaged /\ Apart /\ NoDelete => TreeConsistent /\ FolderSizes

(***************************************************************************)
(* What a bulk answer says of a file is true: an entry without an error    *)
(* has its row, its bytes and its version entity, also when a later part   *)
(* failed or ended the loop, and a new file with an error left no row.     *)
(***************************************************************************)
LastPart(r, p) == Max({i \in 1..Len(req[r].op.files) : req[r].op.files[i].path = p})

BulkAnswerTrue ==
    Quiescent /\ Apart => \A r \in Reqs :
        req[r].op.kind = "bulk" /\ req[r].resp \in {"200", "400"} =>
            \A p \in DOMAIN loc[r].results :
                IF loc[r].results[p]
                THEN \E i \in Ids(fc, p) : \E k \in 1..Len(req[r].op.files) :
                        LET f == req[r].op.files[k] IN
                        /\ f.path = p /\ size[i] = f.size /\ disk[p].size = f.size
                        /\ \E e \in ents : e[1] = i /\ e[3] = f.size
                ELSE Exists(fc, p) => Exists(InitFc, p) \/ \E k \in 1..(LastPart(r, p) - 1) :
                                                             req[r].op.files[k].path = p
=============================================================================
