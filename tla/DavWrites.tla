----------------------------- MODULE DavWrites -----------------------------
(***************************************************************************)
(* The whole DAV write path on one home storage: PUT, MKCOL, MOVE, COPY,   *)
(* PROPPATCH (mtime) and DELETE running side by side, next to PROPFIND     *)
(* requests of a sync client.                                              *)
(***************************************************************************)
EXTENDS PutFile, Trashbin

FirstStep(op) ==
    CASE op.kind = "delete"   -> <<DoAt("delete", op.path), Do("done")>>
      [] op.kind = "propfind" -> <<DoAt("pfself", op.path)>>
      [] OTHER                -> <<Do(op.kind)>>

(* A request arrives; MOVE and COPY with a free destination (see Structure). *)
Start(r, op) ==
    /\ req[r] = Idle
    /\ Cardinality({x \in Reqs : Active(x)}) < MaxActive
    /\ op.kind \in {"move", "copy"} => ~Exists(fc, op.to)
    /\ req' = [req EXCEPT ![r] = [Idle EXCEPT !.op = op, !.todo = FirstStep(op)]]
    /\ UNCHANGED <<fc, size, disk, temps, trash, ents, clock, nextId, nextEtag, seen>>

(***************************************************************************)
(* PROPFIND, depth 1: the directory's own row first (load_meta, kept for   *)
(* the answer), then the listing of its children (read_dir_batched).  The  *)
(* client remembers the etag together with the listing.                    *)
(***************************************************************************)
Listing(f, i) == {[id |-> j, name |-> f[j].name, etag |-> f[j].etag] : j \in Children(f, i)}

(* What a client that has listed every folder of the user remembers. *)
Polled(f) ==
    [i \in {j \in DOMAIN f : f[j].dir /\ (f[j].path = FilesPath \/ Under(f[j].path, FilesPath))} |->
        [etag |-> f[i].etag, list |-> Listing(f, i)]]

PropfindSelf(r) ==
    /\ At(r, "pfself")
    /\ LET p == Arg(r).p
           i == lookup_by_path(fc, p)
       IN  IF Exists(fc, p)
           THEN Advance(r, <<Do("pflist")>>, [req[r] EXCEPT !.fid = i, !.retag = fc[i].etag])
           ELSE Fail(r, "404")
    /\ UNCHANGED <<fc, size, disk, temps, trash, ents, clock, nextId, nextEtag, seen>>

PropfindList(r) ==
    /\ At(r, "pflist")
    /\ seen' = InsertRow(seen, req[r].fid,
                 [etag |-> req[r].retag, list |-> Listing(fc, req[r].fid)])
    /\ Advance(r, (IF req[r].op.path = FilesPath THEN <<Do("lazycache")>> ELSE <<>>)
                  \o <<Do("done")>>, req[r])
    /\ UNCHANGED <<fc, size, disk, temps, trash, ents, clock, nextId, nextEtag>>

(* ensure_lazy_cache_row: a listing of files/ makes the cache/ row once,   *)
(* and gives the root another etag.                                        *)
EnsureLazyCache(r) ==
    /\ At(r, "lazycache")
    /\ Advance(r, IF Exists(fc, CachePath) THEN <<>> ELSE <<Lazy, Do("bumproot")>>, req[r])
    /\ UNCHANGED <<fc, size, disk, temps, trash, ents, clock, nextId, nextEtag, seen>>

BumpRoot(r) ==
    /\ At(r, "bumproot")
    /\ fc' = [i \in DOMAIN fc |-> IF fc[i].path = Root THEN [fc[i] EXCEPT !.etag = nextEtag] ELSE fc[i]]
    /\ Touch(1, 0)
    /\ Next1(r)
    /\ UNCHANGED <<size, disk, temps, trash, ents, clock, seen>>

RequestStep(r) ==
    \/ SharedStep(r) \/ VersionStep(r) \/ PutStep(r) \/ StructureStep(r)
    \/ DeleteStep(r) \/ PropfindSelf(r) \/ PropfindList(r)
    \/ EnsureLazyCache(r) \/ BumpRoot(r)

Init ==
    /\ fc = InitFc /\ size = InitSize /\ disk = InitDisk
    /\ temps = {} /\ trash = {} /\ ents = {} /\ clock = 2
    /\ nextId = Cardinality(DOMAIN InitFc) + 1
    /\ nextEtag = Cardinality(DOMAIN InitFc) + 1
    /\ req = [r \in Reqs |-> Idle]
    /\ seen = Polled(InitFc)

Finished == (\A r \in Reqs : req[r] # Idle /\ ~Active(r)) /\ UNCHANGED vars

Next ==
    \/ \E r \in Reqs : RequestStep(r)
    \/ \E r \in Reqs, op \in Ops : Start(r, op)
    \/ Tick
    \/ Finished

Spec == Init /\ [][Next]_vars
-----------------------------------------------------------------------------
StepT   == [k : STRING, p : Path, q : Path, n : Int, s : SUBSET Path]
OpT     == [kind : STRING, path : Path, to : Path, size : Nat, known : BOOLEAN,
            mtime : Int, bad : BOOLEAN, skip : BOOLEAN, up : Nat, part : Int,
            files : Seq([path : Path, size : Nat, mtime : Int, fault : STRING])]
RequestT ==
    [op : OpT, todo : Seq(StepT), resp : STRING, fid : Nat, pid : Int,
     row : [size : Int, etag : Nat, mtime : Int, smtime : Int, dir : BOOLEAN],
     wm : Int, um : Int, ts : Int, retag : Nat, cid : Nat, csize : Int, cnew : Int]

(* The types of the state, and that ids are only ever handed out by nextId. *)
TypeOK ==
    /\ fc \in [DOMAIN fc -> Row] /\ DOMAIN fc \subseteq 1..(nextId - 1)
    /\ size \in [DOMAIN fc -> Int]
    /\ disk \in [DOMAIN disk -> [dir : BOOLEAN, size : Nat, mtime : Int]]
    /\ DOMAIN disk \subseteq Path
    /\ temps \subseteq Reqs
    /\ trash \subseteq [name : Segment, ts : Int, location : Path]
    /\ ents \subseteq Nat \X Int \X Int
    /\ clock \in Nat /\ nextId \in Nat /\ nextEtag \in Nat
    /\ req \in [Reqs -> RequestT]
    /\ \A i \in DOMAIN seen : seen[i].etag \in Nat

(* op writes, moves or deletes p, or a folder p is in. *)
Disturbs(op, p) ==
    \/ op.kind \in {"put", "delete", "move"} /\ IsPrefix(op.path, p)
    \/ op.kind \in {"move", "copy"} /\ IsPrefix(op.to, p)

(***************************************************************************)
(* Every row hangs below the row of its parent directory, under the name   *)
(* its path ends in, and no two rows share a path: MOVE, trash and the     *)
(* version helpers rewrite path, name and parent in separate statements    *)
(* (mutations.rs, trashbin.rs, versions.rs, rekey.rs).                     *)
(***************************************************************************)
RowsFormTree ==
    /\ UniquePaths(fc)
    /\ \A i \in DOMAIN fc : fc[i].path # Root =>
          /\ fc[i].name = Last(fc[i].path)
          /\ fc[i].parent \in DOMAIN fc
          /\ fc[fc[i].parent].path = ParentPath(fc[i].path)

(***************************************************************************)
(* The table and the disk agree below files/ and in the trash: the same    *)
(* paths, the same kinds, the file sizes, and no upload temp file left     *)
(* behind (davfile.rs, mutations.rs, trashbin.rs).                         *)
(***************************************************************************)
OfUser(p) == Under(p, FilesPath) \/ Under(p, TrashFiles)

DiskMatchesRows ==
    /\ {p \in {fc[i].path : i \in DOMAIN fc} : OfUser(p)} = {p \in DOMAIN disk : OfUser(p)}
    /\ \A i \in DOMAIN fc : OfUser(fc[i].path) =>
          /\ fc[i].dir = disk[fc[i].path].dir
          /\ ~fc[i].dir => size[i] = disk[fc[i].path].size
    /\ temps = {}

(* Between requests the rows form a tree and the disk matches it; the      *)
(* state is well-typed at every statement.                                 *)
TreeConsistent == TypeOK /\ (Quiescent => RowsFormTree /\ DiskMatchesRows)

(***************************************************************************)
(* Between requests a folder's size is the sum of its children's: the      *)
(* signed deltas of propagate_change and the recomputing chains of         *)
(* propagator.rs never drift apart.  Quota is computed from these sizes.   *)
(***************************************************************************)
SizesAddUp(top) ==
    Quiescent => \A i \in DOMAIN fc :
        fc[i].dir /\ (fc[i].path = top \/ Under(fc[i].path, top))
            => size[i] = FolderSize(fc, size, i)

FolderSizes == SizesAddUp(FilesPath)

(* The same with requests side by side that overwrite or delete different  *)
(* files: their deltas commute (a new file recomputes sums instead, and    *)
(* can overwrite a delta that comes in between).                           *)
Delta(op) ==
    op.kind \in {"none", "delete", "setmtime"} \/ (op.kind = "put" /\ Exists(InitFc, op.path))

DeltasAddUp ==
    /\ \A r \in Reqs : Delta(req[r].op)
    /\ \A r \in Reqs : \A s \in Reqs \ {r} : ~Disturbs(req[s].op, req[r].op.path)
    => FolderSizes

(* No file was deleted past the trash: that leaves the size of             *)
(* files_versions, and the versions of the children of a folder.           *)
NoHardDelete == \A r \in Reqs : ~req[r].op.skip

(* The sizes of files_versions add up too, through every PUT, MOVE, COPY   *)
(* and trash delete (store_version, trash_versions).                       *)
VersionFolderSizes == NoHardDelete => SizesAddUp(<<VersionsSeg>>)

(* Between requests the sizes of all folders add up, of files/ and of      *)
(* files_versions (propagator.rs).                                         *)
SizesConsistent == FolderSizes /\ VersionFolderSizes

(***************************************************************************)
(* Between requests the items of oc_files_trash are exactly the entries of *)
(* files_trashbin/files, also after two deletes of the same name in the    *)
(* same second (the {name}.d{ts} search of move_to_trash).                 *)
(***************************************************************************)
TrashConsistent ==
    Quiescent =>
        {trash_fc_name(t.name, t.ts) : t \in trash}
          = {p \in {fc[i].path : i \in DOMAIN fc} : p # Root /\ ParentPath(p) = TrashFiles}

(***************************************************************************)
(* Between requests every stored version has its file on disk and its row, *)
(* and belongs to a file that still exists (store_version, rename_versions *)
(* and copy_versions of versions.rs, the version steps of trashbin.rs).    *)
(***************************************************************************)
StoredVersions(P) == {p \in P : Under(p, <<VersionsSeg>>) /\ Last(p)[2] # 0}

VersionsFollowFiles ==
    Quiescent /\ NoHardDelete =>
        LET rows == StoredVersions({fc[i].path : i \in DOMAIN fc})
        IN  /\ rows = StoredVersions(DOMAIN disk)
            /\ \A v \in rows : \E i \in DOMAIN fc :
                  Under(fc[i].path, FilesPath) /\ IsVersionOf(v, fc[i].path)

(***************************************************************************)
(* Between requests, a file below files/ has a version entity with the     *)
(* size of every acknowledged PUT, also when several writes share a second *)
(* (insert_version_entity, versions.rs), and no entity outlives its file.  *)
(***************************************************************************)
EntityPerWrite ==
    Quiescent =>
        /\ \A r \in Reqs :
              LET f == req[r].fid IN
              /\ req[r].op.kind = "put" /\ req[r].resp = "ok"
              /\ f \in DOMAIN fc /\ Under(fc[f].path, FilesPath)
              => \E e \in ents : e[1] = f /\ e[3] = req[r].op.size
        /\ \A e \in ents : e[1] \in DOMAIN fc

(* Between requests no version is lost or left over, neither a stored one  *)
(* nor an entity (versions.rs).                                            *)
VersionsConsistent == VersionsFollowFiles /\ EntityPerWrite

(***************************************************************************)
(* What a desktop client relies on: a folder whose etag is the one it last *)
(* saw has exactly the children it last saw ("polls detect the change      *)
(* purely from the parent ETag", propagator.rs).  Holds whenever no        *)
(* request is running.                                                     *)
(***************************************************************************)
Unchanged(i) == seen[i].etag = fc[i].etag => seen[i].list = Listing(fc, i)

SyncDetects == Quiescent => \A i \in DOMAIN seen \cap DOMAIN fc : Unchanged(i)

(* The same for requests side by side, of which none writes, moves or      *)
(* deletes what another one works on: their propagations to the folders    *)
(* they share leave no change out.                                         *)
SyncDetectsApart ==
    (\A r \in Reqs : \A s \in Reqs \ {r} : \A p \in {req[r].op.path, req[r].op.to} :
        ~Disturbs(req[s].op, p)) => SyncDetects

(***************************************************************************)
(* The bytes of an acknowledged PUT are there, in the table and on disk,   *)
(* unless another request wrote, moved or deleted that path (davfile.rs).  *)
(***************************************************************************)
AckedPutStored ==
    Quiescent => \A r \in Reqs :
        LET p == req[r].op.path IN
        /\ req[r].op.kind = "put" /\ req[r].resp = "ok"
        /\ \A s \in Reqs \ {r} : ~Disturbs(req[s].op, p)
        => /\ \E i \in Ids(fc, p) : ~fc[i].dir /\ size[i] = req[r].op.size
           /\ OnDisk(p) /\ disk[p].size = req[r].op.size

(* What the user owns below files/ never grows past the quota: at most it  *)
(* stays where it was when the quota was set (quota.rs, row/quota.rs).     *)
WithinQuota ==
    LET quota == IF PersonalQuota # NoQuota THEN PersonalQuota ELSE DefaultQuota
    IN  \/ quota = NoQuota
        \/ UsedBytes <= quota
        \/ UsedBytes <= InitSize[lookup_by_path(InitFc, FilesPath)]

(***************************************************************************)
(* Every request that was taken up is answered: no handler loops, whatever *)
(* the others do, the search for a free trash name included.  Each of the  *)
(* finitely many requests runs once, so all have been answered when none   *)
(* is running.                                                             *)
(***************************************************************************)
EveryRequestAnswered == ~Quiescent ~> Quiescent
=============================================================================
