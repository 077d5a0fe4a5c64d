----------------------------- MODULE WriteCore -----------------------------
(***************************************************************************)
(* State of the DAV write path and the steps every handler shares.         *)
(*                                                                         *)
(* Requests run concurrently on one storage and interleave at every await: *)
(* one SQL statement or one file-system call is one step.  There are no    *)
(* locks between them (locksystem.rs grants every lock).  The rest of a    *)
(* handler is the sequence req[r].todo of steps it still has to run: the   *)
(* step at the head runs next, and may put the steps it calls for in front *)
(* of the others.  A step is [k, p, q, n, s]: its kind and arguments.      *)
(***************************************************************************)
EXTENDS FileCache

CONSTANTS
    Reqs,           \* request slots: each serves one request
    MaxActive,      \* how many requests run at the same time
    Ops,            \* the requests clients may send
    InitFc, InitSize, InitDisk,  \* the storage before the first request
    TrashEnabled,   \* appconfig files_trashbin / enabled
    PersonalQuota,  \* oc_preferences files/quota in bytes, NoQuota when unset
    DefaultQuota,   \* appconfig files/default_quota, NoQuota for "none"
    MaxClock        \* bound on the clock, in seconds

(* The storage before the first request has rows 1, 2, ... and the paths   *)
(* of its disk are paths.                                                  *)
ASSUME StorageAssumption == InitFc \in Seq(Row) /\ DOMAIN InitDisk \subseteq Path

NoQuota == -1

VARIABLES
    fc, size,     \* oc_filecache
    disk,         \* path -> [dir, size, mtime] below the user's data directory
    temps,        \* requests whose .nc_upload_ temp file is on disk
    trash,        \* oc_files_trash: [name, ts, location]
    ents,         \* oc_files_versions: <<fileid, timestamp, size>>
    clock,        \* now_secs()
    nextId, nextEtag,
    req,          \* the requests
    seen          \* fileid -> the last PROPFIND answer a client got for it

vars == <<fc, size, disk, temps, trash, ents, clock, nextId, nextEtag, req, seen>>

Step(k, p, q, n, s) == [k |-> k, p |-> p, q |-> q, n |-> n, s |-> s]
Do(k)        == Step(k, Root, Root, 0, {})
DoAt(k, p)   == Step(k, p, Root, 0, {})
Prop(p, d)   == Step("prop", p, Root, d, {})
Ensure(p)    == DoAt("ensure", p)
Lazy         == DoAt("lazy", CachePath)

(* correct_folder_size_chain(p): three statements per ancestor of p. *)
SizeChain(p) ==
    [k \in 1..Len(ParentsDeepestFirst(p)) |-> DoAt("size", ParentsDeepestFirst(p)[k])]

NoOp == [kind |-> "none", path |-> Root, to |-> Root, size |-> 0,
         known |-> FALSE, mtime |-> 0, bad |-> FALSE, skip |-> FALSE,
         up |-> 0, part |-> 0, files |-> <<>>]

Idle == [op |-> NoOp, todo |-> <<>>, resp |-> "none", fid |-> 0, pid |-> 0,
         row |-> [size |-> 0, etag |-> 0, mtime |-> 0, smtime |-> 0, dir |-> FALSE],
         wm |-> 0, um |-> 0, ts |-> 0, retag |-> 0,
         cid |-> 0, csize |-> 0, cnew |-> 0]

Active(r)  == req[r].todo # <<>>
Quiescent  == \A r \in Reqs : ~Active(r)
At(r, k)   == Active(r) /\ Head(req[r].todo).k = k
Arg(r)     == Head(req[r].todo)

(* Run the head step: `more` is what it calls for, l the new locals. *)
Advance(r, more, l) ==
    req' = [req EXCEPT ![r] = [l EXCEPT !.todo = more \o Tail(req[r].todo)]]
Next1(r) == Advance(r, <<>>, req[r])

(* The handler returns early with status st. *)
Fail(r, st) == req' = [req EXCEPT ![r] = [@ EXCEPT !.todo = <<>>, !.resp = st]]

(* new_etag() and the fileid sequence of the database. *)
Touch(etags, ids) == nextEtag' = nextEtag + etags /\ nextId' = nextId + ids

(* A file-system path that can take a child. *)
DiskDir(p)   == p = Root \/ (p \in DOMAIN disk /\ disk[p].dir)
OnDisk(p)    == p \in DOMAIN disk
Subtree(p)   == {q \in DOMAIN disk : q = p \/ Under(q, p)}
RenameOnDisk(from, to) ==
    [q \in (DOMAIN disk \ (Subtree(from) \cup Subtree(to)))
            \cup {Rebase(x, from, to) : x \in Subtree(from)} |->
        IF q = to \/ Under(q, to) THEN disk[Rebase(q, to, from)] ELSE disk[q]]
(* rename(2) replaces a file by a file and an empty directory by a directory. *)
Replaceable(from, to) == OnDisk(to) => disk[to].dir = disk[from].dir /\ Subtree(to) = {to}
(* create_dir_all *)
WithDirs(d, p) ==
    [q \in DOMAIN d \cup {SubSeq(p, 1, k) : k \in 1..Len(p)} |->
        IF q \in DOMAIN d THEN d[q] ELSE [dir |-> TRUE, size |-> 0, mtime |-> 0]]

UsedBytes == IF Exists(fc, FilesPath) /\ size[lookup_by_path(fc, FilesPath)] >= 0
             THEN size[lookup_by_path(fc, FilesPath)] ELSE 0

(* compute_free_space: i64::saturating_sub does not stop at zero. *)
compute_free_space ==
    LET quota == IF PersonalQuota # NoQuota THEN PersonalQuota ELSE DefaultQuota
    IN  IF quota = NoQuota THEN -3 ELSE quota - UsedBytes

check_quota(bytes) ==
    \/ bytes <= 0
    \/ compute_free_space < 0
    \/ bytes <= compute_free_space

(* Faulty variant: the quota alone, whatever is in use. *)
CommitFitsQuotaOnly(bytes) == PersonalQuota = NoQuota \/ bytes < PersonalQuota

(* quota_free_space at commit time: the personal quota and the root's size. *)
CommitFits(bytes) ==
    LET used == IF Exists(fc, Root) THEN size[lookup_by_path(fc, Root)] ELSE 0
        free == IF PersonalQuota - used < 0 THEN 0 ELSE PersonalQuota - used
    IN  PersonalQuota = NoQuota \/ bytes < free

(***************************************************************************)
(* Propagator::propagate_change.                                           *)
(***************************************************************************)
propagate_change(r) ==
    /\ At(r, "prop")
    /\ fc'   = PropagateEtag(fc, Arg(r).p, nextEtag)
    /\ size' = PropagateSize(fc, size, Arg(r).p, Arg(r).n)
    /\ Touch(1, 0)
    /\ Next1(r)
    /\ UNCHANGED <<disk, temps, trash, ents, clock, seen>>

(* One propagate_change per path of a set, each with its own etag. *)
PropagateEach(r) ==
    /\ At(r, "props")
    /\ IF Arg(r).s = {}
       THEN Next1(r)
       ELSE \E p \in Arg(r).s :
              Advance(r, <<Prop(p, 0), [Arg(r) EXCEPT !.s = @ \ {p}]>>, req[r])
    /\ UNCHANGED <<fc, size, disk, temps, trash, ents, clock, nextId, nextEtag, seen>>

(***************************************************************************)
(* recompute_folder_size: the folder's row, then the SUM/MIN query, then   *)
(* the UPDATE -- three statements with other requests in between.          *)
(***************************************************************************)
RecomputeLookup(r) ==
    /\ At(r, "size")
    /\ IF Exists(fc, Arg(r).p)
       THEN LET i == lookup_by_path(fc, Arg(r).p)
            IN  Advance(r, <<Do("sum")>>, [req[r] EXCEPT !.cid = i, !.csize = size[i]])
       ELSE Next1(r)
    /\ UNCHANGED <<fc, size, disk, temps, trash, ents, clock, nextId, nextEtag, seen>>

RecomputeSum(r) ==
    /\ At(r, "sum")
    /\ LET new == FolderSize(fc, size, req[r].cid)
       IN  IF new = req[r].csize
           THEN Next1(r)
           ELSE Advance(r, <<Do("setsize")>>, [req[r] EXCEPT !.cnew = new])
    /\ UNCHANGED <<fc, size, disk, temps, trash, ents, clock, nextId, nextEtag, seen>>

RecomputeUpdate(r) ==
    /\ At(r, "setsize")
    /\ size' = [i \in DOMAIN size |-> IF i = req[r].cid THEN req[r].cnew ELSE size[i]]
    /\ Next1(r)
    /\ UNCHANGED <<fc, disk, temps, trash, ents, clock, nextId, nextEtag, seen>>

(***************************************************************************)
(* ensure_parent_dir(p): the fast path, then every missing segment from    *)
(* the top, each propagated; a lost INSERT race re-reads the winner's row. *)
(* The id of the last directory ends in pid.                               *)
(***************************************************************************)
EnsureFast(r) ==
    /\ At(r, "ensure")
    /\ LET p == Arg(r).p IN
       IF Exists(fc, p)
       THEN Advance(r, <<>>, [req[r] EXCEPT !.pid = lookup_by_path(fc, p)])
       ELSE Advance(r, [k \in 1..Len(p) |-> DoAt("segment", SubSeq(p, 1, k))], req[r])
    /\ UNCHANGED <<fc, size, disk, temps, trash, ents, clock, nextId, nextEtag, seen>>

(* A missing top-level segment becomes a sibling of files. *)
EnsureLookup(r) ==
    /\ At(r, "segment")
    /\ LET p == Arg(r).p IN
       IF Exists(fc, p)
       THEN Advance(r, <<>>, [req[r] EXCEPT !.pid = lookup_by_path(fc, p)])
       ELSE Advance(r, <<DoAt("mkseg", p)>>,
                    [req[r] EXCEPT !.pid =
                        IF Len(p) = 1 /\ Exists(fc, FilesPath)
                        THEN fc[lookup_by_path(fc, FilesPath)].parent
                        ELSE @])
    /\ UNCHANGED <<fc, size, disk, temps, trash, ents, clock, nextId, nextEtag, seen>>

EnsureInsert(r) ==
    /\ At(r, "mkseg")
    /\ LET p == Arg(r).p IN
       /\ disk' = WithDirs(disk, p)
       /\ IF Exists(fc, p)
          THEN /\ Advance(r, <<>>, [req[r] EXCEPT !.pid = lookup_by_path(fc, p)])
               /\ UNCHANGED <<fc, size, nextId, nextEtag>>
          ELSE /\ fc'   = InsertRow(fc, nextId, DirRow(p, req[r].pid, nextEtag, clock))
               /\ size' = InsertRow(size, nextId, 0)
               /\ Touch(1, 1)
               /\ Advance(r, <<Prop(p, 0)>>, [req[r] EXCEPT !.pid = nextId])
    /\ UNCHANGED <<temps, trash, ents, clock, seen>>

(* ensure_lazy_dir_row: INSERT ... ON CONFLICT DO NOTHING. *)
LazyDirRow(r) ==
    /\ At(r, "lazy")
    /\ IF Exists(fc, Arg(r).p)
       THEN UNCHANGED <<fc, size, nextId, nextEtag>>
       ELSE LET par == IF Exists(fc, Root) THEN lookup_by_path(fc, Root) ELSE -1
            IN  /\ fc'   = InsertRow(fc, nextId, DirRow(Arg(r).p, par, nextEtag, clock))
                /\ size' = InsertRow(size, nextId, 0)
                /\ Touch(1, 1)
    /\ Next1(r)
    /\ UNCHANGED <<disk, temps, trash, ents, clock, seen>>

(***************************************************************************)
(* insert_version_entity: UNIQUE (file_id, timestamp), at most five tries, *)
(* the timestamp bumped by one on a conflict.                              *)
(***************************************************************************)
HasEnt(f, t) == \E e \in ents : e[1] = f /\ e[2] = t
insert_version_entity(f, t, sz) ==
    LET free == {x \in t..(t + 4) : ~HasEnt(f, x)}
    IN  IF free = {} THEN ents ELSE ents \cup {<<f, Min(free), sz>>}

(* Drop the steps of a called function that gave up, up to a step of K. *)
SkipTo(todo, K) ==
    LET i == CHOOSE i \in 1..(Len(todo) + 1) :
               /\ i <= Len(todo) => todo[i].k \in K
               /\ \A j \in 1..(i - 1) : todo[j].k \notin K
    IN  SubSeq(todo, i, Len(todo))
GiveUp(r, K) == req' = [req EXCEPT ![r].todo = SkipTo(@, K)]

(* The last step of a handler that succeeded. *)
Respond(r) ==
    /\ At(r, "done")
    /\ Advance(r, <<>>, [req[r] EXCEPT !.resp = "ok"])
    /\ UNCHANGED <<fc, size, disk, temps, trash, ents, clock, nextId, nextEtag, seen>>

SharedStep(r) ==
    \/ propagate_change(r) \/ PropagateEach(r)
    \/ RecomputeLookup(r) \/ RecomputeSum(r) \/ RecomputeUpdate(r)
    \/ EnsureFast(r) \/ EnsureLookup(r) \/ EnsureInsert(r)
    \/ LazyDirRow(r) \/ Respond(r)

Tick == /\ clock < MaxClock
        /\ clock' = clock + 1
        /\ UNCHANGED <<fc, size, disk, temps, trash, ents, nextId, nextEtag, req, seen>>
=============================================================================
