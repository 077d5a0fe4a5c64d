----------------------------- MODULE Properties -----------------------------
(***************************************************************************)
(* PROPPATCH, the dead properties of oc_properties and the tags of a user  *)
(* (nc-dav proppatch.rs, row/properties.rs, tags.rs), with the MOVEs, the  *)
(* DELETEs and the new files that must carry them along.  Dead properties  *)
(* hang on a path, tags and times on a file id.                            *)
(*                                                                         *)
(* PROPPATCHes run concurrently with each other and with one structural    *)
(* request; concurrent structural requests are DavWrites' subject.  Each   *)
(* action is one SQL statement, but for the SELECTs that nothing separates *)
(* from the statement they feed.                                           *)
(***************************************************************************)
EXTENDS Naturals, Sequences, FiniteSets, SequencesExt

CONSTANTS Clients,       \* requests in flight
          Ops,           \* the requests they may send
          Paths, Dirs,   \* the paths, and which of them are folders when they exist
          LongPaths,     \* paths of more than 250 bytes
          InitNode,      \* path -> file id, 0 for none
          Wild,          \* <<n, m>>: a `_` or `%` in the name n matches the name m
          MaxRequests,   \* bound on the requests of a behaviour
          MaxFailures    \* bound on the statements that fail

Columns == {"getetag", "getlastmodified", "creation_time", "upload_time"}
TAG_FAVORITE == "favorite"
Gone == <<>>

VARIABLES backend,       \* "pg" or "sqlite"
          node,          \* oc_filecache: path -> file id
          rows,          \* oc_properties; `of` is the file that had the path (history)
          tagged,        \* oc_vcategory_to_object: <<file id, tag>>
          cols,          \* file id -> the columns a PROPPATCH can write
          rq,            \* per client, its request
          sent, failures,
          want, stranded, purged   \* history: see the properties

tables == <<node, rows, tagged, cols>>
vars   == <<backend, node, rows, tagged, cols, rq, sent, failures, want, stranded, purged>>

Under(q, p) == IsStrictPrefix(p, q)
Rebase(q, from, to) == to \o SubSeq(q, Len(from) + 1, Len(q))

(* path LIKE '{p}/%': the wildcards of p are not escaped. *)
LikeUnder(q, p) ==
    Len(q) > Len(p) /\ \A i \in 1..Len(p) : q[i] = p[i] \/ <<p[i], q[i]>> \in Wild

(* A long path is stored as its SHA-1 digest, which no LIKE matches. *)
format_property_path(p) == [hashed |-> p \in LongPaths, path |-> p]

(* Blanks around a tag's name are cut off; a name of blanks is no tag. *)
Trim(t) == IF t = "a_padded" THEN "a" ELSE t
IsTag(t) == Trim(t) # ""
(* Paths are not empty, and what a path lies in is a folder. *)
ASSUME PathsAssumption ==
    /\ Paths \subseteq Seq(STRING) /\ Gone \notin Paths /\ Dirs \subseteq Paths
    /\ \A p \in Paths : \A k \in 1..(Len(p) - 1) : SubSeq(p, 1, k) \in Dirs

(* The framework refuses to move a folder into itself. *)
ASSUME OpsAssumption ==
    \A op \in Ops :
        /\ op.kind \in {"proppatch", "put", "move", "trash", "delete"} /\ op.path \in Paths
        /\ op.kind = "move" => /\ op.to \in Paths /\ ~Under(op.to, op.path)
                               /\ \A p \in Paths : Under(p, op.path) => Rebase(p, op.path, op.to) \in Paths

(* The table before the first request: a tree, its ids bounded. *)
ASSUME InitAssumption ==
    /\ InitNode \in [Paths -> Nat]
    /\ \A p, q \in Paths : /\ InitNode[p] # 0 /\ InitNode[q] = InitNode[p] => p = q
                           /\ InitNode[p] # 0 /\ Under(p, q) => InitNode[q] # 0
    /\ \E q \in Paths : \A p \in Paths : InitNode[p] <= InitNode[q]
-----------------------------------------------------------------------------
Idle == [op |-> [kind |-> "none"], pc |-> "idle", i |-> 1, fid |-> 0, known |-> {},
         add |-> {}, del |-> {}, list |-> {}, answers |-> <<>>,
         fid0 |-> 0, fav0 |-> FALSE, clash |-> FALSE, failed |-> FALSE]

Structural(c) == rq[c].op.kind \in {"move", "trash", "delete", "put"}
Busy == \E c \in Clients : Structural(c)

Init == /\ backend \in {"pg", "sqlite"}
        /\ node = InitNode
        /\ rows = {} /\ tagged = {}
        /\ cols = [f \in {0} |-> [k \in Columns |-> 0]]
        /\ rq = [c \in Clients |-> Idle]
        /\ sent = 0 /\ failures = 0
        /\ want = [f \in {InitNode[p] : p \in Paths} \ {0} |-> CHOOSE p \in Paths : InitNode[p] = f]
        /\ stranded = {} /\ purged = {}

(* c goes on as `me`; whoever runs besides it is told that it wrote. *)
Go(c, me, wrote) ==
    rq' = [x \in Clients |->
             IF x = c THEN me
             ELSE IF wrote /\ rq[x].pc # "idle" THEN [rq[x] EXCEPT !.clash = TRUE] ELSE rq[x]]

Cols(f)   == IF f \in DOMAIN cols THEN cols[f] ELSE cols[0]
TagsOf(f) == {t[2] : t \in {u \in tagged : u[1] = f}}

(* The DAV framework answers 404 itself; a structural request starts only  *)
(* when its source exists and its target is free, under an existing folder *)
(* (a target that exists is deleted before by the framework).              *)
Admissible(op) ==
    LET FreePlace(p) == node[p] = 0 /\ (Len(p) > 1 => node[Front(p)] # 0) IN
    CASE op.kind = "put"  -> FreePlace(op.path)
      [] op.kind = "move" -> node[op.path] # 0 /\ FreePlace(op.to)
      [] OTHER            -> node[op.path] # 0

Start(c, op) ==
    /\ rq[c].pc = "idle" /\ sent < MaxRequests
    /\ Admissible(op)
    /\ op.kind # "proppatch" => ~Busy
    /\ sent' = sent + 1
    /\ Go(c, [Idle EXCEPT !.op = op, !.pc = IF op.kind = "proppatch" THEN "instr" ELSE op.kind,
                          !.fid0 = node[op.path],
                          !.fav0 = TAG_FAVORITE \in TagsOf(node[op.path])], FALSE)
    /\ UNCHANGED <<backend, tables, failures, want, stranded, purged>>

Finish(c) ==
    /\ rq[c].pc = "done"
    /\ Go(c, Idle, FALSE)
    /\ UNCHANGED <<backend, tables, sent, failures, want, stranded, purged>>

-----------------------------------------------------------------------------
(***************************************************************************)
(* PROPPATCH: the instructions one after the other, none undone when a     *)
(* later one is refused.                                                   *)
(***************************************************************************)
Instr(c) == rq[c].op.patch[rq[c].i]
Key(c)   == format_property_path(rq[c].op.path)

Answered(me, status) ==
    [me EXCEPT !.answers = Append(@, status), !.i = @ + 1, !.fid = 0,
               !.pc = IF me.i = Len(me.op.patch) THEN "done" ELSE "instr"]

At(c, set, props) ==
    rq[c].pc = "instr" /\ Instr(c).set = set /\ Instr(c).prop \in props

(* A statement fails at most MaxFailures times. *)
MayFail(c) == /\ failures < MaxFailures /\ failures' = failures + 1
Succeeds   == UNCHANGED failures

(* {DAV:}displayname cannot be set, no property of the server removed. *)
PatchForbidden(c) ==
    /\ \/ At(c, TRUE, {"displayname"})
       \/ At(c, FALSE, Columns \cup {"displayname"})
    /\ Go(c, Answered(rq[c], "403"), FALSE)
    /\ UNCHANGED <<backend, tables, sent, failures, want, stranded, purged>>

(* No text, or no number or date in it; no value for a dead property. *)
PatchBadValue(c) ==
    /\ At(c, TRUE, Columns \cup {"custom"}) /\ Instr(c).value = 0
    /\ Go(c, Answered(rq[c], "400"), FALSE)
    /\ UNCHANGED <<backend, tables, sent, failures, want, stranded, purged>>

(* One column; the upsert of oc_filecache_extended leaves the other times. *)
(* (Without a row there both read as 0, which is what oc_filecache holds.) *)
WithColumn(rec, k, v) == [rec EXCEPT ![k] = v]

(* The row is found by its path; when it is gone nothing is written. *)
PatchColumn(c) ==
    /\ At(c, TRUE, Columns) /\ Instr(c).value # 0
    /\ LET f == node[rq[c].op.path] IN
       \/ /\ cols' = IF f = 0 THEN cols
                     ELSE [x \in DOMAIN cols \cup {f} |->
                             IF x = f THEN WithColumn(Cols(f), Instr(c).prop, Instr(c).value) ELSE cols[x]]
          /\ Go(c, Answered(rq[c], "200"), TRUE) /\ Succeeds
       \/ /\ MayFail(c) /\ UNCHANGED cols
          /\ Go(c, Answered([rq[c] EXCEPT !.failed = TRUE],
                            IF Instr(c).prop = "getetag" THEN "500" ELSE "200"), FALSE)
    /\ UNCHANGED <<backend, node, rows, tagged, sent, want, stranded, purged>>

(* upsert_custom_property: DELETE, then INSERT.  There is no unique index, *)
(* and the answer is 200 whatever becomes of the two statements.           *)
RowsOf(key, name) == {r \in rows : r.key = key /\ r.name = name}
NextRow == IF rows = {} THEN 1 ELSE 1 + Max({r.id : r \in rows})

UpsertDelete(c) ==
    /\ At(c, TRUE, {"custom"}) /\ Instr(c).value # 0
    /\ \/ /\ rows' = rows \ RowsOf(Key(c), Instr(c).name)
          /\ Go(c, [rq[c] EXCEPT !.pc = "insert"], TRUE) /\ Succeeds
       \/ /\ MayFail(c) /\ UNCHANGED rows
          /\ Go(c, Answered([rq[c] EXCEPT !.failed = TRUE], "200"), FALSE)
    /\ UNCHANGED <<backend, node, tagged, cols, sent, want, stranded, purged>>

(* A folder that is being deleted: its properties may already be. *)
Condemned(p) ==
    \E c \in Clients : /\ rq[c].pc \in {"harddir", "hardrows"}
                       /\ rq[c].op.path = p \/ Under(p, rq[c].op.path)

UpsertInsert(c) ==
    /\ rq[c].pc = "insert"
    /\ LET p == rq[c].op.path  n == NextRow IN
       \/ /\ rows' = rows \cup {[id |-> n, key |-> Key(c), name |-> Instr(c).name,
                                 value |-> Instr(c).value, of |-> node[p]]}
          /\ stranded' = IF Condemned(p) THEN stranded \cup {n} ELSE stranded \ {n}
          /\ Go(c, Answered(rq[c], "200"), TRUE) /\ Succeeds
       \/ /\ MayFail(c) /\ UNCHANGED <<rows, stranded>>
          /\ Go(c, Answered([rq[c] EXCEPT !.failed = TRUE], "200"), FALSE)
    /\ UNCHANGED <<backend, node, tagged, cols, sent, want, purged>>

delete_custom_property(c) ==
    /\ At(c, FALSE, {"custom"})
    /\ \/ /\ rows' = rows \ RowsOf(Key(c), Instr(c).name)
          /\ Go(c, Answered(rq[c], "200"), TRUE) /\ Succeeds
       \/ /\ MayFail(c) /\ UNCHANGED rows
          /\ Go(c, Answered([rq[c] EXCEPT !.failed = TRUE], "200"), FALSE)
    /\ UNCHANGED <<backend, node, tagged, cols, sent, want, stranded, purged>>

-----------------------------------------------------------------------------
(***************************************************************************)
(* {oc:}favorite and {oc:}tags.  A tag is created when it is first used    *)
(* and never removed, so that creating it and attaching it can be one      *)
(* statement here.                                                         *)
(***************************************************************************)
TagStatus(c) == IF Instr(c).set THEN "200" ELSE "204"

TagLookup(c) ==
    /\ \E set \in BOOLEAN : At(c, set, {"favorite", "tags"})
    /\ LET f == node[rq[c].op.path] IN
       Go(c, IF f = 0 THEN Answered(rq[c], TagStatus(c))
             ELSE [rq[c] EXCEPT !.fid = f, !.pc = Instr(c).prop], FALSE)
    /\ UNCHANGED <<backend, tables, sent, failures, want, stranded, purged>>

tag_as(f, t) == IF IsTag(t) THEN tagged \cup {<<f, Trim(t)>>} ELSE tagged
un_tag(f, t) == tagged \ {<<f, Trim(t)>>}

set_favorite(c) ==
    /\ rq[c].pc = "favorite"
    /\ LET f == rq[c].fid  on == Instr(c).set /\ Instr(c).value = 1 IN
       \/ /\ tagged' = IF on THEN tag_as(f, TAG_FAVORITE) ELSE un_tag(f, TAG_FAVORITE)
          /\ Go(c, Answered([rq[c] EXCEPT !.known = {}], TagStatus(c)), TRUE) /\ Succeeds
       \/ /\ MayFail(c) /\ UNCHANGED tagged
          /\ Go(c, Answered([rq[c] EXCEPT !.known = {}, !.failed = TRUE], TagStatus(c)), FALSE)
    /\ UNCHANGED <<backend, node, rows, cols, sent, want, stranded, purged>>

(* What the request asks for: to remove {oc:}tags is to keep the favorite. *)
Requested(c, current) ==
    IF Instr(c).set THEN Instr(c).value ELSE current \cap {TAG_FAVORITE}

(* The tag cache lives as long as the request; `known` is its entry for    *)
(* the file, a set holding the tags read, or {}.                           *)
get_tag_info(c) == IF rq[c].known # {} THEN UNION rq[c].known ELSE TagsOf(rq[c].fid)

(* Faulty variant: the favorite counts as a tag like any other. *)
UpdateTagsAll(c) ==
    /\ rq[c].pc = "tags"
    /\ LET current == get_tag_info(c)  requested == Requested(c, current) IN
       Go(c, [rq[c] EXCEPT !.pc = "update", !.known = {current},
                           !.add = requested \ current, !.del = current \ requested], FALSE)
    /\ UNCHANGED <<backend, tables, sent, failures, want, stranded, purged>>

(* update_tags: names are compared as they were sent. *)
UpdateTags(c) ==
    /\ rq[c].pc = "tags"
    /\ LET current == get_tag_info(c)  requested == Requested(c, current) IN
       Go(c, [rq[c] EXCEPT !.pc = "update", !.known = {current},
                           !.add = (requested \ current) \ {TAG_FAVORITE},
                           !.del = (current \ requested) \ {TAG_FAVORITE}], FALSE)
    /\ UNCHANGED <<backend, tables, sent, failures, want, stranded, purged>>

(* First the new tags, then the ones to remove; a failure is passed over. *)
UpdateTag(c) ==
    /\ rq[c].pc = "update"
    /\ \E t \in rq[c].add \cup rq[c].del :
        /\ rq[c].add = {} \/ t \in rq[c].add
        /\ LET me == [rq[c] EXCEPT !.add = @ \ {t}, !.del = IF rq[c].add = {} THEN @ \ {t} ELSE @] IN
           \/ /\ tagged' = IF t \in rq[c].add THEN tag_as(rq[c].fid, t) ELSE un_tag(rq[c].fid, t)
              /\ Go(c, me, TRUE) /\ Succeeds
           \/ /\ MayFail(c) /\ UNCHANGED tagged
              /\ Go(c, [me EXCEPT !.failed = TRUE], FALSE)
    /\ UNCHANGED <<backend, node, rows, cols, sent, want, stranded, purged>>

UpdateTagsDone(c) ==
    /\ rq[c].pc = "update" /\ rq[c].add = {} /\ rq[c].del = {}
    /\ Go(c, Answered([rq[c] EXCEPT !.known = {}], TagStatus(c)), FALSE)
    /\ UNCHANGED <<backend, tables, sent, failures, want, stranded, purged>>

-----------------------------------------------------------------------------
(***************************************************************************)
(* New files and MOVE.                                                     *)
(***************************************************************************)
NextId == 1 + Max(DOMAIN want \cup {0})

PutNew(c) ==
    /\ rq[c].pc = "put"
    /\ node' = [node EXCEPT ![rq[c].op.path] = NextId]
    /\ want' = [f \in DOMAIN want \cup {NextId} |-> IF f = NextId THEN rq[c].op.path ELSE want[f]]
    /\ Go(c, [rq[c] EXCEPT !.pc = "done"], TRUE)
    /\ UNCHANGED <<backend, rows, tagged, cols, sent, failures, stranded, purged>>

(* The node's own row. *)
MoveRow(c) ==
    /\ rq[c].pc = "move"
    /\ LET from == rq[c].op.path  to == rq[c].op.to IN
       /\ node' = [node EXCEPT ![from] = 0, ![to] = node[from]]
       /\ want' = [f \in DOMAIN want |->
                     IF want[f] = from \/ Under(want[f], from) THEN Rebase(want[f], from, to) ELSE want[f]]
    /\ Go(c, [rq[c] EXCEPT !.pc = "ownprops"], TRUE)
    /\ UNCHANGED <<backend, rows, tagged, cols, sent, failures, stranded, purged>>

(* UPDATE ... SET propertypath WHERE propertypath = from. *)
Repathed(from, to) ==
    {IF r.key = format_property_path(from) THEN [r EXCEPT !.key = format_property_path(to)] ELSE r :
        r \in rows}

(* Faulty variant: the node's own properties stay behind. *)
MoveOwnPropsNot(c) ==
    /\ rq[c].pc = "ownprops"
    /\ Go(c, [rq[c] EXCEPT !.pc = IF rq[c].op.path \in Dirs THEN "rekey" ELSE "done"], TRUE)
    /\ UNCHANGED <<backend, tables, sent, failures, want, stranded, purged>>

MoveOwnProps(c) ==
    /\ rq[c].pc = "ownprops"
    /\ rows' = Repathed(rq[c].op.path, rq[c].op.to)
    /\ Go(c, [rq[c] EXCEPT !.pc = IF rq[c].op.path \in Dirs THEN "rekey" ELSE "done"], TRUE)
    /\ UNCHANGED <<backend, node, tagged, cols, sent, failures, want, stranded, purged>>

(* The paths whose rows rekey_subtree_paths can move together without      *)
(* breaking the unique index: one statement on Postgres, on SQLite a loop  *)
(* that ends with the first row that cannot be moved.                      *)
Rekeyable(from, to) ==
    LET cand == {p \in Paths : node[p] # 0 /\ LikeUnder(p, from)}
        Ok(S) == \A p, q \in S : /\ Rebase(p, from, to) = Rebase(q, from, to) => p = q
                                 /\ Rebase(p, from, to) \in S \/ node[Rebase(p, from, to)] = 0
    IN  IF backend = "pg" THEN {IF Ok(cand) THEN cand ELSE {}}
        ELSE {S \in SUBSET cand : Ok(S) /\ (S = cand \/ \E p \in cand \ S : ~Ok(S \cup {p}))}

(* Stranded are the properties of what lies in the folder and cannot be    *)
(* repathed by the statements that follow: they look the descendants up    *)
(* under the folder's old path, where they are no longer.                  *)
Strands(p, q) == backend = "sqlite" \/ p \in LongPaths \/ q \in LongPaths

(* When the rekeying fails, the request only warns and goes on. *)
rekey_subtree_paths(c) ==
    /\ rq[c].pc = "rekey"
    /\ LET from == rq[c].op.path  to == rq[c].op.to IN
       \/ \E S \in Rekeyable(from, to) :
            /\ node' = [p \in Paths |->
                          LET q == CHOOSE x \in S : Rebase(x, from, to) = p IN
                          IF \E x \in S : Rebase(x, from, to) = p THEN node[q]
                          ELSE IF p \in S THEN 0 ELSE node[p]]
            /\ stranded' = stranded \cup {r.id : r \in {x \in rows :
                                \E p \in S : x.of = node[p] /\ Strands(p, Rebase(p, from, to))}}
            /\ Succeeds
       \/ MayFail(c) /\ UNCHANGED <<node, stranded>>
    /\ Go(c, [rq[c] EXCEPT !.pc = IF backend = "pg" THEN "bulk" ELSE "rest"], TRUE)
    /\ UNCHANGED <<backend, rows, tagged, cols, sent, want, purged>>

(* Postgres: one UPDATE for the rows whose old and new paths are short. *)
UpdatePropsBulk(c) ==
    /\ rq[c].pc = "bulk"
    /\ LET from == rq[c].op.path  to == rq[c].op.to
           Fits(r) == /\ ~r.key.hashed /\ LikeUnder(r.key.path, from)
                      /\ Rebase(r.key.path, from, to) \notin LongPaths
       IN  rows' = {IF Fits(r) THEN [r EXCEPT !.key.path = Rebase(r.key.path, from, to)] ELSE r :
                        r \in rows}
    /\ Go(c, [rq[c] EXCEPT !.pc = "rest"], TRUE)
    /\ UNCHANGED <<backend, node, tagged, cols, sent, failures, want, stranded, purged>>

(* The descendants listed from oc_filecache, and each one's UPDATE.        *)
(* replacen leaves a path without the old prefix as it is.                 *)
PropsRestSelect(c) ==
    /\ rq[c].pc = "rest"
    /\ LET from == rq[c].op.path  to == rq[c].op.to IN
       Go(c, [rq[c] EXCEPT !.pc = "loop",
              !.list = {p \in Paths : /\ node[p] # 0 /\ LikeUnder(p, from)
                                      /\ backend = "pg" => \/ p \in LongPaths
                                                           \/ Rebase(p, from, to) \in LongPaths}], FALSE)
    /\ UNCHANGED <<backend, tables, sent, failures, want, stranded, purged>>

PropsRestUpdate(c) ==
    /\ rq[c].pc = "loop"
    /\ LET from == rq[c].op.path  to == rq[c].op.to IN
       IF rq[c].list = {}
       THEN UNCHANGED rows /\ Go(c, [rq[c] EXCEPT !.pc = "done"], FALSE)
       ELSE \E p \in rq[c].list :
              /\ rows' = IF Under(p, from) THEN Repathed(p, Rebase(p, from, to)) ELSE rows
              /\ Go(c, [rq[c] EXCEPT !.list = @ \ {p}], TRUE)
    /\ UNCHANGED <<backend, node, tagged, cols, sent, failures, want, stranded, purged>>

-----------------------------------------------------------------------------
(***************************************************************************)
(* DELETE.  Into the trash the rows of the subtree leave files/, and the   *)
(* properties stay where they are; without a trash they are deleted: a     *)
(* file's after its row, a folder's before the rows of its subtree.        *)
(***************************************************************************)
(* Faulty variant: what lies in the folder keeps its row. *)
RemovedAlone(p) == {p}

Removed(p) == {q \in Paths : q = p \/ (p \in Dirs /\ LikeUnder(q, p))}
Wanted(p)  == {f \in DOMAIN want : want[f] # Gone /\ (want[f] = p \/ Under(want[f], p))}
Unwant(p)  == want' = [f \in DOMAIN want |-> IF f \in Wanted(p) THEN Gone ELSE want[f]]

TrashRows(c) ==
    /\ rq[c].pc = "trash"
    /\ node' = [q \in Paths |-> IF q \in Removed(rq[c].op.path) THEN 0 ELSE node[q]]
    /\ Unwant(rq[c].op.path)
    /\ Go(c, [rq[c] EXCEPT !.pc = "done"], TRUE)
    /\ UNCHANGED <<backend, rows, tagged, cols, sent, failures, stranded, purged>>

HardFileRow(c) ==
    /\ rq[c].pc = "delete" /\ rq[c].op.path \notin Dirs
    /\ node' = [node EXCEPT ![rq[c].op.path] = 0]
    /\ Unwant(rq[c].op.path) /\ purged' = purged \cup Wanted(rq[c].op.path)
    /\ Go(c, [rq[c] EXCEPT !.pc = "hardprops"], TRUE)
    /\ UNCHANGED <<backend, rows, tagged, cols, sent, failures, stranded>>

HardFileProps(c) ==
    /\ rq[c].pc = "hardprops"
    /\ rows' = {r \in rows : r.key # format_property_path(rq[c].op.path)}
    /\ Go(c, [rq[c] EXCEPT !.pc = "done"], TRUE)
    /\ UNCHANGED <<backend, node, tagged, cols, sent, failures, want, stranded, purged>>

(* Postgres: one DELETE for the folder and the unhashed paths below it. *)
HardDirBulk(c) ==
    /\ rq[c].pc = "delete" /\ rq[c].op.path \in Dirs
    /\ LET p == rq[c].op.path IN
       rows' = IF backend = "sqlite" THEN rows
               ELSE {r \in rows : /\ r.key # format_property_path(p)
                                  /\ r.key.hashed \/ ~LikeUnder(r.key.path, p)}
    /\ Go(c, [rq[c] EXCEPT !.pc = "harddir"], TRUE)
    /\ UNCHANGED <<backend, node, tagged, cols, sent, failures, want, stranded, purged>>

(* The descendants listed from oc_filecache: on Postgres the long ones,    *)
(* on SQLite all and the folder.                                           *)
HardDirProps(c) ==
    /\ rq[c].pc = "harddir"
    /\ LET p == rq[c].op.path
           listed == {q \in Paths : /\ node[q] # 0
                                    /\ IF backend = "pg" THEN LikeUnder(q, p) /\ q \in LongPaths
                                       ELSE q = p \/ LikeUnder(q, p)}
       IN  rows' = {r \in rows : r.key \notin {format_property_path(q) : q \in listed}}
    /\ Go(c, [rq[c] EXCEPT !.pc = "hardrows"], TRUE)
    /\ UNCHANGED <<backend, node, tagged, cols, sent, failures, want, stranded, purged>>

HardDirRows(c) ==
    /\ rq[c].pc = "hardrows"
    /\ node' = [q \in Paths |-> IF q \in Removed(rq[c].op.path) THEN 0 ELSE node[q]]
    /\ Unwant(rq[c].op.path) /\ purged' = purged \cup Wanted(rq[c].op.path)
    /\ Go(c, [rq[c] EXCEPT !.pc = "done"], TRUE)
    /\ UNCHANGED <<backend, rows, tagged, cols, sent, failures, stranded>>
-----------------------------------------------------------------------------
Patch(c) ==
    \/ PatchForbidden(c) \/ PatchBadValue(c) \/ PatchColumn(c)
    \/ UpsertDelete(c) \/ UpsertInsert(c) \/ delete_custom_property(c)
    \/ TagLookup(c) \/ set_favorite(c) \/ UpdateTags(c) \/ UpdateTag(c) \/ UpdateTagsDone(c)

Move(c) ==
    \/ PutNew(c) \/ MoveRow(c) \/ MoveOwnProps(c) \/ rekey_subtree_paths(c)
    \/ UpdatePropsBulk(c) \/ PropsRestSelect(c) \/ PropsRestUpdate(c)

Delete(c) ==
    \/ TrashRows(c) \/ HardFileRow(c) \/ HardFileProps(c)
    \/ HardDirBulk(c) \/ HardDirProps(c) \/ HardDirRows(c)

Next == \E c \in Clients :
           (\E op \in Ops : Start(c, op)) \/ Patch(c) \/ Move(c) \/ Delete(c) \/ Finish(c)

Spec == Init /\ [][Next]_vars
-----------------------------------------------------------------------------
(***************************************************************************)
(* A PROPPATCH that nothing wrote beside and whose statements worked has   *)
(* done what it answered: of each dead property the last value and no      *)
(* other row (upsert_custom_property), of each column the last valid text. *)
(***************************************************************************)
Undisturbed(c) == rq[c].pc = "done" /\ rq[c].op.kind = "proppatch" /\ ~rq[c].clash /\ ~rq[c].failed

(* The last of these instructions, 0 for none. *)
LastOf(S) == Max({0} \cup S)

PropertyAsAnswered ==
    \A c \in Clients : Undisturbed(c) =>
        LET patch == rq[c].op.patch IN
        /\ \A n \in {patch[i].name : i \in DOMAIN patch} :
             LET k == LastOf({i \in DOMAIN patch : /\ patch[i].prop = "custom" /\ patch[i].name = n
                                                   /\ patch[i].set => patch[i].value # 0}) IN
             k # 0 => {<<r.value, r.of>> : r \in RowsOf(Key(c), n)} =
                         (IF patch[k].set THEN {<<patch[k].value, rq[c].fid0>>} ELSE {})
                      /\ Cardinality(RowsOf(Key(c), n)) <= 1
        /\ \A k \in Columns :
             LET j == LastOf({i \in DOMAIN patch : patch[i].prop = k /\ patch[i].set /\ patch[i].value # 0}) IN
             j # 0 => Cols(rq[c].fid0)[k] = patch[j].value

(***************************************************************************)
(* And its file has the tags of the last {oc:}tags, and is a favorite as   *)
(* the last {oc:}favorite says or else as before: setting or removing tags *)
(* never touches the favorite, which is stored as a tag (update_tags).     *)
(* Names sent with blanks around them are left out.                        *)
(***************************************************************************)
TagsAsAnswered ==
    \A c \in Clients : Undisturbed(c) =>
        LET patch == rq[c].op.patch
            t == LastOf({i \in DOMAIN patch : patch[i].prop = "tags"})
            f == LastOf({i \in DOMAIN patch : patch[i].prop = "favorite"})
            now == TagsOf(rq[c].fid0)
        IN  /\ t # 0 => LET asked == IF patch[t].set THEN patch[t].value ELSE {} IN
                        "a_padded" \notin asked =>
                            now \ {TAG_FAVORITE} = asked \ {TAG_FAVORITE, ""}
            /\ (TAG_FAVORITE \in now) =
                 (IF f = 0 THEN rq[c].fav0 ELSE patch[f].set /\ patch[f].value = 1)

(* What a PROPPATCH answered is what is stored (patch_props_inner).        *)
PatchAsAnswered == PropertyAsAnswered /\ TagsAsAnswered

(***************************************************************************)
(* Between structural requests that all worked, the dead properties of a   *)
(* file are found under the path it has now, whatever was moved meanwhile  *)
(* (update_custom_properties_path and ..._subtree) -- but for the contents *)
(* of a folder moved on SQLite or across the 250 bytes, see `Strands`.     *)
(***************************************************************************)
PropsFollowFiles ==
    ~Busy /\ failures = 0 => \A r \in rows : \A p \in Paths :
                r.of # 0 /\ node[p] = r.of /\ r.id \notin stranded => r.key = format_property_path(p)

(***************************************************************************)
(* No dead property of a file deleted for good stays behind, to turn up at *)
(* the next file of that name (delete_custom_properties_for_dir, _for_path)*)
(* -- but one that was stranded or stored while its folder was deleted.    *)
(***************************************************************************)
HardDeleteCleans ==
    ~Busy /\ failures = 0 => \A r \in rows : r.of \in purged => r.id \in stranded

(* Dead properties go where their file goes, and with it when it is        *)
(* deleted for good (row/properties.rs).                                   *)
PropsSharePath == PropsFollowFiles /\ HardDeleteCleans

(***************************************************************************)
(* Between structural requests, a file's row has the path the requests     *)
(* gave it: a MOVE and a DELETE of a folder touch "every descendant of     *)
(* old_prefix" (rekey.rs) and no other row.                                *)
(***************************************************************************)
RowsFollowRequests ==
    ~Busy /\ failures = 0 =>
             /\ \A f \in DOMAIN want : want[f] # Gone => node[want[f]] = f
             /\ \A p \in Paths : node[p] # 0 => want[node[p]] = p
=============================================================================
