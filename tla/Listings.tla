------------------------------ MODULE Listings ------------------------------
(***************************************************************************)
(* What PROPFIND answers for a file or folder, by two ways that must agree *)
(* (nc-dav propfind.rs, props.rs, row/): asked for itself, each family of  *)
(* properties is a query of its own; listed in its folder, they come from  *)
(* maps filled once for all children -- by one statement on Postgres, by   *)
(* one per family on SQLite -- and only for the families asked for.        *)
(*                                                                         *)
(* A node `w` is what the database holds about it: `dir`, the numbers of   *)
(* its `dirs` and `files`, its `shares` and `comments` (sequences of       *)
(* rows), the display `names` of users, `marker`, up to which the user has *)
(* read, system tags `stags`, the user's `tags`, `meta` (the               *)
(* files_metadata row), dead properties `props`.  `req` is a set of        *)
(* property names, or AllProp.  Properties taken from the node's own row   *)
(* are the same either way and left out.                                   *)
(***************************************************************************)
EXTENDS Integers, Sequences, FiniteSets, SequencesExt

AllProp    == {"allprop"}
User       == "user"
NoMeta     == "none"
ShareTypes == {"user", "group", "link", "email", "remote", "circle", "room", "deck"}

(* The properties by the families that serve them.  "oc:sharees" is what   *)
(* the gate of the shares tests; the property itself is "nc:sharees".      *)
PropNames == {"nc:contained-folder-count", "nc:contained-file-count", "oc:share-types", "nc:sharees",
              "nc:note", "oc:comments-count", "oc:comments-unread", "nc:system-tags",
              "nc:metadata-x", "oc:favorite", "oc:tags", "urn:x"}

prop_requested(req, p) == req = AllProp \/ p \in req
-----------------------------------------------------------------------------
(***************************************************************************)
(* The rows behind a family.                                               *)
(***************************************************************************)
(* Shares by the user or with the user. *)
PartyTo(s) == s.type \in ShareTypes /\ User \in {s.owner, s.initiator, s.with}

(* The display name of a user: oc_users first, then oc_accounts, then the  *)
(* uid itself; `names` holds what the two tables say.                      *)
batch_lookup_display_names(names, uid) ==
    LET n == IF uid \in DOMAIN names THEN names[uid] ELSE [users |-> "", accounts |-> ""]
    IN  IF n.users # "" THEN n.users ELSE IF n.accounts # "" THEN n.accounts ELSE uid

(* Only users have display names; other sharees show as they are stored. *)
ShareDetail(w, s) ==
    <<s.type, s.with,
      IF s.type = "user" THEN batch_lookup_display_names(w.names, s.with) ELSE s.with>>

(* SELECT DISTINCT share_type, share_with. *)
get_share_details(w) ==
    SetToSeq({ShareDetail(w, s) : s \in {x \in Range(w.shares) : PartyTo(x)}})

(* ORDER BY stime DESC LIMIT 1 of the notes that are not empty. *)
get_share_note(w) ==
    LET noted == {s \in Range(w.shares) : s.note # ""}
    IN  IF noted = {} THEN ""
        ELSE (CHOOSE s \in noted : \A t \in noted : t.stime <= s.stime).note

(* The split of one scan of the shares: the newest note that is not empty, *)
(* kept while the rows go by.                                              *)
NewestNote(shares) ==
    LET best[i \in 0..Len(shares)] ==
            IF i = 0 THEN [note |-> "", stime |-> 0]
            ELSE IF \/ shares[i].note = ""
                    \/ best[i - 1].note # "" /\ best[i - 1].stime >= shares[i].stime
            THEN best[i - 1] ELSE shares[i]
    IN  best[Len(shares)].note

(* The details are listed in the order of the rows they come from. *)
share_details_and_notes_batch(w) ==
    [details |-> [i \in {k \in DOMAIN w.shares : PartyTo(w.shares[k])} |->
                    ShareDetail(w, w.shares[i])],
     note    |-> NewestNote(w.shares)]

(* Comments by other users, later than the read marker. *)
Unread(w, c) == c.actor_type = "users" /\ c.actor # User /\ c.at > w.marker

get_comments_count(w)  == Len(w.comments)
get_comments_unread(w) == Cardinality({i \in DOMAIN w.comments : Unread(w, w.comments[i])})

(* One GROUP BY; a file without comments is absent from its result. *)
comments_counts_batch(w) ==
    IF w.comments = <<>> THEN {}
    ELSE {<<get_comments_count(w), get_comments_unread(w)>>}

get_system_tags_for_file(w) == {t \in w.stags : t.visible}

count_children(w) == <<w.dirs, w.files>>

(* Only folders are counted, and an empty one is absent on SQLite. *)
count_children_batch(w, backend) ==
    IF w.dir /\ (backend = "pg" \/ w.dirs + w.files > 0) THEN {<<w.dirs, w.files>>} ELSE {}

-----------------------------------------------------------------------------
(***************************************************************************)
(* read_dir: the batch a child finds, gated by what was asked for.  A map  *)
(* is a set: empty when the child is absent from it.                       *)
(***************************************************************************)
(* Faulty variant: only the number of comments asks for the comments. *)
GatesCountOnly(req) ==
    [counts   |-> \/ prop_requested(req, "nc:contained-folder-count")
                  \/ prop_requested(req, "nc:contained-file-count"),
     shares   |-> \/ prop_requested(req, "oc:share-types") \/ prop_requested(req, "oc:sharees")
                  \/ prop_requested(req, "nc:note"),
     comments |-> prop_requested(req, "oc:comments-count"),
     stags    |-> prop_requested(req, "nc:system-tags"),
     meta     |-> prop_requested(req, "nc:metadata-x"),
     tags     |-> \/ prop_requested(req, "oc:favorite") \/ prop_requested(req, "oc:tags"),
     props    |-> prop_requested(req, "urn:x")]

Gates(req) ==
    [counts   |-> \/ prop_requested(req, "nc:contained-folder-count")
                  \/ prop_requested(req, "nc:contained-file-count"),
     shares   |-> \/ prop_requested(req, "oc:share-types") \/ prop_requested(req, "oc:sharees")
                  \/ prop_requested(req, "nc:note"),
     comments |-> \/ prop_requested(req, "oc:comments-count") \/ prop_requested(req, "oc:comments-unread"),
     stags    |-> prop_requested(req, "nc:system-tags"),
     meta     |-> prop_requested(req, "nc:metadata-x"),
     tags     |-> \/ prop_requested(req, "oc:favorite") \/ prop_requested(req, "oc:tags"),
     props    |-> prop_requested(req, "urn:x")]

If(gate, S) == IF gate THEN S ELSE {}

(* Postgres: one statement, the sub-select of a family behind its gate. *)
propfind_batch_cte(w, g) ==
    [counts   |-> If(g.counts, count_children_batch(w, "pg")),
     details  |-> If(g.shares, {share_details_and_notes_batch(w).details}),
     note     |-> If(g.shares, {share_details_and_notes_batch(w).note}),
     comments |-> If(g.comments, {<<get_comments_count(w), get_comments_unread(w)>>}),
     stags    |-> If(g.stags, {get_system_tags_for_file(w)}),
     meta     |-> If(g.meta /\ w.meta # NoMeta, {w.meta})]

(* SQLite: a statement per family; there is none for the metadata. *)
sqlite_batch(w, g) ==
    [counts   |-> If(g.counts, count_children_batch(w, "sqlite")),
     details  |-> If(g.shares, {share_details_and_notes_batch(w).details}),
     note     |-> If(g.shares, {share_details_and_notes_batch(w).note}),
     comments |-> If(g.comments, comments_counts_batch(w)),
     stags    |-> If(g.stags, {get_system_tags_for_file(w)}),
     meta     |-> {}]

(* The dead properties and, into the tag cache, the tags follow. *)
read_dir_batched(w, req, backend) ==
    LET g == Gates(req)
        b == IF backend = "pg" THEN propfind_batch_cte(w, g) ELSE sqlite_batch(w, g)
    IN  [map   |-> b,
         props |-> If(g.props, w.props),
         tags  |-> If(g.tags, {w.tags})]

-----------------------------------------------------------------------------
(***************************************************************************)
(* collect_props: what a node asked for itself reads from its queries, and *)
(* a child from the batch, where to be absent is to be empty.              *)
(***************************************************************************)
OrElse(S, default) == IF S = {} THEN default ELSE CHOOSE x \in S : TRUE

collect_single(w, req) ==
    [counts   |-> IF w.dir THEN count_children(w) ELSE <<0, 0>>,
     details  |-> get_share_details(w),
     note     |-> get_share_note(w),
     comments |-> <<get_comments_count(w), get_comments_unread(w)>>,
     stags    |-> get_system_tags_for_file(w),
     meta     |-> w.meta,
     tags     |-> IF Gates(req).tags THEN w.tags ELSE {},
     props    |-> w.props]

collect_batched(w, req, backend) ==
    LET b == read_dir_batched(w, req, backend) IN
    [counts   |-> IF w.dir THEN OrElse(b.map.counts, <<0, 0>>) ELSE <<0, 0>>,
     details  |-> OrElse(b.map.details, <<>>),
     note     |-> OrElse(b.map.note, ""),
     comments |-> OrElse(b.map.comments, <<0, 0>>),
     stags    |-> OrElse(b.map.stags, {}),
     meta     |-> OrElse(b.map.meta, NoMeta),
     tags     |-> IF Gates(req).tags THEN OrElse(b.tags, w.tags) ELSE {},
     props    |-> b.props]

(* The properties written from what was collected; of all that were built  *)
(* the framework writes the ones asked for.                                *)
build_props(c) ==
    [p \in PropNames |->
        CASE p = "nc:contained-folder-count" -> c.counts[1]
          [] p = "nc:contained-file-count"   -> c.counts[2]
          [] p = "oc:share-types"     -> {d[1] : d \in Range(c.details)}
          [] p = "nc:sharees"         -> c.details
          [] p = "nc:note"            -> c.note
          [] p = "oc:comments-count"  -> c.comments[1]
          [] p = "oc:comments-unread" -> c.comments[2]
          [] p = "nc:system-tags"     -> c.stags
          [] p = "nc:metadata-x"      -> c.meta
          [] p = "oc:favorite"        -> "favorite" \in c.tags
          [] p = "oc:tags"            -> c.tags \ {"favorite"}
          [] p = "urn:x"              -> c.props]

Answer(props, req) == Restrict(props, {p \in PropNames : prop_requested(req, p)})
-----------------------------------------------------------------------------
(***************************************************************************)
(* Permissions, sets of the bits of oc_filecache.permissions.              *)
(***************************************************************************)
Bits == {"read", "update", "create", "delete", "share"}

apply_sharing_mask(perms, disabled) == IF disabled THEN perms \ {"share"} ELSE perms

compute_share_permissions(perms, dir, root) ==
    (perms \cup (IF root THEN {"delete", "update"} ELSE {}))
        \ (IF dir THEN {} ELSE {"create", "delete"})

permissions_to_ocm_json(perms) ==
    (perms \cap {"share", "read"}) \cup (IF perms \cap {"create", "update"} # {} THEN {"write"} ELSE {})

(* The letters of {oc:}permissions. *)
encode_permissions(perms, dir, mounted, shared, rename) ==
    (IF shared THEN {"S"} ELSE {}) \cup (IF "share" \in perms THEN {"R"} ELSE {})
    \cup (IF mounted THEN {"M"} ELSE {}) \cup (IF "read" \in perms THEN {"G"} ELSE {})
    \cup (IF "delete" \in perms THEN {"D"} ELSE {}) \cup (IF rename THEN {"N"} ELSE {})
    \cup (IF "update" \in perms THEN {"V"} ELSE {})
    \cup (IF dir THEN (IF "create" \in perms THEN {"C", "K"} ELSE {})
          ELSE IF "update" \in perms THEN {"W"} ELSE {})

(* The three ways in which a node of the home storage shows them. *)
PermissionProps(perms, disabled, dir, root) ==
    LET p  == apply_sharing_mask(perms, disabled)
        sp == compute_share_permissions(p, dir, root)
    IN  [oc  |-> encode_permissions(p, dir, FALSE, FALSE, "update" \in p),
         ocs |-> sp,
         ocm |-> permissions_to_ocm_json(sp)]
=============================================================================
