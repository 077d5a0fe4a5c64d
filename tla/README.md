# A TLA+ model of nc-server-rs

nc-server-rs serves the hot paths of a Nextcloud server (WebDAV, previews, OCS)
in Rust, on the database and the data directory of a PHP installation that keeps
running beside it.  What it writes has to be what PHP would have written: one
account is spread over a table of files, a tree on disk, a trash table, a version
table, and etags and sizes that are kept up to date by hand, one SQL statement at
a time.  This directory models that write path and the concurrent parts around
it, checks them with TLC on small instances, and proves with TLAPS what can be
proved for all of them.

Paths below are relative to `src/core-rs/crates/`.

## 1. The system

| Part | State | Operations | Hard because | Correct when |
|---|---|---|---|---|
| File cache (`nc-dav/src/row/`, `path_utils.rs`) | `oc_filecache`: path, name, parent, size, etag, mtimes | look-ups, INSERT, UPDATE, bulk re-path (`rekey.rs`) | several columns say the same thing | every row hangs below its parent's row, paths are unique |
| Propagation (`propagator.rs`) | etag and size of ancestor folders | `propagate_change`, `correct_folder_size_chain` | locks on shared ancestors, retries, read-then-write sums | sizes add up, a changed folder has a new etag, nothing deadlocks |
| PUT (`filesystem.rs`, `davfile.rs`, `handler.rs`) | temp file, final file, row | open, body, flush | twelve awaits, what `open` read is used to the end | acknowledged bytes are stored, refused ones are not |
| MKCOL, MOVE, COPY, PROPPATCH (`mutations.rs`) | rows and disk | `create_dir_row`, `rename_node`, `copy_node`, `set_mtime` | subtree moved row by row | disk and table agree |
| Trash (`trashbin.rs`) | `oc_files_trash`, `files_trashbin/` | `delete_file`, `delete_dir`, `move_to_trash` | free name search, two timestamps | table and folder list the same items |
| Versions (`versions.rs`) | `files_versions/`, its rows, `oc_files_versions` | store, rename, copy, trash, delete, entities | three places to keep in step | every version has its file, row and owner |
| Quota (`quota.rs`, `row/quota.rs`) | root sizes, preferences | check before and at commit | two checks with two definitions | never more than the quota |
| Session auth (`nc-server/.../auth.rs`, `nc-auth/src/session.rs`, `nc-fastcgi`) | identity cache, permits | look-up, resolve over PHP-FPM, evict | answers out of order, time-outs, outages | log-out takes effect in bounded time; every request is decided unless PHP stalls in an answer |
| Preview ids (`nc-preview/src/snowflake.rs`) | sequence behind a mutex | `next_id` | clock read outside the mutex | an id repeats only across an overtaking |
| Previews (`nc-server/src/preview*.rs`, `nc-preview`) | coalescer, permits, `oc_previews`, preview files | serve, generate, insert, invalidate | generation beside an overwrite, clients that leave | one generation per variant, no unexplained stale preview, every request answered |
| Chunked and bulk upload (`upload.rs`, `upload_handler.rs`, `bulk_handler.rs`) | sessions in memory, chunks on disk | MKCOL, PUT, MOVE, DELETE of a slot; parts of a bulk | restart, retry, chunk replaced during assembly, one part of several failing | assembled = sent, answers are true |
| Dead properties and tags (`proppatch.rs`, `row/properties.rs`, `tags.rs`) | `oc_properties` by path, tags by file id | PROPPATCH; re-path and clean-up | two statements per value, two databases | stored = answered, properties follow files |
| Login and throttle (`nc-auth`, `middleware/auth.rs`) | token, user-state and count caches, attempts | bearer, Basic, session, gates, throttle | three caches PHP knows nothing of | what is stale is bounded, nobody runs as another |
| PHP-FPM proxy (`nc-fastcgi`) | one exchange per request | connect, execute, header block, body | records cut anywhere, timers, broken answers | exact bytes, in time |
| Capabilities (`nc-ocs`, `main.rs`) | two serialized payloads | fetch, merge, rebuild, refresh task | three sources at different times | only complete answers, never backwards |
| Listings (`propfind.rs`, `props.rs`, `row/`) | read-only | single and batched reads | two ways to one answer | both agree |
| DAV dispatch, routing, client identity (`handler.rs`, `router.rs`, `client_identity.rs`) | tables | gates in order | lists kept in step by hand | tables agree, headers believed from proxies only |
| SEARCH, REPORT, archives, other OCS reads, start-up | read-only | | rendering | not modelled |

How they interact: a request passes the authentication middleware, then
`dav_handler` checks the quota and hands it to the DAV framework (dav-server, a
submodule that is not part of the repository), which calls back into
`NcFileSystem`.  Every write ends in the propagator.  Versions are stored by PUT
and follow MOVE, COPY and DELETE.  Requests share nothing but the database and the
disk, and nothing keeps them apart: `locksystem.rs` grants every lock.  Hence the
hazards listed in `PROJECT.json`: reads used several awaits later, checks and acts
in different statements, helpers that give up half-way, and background
propagation that decides what a sync client sees.

## 2. Modules

```
FileCache            oc_filecache as a value: queries and statements
  WriteCore          all state; propagation, size chains, ensure_parent_dir, quota
    Versions         versions.rs
      PutFile        open + flush
      Structure      MKCOL, MOVE, COPY, PROPPATCH (mtime)
        Trashbin     DELETE, trash and hard, with versions
          DavWrites  all of them side by side, PROPFIND, properties
            Uploads  chunked and bulk upload on top of it
Properties           PROPPATCH, oc_properties, tags, and the requests that move files
AtomicPropagation    what propagate_change promises
Propagation          propagate_change one level down: row locks, deadlocks, retries
SessionAuth          session_auth, identity cache, resolve_session, PHP-FPM
Logins               the other ways to log in, the caches behind them, the throttle
Previews             previews from request to row, beside overwrites and PHP
Snowflake            next_id / alloc with threads
FastCgi              one exchange with PHP-FPM, record by record
  Capabilities       the capability cache and its refresh task, on FastCgi
ClientIdentity, Routing, DavDispatch, Listings    pure functions
  Algorithms         what they are meant to compute
*Proofs              theorems about the module of that name (section 4); WritePathProofs
                     about FileCache .. Uploads, PreviewsProofs about Snowflake as well
MCDavWrites, MCUploads, MCProperties, ...         the instances for TLC; MCPreviews holds
                     Previews and Snowflake, one of the two per behaviour
```

### The write path (FileCache .. DavWrites)

*State.*  `fc` and `size` are the columns of `oc_filecache` by file id; `disk` the
user's data directory, `temps` the upload temp files, `trash` and `ents` the tables
`oc_files_trash` and `oc_files_versions`, `clock` what `now_secs()` returns.
Etags are numbers from `nextEtag` (`new_etag` is a random string), ids from
`nextId` (the sequence of the database).  `seen` is what a sync client remembers
of its last PROPFIND of a folder.

*Paths* are sequences of segments, a segment is `<<name, v, d>>`: name, `.v{v}`
of a stored version, `.d{d}` of a trash item.  Taking a path apart and putting the
suffixes on is what the code does with strings; the wrong folder, level or suffix
is then a wrong sequence.

*Steps.*  One SQL statement or one file-system call is one step.  `req[r].todo` is
the rest of request r's handler, as a sequence of steps; the head step is enabled,
does its work and may put the steps of the functions it calls in front.  An early
return drops the rest (`Fail`), a helper whose error is only logged drops its own
steps (`GiveUp`).  Locals that live across an await are fields of `req[r]`: `row`
is what `open` or `delete_*` read at the start and use, unrefreshed, at the end.

*Grouped steps.*  The work on the version files of one request is one step per
kind (`RenameVersionsDisk`, `RepathVersionRows`, `CopyVersions`,
`TrashVersionsMove`, `HardDeleteVersions`); mkdir and INSERT of a missing parent
(`EnsureInsert`) and the two UPDATEs that re-path a trashed row (`TrashRow`) are one
step each.  The properties about versions are checked with requests one at a
time, where this changes nothing.

*Left out*: mimetypes, permissions, checksums as values, `oc_filecache_extended`,
custom properties, preview invalidation, and folder mtimes (`propagate_change` takes
the greater mtime, `correct_parent_storage_mtime` the one of the disk).  MOVE and
COPY start with a free destination: dav-server deletes an existing one first.
COPY is of files: dav-server copies a folder child by child.  A hard delete of a
folder empties it child by child, as dav-server does.  SQL statements are atomic;
database errors other than unique conflicts do not occur in these modules, nor does the error
of `create_dir_all` in `ensure_parent_dir`.  Names
contain no `_` or `%`, which the code does not escape in a LIKE: Properties has them.
`seen` starts with every folder of the user listed.

### Uploads

Extends DavWrites by the requests of chunked and bulk uploads.  `sessions` is
`UploadStateStore`, `chunkdir` the directories of chunk files; nothing ties the two
together, and `Restart` loses the first and every running request.  The bytes of a
chunk are the request that wrote them, one element per byte, so that the assembled
file shows where each byte came from.  A chunk file has an inode: a PUT that replaces
it while the assembly reads is seen.  Clients follow `Plans`, a set of requests for each
position, because free choice of five requests is beyond TLC.

### Properties

PROPPATCH instruction by instruction, `oc_properties` keyed by path (hashed above 250
bytes, which no LIKE matches), tags and times keyed by file id, beside one structural
request at a time.  Statements may fail; the code logs it and goes on.  `want` is where
the requests have put each file, `stranded` the properties left by the order of a
folder MOVE, `purged` the files deleted for good (all three are history).  The files of a
request are moved in `node`, a table of path and id.

### Propagation

The statement of `try_propagate` locks the ancestors ordered by `path_hash`; a bulk
statement (the re-path of a moved folder, the DELETE of a subtree) locks in scan
order, so in any.  The database's deadlock detector kills one statement of a
cycle.  `propagate_change` retries after any error, `MAX_RETRIES` times.
`CommitUnheard` is the connection that breaks after the commit; `lost` counts it.

`sums` counts how often a row holds a change.  `Atomic == INSTANCE AtomicPropagation`
maps it, the failed statements and the answers; a bulk statement, a lock, a wait are
stuttering there.  DavWrites takes a propagation as one step on the strength of it.

### SessionAuth

One session cookie, any number of requests with it.  PHP-FPM is the environment: it
knows whether the session is valid (`Login`, `Logout`), answers late, not at all, stalls
in the middle of an answer (`Stall`: the loop that collects it has no timer), or breaks off
(`FpmError`).  `MaxLag` is an assumption on PHP-FPM, which no timeout of
the server enforces: the time from PHP's look at the session to the end of an
answer that ends.  `told` is a history variable.  At `MaxClock`, where the model's time ends, every timer may have run out.

### Logins

One step per statement: the throttle with its cached counts, bearer and Basic
verification, the caches of tokens and of user states, the two-factor and admin gates,
the DAV session guard, the spawned update of `last_activity`.  PHP revokes tokens,
enrolls a second factor and demotes in the same database.  A hash is the relation
between a secret and its row.  `MaxLag` bounds a statement, as in SessionAuth.

### Previews

`serve_preview` with its routes and gates, `ensure` with the coalescer and the permit,
the rendering in steps (read the file, render, write the bytes, insert the row), the
conflict of `insert_preview`, the overwrite (bytes, row, then DELETE of the previews, or
without it for a bulk upload), a PHP that makes previews itself.  A preview remembers the
content it shows and the invalidations before it.  Clients may leave at any await.

### FastCgi and Capabilities

PHP's output is a sequence of tokens, cut into records at any place.  `connect`, `execute`
and the header block have a timer each; the body has none.  Capabilities runs the same
exchange for the start-up fetches and the refresh task; `native`, `app` and `public` are
the sources of the two payloads.  A fetch collects
its answer in a loop without a timer.  Proxied requests and the refresh are checked in one
specification, one of the two per behaviour.

### Pure functions

ClientIdentity, Routing, DavDispatch and Listings are operators; Algorithms has one variable,
an input.  An address has 2 or 3 bits in place of 32 and 128.  A header is a sequence of lines, of
which `header_value` reads the first, if it is visible ASCII.  A path is a mount and the child
it addresses there; `remainder` is what `dav_served_by_rust` looks at, which does not ask for a
DAV mount, so a path at the root counts with its own first name.  ListingAgrees
compares two ways to compute an answer, EncodingIrrelevant and ForwardedOnlyFromProxies
two inputs that must make no difference, the others a result with its definition.

### Snowflake

`now_relative`, the mutex-protected `alloc` and the sleep at overflow, of any number of
threads.  `SetClock` moves the clock to any millisecond, forth or back: the code reads the system
clock, and nothing in it depends on its going on.

## 3. Runs

Runs that pass; in parentheses the named parts of a property:

| Run | Properties | Instance |
|---|---|---|
| Sequential | TreeConsistent (TypeOK, RowsFormTree, DiskMatchesRows), SizesConsistent (FolderSizes, VersionFolderSizes), VersionsConsistent (VersionsFollowFiles, EntityPerWrite), SyncDetects, WithinQuota | 3 requests of 18 kinds, one at a time, clock 2..3, 10 bytes of personal quota; `files/d/f` (2 bytes), `files/f` (1 byte) |
| Concurrent | SyncDetectsApart, TrashConsistent, AckedPutStored, DeltasAddUp | 2 of 14 requests at once, trash and version folders set up, within one second |
| Uploads | AssemblyExact, NoOrphanChunks, BulkAnswerTrue, UploadedTree (with WithinQuota), EveryRequestAnswered | 5 plans of up to 5 requests, two at a time, 2 parts, 1 restart, 4 bytes of quota; two deletes of one name in one second |
| Propagations | PropagationsSerialize, NeverFailAlone, AppliedOnce, EveryPropagationEnds, ImplementsAtomic | 3 propagations, 1 bulk statement, 4 rows, lost answers, 2 attempts |
| Sessions | LogoutWithinTtlAndLag, NegativeIsDefinitive, DecidedUnlessStalled | 2 requests, clock 0..4, TTLs 2 and 1, failures and stalls of PHP-FPM |
| Logins | GrantsLapse (RevokedWithinTtl, ExpiredRefused, UserChangesWithinTtl), ThrottleMissesOnlyRecent, IdentityProven | 2 requests at a time, 8 plans of credentials and changes, TTLs 1, windows 2 and 3, clock 0..3, failing statements |
| Previews | GenerationsBounded, StaleExplained, EveryPreviewAnswered, UniqueUnlessOvertaken | 2 requests of 3 kinds, 1 overwrite, 1 permit, 2 variants, 1 preview of PHP, 1 fault; 2 threads, 2 ids per millisecond, 2 milliseconds, 4 ids |
| Backend | BodyExact, PayloadsServed (PayloadsExact, PayloadsNeverRegress), EveryProxiedAnswered (with HeadInTime), ConfigReachesUnlessStalled | 26 answers of PHP of up to 9 tokens in records of up to 3, timers of 2 ticks, 2 changes of the configuration, 1 fault |
| Algorithms | OnlyProxiesBelieved (ClientIsLastUntrusted, ForwardedOnlyFromProxies), RoutingTablesAgree, EncodingIrrelevant, PropfindAgrees (ListingAgrees, PermissionsAgree) | 175,000 inputs: headers of up to 2 lines, every mount with every child, every gate, nodes that differ in one family, pairs of properties |
| Properties | PatchAsAnswered (PropertyAsAnswered, TagsAsAnswered), PropsSharePath (PropsFollowFiles, HardDeleteCleans), RowsFollowRequests | 2 clients, 3 of 15 requests, 1 failing statement, both databases, one path above 250 bytes |

*Why these bounds.*  Three requests in a row are enough to write, overwrite or move
and then delete the same file, with a clock tick so that versions of different
seconds and a same-second overwrite both occur, and to run into the quota with an
upload of unknown length; two at once give every interleaving of two handlers, and
the hazards of this code take two actors.  The tree has a file at the top and the
same name one level down, because the code treats the two differently, and two
files of one name meet in the trash in the same second.  A plan of Uploads holds what
goes wrong with an upload: parts out of order, a part sent twice, a second MKCOL, an
abort, a broken body, a restart at any point, and the assembly beside any of them.  Clock
and TTLs are the smallest that put a timeout, a revocation and a late answer in every
order; with two requests one answer can overtake the other.  A cap of 6 tokens on the
header block and records of 3 put the separator inside, between and across records.

*Fairness.*  Uploads: the server goes on as long as some request can, the runtime polls
ready tasks and database and disk answer; nothing is assumed about the arrival of
requests, and as each runs once this is enough for all to be answered.  Propagation:
each statement goes on when it can, and the database does kill a statement of a cycle.
SessionAuth: the clock, the server's own steps and its timers; PHP-FPM need not
answer, and one of two things becomes of an answer it has begun, it is complete or it stalls.
Backend: the server's steps, its timers and the refresh task; nothing of PHP, which may stop
anywhere.  DecidedUnlessStalled and ConfigReachesUnlessStalled name what happens then.
Previews: the steps of requests, generations and writers; clients may leave.

*Where the code and its comments disagree.*  Two runs that TLC must find violated;
`PROJECT.json` quotes the lines.

* **Wildcards** (RowsFollowRequests).  A hard DELETE of the folder `a_b` selects the rows below
  it with `LIKE 'files/a_b/%'`, in which `_` stands for any character, and removes the rows below
  `axb` as well; a MOVE re-keys by the same pattern.
* **SessionStalls** (EveryRequestDecided).  `resolve_session` promises "a fixed 5-second timeout"
  and `None` on a timeout; the timeout ends when the answer begins, and PHP-FPM that stalls after
  that keeps the browser request for good (`nc-fastcgi/src/lib.rs:1388`).

Others came up while modelling.  They have no run; the properties are stated so
that they hold of the code as it is, and these are the cases they leave out.

The write path:

* A MOVE between folders leaves the own sizes of both (`mutations.rs:524`), and a MOVE of a
  file in a sub-folder leaves the rows of its versions (`versions.rs:246`): the MOVEs of
  Sequential stay in one folder, those of files with versions at the top.
* Above the default quota the free space is negative, which means unlimited
  (`quota.rs:109`): Sequential and Uploads have a personal quota.
* Two deletes of one basename in one second can both find `{name}.d{ts}` free
  (`trashbin.rs:376-393`); the second rename replaces the bytes of the first item.

* `clone_version_file` (`versions.rs:505`) returns without cloning the row when the
  target's version folder has no row: COPY is checked at the top level.
* `hard_delete_versions` (`trashbin.rs:925`) recomputes sizes from above
  `files_versions`, which keeps its size, and a hard delete of a folder leaves the
  versions of its children (intended: test
  `hard_delete_directory_leaves_child_versions`): VersionsFollowFiles and
  VersionFolderSizes require `NoHardDelete`.
* `flush` stores the version before the commit-time quota check (`davfile.rs:487`);
  a refused overwrite leaves one, although "leaves no partial state" (`davfile.rs:528`).
* A same-second overwrite keeps the stored etag and answers with a new one
  (`davfile.rs:595-642`).
* `delete_file` reads the clock again for the versions (`trashbin.rs:242`), so they can
  get another `.d` timestamp than their file.
* A PUT into a folder that is renamed meanwhile propagates to the old path
  (`davfile.rs:712`): SyncDetectsApart is about requests that leave each other's paths.
* `recompute_folder_size` overwrites a delta that comes between its SUM and its UPDATE
  (`propagator.rs:491`): DeltasAddUp is about requests that do not recompute.
* `propagate_change` retries an error that came after the commit (`propagator.rs:109`)
  and then counts the delta twice: AppliedOnce counts lost answers separately.
* A chunk PUT that breaks off leaves the size recorded before; the mtime header of an
  assembly is refused after the file is written (`upload_handler.rs:739-750`); a chunked
  overwrite stores no version; after a restart PROPFIND of a slot answers 207 while PUT and
  MOVE answer 404.

Properties and listings:

* A MOVE of a folder re-keys `oc_filecache` (`mutations.rs:451`) before
  `update_custom_properties_path_subtree` (`:465`) lists the descendants under the old
  prefix: on SQLite, and on Postgres across 250 bytes, their dead properties stay behind
  (`stranded`).  A delete to the trash leaves them too.
* `upsert_custom_property` has no unique index behind it, so two at once leave two rows;
  errors are logged and answered 200.  A tag sent with blanks around its name removes
  the tag of that name.  `format_tags_xml` escapes, `parse_tags_xml` does not unescape.
* A listing asks for shares when `oc:sharees` is requested, while the property is
  `nc:sharees` (`propfind.rs:160`, `props.rs:327`); SQLite has no batch for the
  metadata; a sharee with two shares is listed twice (`Gap` in Algorithms).
* GET looks its path up without percent-decoding (`handler.rs:357`): a folder with a
  blank in its name gets neither the archive nor the stub, a file no OC-Checksum.

Login, proxy, previews:

* A log-out during a round-trip takes effect later than the TTL (`session.rs:84`):
  the bound checked is TTL plus the length of an answer.
* An outage of PHP-FPM is cached like an invalid session (`auth.rs:663`):
  NegativeIsDefinitive is about entries an answer wrote (`told`).
* The loop that collects a capability answer has no timeout either (`nc-fastcgi/src/lib.rs:966`):
  a PHP that stalls there ends the refresh task, which "ensures" changes are served "within one
  refresh interval" (`main.rs:386-391`), and at the start keeps the server from listening.
* The permit that bounds the round-trips is dropped before the round-trip
  (`auth.rs:608`), and `state.rs:129` makes a new semaphore for every request.
* `spawn_last_activity_update` goes by the cached row, so several requests in the TTL all
  write (`bearer.rs:165`).
* Two threads can get the same preview id, although the generator is "Thread-safe: the sequence
  is guarded by a mutex" (`snowflake.rs:89-92`): the clock is read outside it (`:134`), so a
  thread with an older millisecond, or any thread after the clock was set back, starts that
  millisecond again at 0.  UniqueUnlessOvertaken is about all other cases.
* A rendering that read the old content inserts its row after the DELETE of a PUT, and
  bulk uploads delete no previews: the two cases StaleExplained leaves out.
* `dav_served_by_rust` is "`true` when Rust serves the path itself" (`router.rs:269`), and
  `session_auth` runs PHP's login chain for those (`auth.rs:561`).  It is false of
  `/remote.php/webdav`, the native OCS routes and the preview routes (`ReadOnlyNative`), where
  remember-me cookies therefore do not renew a session; a test calls the webdav alias
  proxied (`router.rs:581`).  It is true of a route an app registers at the root under a name
  like `/files` or `/uploads`, which PHP serves, so its login chain would run twice.
* Of a forwarded header in several lines only the first is read, and one with a byte that is
  not visible ASCII is as none (`client_identity.rs:55-61`): behind a proxy that adds a line of
  its own the first line is the one the client sent.  An unbracketed IPv6 address with a port is
  read as an address of its own where it is one (`:142-160`).  ClientIsLastUntrusted is about the lines
  that are read, and about all that was sent when each header is one line.
* Behind a trusted proxy without X-Forwarded-Host the host is `localhost`; start-up without
  an admin skips both capability fetches.
* The way `build_fcgi_params` normalises header names against its list of stripped
  headers is not modelled and may deserve a maintainer's review.

## 4. Proofs

All for every value of the constants that the named assumptions admit.

* **PropagationProofs.**  `TypeCorrect`.  `Serialize`: no set of propagations waits in
  a circle.  Not inductive as it stands: the invariant is `LocksInOrder` (what a
  propagation holds lies below all it does not hold yet, and it wants the least of
  those).  In a cycle take the member with the greatest wanted row; whoever it waits
  for holds that row and wants a greater one.  `NoRetryAlone`: before a bulk statement
  has run the guard of `Kill` is false, since its cycle would be one of propagations.
  `ExactlyOnce`: commits are counted by "done" and by lost answers, whatever is killed.
  `Refinement`: Propagation implements AtomicPropagation.  Of the mapping only two facts are
  invariants of their own: a call that is waiting or running has not answered and has
  tries left (`Phases`), and attempts count the failures (`FailureCounts`); a step that
  writes holds the whole chain, which is `AllLocked`.
* **SessionAuthProofs.**  `TypeCorrect`.  `LogoutBound` and `NegativeBound`: whatever the
  order answers arrive in, the cache lets nobody in later than `PositiveTtl + MaxLag`
  after a log-out, and turns nobody away later than `NegativeTtl + MaxLag` after a
  log-in.  The invariants date the evidence: an answer under way was true when PHP
  gave it (`AnswersRecent`, `DenialsRecent`), an entry at most `MaxLag` before it was
  stored (`EntryRecent`, `NegativeRecent`).
* **WritePathProofs.**  What holds of uploads whatever else the server does meanwhile; the bulk
  of it is that no other handler gets in the way.  `WellFormed` (requests, table and disk are what
  the next statement expects of them) is kept by every step of every request: `RequestStepKeeps`
  for the handlers of DavWrites, `BulkStepKeeps`, `UploadStepTurns`, one lemma per action below
  them.  The same lemmas say that a step leaves the other requests, and but for its own upload
  sessions and directories, alone.  Two results stand on it.

  `OrphansNever` (NoOrphanChunks).  The property speaks of directories only; it is the handlers'
  order that makes it true, and the invariant `OrphanInv` has to say so: `InOrder` (the write of a
  chunk waits for its creation, the recording of a chunk for its bytes, the end of the session for
  the removal of the directory, wherever in the list of steps they are), `Alone` (of an upload
  nobody disturbed one request runs, so none is between two steps of another) and
  `Owned` (a directory, or a request that is going to write to one, has its session; when the
  session goes, the directory is gone).

  `AssembliesExact` (AssemblyExact).  The assembled file has to follow from what the PUTs did
  long before, through a session that may have been replaced and files that may be older than it.
  `ExactInv` therefore dates everything.  `Arrived`: requests are numbered as they arrive, so the
  last PUT of a part is the one with the greatest number.  `Gens`: a session has a number no other
  ever had, and so have the requests that used it.  `Slot`: a session knows exactly the parts its
  PUTs were acknowledged for, and the file of each holds the bytes of the last of these, unless a
  PUT of it is between creating the file and recording it; that is also why a chunk of an
  earlier session cannot be read: it is not known to this one.  `PutPhase`: what such a PUT has
  put into the file so far.  `AsmPhase`: an assembly has read nothing, or the first j parts in their
  order (`Reads`), or all of them (`Complete`), and after that no PUT can join its session
  any more.  `PrefixAll` ties the loop of the code to the concatenation of the property.  All of this
  is claimed of uploads nobody disturbed, and it is `DisturbedStays` that makes the claim inductive.

  For any table: `StampReachesAncestors` (the propagation statement stamps all ancestors and
  nothing else) and `RekeyKeepsPathsUnique` (a bulk re-path to a free place keeps paths unique).
* **AlgorithmsProofs.**  `OnlyProxiesAreBelieved`: the address a request is attributed to is the
  last one of the chain that is not a trusted proxy, the chain is all that was sent when every
  configured header comes in one readable line (`ChainOfOneLines`), and without a trusted peer no
  header changes anything, for any number of headers, lines and elements.
  `RoutingTablesAlwaysAgree` (for any path, registered or not), `EncodingNeverMatters` and
  `PropfindAlwaysAgrees` (the single and the batched reads of a PROPFIND give one answer, for any
  rows) hold of every input, so they are proved of the input and not of a run.  The
  flattened headers and the walk along the chain are recursive functions; where induction would be
  needed, the argument takes the least counterexample (`LeastOf`) instead, here and in
  WritePathProofs.
* **LoginsProofs.**  `TypeCorrect`.  `Identity`: whoever runs is the user of a credential the
  request brought; the invariant carries "proven" from the step that identified the user
  through the gates.  `Lapse` (from `TokensLapse` and `UsersLapse`) and `ThrottleBound` are
  about what is stale.  None is inductive alone: a cache entry says nothing of when it was
  true.  The invariants date it: `Lagging` (a statement under way was issued at most `MaxLag`
  ago), `CacheRecent` and `StatesRecent` (an entry was stored at most `MaxLag` after its row was
  revoked or changed), `CountsRecent` (cached counts saw every attempt older than `MaxLag` at the
  time of storing), and for each request the same of what it has read so far.  That attempts
  are only appended makes later windows subsets of earlier ones.
* **PreviewsProofs.**  `UniqueButOvertaken`: for any number of threads and any clock, an id of
  Snowflake repeats only if one of another millisecond was handed out in between.  The invariant
  is `Run`: the last id is of the millisecond the sequence stands in, and the ids handed out
  since it was entered are numbered up to the counter.  `AllocAppends` says what one allocation
  does to the ids.
  `TypeCorrect`, `Bounded`, `Heard`, `Stale` of Previews from one invariant with five parts.
  `Registered`: a key and its generation point at each other, so no key has two.
  `PermitsHeld`: free permits and rendering generations add up, through clients that leave
  and renderings that fail.  `WaitersHeard`: whoever waits does so for a generation of its key
  that has not settled; it is also what an answer to every waiter needs for safety.
  `Explains`: StaleExplained is not inductive for rows alone, so it is stated of every preview
  there is: stored, rendered but not inserted, and in the hands of PHP.
* **CapabilitiesProofs.**  `Invariant`, then `BodyDelivered`, `HeadTimely` and `Served` from it.
  `Exchange` says of every phase where PHP's output is: unsent, accumulated (`Collects`), or parsed
  and handed on, `out \o prefix` being the body of what was sent (`Streams`).  Its step needs
  `BodyGrows`: a separator, once found, stays the first one whatever follows, so appending a
  record appends to the body.  `CutPayload`: a truncated answer has no payload.  `Budget`: time
  spent and time left in each phase add up to one, two, three timeouts.  `Cached` (both payloads
  are merged from the parts in the cache), `Versions` (nothing is newer than its source) and
  `Running` (what the current fetch brings is at least as new as what the cache holds) give
  that clients never see an older payload.
* **PropertiesProofs.**  `RowsFollow`: after the structural requests whose statements worked, every
  row has the path they gave its file.  A MOVE of a folder is two statements on the table with others
  in between, so the invariant has to say what the table is half way (`Half`): the folder is at its
  new place with nothing below it, its contents still below the old one, and every other row
  in order.  That `rekey_subtree_paths` then moves all of them, on SQLite row by row, needs that no
  row is in the way: nothing was below the new place, because the rows form a tree (`Tree`, stated of
  all ancestors, so that the check of one parent at the start is enough) and the place was free.
  That a folder's rows move one to one is `RebaseMoves`.  PROPPATCHes may run at any point; that
  only one structural request does is the scope of the module (`Solo`).  The hypothesis `Wild = {}`
  (no `_` or `%` in a name matches another name) is needed, as the run Wildcards shows: `LikeMeans`,
  that LIKE finds what lies below a folder and no more, is the lemma that fails without it.
  `PropsFollow`, under the same hypothesis and on top of that invariant: dead properties are found
  under the path their file has now, and none is left of a file deleted for good, but for those that
  `Strands` names and those stored while a DELETE has passed them by.  `oc_properties`
  is keyed by path, so every statement between the change of `oc_filecache` and that of its
  properties leaves rows behind; the invariant says which.  `Placed`: a row is under the path of
  its file, or a MOVE is about to bring it along (`Lags`: after the row of the folder its own
  properties; after those below it, on Postgres, the rows of short paths), or it is one that
  `Strands` names.  `Cleans`: a row of a file deleted for good is about to go.  `Reached`: nothing is
  below the old place once the rows were rekeyed, so the two last statements of a MOVE find no
  row of a file, and a DELETE has passed the short paths before the long ones.  That an
  inserted row gets an id no other row has (`NextRowIsNew`) needs a largest one, which is where
  the well-founded induction of the library comes in.  All of it is stated while no statement
  has failed; PROPPATCHes run beside it at any point.

TLC has checked each of these inductive invariants on the instance of its run (those of
uploads for the uploads of that instance, as they quantify over all).

*Assumptions.*  Bounds are natural numbers, TTLs positive.  SessionAuth and Logins: `MaxLag`
bounds an answer of PHP-FPM and of a statement (the guard of `Tick`; no timeout of the server
enforces it).  `TokenAssumption`: the row of a token has an owner and an expiry.
`DelayAssumption`: powers of two are natural numbers, which the provers do not know.
Previews: finitely many slots for generations, requests of the three routes.  FastCgi: PHP's
output is a sequence of `Tokens`.  `PhpAnswersAssumption`: a capability answer is one JSON document
at the end of the output, with all capabilities for an admin and the public ones otherwise.
Properties: what a path lies in is a folder, the table starts as a tree with bounded, unique ids,
and the framework refuses to move a folder into itself.  Uploads: `StorageAssumption` (the rows
at the start are rows, and what is on disk has a path) and `PlansAssumption` (a plan numbers its
requests, and each has a kind some handler serves).  Algorithms: `InputsAssumption` (the inputs
are of the types the parsers deliver; share notes with the same second are equal, because SQL leaves
their order open).

*Model-checked only*: liveness (fairness is out of the prover's reach); the invariants of
DavWrites, which sum sizes over sets of rows or compare a tree with the list of a folder step by
step, where the provers have no induction; `UploadedTree`, which includes them, and
`BulkAnswerTrue`, which follows the list of the parts of a bulk request; and what a PROPPATCH
has stored (`PatchAsAnswered` takes the last of a list of instructions).  The type invariants of DavWrites and Uploads are checked but not proved:
nothing derives that a string the code builds is a member of `STRING`.

## 5. Plan

1. Proofs about DavWrites apart from sums: unique paths, ids and etags (every etag in use is
   below `nextEtag`); parent links; SyncDetects (invariant: a listed folder with an unchanged
   etag has an unchanged listing or a propagation still to come).
2. BulkAnswerTrue, on top of `BulkStepKeeps`.
3. Crash and dropped-request actions in DavWrites itself; Uploads has them for its own.

## 6. Not modelled

SEARCH, REPORT and archives (read-only queries and streams), the rendering of XML and
JSON, the OCS endpoints but for capabilities, the CGI parameters of a proxied request,
the ciphers and hashes of credentials, configuration parsing, the connection pool,
start-up order and maintenance mode, image processing, COPY of folders and overwriting
destinations (inside dav-server), and the test and benchmark tools.  `PROJECT.json` lists every
component with its status.
