------------------------------ MODULE Previews ------------------------------
(***************************************************************************)
(* Native previews: serve_preview (nc-server preview.rs), the generation   *)
(* service with its coalescer and permits (preview_gen.rs, nc-preview      *)
(* concurrency.rs, persist.rs, store.rs, backend.rs), and the invalidation *)
(* by the handlers that overwrite a file.  One file, whose previews are    *)
(* the max preview and one smaller variant derived from it.  All contents  *)
(* of the file have the same pixel size, so a variant has one row key and  *)
(* one byte path.                                                          *)
(*                                                                         *)
(* A stored preview is [of, from]: the content it shows and, as history,   *)
(* the invalidations seen when its making began.                           *)
(***************************************************************************)
EXTENDS Integers, FiniteSets

CONSTANTS
    Reqs, Kinds,     \* client requests: [route, gate, want, inm]
    Writers,         \* overwrites of the file: PUT, chunked assembly or bulk upload
    Generatable,     \* rust_generatable(mime) and backend_available()
    Permits,         \* preview_concurrency_new
    Gens,            \* slots for generations, as many as there are keys in flight
    MaxPhp,          \* bound on the previews PHP makes meanwhile
    MaxFaults        \* bound on failing statements and renderings and lost clients

ASSUME PreviewsAssumption ==
    /\ Permits \in Nat \ {0} /\ MaxPhp \in Nat /\ MaxFaults \in Nat
    /\ Generatable \in BOOLEAN /\ Gens \subseteq Nat \ {0} /\ IsFiniteSet(Gens)
    /\ Kinds # {}
    /\ Kinds \subseteq [route : {"core", "photos", "thumbnail"},
                        gate  : {"ok", "bad size", "not own", "disabled", "forbidden"},
                        want  : {"max", "small"}, inm : Int]

Keys   == {"max", "small"}
NoGen  == 0
NoRow  == [etag |-> -1, made |-> [of |-> -1, from |-> 0], at |-> 0]
NoBytes == NoRow.made
Failed == NoRow

VARIABLES
    content,     \* the file on disk
    etag,        \* its etag in oc_filecache, the number of the write that set it
    rows,        \* oc_previews
    bytes,       \* appdata: the preview files
    inflight,    \* Coalescer: the generation registered for a key
    gens,        \* generations
    permits,
    rq, wr,
    php,         \* a preview PHP is making
    epoch,       \* history: invalidations so far
    missed,      \* history: a content was written and not invalidated
    faults

vars == <<content, etag, rows, bytes, inflight, gens, permits, rq, wr, php, epoch, missed, faults>>

Fresh  == [pc |-> "idle", kind |-> CHOOSE k \in Kinds : TRUE, fc |-> -1, from |-> 0,
           target |-> NoRow, wait |-> NoGen, status |-> 0]
Unused == [pc |-> "unused", key |-> "max", fc |-> -1, made |-> NoBytes, result |-> NoRow]

Init ==
    /\ content = 0 /\ etag = 0 /\ epoch = 0 /\ missed = FALSE /\ faults = 0
    /\ rows = [k \in Keys |-> NoRow] /\ bytes = [k \in Keys |-> NoBytes]
    /\ inflight = [k \in Keys |-> NoGen] /\ gens = [g \in Gens |-> Unused] /\ permits = Permits
    /\ rq = [r \in Reqs |-> Fresh] /\ wr = [w \in Writers |-> [pc |-> "idle", ver |-> 0]]
    /\ php = [pc |-> "idle", key |-> "max", made |-> NoBytes, left |-> MaxPhp]

store  == <<rows, bytes>>
engine == <<inflight, gens, permits>>
file   == <<content, etag, wr, epoch, missed>>
Fault  == faults < MaxFaults /\ faults' = faults + 1

----------------------------------------------------------------------------
(* Requests. *)
At(r, s)  == rq[r].pc = s
Put(r, f) == rq' = [rq EXCEPT ![r] = f]
Done(code) == [Fresh EXCEPT !.pc = "done", !.status = code]
Answer(r, code) == Put(r, Done(code))
Proxy(r)  == Answer(r, 502)  \* handed to PHP-FPM

Arrive(r) ==
    /\ At(r, "idle")
    /\ \E k \in Kinds : Put(r, [rq[r] EXCEPT !.pc = "resolve", !.kind = k])
    /\ UNCHANGED <<store, engine, file, php, faults>>

(* The routes: the caller's own row of oc_filecache or else PHP, which     *)
(* knows shares and mounts.  0 when the request goes on.                   *)
resolve_home(k) == IF k.gate = "not own" THEN 502 ELSE 0
preview_by_file_id(k) == IF k.gate = "bad size" THEN 400 ELSE resolve_home(k)
files_thumbnail(k)    == IF k.gate = "bad size" THEN 400 ELSE resolve_home(k)
photos_preview(k)     == IF k.gate = "bad size" THEN 502 ELSE resolve_home(k)

Handler(k) == CASE k.route = "core"      -> preview_by_file_id(k)
                [] k.route = "photos"    -> photos_preview(k)
                [] k.route = "thumbnail" -> files_thumbnail(k)

(* Then the switch of the registry and the permissions of the row. *)
Resolve(r) ==
    LET k == rq[r].kind
    IN /\ At(r, "resolve")
       /\ CASE Handler(k) # 0        -> Answer(r, Handler(k))
            [] k.gate = "disabled"   -> Answer(r, 404)
            [] k.gate = "forbidden"  -> Answer(r, 403)
            [] OTHER -> Put(r, [rq[r] EXCEPT !.pc = "rows", !.fc = etag, !.from = epoch])
       /\ UNCHANGED <<store, engine, file, php, faults>>

(* load_preview_rows: an SQL error looks like a miss. *)
Load(r, key, found, missing) ==
    \/ /\ IF rows[key] # NoRow THEN Put(r, found) ELSE Put(r, missing)
       /\ UNCHANGED faults
    \/ Fault /\ Put(r, missing)

OrProxy(f, next) == IF Generatable THEN [f EXCEPT !.pc = next] ELSE Done(502)

Serving(f, row) == [Fresh EXCEPT !.pc = "serve", !.kind = f.kind, !.target = row]
HasMax(r) == [rq[r] EXCEPT !.pc = "bucket", !.target = rows["max"]]
HasTarget(r) == Serving(rq[r], rows["small"])

LoadRows(r) ==
    /\ At(r, "rows")
    /\ Load(r, "max", HasMax(r), OrProxy(rq[r], "ensure max"))
    /\ UNCHANGED <<store, engine, file, php>>

(* ensure_max and ensure_derived look again before they generate. *)
ensure_max(r) ==
    /\ At(r, "ensure max")
    /\ Load(r, "max", HasMax(r), [rq[r] EXCEPT !.pc = "join max"])
    /\ UNCHANGED <<store, engine, file, php>>

ensure_derived(r) ==
    /\ At(r, "ensure small")
    /\ Load(r, "small", HasTarget(r), [rq[r] EXCEPT !.pc = "join small"])
    /\ UNCHANGED <<store, engine, file, php>>

(* calculate_size against the dimensions of the max preview: the request   *)
(* is served the max itself or the variant.                                *)
Bucket(r) ==
    /\ At(r, "bucket")
    /\ IF rq[r].kind.want = "max" THEN Put(r, Serving(rq[r], rq[r].target))
                                  ELSE Put(r, [rq[r] EXCEPT !.pc = "rows again", !.target = NoRow])
    /\ UNCHANGED <<store, engine, file, php, faults>>

LoadAgain(r) ==
    /\ At(r, "rows again")
    /\ Load(r, "small", HasTarget(r), OrProxy(rq[r], "ensure small"))
    /\ UNCHANGED <<store, engine, file, php>>

Joining(r) == IF At(r, "join max") THEN "max" ELSE "small"
AfterWait(f, row) ==
    IF row = Failed THEN Done(502)
    ELSE IF f.pc = "wait max" THEN [f EXCEPT !.pc = "bucket", !.target = row, !.wait = NoGen]
    ELSE Serving(f, row)

(* Coalescer::run under its lock: join the generation registered for the   *)
(* key, or start one and register it.  A generation that has settled and   *)
(* is still registered answers at once.                                    *)
CoalesceKeyed(r, key, known) ==
    LET waiting == [rq[r] EXCEPT !.pc = IF key = "max" THEN "wait max" ELSE "wait small"]
    IN IF known THEN /\ IF gens[inflight[key]].pc = "settled"
                        THEN Put(r, AfterWait(waiting, gens[inflight[key]].result))
                        ELSE Put(r, [waiting EXCEPT !.wait = inflight[key]])
                     /\ UNCHANGED engine
       ELSE \E g \in Gens :
               /\ gens[g] = Unused /\ \A h \in Gens : gens[h] = Unused => g <= h
               /\ gens' = [gens EXCEPT ![g] = [Unused EXCEPT !.pc = "queued", !.key = key, !.fc = rq[r].fc,
                                               !.made = [NoBytes EXCEPT !.from = rq[r].from]]]
               /\ inflight' = [inflight EXCEPT ![key] = g]
               /\ Put(r, [waiting EXCEPT !.wait = g]) /\ UNCHANGED permits

JoinAlways(r) == \* mutant: no coalescing
    /\ At(r, "join max") \/ At(r, "join small")
    /\ CoalesceKeyed(r, Joining(r), FALSE)
    /\ UNCHANGED <<store, file, php, faults>>

Join(r) ==
    /\ At(r, "join max") \/ At(r, "join small")
    /\ CoalesceKeyed(r, Joining(r), inflight[Joining(r)] # NoGen)
    /\ UNCHANGED <<store, file, php, faults>>

(* The validator first, then the file at the deterministic path; a row     *)
(* whose bytes are gone is left to PHP.                                    *)
Serve(r) ==
    LET row == rq[r].target
        key == rq[r].kind.want
    IN /\ At(r, "serve")
       /\ IF rq[r].kind.inm = row.etag THEN Answer(r, 304)
          ELSE IF bytes[key] = NoBytes THEN Proxy(r)
          ELSE Answer(r, 200)
       /\ UNCHANGED <<store, engine, file, php, faults>>

(* A client that disconnects stops waiting; the generation goes on. *)
ClientGone(r) ==
    /\ rq[r].wait # NoGen
    /\ Fault /\ Put(r, [Fresh EXCEPT !.pc = "gone"])
    /\ UNCHANGED <<store, engine, file, php>>

----------------------------------------------------------------------------
(* Generations: the closures that ensure_max and ensure_derived submit.    *)
Running == {"read", "render", "write", "insert", "refetch"}
Gen(g, f) == gens' = [gens EXCEPT ![g] = f]

Acquire(g) ==
    /\ gens[g].pc = "queued" /\ permits > 0
    /\ permits' = permits - 1 /\ Gen(g, [gens[g] EXCEPT !.pc = "read"])
    /\ UNCHANGED <<store, file, inflight, rq, php, faults>>

SettleFirstWaiter(g, result) == \* mutant: only the one who started it is told
    /\ Gen(g, [gens[g] EXCEPT !.pc = "settled", !.result = result])
    /\ permits' = permits + 1
    /\ \/ \E r \in Reqs : rq[r].wait = g /\ rq' = [rq EXCEPT ![r] = AfterWait(rq[r], result)]
       \/ (\A r \in Reqs : rq[r].wait # g) /\ UNCHANGED rq

(* The end of the closure: the permit is released and every waiter of the  *)
(* shared future has its result.                                           *)
Settle(g, result) ==
    /\ Gen(g, [gens[g] EXCEPT !.pc = "settled", !.result = result])
    /\ permits' = permits + 1
    /\ rq' = [r \in Reqs |-> IF rq[r].wait = g THEN AfterWait(rq[r], result) ELSE rq[r]]

(* The max preview comes from the source file, a variant from the bytes of *)
(* the max preview.                                                        *)
ReadInput(g) ==
    LET from == gens[g].made.from
        max  == bytes["max"]
    IN /\ gens[g].pc = "read"
       /\ \/ /\ gens[g].key = "max"
             /\ Gen(g, [gens[g] EXCEPT !.pc = "render", !.made = [of |-> content, from |-> from]])
             /\ UNCHANGED <<permits, rq, faults>>
          \/ /\ gens[g].key = "small" /\ max # NoBytes
             /\ Gen(g, [gens[g] EXCEPT !.pc = "render",
                        !.made = [of |-> max.of, from |-> IF max.from < from THEN max.from ELSE from]])
             /\ UNCHANGED <<permits, rq, faults>>
          \/ gens[g].key = "small" /\ max = NoBytes /\ Settle(g, Failed) /\ UNCHANGED faults
          \/ Fault /\ Settle(g, Failed)
       /\ UNCHANGED <<store, file, inflight, php>>

(* Imaginary: a timeout, an error status, an empty body or one without     *)
(* dimensions is a failure.                                                *)
Render(g) ==
    /\ gens[g].pc = "render"
    /\ \/ Gen(g, [gens[g] EXCEPT !.pc = "write"]) /\ UNCHANGED <<permits, rq, faults>>
       \/ Fault /\ Settle(g, Failed)
    /\ UNCHANGED <<store, file, inflight, php>>

(* write_preview_bytes: a temporary file renamed into place. *)
write_preview_bytes(g) ==
    /\ gens[g].pc = "write"
    /\ \/ /\ bytes' = [bytes EXCEPT ![gens[g].key] = gens[g].made]
          /\ Gen(g, [gens[g] EXCEPT !.pc = "insert"]) /\ UNCHANGED <<permits, rq, faults>>
       \/ Fault /\ Settle(g, Failed) /\ UNCHANGED bytes
    /\ UNCHANGED <<rows, file, inflight, php>>

(* INSERT ... ON CONFLICT DO NOTHING RETURNING id. *)
insert_preview(g) ==
    LET key == gens[g].key
        row == [etag |-> gens[g].fc, made |-> gens[g].made, at |-> epoch]
    IN /\ gens[g].pc = "insert"
       /\ \/ /\ rows[key] = NoRow
             /\ rows' = [rows EXCEPT ![key] = row] /\ Settle(g, row) /\ UNCHANGED faults
          \/ /\ rows[key] # NoRow
             /\ Gen(g, [gens[g] EXCEPT !.pc = "refetch"]) /\ UNCHANGED <<rows, permits, rq, faults>>
          \/ Fault /\ Settle(g, Failed) /\ UNCHANGED rows
       /\ UNCHANGED <<bytes, file, inflight, php>>

(* fetch_by_key: the winner, which may be gone again (ConflictLost). *)
fetch_by_key(g) ==
    /\ gens[g].pc = "refetch"
    /\ Settle(g, rows[gens[g].key])
    /\ UNCHANGED <<store, file, inflight, php, faults>>

(* The detached driver removes the key once the generation has settled. *)
DropKey(g) ==
    /\ gens[g].pc = "settled"
    /\ inflight' = [inflight EXCEPT ![gens[g].key] = NoGen]
    /\ Gen(g, Unused)
    /\ UNCHANGED <<store, file, permits, rq, php, faults>>

----------------------------------------------------------------------------
(* An overwrite: the new file is renamed into place, the row of the file   *)
(* gets its new etag, then PUT and chunked assembly delete the preview     *)
(* rows and remove the preview directory.  A bulk upload does not.         *)
clients == <<rq, inflight, gens, permits, php>>

ReplaceFile(w) ==
    /\ wr[w].pc = "idle"
    /\ content' = content + 1
    /\ wr' = [wr EXCEPT ![w] = [pc |-> "row", ver |-> content + 1]]
    /\ UNCHANGED <<etag, epoch, missed, faults, store, clients>>

UpdateRow(w) ==
    /\ wr[w].pc = "row"
    /\ etag' = wr[w].ver
    /\ \/ wr' = [wr EXCEPT ![w] = [pc |-> "delete", ver |-> 0]] /\ UNCHANGED missed
       \/ wr' = [wr EXCEPT ![w] = [pc |-> "done", ver |-> 0]] /\ missed' = TRUE
    /\ UNCHANGED <<content, epoch, faults, store, clients>>

(* A failed DELETE is logged. *)
DeleteRowsButMax(w) == \* mutant: only the max preview is forgotten
    /\ wr[w].pc = "delete"
    /\ rows' = [rows EXCEPT !["max"] = NoRow] /\ epoch' = epoch + 1
    /\ wr' = [wr EXCEPT ![w].pc = "rmdir"]
    /\ UNCHANGED <<missed, faults, content, etag, bytes, clients>>

DeleteRows(w) ==
    /\ wr[w].pc = "delete"
    /\ \/ rows' = [k \in Keys |-> NoRow] /\ epoch' = epoch + 1 /\ UNCHANGED <<missed, faults>>
       \/ Fault /\ missed' = TRUE /\ UNCHANGED <<rows, epoch>>
    /\ wr' = [wr EXCEPT ![w].pc = "rmdir"]
    /\ UNCHANGED <<content, etag, bytes, clients>>

RemoveDir(w) ==
    /\ wr[w].pc = "rmdir"
    /\ bytes' = [k \in Keys |-> NoBytes]
    /\ wr' = [wr EXCEPT ![w].pc = "done"]
    /\ UNCHANGED <<content, etag, epoch, missed, faults, rows, clients>>

(* PHP-FPM makes a preview for a request that was proxied to it: it keeps  *)
(* the row of another writer.                                              *)
PhpReads ==
    /\ php.pc = "idle" /\ php.left > 0 /\ \E r \in Reqs : rq[r].status = 502
    /\ \E k \in Keys : php' = [pc |-> "store", key |-> k, left |-> php.left - 1,
                               made |-> [of |-> content, from |-> epoch]]
    /\ UNCHANGED <<store, engine, file, rq, faults>>

PhpStores ==
    /\ php.pc = "store"
    /\ IF rows[php.key] # NoRow THEN UNCHANGED store
       ELSE /\ rows' = [rows EXCEPT ![php.key] = [etag |-> php.made.of, made |-> php.made, at |-> epoch]]
            /\ bytes' = [bytes EXCEPT ![php.key] = php.made]
    /\ php' = [php EXCEPT !.pc = "idle", !.key = "max", !.made = NoBytes]
    /\ UNCHANGED <<engine, file, rq, faults>>

ReqStep(r) == \/ Resolve(r) \/ LoadRows(r) \/ ensure_max(r) \/ Bucket(r) \/ LoadAgain(r)
              \/ ensure_derived(r) \/ Join(r) \/ Serve(r)
GenStep(g) == \/ Acquire(g) \/ ReadInput(g) \/ Render(g) \/ write_preview_bytes(g)
              \/ insert_preview(g) \/ fetch_by_key(g) \/ DropKey(g)
WriteStep(w) == ReplaceFile(w) \/ UpdateRow(w) \/ DeleteRows(w) \/ RemoveDir(w)

Next ==
    \/ \E r \in Reqs : Arrive(r) \/ ReqStep(r) \/ ClientGone(r)
    \/ \E g \in Gens : GenStep(g)
    \/ \E w \in Writers : WriteStep(w)
    \/ PhpReads \/ PhpStores

(* Handlers and detached drivers are scheduled; a rendering ends within    *)
(* REQUEST_TIMEOUT; tokio's semaphore is FIFO.                             *)
Spec ==
    /\ Init /\ [][Next]_vars
    /\ \A r \in Reqs : WF_vars(ReqStep(r))
    /\ \A g \in Gens : WF_vars(GenStep(g))

----------------------------------------------------------------------------
(* Coalescer and generation_semaphore: at any time there is at most one    *)
(* generation of a variant, and no more renderings at once than permits.   *)
GenerationsBounded ==
    /\ \A k \in Keys : Cardinality({g \in Gens : gens[g].key = k /\ gens[g].pc \in Running \cup {"queued"}}) <= 1
    /\ Cardinality({g \in Gens : gens[g].pc \in Running}) = Permits - permits

(* An overwrite whose invalidation is still to come. *)
Pending == \E w \in Writers : wr[w].pc \in {"row", "delete"}

(* davfile.rs flush and upload_handler.rs: every preview row was stored    *)
(* after the last invalidation, and while no overwrite has its             *)
(* invalidation still to come, it shows the current content unless its     *)
(* making began before the last invalidation, whatever is rendered or made *)
(* by PHP meanwhile.                                                       *)
StaleExplained ==
    \A k \in Keys : rows[k] # NoRow =>
        /\ rows[k].at = epoch
        /\ rows[k].made.of = content \/ rows[k].made.from < epoch \/ Pending \/ missed

(* serve_preview: every request is answered, also when it waits for the    *)
(* generation of somebody else whose client has gone.                      *)
EveryPreviewAnswered == <>[](\A r \in Reqs : rq[r].pc \in {"idle", "done", "gone"})
=============================================================================
