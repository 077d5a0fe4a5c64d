--------------------------- MODULE PreviewsProofs ---------------------------
(***************************************************************************)
(* Proofs about Previews, for any number of requests, writers, slots and   *)
(* permits: the coalescer and the semaphore bound the generations, no      *)
(* waiter is forgotten, and a stale preview row is always explained by an  *)
(* overwrite in progress, a missed invalidation or a generation that began *)
(* before the last one.                                                    *)
(***************************************************************************)
EXTENDS Previews, Snowflake, FiniteSetTheorems, TLAPS

MadeT == [of : Int, from : Nat]
RowT  == [etag : Int, made : MadeT, at : Nat]

GenStates == Running \cup {"unused", "queued", "settled"}
GenT      == [pc : GenStates, key : Keys, fc : Int, made : MadeT, result : RowT]

Waiting   == {"wait max", "wait small"}
ReqStates == Waiting \cup {"idle", "resolve", "rows", "ensure max", "bucket", "rows again",
                           "ensure small", "join max", "join small", "serve", "done", "gone"}
Statuses  == {0, 200, 304, 400, 403, 404, 502}
ReqT      == [pc : ReqStates, kind : Kinds, fc : Int, from : Nat, target : RowT,
              wait : Gens \cup {NoGen}, status : Statuses]

WriterT == [pc : {"idle", "row", "delete", "rmdir", "done"}, ver : Nat]
PhpT    == [pc : {"idle", "store"}, key : Keys, made : MadeT, left : Nat]

(* The types of the variables.                                             *)
Typed ==
    /\ content \in Nat /\ etag \in Nat /\ epoch \in Nat /\ missed \in BOOLEAN /\ faults \in Nat
    /\ rows \in [Keys -> RowT] /\ bytes \in [Keys -> MadeT]
    /\ inflight \in [Keys -> Gens \cup {NoGen}] /\ gens \in [Gens -> GenT] /\ permits \in Nat
    /\ rq \in [Reqs -> ReqT] /\ wr \in [Writers -> WriterT] /\ php \in PhpT

(* Nothing was begun after now, and a generation is registered under its   *)
(* key for as long as it is there, and running for as long as it is        *)
(* awaited.                                                                *)
Registered ==
    /\ \A g \in Gens : gens[g].pc # "unused" => inflight[gens[g].key] = g
    /\ \A k \in Keys : inflight[k] # NoGen => gens[inflight[k]].pc # "unused" /\ gens[inflight[k]].key = k
    /\ \A g \in Gens : gens[g].made.from <= epoch
    /\ \A r \in Reqs : rq[r].from <= epoch

Awaits(f) ==
    /\ f.pc \in Waiting /\ f.wait # NoGen
    /\ gens[f.wait].pc \in Running \cup {"queued"}
    /\ gens[f.wait].key = IF f.pc = "wait max" THEN "max" ELSE "small"
Alone(f) == f.pc \notin Waiting /\ f.wait = NoGen

(* Coalescer: a request that waits does so for a generation of its own     *)
(* key that has not settled yet: no waiter is forgotten.                   *)
WaitersHeard == \A r \in Reqs : Awaits(rq[r]) \/ Alone(rq[r])

(* generation_semaphore: every permit is free or held by one generation.   *)
Holders     == {g \in Gens : gens[g].pc \in Running}
PermitsHeld == Cardinality(Holders) + permits = Permits

(* A preview shows the current content, or was begun before the last       *)
(* invalidation, or an invalidation is still to come or was missed.  So it *)
(* is with every preview there is: stored, rendered but not yet stored, or *)
(* in the hands of PHP.                                                    *)
Rendered     == {"render", "write", "insert", "refetch"}
Explained(m) == m.from <= epoch /\ (m.of = content \/ m.from < epoch \/ Pending \/ missed)
Explains ==
    /\ \A k \in Keys : rows[k] # NoRow => rows[k].at = epoch /\ Explained(rows[k].made)
    /\ \A k \in Keys : bytes[k] # NoBytes => Explained(bytes[k])
    /\ \A g \in Gens : gens[g].pc \in Rendered => Explained(gens[g].made)
    /\ php.pc = "store" => Explained(php.made)

----------------------------------------------------------------------------
(* The values of the model are of their types. *)

(* The constants of Previews: the absent row, bytes and generation.        *)
LEMMA Constants ==
    /\ NoRow \in RowT /\ NoBytes \in MadeT /\ Failed \in RowT /\ NoRow.made = NoBytes
    /\ Unused \in GenT /\ Unused.pc = "unused" /\ NoBytes.from = 0
    /\ Fresh \in ReqT /\ Fresh.wait = NoGen /\ Fresh.from = 0 /\ Fresh.pc = "idle"
<1>1. NoRow \in RowT /\ NoBytes \in MadeT /\ Failed \in RowT /\ NoRow.made = NoBytes /\ NoBytes.from = 0
  BY DEF NoRow, NoBytes, Failed, RowT, MadeT
<1>2. "unused" \in GenStates /\ "max" \in Keys
  BY DEF GenStates, Keys
<1>3. Unused \in GenT /\ Unused.pc = "unused"
  BY <1>1, <1>2 DEF Unused, GenT
<1>4. (CHOOSE k \in Kinds : TRUE) \in Kinds
  BY PreviewsAssumption
<1>5. "idle" \in ReqStates /\ 0 \in Statuses /\ NoGen \in Gens \cup {NoGen}
  BY DEF ReqStates, Statuses
<1>6. Fresh \in ReqT /\ Fresh.wait = NoGen /\ Fresh.from = 0 /\ Fresh.pc = "idle"
  BY <1>1, <1>4, <1>5 DEF Fresh, ReqT
<1> QED
  BY <1>1, <1>3, <1>6

(* A state of a request, by name.                                          *)
LEMMA States ==
    /\ \A s \in {"idle", "resolve", "rows", "ensure max", "bucket", "rows again", "ensure small",
                 "join max", "join small", "serve", "done", "gone", "wait max", "wait small"} : s \in ReqStates
    /\ \A s \in {"unused", "queued", "settled", "read", "render", "write", "insert", "refetch"} : s \in GenStates
    /\ "max" \in Keys /\ "small" \in Keys
BY DEF ReqStates, Waiting, GenStates, Running, Keys

(* Put of a request record moved to another state.                         *)
LEMMA Moved ==
    ASSUME NEW f \in ReqT, NEW s \in ReqStates
    PROVE  /\ [f EXCEPT !.pc = s] \in ReqT /\ [f EXCEPT !.pc = s].from = f.from
           /\ [f EXCEPT !.pc = s].wait = f.wait /\ [f EXCEPT !.pc = s].pc = s
BY DEF ReqT

(* Done(code): an answered request.                                        *)
LEMMA DoneTyped ==
    ASSUME NEW code \in Statuses
    PROVE  /\ Done(code) \in ReqT /\ Done(code).from = 0 /\ Done(code).wait = NoGen /\ Done(code).pc = "done"
BY Constants, States DEF Done, ReqT

(* Serving(f, row): a request that has its preview row.                    *)
LEMMA ServingTyped ==
    ASSUME NEW f \in ReqT, NEW row \in RowT
    PROVE  /\ Serving(f, row) \in ReqT /\ Serving(f, row).from = 0
           /\ Serving(f, row).wait = NoGen /\ Serving(f, row).pc = "serve"
BY Constants, States DEF Serving, ReqT

(* A request that has, or no longer has, the max preview.                  *)
LEMMA TargetTyped ==
    ASSUME NEW f \in ReqT, NEW s \in ReqStates, NEW row \in RowT
    PROVE  /\ [f EXCEPT !.pc = s, !.target = row] \in ReqT
           /\ [f EXCEPT !.pc = s, !.target = row].from = f.from
           /\ [f EXCEPT !.pc = s, !.target = row].wait = f.wait
           /\ [f EXCEPT !.pc = s, !.target = row].pc = s
BY DEF ReqT

(* AfterWait(f, row): a waiter that has the result of its generation.      *)
LEMMA AfterWaitTyped ==
    ASSUME NEW f \in ReqT, NEW row \in RowT, NEW e \in Nat, f.from <= e
    PROVE  /\ AfterWait(f, row) \in ReqT /\ AfterWait(f, row).from <= e
           /\ AfterWait(f, row).wait = NoGen /\ AfterWait(f, row).pc \notin Waiting
<1>0. 502 \in Statuses /\ f.from \in Nat
  BY DEF Statuses, ReqT
<1>1. CASE row = Failed
  <2>1. AfterWait(f, row) = Done(502)
    BY <1>1 DEF AfterWait
  <2>2. /\ Done(502) \in ReqT /\ Done(502).from = 0 /\ Done(502).wait = NoGen /\ Done(502).pc = "done"
    BY <1>0, DoneTyped
  <2>3. /\ AfterWait(f, row) \in ReqT /\ AfterWait(f, row).from = 0
        /\ AfterWait(f, row).wait = NoGen /\ AfterWait(f, row).pc = "done"
    BY <2>1, <2>2, Zenon
  <2> QED
    BY <2>3 DEF Waiting
<1>2. CASE row # Failed /\ f.pc = "wait max"
  <2> DEFINE g == [f EXCEPT !.pc = "bucket", !.target = row]
  <2>0. "bucket" \in ReqStates
    BY States
  <2>1. g \in ReqT /\ g.from = f.from
    BY <2>0 DEF ReqT
  <2>2. AfterWait(f, row) = [g EXCEPT !.wait = NoGen]
    BY <1>2 DEF AfterWait
  <2>3. [g EXCEPT !.wait = NoGen] \in ReqT /\ [g EXCEPT !.wait = NoGen].from = f.from
        /\ [g EXCEPT !.wait = NoGen].wait = NoGen /\ [g EXCEPT !.wait = NoGen].pc = "bucket"
    <3>1. g.pc = "bucket"
      BY DEF ReqT
    <3> HIDE DEF g
    <3> QED
      BY <2>1, <3>1 DEF ReqT
  <2> QED
    BY <2>2, <2>3 DEF Waiting
<1>3. CASE row # Failed /\ f.pc # "wait max"
  <2>1. AfterWait(f, row) = Serving(f, row)
    BY <1>3 DEF AfterWait
  <2>2. /\ Serving(f, row) \in ReqT /\ Serving(f, row).from = 0
        /\ Serving(f, row).wait = NoGen /\ Serving(f, row).pc = "serve"
    BY ServingTyped
  <2> QED
    BY <2>1, <2>2 DEF Waiting
<1> QED
  BY <1>1, <1>2, <1>3

----------------------------------------------------------------------------
(* The steps of a request. *)

(* A request that does not wait goes to another state without waiting.     *)
Good(f)  == f \in ReqT /\ f.from <= epoch /\ Alone(f)
Moves(r) ==
    /\ \E f : Good(f) /\ rq' = [rq EXCEPT ![r] = f]
    /\ faults' \in Nat

(* When a record is Good.                                                  *)
LEMMA GoodIf ==
    ASSUME NEW f \in ReqT, NEW n, NEW s, f.from = n, n <= epoch, f.wait = NoGen, f.pc = s, s \notin Waiting
    PROVE  Good(f)
BY Zenon DEF Good, Alone

(* load_preview_rows: the request has the row, or goes on without it.      *)
LEMMA LoadMoves ==
    ASSUME Typed, NEW r \in Reqs, NEW key, NEW found, NEW missing,
           Good(found), Good(missing), Load(r, key, found, missing)
    PROVE  Moves(r)
<1>1. rq' = [rq EXCEPT ![r] = found] \/ rq' = [rq EXCEPT ![r] = missing]
  BY DEF Load, Put
<1>2. faults' \in Nat
  BY DEF Load, Fault, Typed
<1> QED
  BY <1>1, <1>2 DEF Moves

(* A request that is not in a waiting state is Good, and stays so when it  *)
(* moves, is answered or gets its row.                                     *)
LEMMA GoodMoves ==
    ASSUME Typed, Registered, WaitersHeard, NEW r \in Reqs, rq[r].pc \notin Waiting
    PROVE  /\ Good(rq[r])
           /\ \A s \in ReqStates \ Waiting : Good([rq[r] EXCEPT !.pc = s])
           /\ \A s \in ReqStates \ Waiting, row \in RowT : Good([rq[r] EXCEPT !.pc = s, !.target = row])
           /\ \A row \in RowT : Good(Serving(rq[r], row))
           /\ \A code \in Statuses : Good(Done(code))
<1>0. epoch \in Nat /\ rq[r] \in ReqT
  BY DEF Typed
<1>z. 0 <= epoch
  BY <1>0
<1>w. "serve" \notin Waiting /\ "done" \notin Waiting
  BY DEF Waiting
<1>1. Good(rq[r])
  BY <1>0 DEF Registered, WaitersHeard, Awaits, Alone, Good
<1>n. rq[r].from <= epoch /\ rq[r].wait = NoGen
  BY <1>1 DEF Good, Alone
<1>2. ASSUME NEW s \in ReqStates \ Waiting PROVE Good([rq[r] EXCEPT !.pc = s])
  <2>1. /\ [rq[r] EXCEPT !.pc = s] \in ReqT /\ [rq[r] EXCEPT !.pc = s].from = rq[r].from
        /\ [rq[r] EXCEPT !.pc = s].wait = rq[r].wait /\ [rq[r] EXCEPT !.pc = s].pc = s
    BY <1>0, Moved
  <2> QED
    BY <1>n, <2>1, GoodIf, Zenon
<1>3. ASSUME NEW s \in ReqStates \ Waiting, NEW row \in RowT PROVE Good([rq[r] EXCEPT !.pc = s, !.target = row])
  <2> DEFINE f == rq[r]
             g == [f EXCEPT !.pc = s, !.target = row]
  <2>0. f \in ReqT /\ f.from <= epoch /\ f.wait = NoGen
    BY <1>0, <1>n
  <2> HIDE DEF f
  <2>s. s \in ReqStates
    OBVIOUS
  <2>1. g \in ReqT /\ g.from = f.from /\ g.wait = f.wait /\ g.pc = s
    BY <2>0, <2>s DEF ReqT
  <2>2. Good(g)
    <3> HIDE DEF g
    <3> QED
      BY <2>0, <2>1, GoodIf, Zenon
  <2> QED
    BY <2>2 DEF f
<1>4. ASSUME NEW row \in RowT PROVE Good(Serving(rq[r], row))
  <2>1. /\ Serving(rq[r], row) \in ReqT /\ Serving(rq[r], row).from = 0
        /\ Serving(rq[r], row).wait = NoGen /\ Serving(rq[r], row).pc = "serve"
    BY <1>0, ServingTyped
  <2> QED
    BY <1>z, <1>w, <2>1, GoodIf, Zenon
<1>5. ASSUME NEW code \in Statuses PROVE Good(Done(code))
  <2>1. Done(code) \in ReqT /\ Done(code).from = 0 /\ Done(code).wait = NoGen /\ Done(code).pc = "done"
    BY DoneTyped
  <2> QED
    BY <1>z, <1>w, <2>1, GoodIf, Zenon
<1> QED
  BY <1>1, <1>2, <1>3, <1>4, <1>5

(* Every step of a request but joining a generation is such a move.        *)
LEMMA RequestMoves ==
    ASSUME Typed, Registered, WaitersHeard, NEW r \in Reqs,
           \/ Arrive(r) \/ Resolve(r) \/ LoadRows(r) \/ ensure_max(r) \/ Bucket(r) \/ LoadAgain(r)
           \/ ensure_derived(r) \/ Serve(r) \/ ClientGone(r)
    PROVE  Moves(r) /\ UNCHANGED <<store, engine, file, php>>
<1>0. /\ epoch \in Nat /\ faults \in Nat /\ rq[r] \in ReqT /\ etag \in Nat
      /\ rows["max"] \in RowT /\ rows["small"] \in RowT
  BY DEF Typed, Keys
<1>1. CASE Arrive(r)
  <2>1. Good(rq[r]) /\ "resolve" \in ReqStates
    BY <1>1, GoodMoves, States DEF Arrive, At, Waiting
  <2>2. PICK k \in Kinds : rq' = [rq EXCEPT ![r] = [rq[r] EXCEPT !.pc = "resolve", !.kind = k]]
    BY <1>1 DEF Arrive, Put
  <2>3. Good([rq[r] EXCEPT !.pc = "resolve", !.kind = k])
    BY <2>1 DEF Good, Alone, Waiting, ReqT
  <2> QED
    BY <1>0, <1>1, <2>2, <2>3 DEF Arrive, Moves
<1>2. CASE Resolve(r)
  <2> DEFINE f == [rq[r] EXCEPT !.pc = "rows", !.fc = etag, !.from = epoch]
  <2>1. Good(rq[r]) /\ "rows" \in ReqStates /\ \A code \in Statuses : Good(Done(code))
    BY <1>2, GoodMoves, States DEF Resolve, At, Waiting
  <2>2. f \in ReqT /\ f.from = epoch /\ f.wait = rq[r].wait /\ f.pc = "rows"
    <3> DEFINE g == [rq[r] EXCEPT !.pc = "rows"]
    <3>1. g \in ReqT /\ g.wait = rq[r].wait /\ g.pc = "rows"
      BY <1>0, <2>1, Moved
    <3>2. f = [g EXCEPT !.fc = etag, !.from = epoch]
      OBVIOUS
    <3>3. etag \in Int
      BY <1>0
    <3> HIDE DEF g, f
    <3>4. [g EXCEPT !.fc = etag, !.from = epoch] \in ReqT
      BY <1>0, <3>1, <3>3 DEF ReqT
    <3> QED
      BY <3>1, <3>2, <3>4 DEF ReqT
  <2>3. Good(f)
    <3>1. epoch <= epoch
      BY <1>0
    <3>2. "rows" \notin Waiting
      BY DEF Waiting
    <3>3. rq[r].wait = NoGen
      BY <2>1 DEF Good, Alone
    <3> HIDE DEF f
    <3> QED
      BY <2>2, <3>1, <3>2, <3>3, GoodIf, Zenon
  <2>4. rq[r].kind \in Kinds
    BY <1>0 DEF ReqT
  <2>5. Handler(rq[r].kind) \in Statuses /\ 404 \in Statuses /\ 403 \in Statuses
    <3>1. rq[r].kind.route \in {"core", "photos", "thumbnail"}
      BY <2>4, PreviewsAssumption
    <3> QED
      BY <3>1 DEF Handler, preview_by_file_id, photos_preview, files_thumbnail, resolve_home, Statuses
  <2>6. \/ rq' = [rq EXCEPT ![r] = Done(Handler(rq[r].kind))]
        \/ rq' = [rq EXCEPT ![r] = Done(404)] \/ rq' = [rq EXCEPT ![r] = Done(403)]
        \/ rq' = [rq EXCEPT ![r] = f]
    BY <1>2 DEF Resolve, Answer, Put
  <2> HIDE DEF f
  <2> QED
    BY <1>0, <1>2, <2>1, <2>3, <2>5, <2>6 DEF Resolve, Moves
<1>3. CASE LoadRows(r)
  <2>1. Good(HasMax(r)) /\ Good(OrProxy(rq[r], "ensure max"))
    <3>1. rq[r].pc \notin Waiting /\ {"bucket", "ensure max"} \subseteq ReqStates \ Waiting
      BY <1>3, States DEF LoadRows, At, Waiting
    <3>2. Good(HasMax(r))
      BY <1>0, <3>1, GoodMoves, Zenon DEF HasMax
    <3>3. Good([rq[r] EXCEPT !.pc = "ensure max"])
      BY <3>1, GoodMoves, Zenon
    <3>4. 502 \in Statuses
      BY DEF Statuses
    <3>5. Good(Done(502))
      BY <3>1, <3>4, GoodMoves, Zenon
    <3> QED
      BY <3>2, <3>3, <3>5, Zenon DEF OrProxy
  <2> QED
    BY <1>3, <2>1, LoadMoves DEF LoadRows
<1>4. CASE ensure_max(r)
  <2>1. Good(HasMax(r)) /\ Good([rq[r] EXCEPT !.pc = "join max"])
    BY <1>0, <1>4, GoodMoves, States DEF ensure_max, At, Waiting, HasMax
  <2> QED
    BY <1>4, <2>1, LoadMoves DEF ensure_max
<1>5. CASE Bucket(r)
  <2>1. rq[r].target \in RowT /\ NoRow \in RowT
    BY <1>0, Constants DEF ReqT
  <2>2. Good(Serving(rq[r], rq[r].target)) /\ Good([rq[r] EXCEPT !.pc = "rows again", !.target = NoRow])
    BY <1>5, <2>1, GoodMoves, States DEF Bucket, At, Waiting
  <2> QED
    BY <1>0, <1>5, <2>2 DEF Bucket, Moves, Put
<1>6. CASE LoadAgain(r)
  <2>1. Good(HasTarget(r)) /\ Good(OrProxy(rq[r], "ensure small"))
    <3>1. rq[r].pc \notin Waiting /\ "ensure small" \in ReqStates \ Waiting
      BY <1>6, States DEF LoadAgain, At, Waiting
    <3>2. Good(HasTarget(r))
      BY <1>0, <3>1, GoodMoves, Zenon DEF HasTarget
    <3>3. Good([rq[r] EXCEPT !.pc = "ensure small"])
      BY <3>1, GoodMoves, Zenon
    <3>4. 502 \in Statuses
      BY DEF Statuses
    <3>5. Good(Done(502))
      BY <3>1, <3>4, GoodMoves, Zenon
    <3> QED
      BY <3>2, <3>3, <3>5, Zenon DEF OrProxy
  <2> QED
    BY <1>6, <2>1, LoadMoves DEF LoadAgain
<1>7. CASE ensure_derived(r)
  <2>1. Good(HasTarget(r)) /\ Good([rq[r] EXCEPT !.pc = "join small"])
    BY <1>0, <1>7, GoodMoves, States DEF ensure_derived, At, Waiting, HasTarget
  <2> QED
    BY <1>7, <2>1, LoadMoves DEF ensure_derived
<1>8. CASE Serve(r)
  <2>1. Good(Done(304)) /\ Good(Done(502)) /\ Good(Done(200))
    <3>1. rq[r].pc \notin Waiting /\ 304 \in Statuses /\ 502 \in Statuses /\ 200 \in Statuses
      BY <1>8 DEF Serve, At, Waiting, Statuses
    <3>2. \A code \in Statuses : Good(Done(code))
      BY <3>1, GoodMoves, Zenon
    <3> QED
      BY <3>1, <3>2, Zenon
  <2> QED
    BY <1>0, <1>8, <2>1 DEF Serve, Moves, Answer, Proxy, Put
<1>9. CASE ClientGone(r)
  <2>1. Good([Fresh EXCEPT !.pc = "gone"])
    <3>0. 0 <= epoch
      BY <1>0
    <3>1. "gone" \in ReqStates /\ "gone" \notin Waiting
      BY States DEF Waiting
    <3>2. /\ [Fresh EXCEPT !.pc = "gone"] \in ReqT /\ [Fresh EXCEPT !.pc = "gone"].from = 0
          /\ [Fresh EXCEPT !.pc = "gone"].wait = NoGen /\ [Fresh EXCEPT !.pc = "gone"].pc = "gone"
      BY <3>1, Constants, Moved
    <3> QED
      BY <3>0, <3>1, <3>2, GoodIf, Zenon
  <2>2. rq' = [rq EXCEPT ![r] = [Fresh EXCEPT !.pc = "gone"]] /\ faults' \in Nat
    BY <1>0, <1>9 DEF ClientGone, Put, Fault
  <2> QED
    BY <1>9, <2>1, <2>2 DEF ClientGone, Moves
<1> QED
  BY <1>1, <1>2, <1>3, <1>4, <1>5, <1>6, <1>7, <1>8, <1>9

(* A request begins to wait for a generation that has not settled, or      *)
(* starts one in a free slot and registers it.                             *)
Waits(r)  == \E f \in ReqT : f.from <= epoch /\ Awaits(f) /\ rq' = [rq EXCEPT ![r] = f]
Starts(r) ==
    \E g \in Gens, h \in GenT, f \in ReqT :
        /\ gens[g] = Unused /\ inflight[h.key] = NoGen /\ h.pc = "queued" /\ h.made.from <= epoch
        /\ f.from <= epoch /\ f.wait = g /\ f.pc = IF h.key = "max" THEN "wait max" ELSE "wait small"
        /\ gens' = [gens EXCEPT ![g] = h] /\ inflight' = [inflight EXCEPT ![h.key] = g]
        /\ rq' = [rq EXCEPT ![r] = f] /\ permits' = permits

Started(key, fc, from) ==
    [Unused EXCEPT !.pc = "queued", !.key = key, !.fc = fc, !.made = [NoBytes EXCEPT !.from = from]]

(* The generation that a request starts (Coalescer::run).                  *)
LEMMA StartTyped ==
    ASSUME NEW key \in Keys, NEW fc \in Int, NEW from \in Nat
    PROVE  LET h == Started(key, fc, from)
           IN h \in GenT /\ h.pc = "queued" /\ h.key = key /\ h.made.from = from
<1> DEFINE m == [NoBytes EXCEPT !.from = from]
           y == [Unused EXCEPT !.pc = "queued", !.key = key]
<1>1. m \in MadeT /\ m.from = from
  BY DEF NoBytes, NoRow, MadeT
<1>2. y \in GenT /\ y.pc = "queued" /\ y.key = key
  BY Constants, States DEF GenT
<1> HIDE DEF m, y
<1>3. LET h == [y EXCEPT !.fc = fc, !.made = m]
      IN h \in GenT /\ h.pc = "queued" /\ h.key = key /\ h.made.from = from
  BY <1>1, <1>2 DEF GenT
<1> QED
  BY <1>3 DEF y, m, Started

(* Coalescer::run joins a generation only while it is registered, and      *)
(* starts one only where none is.                                          *)
LEMMA Joins ==
    ASSUME Typed, Registered, WaitersHeard, NEW r \in Reqs, Join(r)
    PROVE  /\ UNCHANGED <<store, file, php, faults>>
           /\ \/ Moves(r) /\ UNCHANGED engine
              \/ Waits(r) /\ UNCHANGED engine
              \/ Starts(r)
<1> DEFINE key == Joining(r)
           pc  == IF key = "max" THEN "wait max" ELSE "wait small"
           waiting == [rq[r] EXCEPT !.pc = pc]
<1>0. /\ rq[r] \in ReqT /\ faults \in Nat /\ epoch \in Nat /\ inflight[key] \in Gens \cup {NoGen}
      /\ key \in Keys
  BY DEF Typed, Joining, Keys
<1>1. UNCHANGED <<store, file, php, faults>> /\ CoalesceKeyed(r, key, inflight[key] # NoGen)
  BY DEF Join
<1>2. rq[r].pc \notin Waiting
  BY DEF Join, At, Waiting
<1>3. pc \in ReqStates /\ pc \in Waiting
  BY DEF ReqStates, Waiting
<1>4. Good(rq[r])
  BY <1>2, GoodMoves
<1>5. waiting \in ReqT /\ waiting.from <= epoch /\ waiting.pc = pc
  <2>1. waiting \in ReqT /\ waiting.from = rq[r].from /\ waiting.pc = pc
    BY <1>0, <1>3, Moved
  <2> QED
    BY <1>4, <2>1 DEF Good
<1>6. ASSUME NEW g \in Gens
      PROVE  LET f == [waiting EXCEPT !.wait = g]
             IN f \in ReqT /\ f.from <= epoch /\ f.pc = pc /\ f.wait = g
  <2> HIDE DEF waiting, pc
  <2> QED
    BY <1>5 DEF ReqT
<1>7. CASE inflight[key] # NoGen /\ gens[inflight[key]].pc = "settled"
  <2>0. inflight[key] \in Gens
    BY <1>0, <1>7
  <2> DEFINE row == gens[inflight[key]].result
  <2>1. row \in RowT
    BY <2>0 DEF Typed, GenT
  <2>2. rq' = [rq EXCEPT ![r] = AfterWait(waiting, row)] /\ UNCHANGED engine
    BY <1>1, <1>7 DEF CoalesceKeyed, Put
  <2>3. Good(AfterWait(waiting, row))
    <3> HIDE DEF waiting, row
    <3>1. /\ AfterWait(waiting, row) \in ReqT /\ AfterWait(waiting, row).from <= epoch
          /\ AfterWait(waiting, row).wait = NoGen /\ AfterWait(waiting, row).pc \notin Waiting
      BY <1>0, <1>5, <2>1, AfterWaitTyped
    <3> QED
      BY <3>1 DEF Good, Alone
  <2>4. faults' \in Nat
    BY <1>0, <1>1
  <2> HIDE DEF waiting, row
  <2> QED
    BY <1>1, <2>2, <2>3, <2>4 DEF Moves
<1>8. CASE inflight[key] # NoGen /\ gens[inflight[key]].pc # "settled"
  <2> DEFINE i == inflight[key]
             f == [waiting EXCEPT !.wait = i]
  <2>0. i \in Gens
    BY <1>0, <1>8
  <2>1. rq' = [rq EXCEPT ![r] = f] /\ UNCHANGED engine
    BY <1>1, <1>8 DEF CoalesceKeyed, Put
  <2>2. f \in ReqT /\ f.from <= epoch /\ f.pc = pc /\ f.wait = i
    BY <1>6, <2>0
  <2>3. gens[i].pc \in GenStates /\ gens[i].pc # "unused" /\ gens[i].key = key /\ i # NoGen
    BY <1>0, <1>8, <2>0 DEF Registered, Typed, GenT
  <2>4. gens[i].pc \in Running \cup {"queued"}
    BY <1>8, <2>3 DEF GenStates
  <2>5. key = IF pc = "wait max" THEN "max" ELSE "small"
    BY DEF Joining
  <2> HIDE DEF f, i, pc
  <2>6. Awaits(f)
    BY <1>3, <2>2, <2>3, <2>4, <2>5 DEF Awaits
  <2> QED
    BY <1>1, <2>1, <2>2, <2>6 DEF Waits
<1>9. CASE inflight[key] = NoGen
  <2> DEFINE c == rq[r].fc
             n == rq[r].from
             k == key
             H == Started(k, c, n)
  <2>1. PICK g \in Gens : /\ gens[g] = Unused /\ gens' = [gens EXCEPT ![g] = H]
                          /\ inflight' = [inflight EXCEPT ![key] = g]
                          /\ rq' = [rq EXCEPT ![r] = [waiting EXCEPT !.wait = g]] /\ UNCHANGED permits
    BY <1>1, <1>9 DEF CoalesceKeyed, Put, Started
  <2>2. c \in Int /\ n \in Nat /\ n <= epoch /\ k \in Keys
    BY <1>0, <1>4 DEF ReqT, Good
  <2>3. H \in GenT /\ H.pc = "queued" /\ H.key = k /\ H.made.from <= epoch
    <3> HIDE DEF c, n, k
    <3>1. H \in GenT /\ H.pc = "queued" /\ H.key = k /\ H.made.from = n
      BY <2>2, StartTyped, Zenon
    <3> HIDE DEF H
    <3> QED
      BY <2>2, <3>1
  <2> DEFINE f == [waiting EXCEPT !.wait = g]
  <2>4. f \in ReqT /\ f.from <= epoch /\ f.pc = pc /\ f.wait = g
    BY <1>6
  <2>5. rq' = [rq EXCEPT ![r] = f]
    BY <2>1
  <2>6. pc = IF k = "max" THEN "wait max" ELSE "wait small"
    OBVIOUS
  <2>7. /\ gens[g] = Unused /\ gens' = [gens EXCEPT ![g] = H] /\ inflight[k] = NoGen
        /\ inflight' = [inflight EXCEPT ![k] = g] /\ permits' = permits
    BY <1>9, <2>1
  <2> HIDE DEF H, f, waiting, k, pc
  <2>8. Starts(r)
    BY <2>3, <2>4, <2>5, <2>6, <2>7, Zenon DEF Starts
  <2> QED
    BY <1>1, <2>8
<1> QED
  BY <1>7, <1>8, <1>9

----------------------------------------------------------------------------
(* The steps of a generation. *)

(* What a step may leave of a generation, and what it may store.           *)
Sound(h) == h \in GenT /\ h.made.from <= epoch /\ (h.pc \in Rendered => Explained(h.made))
StoreGrows ==
    /\ rows' \in [Keys -> RowT] /\ bytes' \in [Keys -> MadeT]
    /\ \A k \in Keys : rows'[k] = rows[k] \/ (rows'[k].at = epoch /\ Explained(rows'[k].made))
    /\ \A k \in Keys : bytes'[k] = bytes[k] \/ Explained(bytes'[k])

Becomes(g, s) == \E h : Sound(h) /\ h.pc \in s /\ h.key = gens[g].key /\ gens' = [gens EXCEPT ![g] = h]
Acquires(g) ==
    /\ gens[g].pc = "queued" /\ Becomes(g, Running)
    /\ permits > 0 /\ permits' = permits - 1 /\ UNCHANGED <<inflight, rq>>
Goes(g) == gens[g].pc \in Running /\ Becomes(g, Running) /\ UNCHANGED <<inflight, permits, rq>>
Settles(g) ==
    /\ gens[g].pc \in Running /\ Becomes(g, {"settled"})
    /\ permits' = permits + 1 /\ inflight' = inflight
    /\ \E row \in RowT : rq' = [r \in Reqs |-> IF rq[r].wait = g THEN AfterWait(rq[r], row) ELSE rq[r]]
Drops(g) ==
    /\ gens[g].pc = "settled" /\ gens' = [gens EXCEPT ![g] = Unused]
    /\ inflight' = [inflight EXCEPT ![gens[g].key] = NoGen] /\ UNCHANGED <<permits, rq>>

(* A generation moved to another state, with another picture.              *)
LEMMA GenMoved ==
    ASSUME NEW f \in GenT, NEW s \in GenStates, NEW m \in MadeT
    PROVE  /\ [f EXCEPT !.pc = s] \in GenT /\ [f EXCEPT !.pc = s].pc = s
           /\ [f EXCEPT !.pc = s].key = f.key /\ [f EXCEPT !.pc = s].made = f.made
           /\ [f EXCEPT !.pc = s, !.made = m] \in GenT /\ [f EXCEPT !.pc = s, !.made = m].pc = s
           /\ [f EXCEPT !.pc = s, !.made = m].key = f.key /\ [f EXCEPT !.pc = s, !.made = m].made = m
BY DEF GenT

(* Settle releases the permit and keeps the rest of the generation.        *)
LEMMA Settling ==
    ASSUME Typed, Registered, NEW g \in Gens, NEW row \in RowT, gens[g].pc \in Running,
           Settle(g, row), inflight' = inflight
    PROVE  Settles(g)
<1> DEFINE f == gens[g]
           h == [f EXCEPT !.pc = "settled", !.result = row]
<1>1. f \in GenT /\ f.made.from <= epoch
  BY DEF Typed, Registered
<1>2. "settled" \in GenStates /\ "settled" \notin Rendered
  BY DEF GenStates, Rendered
<1>3. gens' = [gens EXCEPT ![g] = h]
  BY DEF Settle, Gen
<1>4. h \in GenT /\ h.pc = "settled" /\ h.key = f.key /\ h.made = f.made
  <2> HIDE DEF f
  <2> QED
    BY <1>1, <1>2 DEF GenT
<1>5. Becomes(g, {"settled"})
  <2>1. h.key = gens[g].key
    BY <1>4
  <2>2. h.made.from <= epoch
    BY <1>1, <1>4
  <2> HIDE DEF h, f
  <2> QED
    BY <1>2, <1>3, <1>4, <2>1, <2>2 DEF Becomes, Sound
<1> HIDE DEF h, f
<1> QED
  BY <1>5 DEF Settles, Settle

(* Every step of a generation is one of four, keeps its key, and stores    *)
(* only what is explained.                                                 *)
LEMMA Generations ==
    ASSUME Typed, Registered, Explains, NEW g \in Gens, GenStep(g)
    PROVE  /\ faults' \in Nat /\ StoreGrows /\ UNCHANGED <<file, php>>
           /\ Acquires(g) \/ Goes(g) \/ Settles(g) \/ Drops(g)
<1> DEFINE f == gens[g]
<1>0. /\ faults \in Nat /\ epoch \in Nat /\ content \in Nat /\ f \in GenT /\ f.made.from <= epoch
      /\ rows \in [Keys -> RowT] /\ bytes \in [Keys -> MadeT] /\ permits \in Nat
  BY DEF Typed, Registered
<1>f. f.made \in MadeT /\ f.fc \in Int /\ f.key \in Keys /\ (f.pc \in Rendered => Explained(f.made))
  <2>1. f.pc \in Rendered => Explained(f.made)
    BY DEF Explains
  <2> HIDE DEF f
  <2> QED
    BY <1>0, <2>1 DEF GenT
<1>g. Fault => faults' \in Nat
  BY <1>0 DEF Fault
<1>k. UNCHANGED <<rows, bytes>> => StoreGrows
  BY <1>0 DEF StoreGrows
<1>n. Failed \in RowT
  BY Constants
<1>m. ASSUME NEW s \in Running, s \in Rendered => f.pc \in Rendered, Gen(g, [f EXCEPT !.pc = s])
      PROVE  Becomes(g, Running)
  <2>1. s \in GenStates
    BY DEF GenStates
  <2> DEFINE h == [f EXCEPT !.pc = s]
  <2>2. h \in GenT /\ h.pc = s /\ h.key = f.key /\ h.made = f.made
    <3> HIDE DEF f
    <3> QED
      BY <1>0, <1>f, <2>1, GenMoved
  <2>3. gens' = [gens EXCEPT ![g] = h] /\ h.key = gens[g].key
    BY <1>m, <2>2 DEF Gen
  <2> HIDE DEF h, f
  <2>4. Sound(h)
    BY <1>0, <1>f, <1>m, <2>2 DEF Sound
  <2> QED
    BY <2>2, <2>3, <2>4 DEF Becomes
<1>1. CASE Acquire(g)
  <2>1. "read" \in Running /\ "read" \notin Rendered
    BY DEF Running, Rendered
  <2>2. Becomes(g, Running)
    BY <1>1, <1>m, <2>1 DEF Acquire
  <2> QED
    BY <1>0, <1>1, <1>k, <2>2 DEF Acquire, Acquires, store
<1>2. CASE ReadInput(g)
  <2>0. f.pc \in Running /\ "render" \in Running /\ "render" \in GenStates
    BY <1>2 DEF ReadInput, Running, GenStates
  <2>1. UNCHANGED <<store, file, inflight, php>>
    BY <1>2 DEF ReadInput
  <2>2. ASSUME NEW m \in MadeT, Explained(m), Gen(g, [f EXCEPT !.pc = "render", !.made = m])
        PROVE  Becomes(g, Running)
    <3> DEFINE h == [f EXCEPT !.pc = "render", !.made = m]
    <3>1. h \in GenT /\ h.pc = "render" /\ h.key = f.key /\ h.made = m
      <4> HIDE DEF f
      <4> QED
        BY <1>0, <2>0, GenMoved DEF GenT
    <3>2. gens' = [gens EXCEPT ![g] = h] /\ h.key = gens[g].key
      BY <2>2, <3>1 DEF Gen
    <3> HIDE DEF h, f
    <3>3. Sound(h)
      BY <2>2, <3>1 DEF Sound, Explained
    <3> QED
      BY <2>0, <3>1, <3>2, <3>3 DEF Becomes
  <2>3. CASE \E m \in MadeT : /\ Explained(m) /\ Gen(g, [f EXCEPT !.pc = "render", !.made = m])
                              /\ UNCHANGED <<permits, rq, faults>>
    <3>1. Becomes(g, Running)
      BY <2>2, <2>3
    <3> QED
      BY <1>0, <1>k, <2>0, <2>1, <2>3, <3>1 DEF Goes, store
  <2>4. CASE Settle(g, Failed) /\ (UNCHANGED faults \/ Fault)
    <3>1. Settles(g)
      BY <1>n, <2>0, <2>1, <2>4, Settling
    <3> QED
      BY <1>0, <1>g, <1>k, <2>1, <2>4, <3>1 DEF store
  <2>5. ASSUME f.key = "max", Gen(g, [f EXCEPT !.pc = "render", !.made = [of |-> content, from |-> f.made.from]]),
               UNCHANGED <<permits, rq, faults>>
        PROVE  \E m \in MadeT : /\ Explained(m) /\ Gen(g, [f EXCEPT !.pc = "render", !.made = m])
                                /\ UNCHANGED <<permits, rq, faults>>
    <3> DEFINE m == [of |-> content, from |-> f.made.from]
    <3>1. m \in MadeT /\ m.of = content /\ m.from = f.made.from
      BY <1>0, <1>f DEF MadeT
    <3>2. Gen(g, [f EXCEPT !.pc = "render", !.made = m])
      BY <2>5
    <3> HIDE DEF m, f
    <3>3. Explained(m)
      BY <1>0, <3>1 DEF Explained
    <3> QED
      BY <2>5, <3>1, <3>2, <3>3
  <2>6. ASSUME NEW max, max = bytes["max"], max # NoBytes,
               Gen(g, [f EXCEPT !.pc = "render",
                       !.made = [of |-> max.of, from |-> IF max.from < f.made.from THEN max.from ELSE f.made.from]]),
               UNCHANGED <<permits, rq, faults>>
        PROVE  \E m \in MadeT : /\ Explained(m) /\ Gen(g, [f EXCEPT !.pc = "render", !.made = m])
                                /\ UNCHANGED <<permits, rq, faults>>
    <3> DEFINE n == IF max.from < f.made.from THEN max.from ELSE f.made.from
               m == [of |-> max.of, from |-> n]
    <3>0. Explained(max) /\ max \in MadeT
      BY <1>0, <2>6, States DEF Explains
    <3>t. max.from \in Nat /\ max.of \in Int /\ f.made.from \in Nat
      BY <1>f, <3>0 DEF MadeT
    <3>1. n \in Nat /\ n <= max.from /\ (n = max.from \/ n < max.from)
      BY <3>t
    <3>2. m \in MadeT /\ m.of = max.of /\ m.from = n
      BY <3>t, <3>1 DEF MadeT
    <3>3. Gen(g, [f EXCEPT !.pc = "render", !.made = m])
      BY <2>6
    <3> HIDE DEF m, f, n
    <3>4. Explained(m)
      BY <1>0, <3>0, <3>t, <3>1, <3>2 DEF Explained
    <3> QED
      BY <2>6, <3>2, <3>3, <3>4
  <2> QED
    BY <1>2, <2>3, <2>4, <2>5, <2>6 DEF ReadInput
<1>3. CASE Render(g)
  <2>0. f.pc \in Running /\ f.pc \in Rendered /\ "write" \in Running
    BY <1>3 DEF Render, Running, Rendered
  <2>1. UNCHANGED <<store, file, inflight, php>>
    BY <1>3 DEF Render
  <2>2. CASE Gen(g, [f EXCEPT !.pc = "write"]) /\ UNCHANGED <<permits, rq, faults>>
    <3>1. Becomes(g, Running)
      BY <1>m, <2>0, <2>2
    <3> QED
      BY <1>0, <1>k, <2>0, <2>1, <2>2, <3>1 DEF Goes, store
  <2>3. CASE Fault /\ Settle(g, Failed)
    <3>1. Settles(g)
      BY <1>n, <2>0, <2>1, <2>3, Settling
    <3> QED
      BY <1>g, <1>k, <2>1, <2>3, <3>1 DEF store
  <2> QED
    BY <1>3, <2>2, <2>3 DEF Render
<1>4. CASE write_preview_bytes(g)
  <2>0. f.pc \in Running /\ f.pc \in Rendered /\ "insert" \in Running
    BY <1>4 DEF write_preview_bytes, Running, Rendered
  <2>1. UNCHANGED <<rows, file, inflight, php>>
    BY <1>4 DEF write_preview_bytes
  <2>2. CASE /\ bytes' = [bytes EXCEPT ![f.key] = f.made]
             /\ Gen(g, [f EXCEPT !.pc = "insert"]) /\ UNCHANGED <<permits, rq, faults>>
    <3>1. Becomes(g, Running)
      BY <1>m, <2>0, <2>2
    <3>2. bytes' \in [Keys -> MadeT]
      BY <1>0, <1>f, <2>2
    <3>3. \A k \in Keys : bytes'[k] = bytes[k] \/ Explained(bytes'[k])
      BY <1>0, <1>f, <2>0, <2>2
    <3>4. StoreGrows
      BY <1>0, <2>1, <3>2, <3>3 DEF StoreGrows
    <3> QED
      BY <1>0, <2>0, <2>1, <2>2, <3>1, <3>4 DEF Goes
  <2>3. CASE Fault /\ Settle(g, Failed) /\ UNCHANGED bytes
    <3>1. Settles(g)
      BY <1>n, <2>0, <2>1, <2>3, Settling
    <3> QED
      BY <1>g, <1>k, <2>1, <2>3, <3>1
  <2> QED
    BY <1>4, <2>2, <2>3 DEF write_preview_bytes
<1>5. CASE insert_preview(g)
  <2>0. f.pc \in Running /\ f.pc \in Rendered /\ "refetch" \in Running
    BY <1>5 DEF insert_preview, Running, Rendered
  <2>1. UNCHANGED <<bytes, file, inflight, php>>
    BY <1>5 DEF insert_preview
  <2> DEFINE row == [etag |-> f.fc, made |-> f.made, at |-> epoch]
  <2>r. row \in RowT /\ row.at = epoch /\ row.made = f.made
    BY <1>0, <1>f DEF RowT
  <2>2. CASE /\ rows' = [rows EXCEPT ![f.key] = row] /\ Settle(g, row) /\ UNCHANGED faults
    <3> HIDE DEF row
    <3>1. Settles(g)
      BY <2>0, <2>1, <2>2, <2>r, Settling
    <3>2. rows' \in [Keys -> RowT]
      BY <1>0, <1>f, <2>2, <2>r
    <3>3. \A k \in Keys : rows'[k] = rows[k] \/ (rows'[k].at = epoch /\ Explained(rows'[k].made))
      BY <1>0, <1>f, <2>0, <2>2, <2>r
    <3>4. StoreGrows
      BY <1>0, <2>1, <3>2, <3>3 DEF StoreGrows
    <3> QED
      BY <1>0, <2>1, <2>2, <3>1, <3>4
  <2>3. CASE Gen(g, [f EXCEPT !.pc = "refetch"]) /\ UNCHANGED <<rows, permits, rq, faults>>
    <3>1. Becomes(g, Running)
      BY <1>m, <2>0, <2>3
    <3> QED
      BY <1>0, <1>k, <2>0, <2>1, <2>3, <3>1 DEF Goes
  <2>4. CASE Fault /\ Settle(g, Failed) /\ UNCHANGED rows
    <3>1. Settles(g)
      BY <1>n, <2>0, <2>1, <2>4, Settling
    <3> QED
      BY <1>g, <1>k, <2>1, <2>4, <3>1
  <2> QED
    BY <1>5, <2>2, <2>3, <2>4 DEF insert_preview
<1>6. CASE fetch_by_key(g)
  <2>1. f.pc \in Running /\ rows[f.key] \in RowT
    BY <1>0, <1>6, <1>f DEF fetch_by_key, Running
  <2>2. Settles(g)
    BY <1>6, <2>1, Settling DEF fetch_by_key
  <2> QED
    BY <1>0, <1>6, <1>k, <2>2 DEF fetch_by_key, store
<1>7. CASE DropKey(g)
  BY <1>0, <1>7, <1>k DEF DropKey, Drops, Gen, store
<1> QED
  BY <1>1, <1>2, <1>3, <1>4, <1>5, <1>6, <1>7 DEF GenStep

----------------------------------------------------------------------------
(* Every step keeps the invariant. *)
Inv == Typed /\ Registered /\ WaitersHeard /\ PermitsHeld /\ Explains

(* Only the steps of a writer change what is explained.                    *)
LEMMA ExplainedKept ==
    ASSUME UNCHANGED file, NEW m
    PROVE  Explained(m)' <=> Explained(m)
BY DEF file, Explained, Pending

(* The semaphore's holders are finitely many.                              *)
LEMMA HoldersFinite ==
    IsFiniteSet(Holders) /\ Cardinality(Holders) \in Nat
<1>1. IsFiniteSet(Gens) /\ Holders \subseteq Gens
  BY PreviewsAssumption DEF Holders
<1>2. IsFiniteSet(Holders)
  BY <1>1, FS_Subset
<1> QED
  BY <1>2, FS_CardinalityType

(* A step that only moves one request.                                     *)
LEMMA RequestKeeps ==
    ASSUME Inv, NEW r \in Reqs, NEW f \in ReqT, f.from <= epoch, Awaits(f) \/ Alone(f),
           rq' = [rq EXCEPT ![r] = f], faults' \in Nat, UNCHANGED <<store, engine, file, php>>
    PROVE  Inv'
<1>1. Typed'
  <2>1. rq' \in [Reqs -> ReqT]
    BY DEF Inv, Typed
  <2> QED
    BY <2>1 DEF Inv, Typed, store, engine, file
<1>2. Registered'
  <2>1. \A q \in Reqs : rq'[q].from <= epoch
    BY DEF Inv, Typed, Registered
  <2> QED
    BY <2>1 DEF Inv, Registered, engine, file
<1>3. WaitersHeard'
  <2>1. \A q \in Reqs : rq'[q] = f \/ rq'[q] = rq[q]
    BY DEF Inv, Typed
  <2>2. ASSUME NEW g PROVE (Awaits(g) => Awaits(g)') /\ (Alone(g) => Alone(g)')
    BY DEF Awaits, Alone, engine
  <2>3. \A q \in Reqs : Awaits(rq'[q]) \/ Alone(rq'[q])
    BY <2>1 DEF Inv, WaitersHeard
  <2> QED
    BY <2>2, <2>3 DEF WaitersHeard
<1>4. PermitsHeld'
  BY DEF Inv, PermitsHeld, Holders, engine
<1>5. Explains'
  BY ExplainedKept DEF Inv, Explains, store, engine, file
<1> QED
  BY <1>1, <1>2, <1>3, <1>4, <1>5 DEF Inv

(* A step that starts a generation.                                        *)
LEMMA StartKeeps ==
    ASSUME Inv, NEW r \in Reqs, Starts(r), UNCHANGED <<store, file, php, faults>>
    PROVE  Inv'
<1>0. PICK g \in Gens, h \in GenT, f \in ReqT :
        /\ gens[g] = Unused /\ inflight[h.key] = NoGen /\ h.pc = "queued" /\ h.made.from <= epoch
        /\ f.from <= epoch /\ f.wait = g /\ f.pc = IF h.key = "max" THEN "wait max" ELSE "wait small"
        /\ gens' = [gens EXCEPT ![g] = h] /\ inflight' = [inflight EXCEPT ![h.key] = g]
        /\ rq' = [rq EXCEPT ![r] = f] /\ permits' = permits
  BY DEF Starts
<1>g. gens[g].pc = "unused" /\ g # NoGen /\ h.key \in Keys
  BY <1>0, Constants, PreviewsAssumption DEF NoGen, GenT
<1>s. \A j \in Gens : IF j = g THEN gens'[j] = h ELSE gens'[j] = gens[j]
  BY <1>0 DEF Inv, Typed
<1>i. \A k \in Keys : IF k = h.key THEN inflight'[k] = g ELSE inflight'[k] = inflight[k]
  BY <1>0 DEF Inv, Typed
<1>q. \A q \in Reqs : IF q = r THEN rq'[q] = f ELSE rq'[q] = rq[q]
  BY <1>0 DEF Inv, Typed
<1>1. Typed'
  <2>1. rq' \in [Reqs -> ReqT] /\ gens' \in [Gens -> GenT] /\ inflight' \in [Keys -> Gens \cup {NoGen}]
    BY <1>0, <1>g DEF Inv, Typed
  <2> QED
    BY <1>0, <2>1 DEF Inv, Typed, store, file
<1>2. Registered'
  <2>1. \A j \in Gens : gens'[j].pc # "unused" => inflight'[gens'[j].key] = j
    <3> SUFFICES ASSUME NEW j \in Gens, gens'[j].pc # "unused" PROVE inflight'[gens'[j].key] = j
      OBVIOUS
    <3>1. CASE j = g
      BY <1>g, <1>s, <1>i, <3>1
    <3>2. CASE j # g
      <4>1. gens'[j] = gens[j] /\ gens[j].key \in Keys /\ inflight[gens[j].key] = j
        BY <1>s, <3>2 DEF Inv, Typed, Registered, GenT
      <4>2. j # NoGen
        BY PreviewsAssumption DEF NoGen
      <4>3. gens[j].key # h.key
        BY <1>0, <4>1, <4>2
      <4> QED
        BY <1>i, <4>1, <4>3
    <3> QED
      BY <3>1, <3>2
  <2>2. \A k \in Keys : inflight'[k] # NoGen => gens'[inflight'[k]].pc # "unused" /\ gens'[inflight'[k]].key = k
    <3> SUFFICES ASSUME NEW k \in Keys, inflight'[k] # NoGen
                 PROVE  gens'[inflight'[k]].pc # "unused" /\ gens'[inflight'[k]].key = k
      OBVIOUS
    <3>1. CASE k = h.key
      BY <1>0, <1>s, <1>i, <3>1
    <3>2. CASE k # h.key
      <4>1. inflight'[k] = inflight[k] /\ inflight[k] \in Gens
        BY <1>i, <3>2 DEF Inv, Typed
      <4>2. gens[inflight[k]].pc # "unused" /\ gens[inflight[k]].key = k
        BY <4>1 DEF Inv, Registered
      <4> QED
        BY <1>g, <1>s, <4>1, <4>2
    <3> QED
      BY <3>1, <3>2
  <2>3. \A j \in Gens : gens'[j].made.from <= epoch
    BY <1>0, <1>s DEF Inv, Registered
  <2>4. \A q \in Reqs : rq'[q].from <= epoch
    BY <1>0, <1>q DEF Inv, Registered
  <2> QED
    BY <2>1, <2>2, <2>3, <2>4 DEF Registered, file
<1>3. WaitersHeard'
  <2> SUFFICES ASSUME NEW q \in Reqs PROVE Awaits(rq[q])' \/ Alone(rq[q])'
    BY DEF WaitersHeard
  <2>1. CASE q = r
    <3>1. rq'[q] = f
      BY <1>q, <2>1
    <3>2. f.pc \in Waiting /\ h.key = IF f.pc = "wait max" THEN "max" ELSE "small"
      BY <1>0, <1>g DEF Waiting, Keys
    <3>3. gens'[f.wait] = h
      BY <1>0, <1>s
    <3> QED
      BY <1>0, <1>g, <3>1, <3>2, <3>3 DEF Awaits
  <2>2. CASE q # r /\ Alone(rq[q])
    BY <1>q, <2>2 DEF Alone
  <2>3. CASE q # r /\ Awaits(rq[q])
    <3>1. rq'[q] = rq[q] /\ rq[q].wait \in Gens
      BY <1>q, <2>3 DEF Awaits, Inv, Typed, ReqT
    <3>2. rq[q].wait # g
      BY <1>g, <2>3 DEF Awaits, Running
    <3>3. gens'[rq[q].wait] = gens[rq[q].wait]
      BY <1>s, <3>1, <3>2
    <3> QED
      BY <2>3, <3>1, <3>3 DEF Awaits
  <2> QED
    BY <2>1, <2>2, <2>3 DEF Inv, WaitersHeard
<1>4. PermitsHeld'
  <2>1. Holders' = Holders
    BY <1>0, <1>g, <1>s DEF Holders, Running
  <2> QED
    BY <1>0, <2>1 DEF Inv, PermitsHeld
<1>5. Explains'
  <2>1. \A j \in Gens : gens'[j].pc \in Rendered => Explained(gens'[j].made)
    BY <1>0, <1>s DEF Inv, Explains, Rendered
  <2>2. UNCHANGED <<rows, bytes, php, epoch>> /\ UNCHANGED file
    BY DEF store, file
  <2> QED
    BY <2>1, <2>2, ExplainedKept DEF Inv, Explains
<1> QED
  BY <1>1, <1>2, <1>3, <1>4, <1>5 DEF Inv

(* A generation that keeps its key, and does not become unused, stays      *)
(* registered.                                                             *)
LEMMA BecomingKeeps ==
    ASSUME Inv, NEW g \in Gens, NEW h, Sound(h), h.key = gens[g].key, h.pc # "unused", gens[g].pc # "unused",
           gens' = [gens EXCEPT ![g] = h], inflight' = inflight, UNCHANGED file, StoreGrows, php' = php
    PROVE  /\ gens' \in [Gens -> GenT]
           /\ \A j \in Gens : IF j = g THEN gens'[j] = h ELSE gens'[j] = gens[j]
           /\ \A j \in Gens : gens'[j].pc # "unused" => inflight'[gens'[j].key] = j
           /\ \A k \in Keys : inflight'[k] # NoGen => gens'[inflight'[k]].pc # "unused" /\ gens'[inflight'[k]].key = k
           /\ \A j \in Gens : gens'[j].made.from <= epoch'
           /\ Explains'
<1>1. gens' \in [Gens -> GenT]
  BY DEF Inv, Typed, Sound
<1>2. \A j \in Gens : IF j = g THEN gens'[j] = h ELSE gens'[j] = gens[j]
  BY DEF Inv, Typed
<1>3. \A j \in Gens : gens'[j].pc # "unused" => inflight'[gens'[j].key] = j
  BY <1>2 DEF Inv, Registered
<1>4. \A k \in Keys : inflight'[k] # NoGen => gens'[inflight'[k]].pc # "unused" /\ gens'[inflight'[k]].key = k
  <2> SUFFICES ASSUME NEW k \in Keys, inflight[k] # NoGen
               PROVE  gens'[inflight[k]].pc # "unused" /\ gens'[inflight[k]].key = k
    OBVIOUS
  <2>1. inflight[k] \in Gens /\ gens[inflight[k]].pc # "unused" /\ gens[inflight[k]].key = k
    BY DEF Inv, Typed, Registered
  <2> QED
    BY <1>2, <2>1
<1>5. \A j \in Gens : gens'[j].made.from <= epoch'
  BY <1>2 DEF Inv, Registered, Sound, file
<1>6. Explains'
  <2>1. \A j \in Gens : gens'[j].pc \in Rendered => Explained(gens'[j].made)
    BY <1>2 DEF Inv, Explains, Sound
  <2>2. \A k \in Keys : rows'[k] # NoRow => rows'[k].at = epoch /\ Explained(rows'[k].made)
    BY DEF Inv, Explains, StoreGrows
  <2>3. \A k \in Keys : bytes'[k] # NoBytes => Explained(bytes'[k])
    BY DEF Inv, Explains, StoreGrows
  <2>4. epoch' = epoch /\ (php.pc = "store" => Explained(php.made))
    BY DEF Inv, Explains, file
  <2> QED
    BY <2>1, <2>2, <2>3, <2>4, ExplainedKept DEF Explains
<1> QED
  BY <1>1, <1>2, <1>3, <1>4, <1>5, <1>6

(* The steps of a generation keep the invariant.                           *)
LEMMA GenerationKeeps ==
    ASSUME Inv, NEW g \in Gens, GenStep(g)
    PROVE  Inv'
<1>0. /\ faults' \in Nat /\ StoreGrows /\ UNCHANGED file /\ php' = php
      /\ Acquires(g) \/ Goes(g) \/ Settles(g) \/ Drops(g)
  BY Generations DEF Inv
<1>t. /\ permits \in Nat /\ content' \in Nat /\ etag' \in Nat /\ epoch' \in Nat /\ missed' \in BOOLEAN
      /\ wr' \in [Writers -> WriterT] /\ php' \in PhpT /\ epoch' = epoch
      /\ rows' \in [Keys -> RowT] /\ bytes' \in [Keys -> MadeT]
  BY <1>0 DEF Inv, Typed, file, StoreGrows
<1>h. Holders' = {j \in Gens : gens'[j].pc \in Running}
  BY DEF Holders
<1>r. "unused" \notin Running /\ "settled" \notin Running /\ "queued" \notin Running
  BY DEF Running
<1>1. CASE Acquires(g) \/ Goes(g)
  <2>1. PICK h : Sound(h) /\ h.pc \in Running /\ h.key = gens[g].key /\ gens' = [gens EXCEPT ![g] = h]
    BY <1>1 DEF Acquires, Goes, Becomes
  <2>2. /\ gens[g].pc \in Running \cup {"queued"} /\ gens[g].pc # "unused" /\ h.pc # "unused"
        /\ inflight' = inflight /\ rq' = rq
    BY <1>1, <2>1 DEF Acquires, Goes, Running
  <2>3. /\ gens' \in [Gens -> GenT]
        /\ \A j \in Gens : IF j = g THEN gens'[j] = h ELSE gens'[j] = gens[j]
        /\ \A j \in Gens : gens'[j].pc # "unused" => inflight'[gens'[j].key] = j
        /\ \A k \in Keys : inflight'[k] # NoGen => gens'[inflight'[k]].pc # "unused" /\ gens'[inflight'[k]].key = k
        /\ \A j \in Gens : gens'[j].made.from <= epoch'
        /\ Explains'
    BY <1>0, <2>1, <2>2, BecomingKeeps
  <2>4. PermitsHeld' /\ permits' \in Nat
    <3>1. CASE Acquires(g)
      <4>1. g \notin Holders /\ Holders' = Holders \cup {g}
        BY <1>h, <1>r, <2>1, <2>3, <3>1 DEF Holders, Acquires
      <4>2. Cardinality(Holders \cup {g}) = Cardinality(Holders) + 1
        BY <4>1, HoldersFinite, FS_AddElement
      <4>3. permits' = permits - 1 /\ permits > 0 /\ Cardinality(Holders) + permits = Permits
        BY <3>1 DEF Acquires, Inv, PermitsHeld
      <4>4. Cardinality(Holders') + permits' = Permits
        BY <1>t, <4>1, <4>2, <4>3, HoldersFinite
      <4> QED
        BY <1>t, <4>3, <4>4 DEF PermitsHeld
    <3>2. CASE Goes(g)
      <4>1. Holders' = Holders
        BY <1>h, <2>1, <2>3, <3>2 DEF Holders, Goes
      <4> QED
        BY <1>t, <3>2, <4>1 DEF Goes, Inv, PermitsHeld
    <3> QED
      BY <1>1, <3>1, <3>2
  <2>5. Typed'
    BY <1>0, <1>t, <2>2, <2>3, <2>4 DEF Inv, Typed
  <2>6. Registered'
    BY <1>t, <2>2, <2>3 DEF Inv, Registered
  <2>7. WaitersHeard'
    <3> SUFFICES ASSUME NEW q \in Reqs, Awaits(rq[q]) PROVE Awaits(rq[q])'
      BY <2>2 DEF Inv, WaitersHeard, Alone
    <3>1. rq[q].wait \in Gens
      BY DEF Awaits, Inv, Typed, ReqT
    <3>2. /\ gens'[rq[q].wait].pc \in Running \cup {"queued"}
          /\ gens'[rq[q].wait].key = gens[rq[q].wait].key
      BY <2>1, <2>3, <3>1 DEF Awaits
    <3> QED
      BY <2>2, <3>2 DEF Awaits
  <2> QED
    BY <2>3, <2>4, <2>5, <2>6, <2>7 DEF Inv
<1>2. CASE Settles(g)
  <2>1. PICK h : Sound(h) /\ h.pc = "settled" /\ h.key = gens[g].key /\ gens' = [gens EXCEPT ![g] = h]
    BY <1>2 DEF Settles, Becomes
  <2>2. /\ gens[g].pc \in Running /\ gens[g].pc # "unused" /\ h.pc # "unused" /\ inflight' = inflight
    BY <1>2, <2>1 DEF Settles, Running
  <2>3. /\ gens' \in [Gens -> GenT]
        /\ \A j \in Gens : IF j = g THEN gens'[j] = h ELSE gens'[j] = gens[j]
        /\ \A j \in Gens : gens'[j].pc # "unused" => inflight'[gens'[j].key] = j
        /\ \A k \in Keys : inflight'[k] # NoGen => gens'[inflight'[k]].pc # "unused" /\ gens'[inflight'[k]].key = k
        /\ \A j \in Gens : gens'[j].made.from <= epoch'
        /\ Explains'
    BY <1>0, <2>1, <2>2, BecomingKeeps
  <2>4. PermitsHeld' /\ permits' \in Nat
    <3>1. g \in Holders /\ Holders' = Holders \ {g}
      BY <1>h, <1>r, <2>1, <2>2, <2>3 DEF Holders
    <3>2. Cardinality(Holders \ {g}) = Cardinality(Holders) - 1
      BY <3>1, HoldersFinite, FS_RemoveElement
    <3>3. permits' = permits + 1 /\ Cardinality(Holders) + permits = Permits
      BY <1>2 DEF Settles, Inv, PermitsHeld
    <3>4. Cardinality(Holders') + permits' = Permits
      BY <1>t, <3>1, <3>2, <3>3, HoldersFinite
    <3> QED
      BY <1>t, <3>3, <3>4 DEF PermitsHeld
  <2>5. PICK row \in RowT : rq' = [r \in Reqs |-> IF rq[r].wait = g THEN AfterWait(rq[r], row) ELSE rq[r]]
    BY <1>2 DEF Settles
  <2>6. ASSUME NEW q \in Reqs
        PROVE  /\ rq'[q] \in ReqT /\ rq'[q].from <= epoch
               /\ (rq[q].wait = g /\ Alone(rq'[q])) \/ (rq[q].wait # g /\ rq'[q] = rq[q])
    <3> DEFINE f == rq[q]
    <3>1. f \in ReqT /\ f.from <= epoch /\ epoch \in Nat
      BY DEF Inv, Typed, Registered
    <3>2. CASE rq[q].wait = g
      <4>1. rq'[q] = AfterWait(f, row)
        BY <2>5, <3>2
      <4> HIDE DEF f
      <4>2. /\ AfterWait(f, row) \in ReqT /\ AfterWait(f, row).from <= epoch
            /\ AfterWait(f, row).wait = NoGen /\ AfterWait(f, row).pc \notin Waiting
        BY <3>1, AfterWaitTyped
      <4> QED
        BY <3>2, <4>1, <4>2 DEF Alone
    <3>3. CASE rq[q].wait # g
      BY <2>5, <3>1, <3>3
    <3> QED
      BY <3>2, <3>3
  <2>7. Typed'
    <3>1. rq' \in [Reqs -> ReqT]
      BY <2>5, <2>6
    <3> QED
      BY <1>0, <1>t, <2>2, <2>3, <2>4, <3>1 DEF Inv, Typed
  <2>8. Registered'
    BY <1>t, <2>3, <2>6 DEF Registered
  <2>9. WaitersHeard'
    <3> SUFFICES ASSUME NEW q \in Reqs PROVE Awaits(rq[q])' \/ Alone(rq[q])'
      BY DEF WaitersHeard
    <3>1. CASE rq[q].wait = g
      BY <2>6, <3>1 DEF Alone
    <3>2. CASE rq[q].wait # g /\ Alone(rq[q])
      BY <2>6, <3>2 DEF Alone
    <3>3. CASE rq[q].wait # g /\ Awaits(rq[q])
      <4>1. rq[q].wait \in Gens
        BY <3>3 DEF Awaits, Inv, Typed, ReqT
      <4>2. rq'[q] = rq[q] /\ gens'[rq[q].wait] = gens[rq[q].wait]
        BY <2>3, <2>6, <3>3, <4>1
      <4> QED
        BY <3>3, <4>2 DEF Awaits
    <3> QED
      BY <3>1, <3>2, <3>3 DEF Inv, WaitersHeard
  <2> QED
    BY <2>3, <2>4, <2>7, <2>8, <2>9 DEF Inv
<1>3. CASE Drops(g)
  <2>1. /\ gens[g].pc = "settled" /\ gens' = [gens EXCEPT ![g] = Unused] /\ rq' = rq /\ permits' = permits
        /\ inflight' = [inflight EXCEPT ![gens[g].key] = NoGen] /\ gens[g].key \in Keys
    BY <1>3 DEF Drops, Inv, Typed, GenT
  <2>2. \A j \in Gens : IF j = g THEN gens'[j] = Unused ELSE gens'[j] = gens[j]
    BY <2>1 DEF Inv, Typed
  <2>3. \A k \in Keys : IF k = gens[g].key THEN inflight'[k] = NoGen ELSE inflight'[k] = inflight[k]
    BY <2>1 DEF Inv, Typed
  <2>4. Typed'
    <3>1. gens' \in [Gens -> GenT] /\ inflight' \in [Keys -> Gens \cup {NoGen}]
      BY <2>1, Constants DEF Inv, Typed
    <3> QED
      BY <1>0, <1>t, <2>1, <3>1 DEF Inv, Typed
  <2>5. Registered'
    <3>1. \A j \in Gens : gens'[j].pc # "unused" => inflight'[gens'[j].key] = j
      <4> SUFFICES ASSUME NEW j \in Gens, gens'[j].pc # "unused" PROVE inflight'[gens'[j].key] = j
        OBVIOUS
      <4>1. j # g /\ gens'[j] = gens[j] /\ gens[j].key \in Keys
        BY <2>2, Constants DEF Inv, Typed, GenT
      <4>2. inflight[gens[j].key] = j /\ inflight[gens[g].key] = g
        BY <2>1, <4>1 DEF Inv, Registered
      <4> QED
        BY <2>3, <4>1, <4>2
    <3>2. \A k \in Keys : inflight'[k] # NoGen => gens'[inflight'[k]].pc # "unused" /\ gens'[inflight'[k]].key = k
      <4> SUFFICES ASSUME NEW k \in Keys, inflight'[k] # NoGen
                   PROVE  gens'[inflight'[k]].pc # "unused" /\ gens'[inflight'[k]].key = k
        OBVIOUS
      <4>1. k # gens[g].key /\ inflight'[k] = inflight[k] /\ inflight[k] \in Gens
        BY <2>3 DEF Inv, Typed
      <4>2. gens[inflight[k]].pc # "unused" /\ gens[inflight[k]].key = k
        BY <4>1 DEF Inv, Registered
      <4> QED
        BY <2>2, <4>1, <4>2
    <3>3. \A j \in Gens : gens'[j].made.from <= epoch
      <4>1. Unused.made.from = 0 /\ 0 <= epoch
        BY <1>t, Constants DEF Unused
      <4> QED
        BY <2>2, <4>1 DEF Inv, Registered
    <3> QED
      BY <1>t, <2>1, <3>1, <3>2, <3>3 DEF Inv, Registered
  <2>6. WaitersHeard'
    <3> SUFFICES ASSUME NEW q \in Reqs, Awaits(rq[q]) PROVE Awaits(rq[q])'
      BY <2>1 DEF Inv, WaitersHeard, Alone
    <3>1. rq[q].wait \in Gens /\ rq[q].wait # g
      BY <1>r, <2>1 DEF Awaits, Inv, Typed, ReqT
    <3>2. gens'[rq[q].wait] = gens[rq[q].wait]
      BY <2>2, <3>1
    <3> QED
      BY <2>1, <3>2 DEF Awaits
  <2>7. PermitsHeld'
    <3>1. Holders' = Holders
      BY <1>h, <1>r, <2>1, <2>2, Constants DEF Holders
    <3> QED
      BY <2>1, <3>1 DEF Inv, PermitsHeld
  <2>8. Explains'
    <3>0. "unused" \notin Rendered
      BY DEF Rendered
    <3>1. \A j \in Gens : gens'[j].pc \in Rendered => Explained(gens'[j].made)
      BY <2>2, <3>0, Constants DEF Inv, Explains
    <3>2. \A k \in Keys : rows'[k] # NoRow => rows'[k].at = epoch /\ Explained(rows'[k].made)
      BY <1>0 DEF Inv, Explains, StoreGrows
    <3>3. \A k \in Keys : bytes'[k] # NoBytes => Explained(bytes'[k])
      BY <1>0 DEF Inv, Explains, StoreGrows
    <3>4. php.pc = "store" => Explained(php.made)
      BY DEF Inv, Explains
    <3> QED
      BY <1>0, <1>t, <3>1, <3>2, <3>3, <3>4, ExplainedKept DEF Explains
  <2> QED
    BY <2>4, <2>5, <2>6, <2>7, <2>8 DEF Inv
<1> QED
  BY <1>0, <1>1, <1>2, <1>3

StillExplained(m) == m.from <= epoch' /\ (m.of = content' \/ m.from < epoch' \/ Pending' \/ missed')

(* An overwrite and its invalidation explain what they make stale.         *)
LEMMA WriterExplains ==
    ASSUME Typed, NEW w \in Writers, WriteStep(w), NEW m, m.from \in Nat, Explained(m)
    PROVE  StillExplained(m)
<1>0. wr \in [Writers -> WriterT] /\ epoch \in Nat /\ content \in Nat
  BY DEF Typed
<1>1. CASE ReplaceFile(w)
  <2>1. wr'[w].pc = "row" /\ epoch' = epoch
    BY <1>0, <1>1 DEF ReplaceFile
  <2>2. Pending'
    BY <2>1 DEF Pending
  <2> QED
    BY <2>1, <2>2 DEF StillExplained, Explained
<1>2. CASE UpdateRow(w)
  <2>1. epoch' = epoch /\ content' = content
    BY <1>2 DEF UpdateRow
  <2>2. CASE wr' = [wr EXCEPT ![w] = [pc |-> "delete", ver |-> 0]]
    <3>1. wr'[w].pc = "delete"
      BY <1>0, <2>2
    <3> QED
      BY <2>1, <3>1 DEF StillExplained, Explained, Pending
  <2>3. CASE missed' = TRUE
    BY <2>1, <2>3 DEF StillExplained, Explained
  <2> QED
    BY <1>2, <2>2, <2>3 DEF UpdateRow
<1>3. CASE DeleteRows(w)
  <2>1. CASE epoch' = epoch + 1
    BY <1>0, <2>1 DEF StillExplained, Explained
  <2>2. CASE missed' = TRUE /\ epoch' = epoch
    BY <2>2 DEF StillExplained, Explained
  <2> QED
    BY <1>3, <2>1, <2>2 DEF DeleteRows
<1>4. CASE RemoveDir(w)
  <2>1. epoch' = epoch /\ content' = content /\ missed' = missed /\ wr[w].pc = "rmdir"
    BY <1>4 DEF RemoveDir
  <2>2. Pending => Pending'
    <3> SUFFICES ASSUME NEW v \in Writers, wr[v].pc \in {"row", "delete"} PROVE Pending'
      BY DEF Pending
    <3>1. wr'[v] = wr[v]
      BY <1>0, <1>4, <2>1 DEF RemoveDir
    <3> QED
      BY <3>1 DEF Pending
  <2> QED
    BY <2>1, <2>2 DEF StillExplained, Explained
<1> QED
  BY <1>1, <1>2, <1>3, <1>4 DEF WriteStep

(* The steps of a writer keep the invariant.                               *)
LEMMA WriterKeeps ==
    ASSUME Inv, NEW w \in Writers, WriteStep(w)
    PROVE  Inv'
<1>0. Typed /\ wr \in [Writers -> WriterT] /\ wr[w] \in WriterT /\ content \in Nat /\ epoch \in Nat /\ faults \in Nat
  BY DEF Inv, Typed
<1>c. rq' = rq /\ inflight' = inflight /\ gens' = gens /\ permits' = permits /\ php' = php
  BY DEF WriteStep, ReplaceFile, UpdateRow, DeleteRows, RemoveDir, clients
<1>s. NoRow \in RowT /\ NoBytes \in MadeT
  BY Constants
<1>1. wr' \in [Writers -> WriterT] /\ content' \in Nat /\ etag' \in Nat /\ faults' \in Nat /\ missed' \in BOOLEAN
  <2>v. content + 1 \in Nat /\ 0 \in Nat /\ wr[w].ver \in Nat /\ etag \in Nat /\ missed \in BOOLEAN
    BY <1>0 DEF WriterT, Typed
  <2>m. missed' \in BOOLEAN
    BY <2>v DEF WriteStep, ReplaceFile, UpdateRow, DeleteRows, RemoveDir
  <2>w. ASSUME NEW s \in {"row", "delete", "rmdir", "done"}, NEW v \in Nat PROVE [pc |-> s, ver |-> v] \in WriterT
    BY DEF WriterT
  <2>x. ASSUME NEW s \in {"row", "delete", "rmdir", "done"} PROVE [wr[w] EXCEPT !.pc = s] \in WriterT
    BY <1>0 DEF WriterT
  <2>1. CASE ReplaceFile(w)
    BY <1>0, <2>1, <2>m, <2>v, <2>w DEF ReplaceFile
  <2>2. CASE UpdateRow(w)
    BY <1>0, <2>2, <2>m, <2>v, <2>w DEF UpdateRow
  <2>3. CASE DeleteRows(w)
    BY <1>0, <2>3, <2>m, <2>v, <2>x DEF DeleteRows, Fault
  <2>4. CASE RemoveDir(w)
    BY <1>0, <2>4, <2>m, <2>v, <2>x DEF RemoveDir
  <2> QED
    BY <2>1, <2>2, <2>3, <2>4 DEF WriteStep
<1>2. /\ epoch' \in Nat /\ epoch <= epoch' /\ rows' \in [Keys -> RowT]
      /\ (rows' = rows /\ epoch' = epoch) \/ rows' = [k \in Keys |-> NoRow]
  BY <1>0, <1>s DEF WriteStep, ReplaceFile, UpdateRow, DeleteRows, RemoveDir, store, Inv, Typed
<1>3. bytes' \in [Keys -> MadeT] /\ (bytes' = bytes \/ bytes' = [k \in Keys |-> NoBytes])
  BY <1>s DEF WriteStep, ReplaceFile, UpdateRow, DeleteRows, RemoveDir, store, Inv, Typed
<1>4. Typed'
  BY <1>c, <1>1, <1>2, <1>3 DEF Inv, Typed
<1>5. Registered'
  <2>1. \A g \in Gens : gens[g].made.from \in Nat /\ gens[g].made.from <= epoch
    BY DEF Inv, Typed, Registered, GenT, MadeT
  <2>2. \A r \in Reqs : rq[r].from \in Nat /\ rq[r].from <= epoch
    BY DEF Inv, Typed, Registered, ReqT
  <2>3. \A g \in Gens : gens[g].made.from <= epoch'
    BY <1>0, <1>2, <2>1
  <2>4. \A r \in Reqs : rq[r].from <= epoch'
    BY <1>0, <1>2, <2>2
  <2> QED
    BY <1>c, <2>3, <2>4 DEF Inv, Registered
<1>6. WaitersHeard'
  BY <1>c DEF Inv, WaitersHeard, Awaits, Alone
<1>7. PermitsHeld'
  BY <1>c DEF Inv, PermitsHeld, Holders
<1>8. Explains'
  <2>m. \A m : m.from \in Nat /\ Explained(m) => StillExplained(m)
    BY <1>0, WriterExplains
  <2>1. \A k \in Keys : rows'[k] # NoRow => rows'[k].at = epoch' /\ StillExplained(rows'[k].made)
    <3> SUFFICES ASSUME NEW k \in Keys, rows'[k] # NoRow PROVE rows'[k].at = epoch' /\ StillExplained(rows'[k].made)
      OBVIOUS
    <3>1. rows'[k] = rows[k] /\ epoch' = epoch
      BY <1>2
    <3>2. rows[k].at = epoch /\ Explained(rows[k].made) /\ rows[k].made.from \in Nat
      BY <3>1 DEF Inv, Explains, Typed, RowT, MadeT
    <3> QED
      BY <2>m, <3>1, <3>2
  <2>2. \A k \in Keys : bytes'[k] # NoBytes => StillExplained(bytes'[k])
    <3> SUFFICES ASSUME NEW k \in Keys, bytes'[k] # NoBytes PROVE StillExplained(bytes'[k])
      OBVIOUS
    <3>1. bytes'[k] = bytes[k]
      BY <1>3
    <3>2. Explained(bytes[k]) /\ bytes[k].from \in Nat
      BY <3>1 DEF Inv, Explains, Typed, MadeT
    <3> QED
      BY <2>m, <3>1, <3>2
  <2>3. \A g \in Gens : gens'[g].pc \in Rendered => StillExplained(gens'[g].made)
    <3> SUFFICES ASSUME NEW g \in Gens, gens[g].pc \in Rendered PROVE StillExplained(gens[g].made)
      BY <1>c
    <3>1. Explained(gens[g].made) /\ gens[g].made.from \in Nat
      BY DEF Inv, Explains, Typed, GenT, MadeT
    <3> QED
      BY <2>m, <3>1
  <2>4. php'.pc = "store" => StillExplained(php'.made)
    <3>1. php.pc = "store" => Explained(php.made) /\ php.made.from \in Nat
      BY DEF Inv, Explains, Typed, PhpT, MadeT
    <3> QED
      BY <1>c, <2>m, <3>1
  <2> QED
    BY <2>1, <2>2, <2>3, <2>4 DEF Explains, Explained, StillExplained
<1> QED
  BY <1>4, <1>5, <1>6, <1>7, <1>8 DEF Inv

(* A preview that PHP makes keeps the invariant.                           *)
LEMMA PhpKeeps ==
    ASSUME Inv, PhpReads \/ PhpStores
    PROVE  Inv'
<1>0. /\ epoch \in Nat /\ content \in Nat /\ php \in PhpT /\ UNCHANGED <<engine, file, rq, faults>>
      /\ rows \in [Keys -> RowT] /\ bytes \in [Keys -> MadeT]
  BY DEF Inv, Typed, PhpReads, PhpStores
<1>f. /\ php.key \in Keys /\ php.made \in MadeT /\ php.left \in Nat /\ php.made.of \in Int
      /\ (php.pc = "store" => Explained(php.made))
  <2>1. php.pc = "store" => Explained(php.made)
    BY DEF Inv, Explains
  <2> QED
    BY <1>0, <2>1 DEF PhpT, MadeT
<1>1. /\ php' \in PhpT /\ (php'.pc = "store" => Explained(php'.made))
      /\ rows' \in [Keys -> RowT] /\ bytes' \in [Keys -> MadeT]
      /\ \A k \in Keys : rows'[k] = rows[k] \/ (rows'[k].at = epoch /\ Explained(rows'[k].made))
      /\ \A k \in Keys : bytes'[k] = bytes[k] \/ Explained(bytes'[k])
  <2>1. CASE PhpReads
    <3>1. PICK k \in Keys : php' = [pc |-> "store", key |-> k, left |-> php.left - 1,
                                    made |-> [of |-> content, from |-> epoch]]
      BY <2>1 DEF PhpReads
    <3> DEFINE m == [of |-> content, from |-> epoch]
    <3>2. m \in MadeT /\ m.of = content /\ m.from = epoch
      BY <1>0 DEF MadeT
    <3>3. php.left - 1 \in Nat
      BY <1>f, <2>1 DEF PhpReads
    <3>4. php' = [pc |-> "store", key |-> k, left |-> php.left - 1, made |-> m]
      BY <3>1
    <3> HIDE DEF m
    <3>5. php' \in PhpT /\ php'.made = m
      BY <3>2, <3>3, <3>4 DEF PhpT
    <3>6. Explained(m)
      BY <1>0, <3>2 DEF Explained
    <3> QED
      BY <1>0, <2>1, <3>5, <3>6 DEF PhpReads, store
  <2>2. CASE PhpStores
    <3>0. php.pc = "store" /\ Explained(php.made)
      BY <1>f, <2>2 DEF PhpStores
    <3> DEFINE row == [etag |-> php.made.of, made |-> php.made, at |-> epoch]
    <3>1. row \in RowT /\ row.at = epoch /\ row.made = php.made
      BY <1>0, <1>f DEF RowT
    <3>2. \/ rows' = rows /\ bytes' = bytes
          \/ rows' = [rows EXCEPT ![php.key] = row] /\ bytes' = [bytes EXCEPT ![php.key] = php.made]
      BY <2>2 DEF PhpStores, store
    <3>3. php' = [php EXCEPT !.pc = "idle", !.key = "max", !.made = NoBytes]
      BY <2>2 DEF PhpStores
    <3>4. php' \in PhpT /\ php'.pc = "idle"
      BY <1>0, <3>3, Constants, States DEF PhpT
    <3> HIDE DEF row
    <3>5. rows' \in [Keys -> RowT] /\ bytes' \in [Keys -> MadeT]
      BY <1>0, <1>f, <3>1, <3>2
    <3>6. \A k \in Keys : rows'[k] = rows[k] \/ (rows'[k].at = epoch /\ Explained(rows'[k].made))
      BY <1>0, <1>f, <3>0, <3>1, <3>2
    <3>7. \A k \in Keys : bytes'[k] = bytes[k] \/ Explained(bytes'[k])
      BY <1>0, <1>f, <3>0, <3>2
    <3> QED
      BY <3>4, <3>5, <3>6, <3>7
  <2> QED
    BY <2>1, <2>2
<1>2. Typed'
  BY <1>0, <1>1 DEF Inv, Typed, engine, file
<1>3. Registered' /\ WaitersHeard' /\ PermitsHeld'
  BY <1>0 DEF Inv, Registered, WaitersHeard, Awaits, Alone, PermitsHeld, Holders, engine, file
<1>4. Explains'
  <2>1. epoch' = epoch /\ gens' = gens /\ UNCHANGED file
    BY <1>0 DEF engine, file
  <2>2. \A k \in Keys : rows'[k] # NoRow => rows'[k].at = epoch /\ Explained(rows'[k].made)
    BY <1>1 DEF Inv, Explains
  <2>3. \A k \in Keys : bytes'[k] # NoBytes => Explained(bytes'[k])
    BY <1>1 DEF Inv, Explains
  <2>4. \A g \in Gens : gens[g].pc \in Rendered => Explained(gens[g].made)
    BY DEF Inv, Explains
  <2> QED
    BY <1>1, <2>1, <2>2, <2>3, <2>4, ExplainedKept DEF Explains
<1> QED
  BY <1>2, <1>3, <1>4 DEF Inv

(* The invariant holds at the start.                                       *)
LEMMA InitInv == Init => Inv
<1> SUFFICES ASSUME Init PROVE Inv
  OBVIOUS
<1>1. Typed
  <2>1. /\ rows \in [Keys -> RowT] /\ bytes \in [Keys -> MadeT] /\ gens \in [Gens -> GenT]
        /\ rq \in [Reqs -> ReqT]
    BY Constants DEF Init
  <2>2. inflight \in [Keys -> Gens \cup {NoGen}] /\ permits \in Nat /\ wr \in [Writers -> WriterT]
    BY PreviewsAssumption DEF Init, WriterT
  <2>3. php \in PhpT
    BY Constants, States, PreviewsAssumption DEF Init, PhpT
  <2>4. missed \in BOOLEAN
    BY DEF Init
  <2> QED
    BY <2>1, <2>2, <2>3, <2>4 DEF Init, Typed
<1>2. Registered
  <2>1. Unused.made.from = 0
    BY Constants DEF Unused
  <2> QED
    BY <2>1, Constants DEF Init, Registered
<1>3. WaitersHeard
  <2>1. Alone(Fresh)
    BY Constants DEF Alone, Waiting
  <2> QED
    BY <2>1 DEF Init, WaitersHeard
<1>4. PermitsHeld
  <2>1. Holders = {}
    BY Constants DEF Init, Holders, Running
  <2>2. Cardinality(Holders) = 0
    BY <2>1, FS_EmptySet
  <2>3. permits = Permits /\ Permits \in Nat
    BY PreviewsAssumption DEF Init
  <2> QED
    BY <2>2, <2>3 DEF PermitsHeld
<1>5. Explains
  BY Constants DEF Init, Explains, Rendered
<1> QED
  BY <1>1, <1>2, <1>3, <1>4, <1>5 DEF Inv

(* Every step keeps the invariant.                                         *)
LEMMA NextInv == Inv /\ [Next]_vars => Inv'
<1> SUFFICES ASSUME Inv, [Next]_vars PROVE Inv'
  OBVIOUS
<1>t. Typed /\ Registered /\ WaitersHeard
  BY DEF Inv
<1>1. ASSUME NEW r \in Reqs, Moves(r), UNCHANGED <<store, engine, file, php>> PROVE Inv'
  <2>1. PICK f : Good(f) /\ rq' = [rq EXCEPT ![r] = f]
    BY <1>1 DEF Moves
  <2> QED
    BY <1>1, <2>1, RequestKeeps DEF Moves, Good
<1>2. ASSUME NEW r \in Reqs, Arrive(r) \/ ReqStep(r) \/ ClientGone(r) PROVE Inv'
  <2>1. CASE Join(r)
    <3>1. /\ UNCHANGED <<store, file, php, faults>>
          /\ \/ Moves(r) /\ UNCHANGED engine
             \/ Waits(r) /\ UNCHANGED engine
             \/ Starts(r)
      BY <1>t, <2>1, Joins
    <3>2. CASE Moves(r) /\ UNCHANGED engine
      BY <1>1, <3>1, <3>2
    <3>3. CASE Waits(r) /\ UNCHANGED engine
      <4>1. PICK f \in ReqT : f.from <= epoch /\ Awaits(f) /\ rq' = [rq EXCEPT ![r] = f]
        BY <3>3 DEF Waits
      <4>2. faults' \in Nat
        BY <1>t, <3>1 DEF Typed
      <4> QED
        BY <3>1, <3>3, <4>1, <4>2, RequestKeeps
    <3>4. CASE Starts(r)
      BY <3>1, <3>4, StartKeeps
    <3> QED
      BY <3>1, <3>2, <3>3, <3>4
  <2>2. CASE ~Join(r)
    <3>1. Moves(r) /\ UNCHANGED <<store, engine, file, php>>
      BY <1>t, <1>2, <2>2, RequestMoves DEF ReqStep
    <3> QED
      BY <1>1, <3>1
  <2> QED
    BY <2>1, <2>2
<1>3. CASE UNCHANGED vars
  BY <1>3 DEF Inv, Typed, Registered, WaitersHeard, Awaits, Alone, PermitsHeld, Holders, Explains, Explained, Pending, vars
<1> QED
  BY <1>2, <1>3, GenerationKeeps, WriterKeeps, PhpKeeps DEF Next

(* The whole invariant, from which the theorems follow.                    *)
LEMMA Always == Spec => []Inv
BY InitInv, NextInv, PTL DEF Spec

----------------------------------------------------------------------------
(* The types of the state of the preview service are kept by every step.   *)
THEOREM TypeCorrect == Spec => []Typed
<1>1. Inv => Typed
  BY DEF Inv
<1> QED
  BY <1>1, Always, PTL

(* Coalescer and generation_semaphore, for any number of requests, keys in *)
(* flight and permits: one generation of a variant at a time, and as many  *)
(* renderings as permits are taken.                                        *)
THEOREM Bounded == Spec => []GenerationsBounded
<1>1. Inv => GenerationsBounded
  <2> SUFFICES ASSUME Inv PROVE GenerationsBounded
    OBVIOUS
  <2>1. ASSUME NEW k \in Keys
        PROVE  Cardinality({g \in Gens : gens[g].key = k /\ gens[g].pc \in Running \cup {"queued"}}) <= 1
    <3> DEFINE S == {g \in Gens : gens[g].key = k /\ gens[g].pc \in Running \cup {"queued"}}
    <3>1. S \subseteq {inflight[k]}
      BY DEF Inv, Registered, Running
    <3> HIDE DEF S
    <3>2. IsFiniteSet({inflight[k]}) /\ Cardinality({inflight[k]}) = 1
      BY FS_Singleton
    <3>3. Cardinality(S) <= Cardinality({inflight[k]})
      BY <3>1, <3>2, FS_Subset
    <3>4. Cardinality(S) <= 1
      BY <3>2, <3>3
    <3> QED
      BY <3>4 DEF S
  <2>2. Cardinality(Holders) = Permits - permits
    <3>1. permits \in Nat /\ Cardinality(Holders) + permits = Permits
      BY DEF Inv, Typed, PermitsHeld
    <3>2. Cardinality(Holders) \in Nat
      BY HoldersFinite
    <3> QED
      BY <3>1, <3>2
  <2> QED
    BY <2>1, <2>2 DEF GenerationsBounded, Holders
<1> QED
  BY <1>1, Always, PTL

(* Coalescer: a request waits only for a generation of its own key that is *)
(* queued or running, so that the end of that generation wakes it.         *)
THEOREM Heard == Spec => []WaitersHeard
<1>1. Inv => WaitersHeard
  BY DEF Inv
<1> QED
  BY <1>1, Always, PTL

(* davfile.rs flush and upload_handler.rs: however many overwrites,        *)
(* requests and previews made by PHP there are, a stored row is never      *)
(* older than the last invalidation, and shows an old content only for one *)
(* of the reasons given.                                                   *)
THEOREM Stale == Spec => []StaleExplained
<1>1. Inv => StaleExplained
  BY DEF Inv, Explains, Explained, StaleExplained
<1> QED
  BY <1>1, Always, PTL
-----------------------------------------------------------------------------
(***************************************************************************)
(* The ids the previews are stored under (Snowflake): however many threads *)
(* share the generator and however the clock is set, an id comes back only *)
(* after one of another millisecond.                                       *)
(***************************************************************************)
IdsTyped ==
    /\ now \in Nat
    /\ st \in [ms : Nat, counter : Nat]
    /\ th \in [Threads -> [pc : {"idle", "read", "asleep"}, ms : Nat]]
    /\ ids \in Seq(Nat \X Nat)

(* The last id is of the millisecond the sequence stands in, and the ids   *)
(* handed out since it was entered are numbered up to the counter.         *)
Run ==
    /\ Len(ids) > 0 => ids[Len(ids)][1] = st.ms
    /\ \A i \in 1..Len(ids) :
          (\A k \in i..Len(ids) : ids[k][1] = st.ms) => ids[i][2] <= st.counter

(* The generator and its callers stay well typed (next_id, snowflake.rs).  *)
LEMMA IdsStayTyped == IdsSpec => []IdsTyped
<1> USE SnowflakeAssumption DEF IdsTyped
<1>1. IdsInit => IdsTyped
  BY DEF IdsInit
<1>2. IdsTyped /\ [IdsNext]_idvars => IdsTyped'
  <2> SUFFICES ASSUME IdsTyped, [IdsNext]_idvars PROVE IdsTyped'
    OBVIOUS
  <2>1. ASSUME NEW t \in Threads, ReadClock(t) PROVE IdsTyped'
    BY <2>1 DEF ReadClock
  <2>2. ASSUME NEW t \in Threads, Alloc(t) PROVE IdsTyped'
    <3> DEFINE ms == th[t].ms
    <3>1. ms \in Nat /\ Seqno(ms) \in Nat
      BY DEF Seqno
    <3>2. st' \in [ms : Nat, counter : Nat]
      BY <2>2, <3>1 DEF Alloc
    <3>3. ids' \in Seq(Nat \X Nat)
      BY <2>2, <3>1 DEF Alloc
    <3>4. th' \in [Threads -> [pc : {"idle", "read", "asleep"}, ms : Nat]]
      BY <2>2, <3>1 DEF Alloc
    <3> QED BY <2>2, <3>2, <3>3, <3>4 DEF Alloc
  <2>3. ASSUME NEW t \in Threads, WakeUp(t) PROVE IdsTyped'
    BY <2>3 DEF WakeUp
  <2>4. CASE SetClock
    BY <2>4 DEF SetClock
  <2>5. CASE UNCHANGED idvars
    BY <2>5 DEF idvars
  <2> QED BY <2>1, <2>2, <2>3, <2>4, <2>5 DEF IdsNext
<1> QED
  BY <1>1, <1>2, PTL DEF IdsSpec

(* What alloc does to the ids handed out: it leaves them, or appends the   *)
(* next one of the millisecond; entering a millisecond it always appends.  *)
LEMMA AllocAppends ==
    ASSUME IdsTyped, NEW t \in Threads, Alloc(t)
    PROVE  /\ th[t].ms \in Nat /\ Seqno(th[t].ms) \in Nat
           /\ st'.ms = th[t].ms /\ st'.counter = Seqno(th[t].ms)
           /\ Len(ids) \in Nat /\ \A i \in 1..Len(ids) : ids'[i] = ids[i]
           /\ \/ ids' = ids /\ st.ms = th[t].ms
              \/ /\ Len(ids') = Len(ids) + 1
                 /\ ids'[Len(ids) + 1][1] = th[t].ms
                 /\ ids'[Len(ids) + 1][2] = Seqno(th[t].ms)
<1> USE SnowflakeAssumption DEF IdsTyped
<1> DEFINE ms == th[t].ms
           id == <<ms, Seqno(ms)>>
<1>1. ms \in Nat /\ Seqno(ms) \in Nat
  BY DEF Seqno
<1>2. st'.ms = ms /\ st'.counter = Seqno(ms)
  BY DEF Alloc
<1>3. (ids' = ids /\ st.ms = ms) \/ ids' = Append(ids, id)
  BY DEF Alloc, Seqno
<1>4. ids \in Seq(Nat \X Nat) /\ id \in Nat \X Nat /\ id[1] = ms /\ id[2] = Seqno(ms)
  BY <1>1
<1> HIDE DEF id
<1>5. ASSUME ids' = Append(ids, id)
      PROVE  /\ Len(ids') = Len(ids) + 1 /\ ids'[Len(ids) + 1] = id
             /\ \A i \in 1..Len(ids) : ids'[i] = ids[i]
  BY ONLY <1>4, <1>5
<1>6. Len(ids) \in Nat
  BY ONLY <1>4
<1> QED
  BY <1>1, <1>2, <1>3, <1>4, <1>5, <1>6

(* An allocation keeps the numbering of the running millisecond, and the   *)
(* id it hands out is new to it.                                           *)
LEMMA AllocKeeps ==
    ASSUME IdsTyped, Run, UniqueUnlessOvertaken, NEW t \in Threads, Alloc(t)
    PROVE  Run' /\ UniqueUnlessOvertaken'
<1> DEFINE ms  == th[t].ms
           seq == Seqno(ms)
           n   == Len(ids)
<1>1. /\ ms \in Nat /\ seq \in Nat /\ n \in Nat
      /\ st'.ms = ms /\ st'.counter = seq
      /\ \A i \in 1..n : ids'[i] = ids[i]
      /\ \/ ids' = ids /\ st.ms = ms
         \/ Len(ids') = n + 1 /\ ids'[n + 1][1] = ms /\ ids'[n + 1][2] = seq
  BY AllocAppends
<1>2. /\ st.counter \in Nat
      /\ \A i \in 1..n : ids[i][1] \in Nat /\ ids[i][2] \in Nat
  BY DEF IdsTyped
<1>3. st.ms = ms => seq = st.counter + 1
  BY DEF Seqno
<1>4. ASSUME NEW i \in 1..n, \A k \in i..n : ids[k][1] = ms PROVE ids[i][2] < seq
  <2>1. st.ms = ms
    BY <1>1, <1>4 DEF Run
  <2>2. ids[i][2] <= st.counter
    BY <1>4, <2>1 DEF Run
  <2> QED BY <1>2, <1>3, <2>1, <2>2
<1> HIDE DEF ms, seq
<1>5. CASE ids' = ids /\ st.ms = ms
  <2>1. Run'
    BY <1>1, <1>2, <1>3, <1>5 DEF Run
  <2>2. UniqueUnlessOvertaken'
    BY <1>5 DEF UniqueUnlessOvertaken
  <2> QED BY <2>1, <2>2
<1>6. CASE Len(ids') = n + 1 /\ ids'[n + 1][1] = ms /\ ids'[n + 1][2] = seq
  <2>1. ASSUME NEW i \in 1..Len(ids'), \A k \in i..Len(ids') : ids'[k][1] = ms
        PROVE  ids'[i][2] <= seq
    <3>1. CASE i = n + 1
      BY <1>1, <1>6, <3>1
    <3>2. CASE i \in 1..n
      <4>1. \A k \in i..n : ids[k][1] = ms
        BY <1>1, <1>6, <2>1, <3>2
      <4> QED BY <1>1, <1>2, <1>4, <3>2, <4>1
    <3> QED BY <1>1, <1>6, <3>1, <3>2
  <2>2. Run'
    BY <1>1, <1>6, <2>1 DEF Run
  <2>3. ASSUME NEW i \in 1..Len(ids'), NEW j \in 1..Len(ids'), i < j, ids'[i] = ids'[j]
        PROVE  \E k \in (i + 1)..(j - 1) : ids'[k][1] # ids'[i][1]
    <3>1. CASE j = n + 1
      <4>1. i \in 1..n /\ ids[i][1] = ms /\ ids[i][2] = seq
        BY <1>1, <1>6, <2>3, <3>1
      <4>2. PICK k \in i..n : ids[k][1] # ms
        BY <1>1, <1>2, <1>4, <4>1
      <4>3. k \in (i + 1)..(j - 1) /\ ids'[k] = ids[k] /\ ids'[i] = ids[i]
        BY <1>1, <3>1, <4>1, <4>2
      <4> QED BY <4>1, <4>2, <4>3
    <3>2. CASE j \in 1..n
      <4>1. i \in 1..n /\ ids[i] = ids[j]
        BY <1>1, <2>3, <3>2
      <4>2. PICK k \in (i + 1)..(j - 1) : ids[k][1] # ids[i][1]
        BY <2>3, <3>2, <4>1 DEF UniqueUnlessOvertaken
      <4>3. k \in 1..n
        BY <1>1, <3>2, <4>1, <4>2
      <4> QED BY <1>1, <4>1, <4>2, <4>3
    <3> QED BY <1>1, <1>6, <3>1, <3>2
  <2>4. UniqueUnlessOvertaken'
    BY <2>3 DEF UniqueUnlessOvertaken
  <2> QED BY <2>2, <2>4
<1> QED
  BY <1>1, <1>5, <1>6

(* For any number of threads, any sequence limit and a clock that may be   *)
(* set back: next_id hands an id out again only when one of another        *)
(* millisecond went out between the two (alloc and next_id, snowflake.rs). *)
THEOREM UniqueButOvertaken == IdsSpec => []UniqueUnlessOvertaken
<1>1. IdsInit => Run /\ UniqueUnlessOvertaken
  BY DEF IdsInit, Run, UniqueUnlessOvertaken
<1>2. IdsTyped /\ Run /\ UniqueUnlessOvertaken /\ [IdsNext]_idvars => Run' /\ UniqueUnlessOvertaken'
  <2> SUFFICES ASSUME IdsTyped, Run, UniqueUnlessOvertaken, [IdsNext]_idvars
               PROVE  Run' /\ UniqueUnlessOvertaken'
    OBVIOUS
  <2>1. CASE UNCHANGED <<st, ids>>
    BY <2>1 DEF Run, UniqueUnlessOvertaken
  <2>2. CASE \E t \in Threads : Alloc(t)
    BY <2>2, AllocKeeps
  <2> QED
    BY <2>1, <2>2 DEF IdsNext, ReadClock, WakeUp, SetClock, idvars
<1> QED
  BY <1>1, <1>2, IdsStayTyped, PTL DEF IdsSpec
=============================================================================
