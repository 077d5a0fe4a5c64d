-------------------------- MODULE WritePathProofs --------------------------
(***************************************************************************)
(* What is proved of the write path: what the statements do to any file    *)
(* cache table; that every step of every request, in any interleaving,     *)
(* leaves the table, the disk and the requests what the other statements   *)
(* expect them to be (RequestStepKeeps, BulkStepKeeps, UploadStepTurns);   *)
(* and, from there, that chunks are never left behind and that an assembly *)
(* is what was uploaded.                                                   *)
(***************************************************************************)
EXTENDS Uploads, SequenceTheorems, FiniteSetTheorems, NaturalsInduction, WellFoundedInduction, TLAPS

(* A path below `from` is `from` followed by a rest that is not empty. *)
LEMMA BelowSplits ==
    ASSUME NEW q \in Path, NEW from \in Path, Under(q, from)
    PROVE  /\ Len(from) < Len(q)
           /\ SubSeq(q, Len(from) + 1, Len(q)) \in Path
           /\ Len(SubSeq(q, Len(from) + 1, Len(q))) = Len(q) - Len(from)
           /\ q = from \o SubSeq(q, Len(from) + 1, Len(q))
<1> USE DEF Path
<1>1. Len(from) \in Nat /\ Len(q) \in Nat
  BY LenProperties
<1>2. Len(from) <= Len(q) /\ SubSeq(from, 1, Len(from)) = SubSeq(q, 1, Len(from)) /\ from # q
  BY DEF Under, IsStrictPrefix, IsPrefix
<1>3. from = SubSeq(q, 1, Len(from))
  BY <1>2, SubSeqFull
<1>4. Len(from) # Len(q)
  BY <1>2, <1>3, SubSeqFull
<1>5. \A i \in (Len(from) + 1)..Len(q) : q[i] \in Segment
  BY <1>1, ElementOfSeq
<1>6. /\ SubSeq(q, Len(from) + 1, Len(q)) \in Path
      /\ Len(SubSeq(q, Len(from) + 1, Len(q))) = Len(q) - Len(from)
  BY <1>1, <1>2, <1>4, <1>5, SubSeqProperties
<1>7. SubSeq(q, 1, Len(from)) \o SubSeq(q, Len(from) + 1, Len(q)) = SubSeq(q, 1, Len(q))
  <2>1. /\ 1 \in 1..(Len(q) + 1) /\ Len(from) \in (1 - 1)..Len(q)
        /\ Len(q) \in Len(from)..Len(q)
    BY <1>1, <1>2
  <2> QED BY <2>1, ConcatAdjacentSubSeq
<1>8. q = from \o SubSeq(q, Len(from) + 1, Len(q))
  BY <1>3, <1>7, SubSeqFull
<1> QED BY <1>1, <1>2, <1>4, <1>6, <1>8

(* Appending to a path goes below it. *)
LEMMA ConcatIsBelow ==
    ASSUME NEW p \in Path, NEW x \in Path, Len(x) > 0
    PROVE  p \o x \in Path /\ Under(p \o x, p)
<1> USE DEF Path
<1>1. Len(p) \in Nat /\ Len(x) \in Nat
  BY LenProperties
<1>2. /\ p \o x \in Path /\ Len(p \o x) = Len(p) + Len(x)
      /\ \A i \in 1..(Len(p) + Len(x)) : (p \o x)[i] = IF i <= Len(p) THEN p[i] ELSE x[i - Len(p)]
  BY ConcatProperties
<1>3. \A i \in 1..Len(p) : (p \o x)[i] = p[i] /\ p[i] \in Segment
  BY <1>1, <1>2, ElementOfSeq
<1> DEFINE s == SubSeq(p \o x, 1, Len(p))
<1>4. /\ s \in Seq(Segment)
      /\ Len(s) = IF 1 <= Len(p) THEN Len(p) - 1 + 1 ELSE 0
      /\ \A i \in 1..(Len(p) - 1 + 1) : s[i] = (p \o x)[1 + i - 1]
  BY <1>1, <1>3, SubSeqProperties
<1>5. Len(s) = Len(p) /\ \A i \in 1..Len(p) : s[i] = p[i]
  BY <1>1, <1>3, <1>4
<1> HIDE DEF s
<1>6. s = p
  BY <1>4, <1>5, SeqEqual
<1>7. SubSeq(p, 1, Len(p)) = p
  BY SubSeqFull
<1>8. p \o x # p /\ Len(p) <= Len(p \o x)
  BY <1>1, <1>2
<1>9. SubSeq(p \o x, 1, Len(p)) = SubSeq(p, 1, Len(p))
  BY <1>6, <1>7 DEF s
<1> QED
  BY <1>2, <1>8, <1>9 DEF Under, IsStrictPrefix, IsPrefix

(* get_parents(p) (propagator.rs) lists exactly the paths p is below.      *)
LEMMA ParentsAreAncestors ==
    ASSUME NEW p \in Path, p # Root, NEW q \in Path
    PROVE  q \in get_parents(p) <=> Under(p, q)
<1> USE DEF Path
<1>1. Len(p) \in Nat /\ Len(q) \in Nat /\ Len(p) # 0
  BY LenProperties, EmptySeq DEF Root
<1>2. \A i \in 1..Len(p) : p[i] \in Segment
  BY <1>1, ElementOfSeq
<1>3. ASSUME q \in get_parents(p) PROVE Under(p, q)
  <2>1. PICK k \in 0..(Len(p) - 1) : q = SubSeq(p, 1, k)
    BY <1>3 DEF get_parents
  <2>2. \A i \in 1..k : p[i] \in Segment
    BY <1>1, <1>2, <2>1
  <2>3. Len(q) = k
    BY <2>1, <2>2, SubSeqProperties
  <2>4. SubSeq(q, 1, Len(q)) = q
    BY SubSeqFull
  <2> QED BY <1>1, <2>1, <2>3, <2>4 DEF Under, IsStrictPrefix, IsPrefix
<1>4. ASSUME Under(p, q) PROVE q \in get_parents(p)
  <2>1. Len(q) < Len(p)
    BY <1>4, BelowSplits
  <2>2. q = SubSeq(p, 1, Len(q))
    BY <1>4, SubSeqFull DEF Under, IsStrictPrefix, IsPrefix
  <2>3. Len(q) \in 0..(Len(p) - 1)
    BY <1>1, <2>1
  <2> QED BY <2>2, <2>3, Zenon DEF get_parents
<1> QED BY <1>3, <1>4

(* One propagate_change at p gives every row p is below the new etag and   *)
(* touches no other row: no ancestor is skipped, and no sibling, child or  *)
(* other storage root is stamped (try_propagate, propagator.rs).           *)
THEOREM StampReachesAncestors ==
    ASSUME NEW tab, tab \in [DOMAIN tab -> Row], NEW p \in Path, p # Root, NEW e \in Nat,
           NEW i \in DOMAIN tab
    PROVE  /\ Under(p, tab[i].path) => PropagateEtag(tab, p, e)[i] = [tab[i] EXCEPT !.etag = e]
           /\ ~Under(p, tab[i].path) => PropagateEtag(tab, p, e)[i] = tab[i]
<1>1. tab[i].path \in Path
  BY DEF Row
<1>2. tab[i].path \in get_parents(p) <=> Under(p, tab[i].path)
  BY <1>1, ParentsAreAncestors
<1> QED BY <1>2 DEF PropagateEtag

(* Re-keying the rows below `from` onto a path nothing is below yet keeps  *)
(* the paths of the table unique, so the UPDATE of a directory MOVE or     *)
(* trash cannot fail on the unique index (rekey_subtree_paths, rekey.rs).  *)
THEOREM RekeyKeepsPathsUnique ==
    ASSUME NEW tab, tab \in [DOMAIN tab -> Row], UniquePaths(tab),
           NEW from \in Path, NEW to \in Path,
           \A i \in DOMAIN tab : ~Under(tab[i].path, to)
    PROVE  UniquePaths(rekey_subtree_paths(tab, from, to))
<1> DEFINE new == rekey_subtree_paths(tab, from, to)
           moved(i) == Under(tab[i].path, from)
           rest(i)  == SubSeq(tab[i].path, Len(from) + 1, Len(tab[i].path))
<1>1. DOMAIN new = DOMAIN tab
  BY DEF rekey_subtree_paths
<1>2. \A i \in DOMAIN tab : tab[i] \in Row /\ tab[i].path \in Path
  BY DEF Row
<1>3. \A i \in DOMAIN tab : ~moved(i) => new[i].path = tab[i].path
  BY DEF rekey_subtree_paths
<1>4. \A i \in DOMAIN tab : moved(i) => new[i].path = to \o rest(i)
  BY <1>2 DEF rekey_subtree_paths, Rebase, Row
<1>5. ASSUME NEW i \in DOMAIN tab, moved(i)
      PROVE  /\ rest(i) \in Path /\ Len(rest(i)) > 0
             /\ tab[i].path = from \o rest(i)
  <2>1. Len(from) \in Nat /\ Len(tab[i].path) \in Nat
    BY <1>2, LenProperties DEF Path
  <2> QED BY <1>2, <1>5, <2>1, BelowSplits
<1> HIDE DEF new, rest, moved
<1> SUFFICES ASSUME NEW i \in DOMAIN tab, NEW j \in DOMAIN tab, new[i].path = new[j].path
             PROVE  i = j
  BY <1>1 DEF UniquePaths, new
<1>6. CASE ~moved(i) /\ ~moved(j)
  BY <1>3, <1>6 DEF UniquePaths
<1>7. ASSUME NEW k \in DOMAIN tab, moved(k) PROVE Under(new[k].path, to)
  BY <1>4, <1>5, <1>7, ConcatIsBelow
<1>8. CASE (moved(i) /\ ~moved(j)) \/ (~moved(i) /\ moved(j))
  BY <1>3, <1>7, <1>8
<1>9. CASE moved(i) /\ moved(j)
  <2>1. to \o rest(i) = to \o rest(j)
    BY <1>4, <1>9
  <2>2. rest(i) = rest(j)
    BY <1>5, <1>9, <2>1, ConcatSimplifications DEF Path
  <2>3. tab[i].path = tab[j].path
    BY <1>5, <1>9, <2>2
  <2> QED BY <2>3 DEF UniquePaths
<1> QED BY <1>6, <1>8, <1>9
-----------------------------------------------------------------------------
IsSeq(s) == s \in Seq(Range(s))

LEMMA IntoSeq == ASSUME NEW V, NEW n \in Nat, NEW s \in [1..n -> V] PROVE s \in Seq(V)
BY SeqDef, ZenonT(60)

(* A sequence over some set.                                               *)
LEMMA OverItself ==
    ASSUME NEW S, NEW s \in Seq(S)
    PROVE  IsSeq(s)
<1>1. Len(s) \in Nat /\ s \in [1..Len(s) -> S] /\ DOMAIN s = 1..Len(s)
  BY LenProperties
<1>2. \A i \in 1..Len(s) : s[i] \in Range(s)
  BY <1>1, Zenon DEF Range
<1>3. s \in [1..Len(s) -> Range(s)]
  BY <1>1, <1>2
<1>4. s \in Seq(Range(s))  BY ONLY <1>1, <1>3, IntoSeq
<1> QED BY <1>4 DEF IsSeq

LEMMA SeqFacts ==
    ASSUME NEW s, IsSeq(s)
    PROVE  /\ Len(s) \in Nat /\ DOMAIN s = 1..Len(s)
           /\ s = <<>> <=> Len(s) = 0
<1> USE DEF IsSeq
<1>1. Len(s) \in Nat /\ DOMAIN s = 1..Len(s)  BY LenProperties, Zenon
<1>2. Len(<<>>) = 0 /\ (s # <<>> => Len(s) \in Nat \ {0})  BY EmptySeq, Zenon
<1> QED BY <1>1, <1>2

(* A sequence over the elements of two.                                    *)
LEMMA SeqOver ==
    ASSUME NEW s, IsSeq(s), NEW S, \A i \in 1..Len(s) : s[i] \in S
    PROVE  s \in Seq(S)
<1>1. Len(s) \in Nat /\ s \in [1..Len(s) -> Range(s)] /\ DOMAIN s = 1..Len(s)
  BY LenProperties, Zenon DEF IsSeq
<1>2. s \in [1..Len(s) -> S]  BY <1>1
<1> QED BY <1>1, <1>2, SeqDef, Zenon

LEMMA Joined ==
    ASSUME NEW a, NEW b, IsSeq(a), IsSeq(b)
    PROVE  /\ IsSeq(a \o b) /\ Len(a \o b) = Len(a) + Len(b)
           /\ \A i \in 1..Len(a) : (a \o b)[i] = a[i]
           /\ \A i \in 1..Len(b) : (a \o b)[Len(a) + i] = b[i]
           /\ \A i \in 1..Len(a \o b) : \/ i \in 1..Len(a) /\ (a \o b)[i] = a[i]
                                        \/ i - Len(a) \in 1..Len(b) /\ (a \o b)[i] = b[i - Len(a)]
<1> DEFINE S == Range(a) \cup Range(b)
<1>1. DOMAIN a = 1..Len(a) /\ DOMAIN b = 1..Len(b) /\ Len(a) \in Nat /\ Len(b) \in Nat
  BY SeqFacts
<1>2. a \in Seq(S)
  <2>1. \A i \in 1..Len(a) : a[i] \in S  BY <1>1, Zenon DEF Range
  <2> QED BY <2>1, SeqOver
<1>3. b \in Seq(S)
  <2>1. \A i \in 1..Len(b) : b[i] \in S  BY <1>1, Zenon DEF Range
  <2> QED BY <2>1, SeqOver
<1> HIDE DEF S
<1>4. /\ a \o b \in Seq(S) /\ Len(a \o b) = Len(a) + Len(b)
      /\ \A i \in 1..(Len(a) + Len(b)) : (a \o b)[i] = IF i <= Len(a) THEN a[i] ELSE b[i - Len(a)]
  BY <1>2, <1>3, ConcatProperties
<1>5. IsSeq(a \o b)  BY <1>4, OverItself, Zenon
<1>6. \A i \in 1..Len(a) : (a \o b)[i] = a[i]
  BY ONLY <1>1, <1>4
<1>7. \A i \in 1..Len(b) : (a \o b)[Len(a) + i] = b[i]
  <2> SUFFICES ASSUME NEW i \in 1..Len(b) PROVE (a \o b)[Len(a) + i] = b[i]
    OBVIOUS
  <2>1. Len(a) + i \in 1..(Len(a) + Len(b)) /\ ~(Len(a) + i <= Len(a)) /\ Len(a) + i - Len(a) = i
    BY ONLY <1>1, i \in 1..Len(b)
  <2> QED BY ONLY <1>4, <2>1
<1>8. \A i \in 1..Len(a \o b) : \/ i \in 1..Len(a) /\ (a \o b)[i] = a[i]
                                \/ i - Len(a) \in 1..Len(b) /\ (a \o b)[i] = b[i - Len(a)]
  BY ONLY <1>1, <1>4
<1> QED BY <1>4, <1>5, <1>6, <1>7, <1>8

LEMMA Rest ==
    ASSUME NEW s, IsSeq(s), s # <<>>
    PROVE  /\ IsSeq(Tail(s)) /\ Len(Tail(s)) = Len(s) - 1 /\ Head(s) = s[1] /\ 1 \in 1..Len(s)
           /\ \A i \in 1..Len(Tail(s)) : i + 1 \in 1..Len(s) /\ Tail(s)[i] = s[i + 1]
<1>1. s \in Seq(Range(s))  BY DEF IsSeq
<1>2. /\ Tail(s) \in Seq(Range(s)) /\ Len(Tail(s)) = Len(s) - 1
      /\ \A i \in 1..Len(Tail(s)) : Tail(s)[i] = s[i + 1]
  BY <1>1, HeadTailProperties, Zenon
<1>3. Len(s) \in Nat /\ Len(s) # 0  BY SeqFacts
<1>4. IsSeq(Tail(s))  BY <1>2, OverItself, Zenon
<1>5. Head(s) = s[1]  BY <1>1, <1>3
<1> QED BY <1>2, <1>3, <1>4, <1>5

LEMMA Part ==
    ASSUME NEW s, NEW m \in Int, NEW n \in Int
    PROVE  /\ IsSeq(SubSeq(s, m, n))
           /\ Len(SubSeq(s, m, n)) = IF m <= n THEN n - m + 1 ELSE 0
           /\ \A i \in 1..(n - m + 1) : SubSeq(s, m, n)[i] = s[m + i - 1]
<1> DEFINE S == {s[i] : i \in m..n}
<1>1. \A i \in m..n : s[i] \in S  OBVIOUS
<1> HIDE DEF S
<1>2. /\ SubSeq(s, m, n) \in Seq(S)
      /\ Len(SubSeq(s, m, n)) = IF m <= n THEN n - m + 1 ELSE 0
      /\ \A i \in 1..(n - m + 1) : SubSeq(s, m, n)[i] = s[m + i - 1]
  BY <1>1, SubSeqProperties
<1> QED BY <1>2, OverItself, Zenon

LEMMA Tuples ==
    /\ IsSeq(<<>>) /\ Len(<<>>) = 0
    /\ \A a : IsSeq(<<a>>) /\ Len(<<a>>) = 1 /\ <<a>>[1] = a
    /\ \A a, b : IsSeq(<<a, b>>) /\ Len(<<a, b>>) = 2 /\ <<a, b>>[1] = a /\ <<a, b>>[2] = b
<1>1. <<>> \in Seq({})  BY EmptySeq
<1>2. \A a : <<a>> \in Seq({a})  OBVIOUS
<1>3. \A a, b : <<a, b>> \in Seq({a, b})  OBVIOUS
<1> QED BY <1>1, <1>2, <1>3, OverItself

-----------------------------------------------------------------------------
(* The steps of the handlers of an upload, and what each of them may still *)
(* have to run.                                                            *)
UploadSteps ==
    {"mkslot", "putchunk", "chunkquota", "chunkcreate", "chunkbody", "addchunk",
     "assemble", "total", "parts", "read", "asmquota", "target", "parent", "asmwrite", "asmrow",
     "asmentity", "rmchunks", "endsession", "abort", "slotinfo"}

StepsOf(kind) ==
    CASE kind = "mkslot"   -> {"mkslot", "done"}
      [] kind = "putchunk" -> {"putchunk", "chunkquota", "chunkcreate", "chunkbody", "addchunk", "done"}
      [] kind = "assemble" -> {"assemble", "total", "parts", "read", "asmquota", "target", "parent",
                               "asmwrite", "asmrow", "lazy", "prop", "asmentity", "rmchunks",
                               "endsession", "done"}
      [] kind = "abort"    -> {"abort", "rmchunks", "endsession", "done"}
      [] OTHER             -> {"slotinfo", "done"}

ChunkSteps == {"chunkquota", "chunkcreate", "chunkbody", "addchunk"}

Belongs(op, k) ==
    IF op.kind \in UploadOps THEN k \in StepsOf(op.kind) /\ (k \in ChunkSteps => op.part \in 1..MaxPart)
    ELSE k \notin UploadSteps

StepFits(op, x) ==
    /\ x = Step(x.k, x.p, x.q, x.n, x.s)
    /\ IsSeq(x.p) /\ IsSeq(x.q) /\ \A y \in x.s : IsSeq(y)
    /\ Belongs(op, x.k)

TodoFits(op, t) == IsSeq(t) /\ \A i \in 1..Len(t) : StepFits(op, t[i])

OpFits(op) ==
    /\ IsSeq(op.path) /\ IsSeq(op.to) /\ IsSeq(op.files)
    /\ \A i \in 1..Len(op.files) : IsSeq(op.files[i].path)

RequestFits(x) == DOMAIN x = DOMAIN Idle /\ OpFits(x.op) /\ TodoFits(x.op, x.todo)

RowFields == {"path", "name", "parent", "dir", "etag", "mtime", "smtime"}
TableFits(f) == \A i \in DOMAIN f : DOMAIN f[i] = RowFields /\ IsSeq(f[i].path)
DiskFits(d)  == \A q \in DOMAIN d : IsSeq(q)

(* The table, the disk and the requests are what the statements expect.    *)
WellFormed ==
    /\ DOMAIN req = Reqs /\ \A r \in Reqs : RequestFits(req[r])
    /\ TableFits(fc) /\ DiskFits(disk) /\ nextEtag \in Nat

(* A step of r leaves the other requests alone.                            *)
RunsAlone(r) ==
    /\ DOMAIN req' = Reqs /\ \A s \in Reqs \ {r} : req'[s] = req[s]
    /\ RequestFits(req'[r]) /\ req'[r].op = req[r].op
Stamped == nextEtag' \in Nat /\ nextEtag' >= nextEtag
Kept(r) == RunsAlone(r) /\ TableFits(fc') /\ DiskFits(disk') /\ Stamped

LEMMA NoSteps == ASSUME NEW op PROVE TodoFits(op, <<>>)
<1>1. IsSeq(<<>>) /\ Len(<<>>) = 0  BY Tuples
<1> QED BY <1>1 DEF TodoFits

LEMMA OneStep == ASSUME NEW op, NEW x, StepFits(op, x) PROVE TodoFits(op, <<x>>)
<1>1. IsSeq(<<x>>) /\ Len(<<x>>) = 1 /\ <<x>>[1] = x  BY Tuples
<1> QED BY <1>1 DEF TodoFits

LEMMA TwoSteps ==
    ASSUME NEW op, NEW x, StepFits(op, x), NEW y, StepFits(op, y)
    PROVE  TodoFits(op, <<x, y>>)
<1>1. IsSeq(<<x, y>>) /\ Len(<<x, y>>) = 2 /\ <<x, y>>[1] = x /\ <<x, y>>[2] = y  BY Tuples
<1> QED BY <1>1 DEF TodoFits

LEMMA BothFit ==
    ASSUME NEW op, NEW a, TodoFits(op, a), NEW b, TodoFits(op, b)
    PROVE  TodoFits(op, a \o b)
<1>1. /\ IsSeq(a \o b)
      /\ \A i \in 1..Len(a \o b) : \/ i \in 1..Len(a) /\ (a \o b)[i] = a[i]
                                   \/ i - Len(a) \in 1..Len(b) /\ (a \o b)[i] = b[i - Len(a)]
  BY Joined DEF TodoFits
<1>2. ASSUME NEW i \in 1..Len(a \o b) PROVE StepFits(op, (a \o b)[i])
  <2>1. CASE i \in 1..Len(a) /\ (a \o b)[i] = a[i]
    BY <2>1 DEF TodoFits
  <2>2. CASE i - Len(a) \in 1..Len(b) /\ (a \o b)[i] = b[i - Len(a)]
    BY <2>2 DEF TodoFits
  <2> QED BY <1>1, <2>1, <2>2
<1> QED BY <1>1, <1>2 DEF TodoFits

LEMMA TailFits ==
    ASSUME NEW op, NEW t, TodoFits(op, t), t # <<>>
    PROVE  TodoFits(op, Tail(t)) /\ StepFits(op, Head(t))
<1>1. /\ IsSeq(Tail(t)) /\ Head(t) = t[1] /\ 1 \in 1..Len(t)
      /\ \A i \in 1..Len(Tail(t)) : i + 1 \in 1..Len(t) /\ Tail(t)[i] = t[i + 1]
  BY Rest DEF TodoFits
<1> QED BY <1>1 DEF TodoFits
-----------------------------------------------------------------------------
(* The head step has run and called for more.                              *)
LEMMA Advancing ==
    ASSUME WellFormed, NEW r \in Reqs, Active(r), NEW more, TodoFits(req[r].op, more),
           NEW l, DOMAIN l = DOMAIN Idle, l.op = req[r].op, Advance(r, more, l)
    PROVE  RunsAlone(r)
<1> DEFINE t == more \o Tail(req[r].todo)
<1>1. DOMAIN req = Reqs /\ RequestFits(req[r])  BY DEF WellFormed
<1>2. TodoFits(req[r].op, t)
  BY <1>1, TailFits, BothFit DEF RequestFits, Active
<1> HIDE DEF t
<1>3. req' = [req EXCEPT ![r] = [l EXCEPT !.todo = t]]
  BY DEF Advance, t
<1>4. "todo" \in DOMAIN Idle /\ "op" \in DOMAIN Idle  BY DEF Idle
<1>5. req'[r] = [l EXCEPT !.todo = t] /\ DOMAIN req' = Reqs /\ \A s \in Reqs \ {r} : req'[s] = req[s]
  BY <1>1, <1>3
<1>6. DOMAIN req'[r] = DOMAIN Idle /\ req'[r].op = req[r].op /\ req'[r].todo = t
  BY <1>4, <1>5
<1>7. RequestFits(req'[r])
  BY <1>1, <1>2, <1>6 DEF RequestFits
<1> QED BY <1>5, <1>6, <1>7 DEF RunsAlone

LEMMA Going ==
    ASSUME WellFormed, NEW r \in Reqs, Active(r), Next1(r)
    PROVE  RunsAlone(r)
<1>1. DOMAIN req[r] = DOMAIN Idle  BY DEF WellFormed, RequestFits
<1>2. Advance(r, <<>>, req[r])  BY DEF Next1
<1> QED BY <1>1, <1>2, NoSteps, Advancing

LEMMA Failing ==
    ASSUME WellFormed, NEW r \in Reqs, NEW st, Fail(r, st)
    PROVE  RunsAlone(r)
<1>1. DOMAIN req = Reqs /\ RequestFits(req[r])  BY DEF WellFormed
<1>2. req' = [req EXCEPT ![r] = [req[r] EXCEPT !.todo = <<>>, !.resp = st]]
  BY <1>1 DEF Fail
<1>3. "todo" \in DOMAIN Idle /\ "op" \in DOMAIN Idle  BY DEF Idle
<1>4. DOMAIN req' = Reqs /\ \A s \in Reqs \ {r} : req'[s] = req[s]
  BY <1>1, <1>2
<1>5. DOMAIN req'[r] = DOMAIN Idle /\ req'[r].op = req[r].op /\ req'[r].todo = <<>>
  BY <1>1, <1>2, <1>3 DEF RequestFits
<1>6. RequestFits(req'[r])
  BY <1>1, <1>5, NoSteps DEF RequestFits
<1> QED BY <1>4, <1>5, <1>6 DEF RunsAlone
-----------------------------------------------------------------------------
LEMMA SomeStep ==
    ASSUME NEW op, NEW k, Belongs(op, k), NEW p, IsSeq(p), NEW q, IsSeq(q), NEW n,
           NEW s, \A y \in s : IsSeq(y)
    PROVE  StepFits(op, Step(k, p, q, n, s))
BY DEF StepFits, Step

LEMMA RootIsSeq == IsSeq(Root)
BY Tuples DEF Root

LEMMA PlainStep == ASSUME NEW op, NEW k, Belongs(op, k) PROVE StepFits(op, Do(k))
BY RootIsSeq, SomeStep DEF Do

LEMMA StepAt ==
    ASSUME NEW op, NEW k, Belongs(op, k), NEW p, IsSeq(p)
    PROVE  StepFits(op, DoAt(k, p))
BY RootIsSeq, SomeStep DEF DoAt

LEMMA ThreeSteps ==
    ASSUME NEW op, NEW x, StepFits(op, x), NEW y, StepFits(op, y), NEW z, StepFits(op, z)
    PROVE  TodoFits(op, <<x, y, z>>)
<1>1. <<x, y, z>> = <<x, y>> \o <<z>>  OBVIOUS
<1>2. TodoFits(op, <<x, y>>) /\ TodoFits(op, <<z>>)  BY OneStep, TwoSteps
<1> QED BY ONLY <1>1, <1>2, BothFit

LEMMA FourSteps ==
    ASSUME NEW op, NEW x, StepFits(op, x), NEW y, StepFits(op, y), NEW z, StepFits(op, z),
           NEW w, StepFits(op, w)
    PROVE  TodoFits(op, <<x, y, z, w>>)
<1>1. <<x, y, z, w>> = <<x, y>> \o <<z, w>>  OBVIOUS
<1>2. TodoFits(op, <<x, y>>) /\ TodoFits(op, <<z, w>>)  BY TwoSteps
<1> QED BY ONLY <1>1, <1>2, BothFit

(* A list of steps that each stand at a path.                              *)
LEMMA StepsAt ==
    ASSUME NEW op, NEW k, Belongs(op, k), NEW n \in Nat, NEW f, \A i \in 1..n : IsSeq(f[i])
    PROVE  TodoFits(op, [i \in 1..n |-> DoAt(k, f[i])])
<1> DEFINE t == [i \in 1..n |-> DoAt(k, f[i])]
           S == {DoAt(k, f[i]) : i \in 1..n}
<1>1. \A i \in 1..n : t[i] = DoAt(k, f[i]) /\ t[i] \in S  OBVIOUS
<1>2. t \in [1..n -> S]  OBVIOUS
<1> HIDE DEF t, S
<1>3. t \in Seq(S)  BY <1>2, SeqDef, Zenon
<1>4. IsSeq(t) /\ DOMAIN t = 1..Len(t)  BY <1>3, OverItself, SeqFacts
<1>5. DOMAIN t = 1..n  BY <1>2
<1>6. \A i \in 1..Len(t) : StepFits(op, t[i])
  BY <1>1, <1>4, <1>5, StepAt
<1> QED BY <1>4, <1>6 DEF TodoFits, t

LEMMA ChainFits ==
    ASSUME NEW op, op.kind \notin UploadOps, NEW p, IsSeq(p)
    PROVE  TodoFits(op, SizeChain(p))
<1> DEFINE f == ParentsDeepestFirst(p)
<1>1. Belongs(op, "size")  BY DEF Belongs, UploadSteps
<1>2. Len(f) \in Nat /\ \A i \in 1..Len(f) : IsSeq(f[i])
  <2>1. CASE p = Root
    <3>1. f = <<Root>>  BY <2>1 DEF ParentsDeepestFirst
    <3> QED BY <3>1, RootIsSeq
  <2>2. CASE p # Root
    <3> DEFINE g == [k \in 1..Len(p) |-> SubSeq(p, 1, Len(p) - k)]
    <3>1. f = g  BY <2>2 DEF ParentsDeepestFirst
    <3>2. Len(p) \in Nat  BY SeqFacts
    <3>3. \A i \in 1..Len(p) : IsSeq(g[i])  BY <3>2, Part
    <3>4. Len(g) = Len(p)
      <4>1. g \in Seq({g[i] : i \in 1..Len(p)})  BY <3>2
      <4>2. DOMAIN g = 1..Len(g) /\ Len(g) \in Nat  BY <4>1, LenProperties
      <4>3. DOMAIN g = 1..Len(p)  OBVIOUS
      <4> HIDE DEF g
      <4> QED BY <3>2, <4>2, <4>3
    <3> HIDE DEF g
    <3> QED BY <3>1, <3>2, <3>3, <3>4
  <2> QED BY <2>1, <2>2
<1> HIDE DEF f
<1>3. TodoFits(op, [i \in 1..Len(f) |-> DoAt("size", f[i])])
  BY <1>1, <1>2, StepsAt
<1> QED BY <1>3 DEF SizeChain, f

(* The beginnings of a path, as ensure_parent_dir walks them.              *)
LEMMA SegmentsFit ==
    ASSUME NEW op, NEW k, Belongs(op, k), NEW n \in Nat, NEW p
    PROVE  TodoFits(op, [i \in 1..n |-> DoAt(k, SubSeq(p, 1, i))])
<1> DEFINE f == [i \in 1..n |-> SubSeq(p, 1, i)]
<1>1. \A i \in 1..n : f[i] = SubSeq(p, 1, i) /\ IsSeq(f[i])  BY Part
<1> HIDE DEF f
<1>2. TodoFits(op, [i \in 1..n |-> DoAt(k, f[i])])  BY <1>1, StepsAt
<1>3. [i \in 1..n |-> DoAt(k, f[i])] = [i \in 1..n |-> DoAt(k, SubSeq(p, 1, i))]  BY <1>1
<1> QED BY <1>2, <1>3

LEMMA FixedPaths ==
    /\ IsSeq(FilesPath) /\ IsSeq(CachePath) /\ IsSeq(TrashFiles) /\ IsSeq(TrashVersions)
    /\ IsSeq(TrashKeys) /\ IsSeq(UploadsPath)
BY Tuples DEF FilesPath, CachePath, TrashFiles, TrashVersions, TrashKeys, UploadsPath

LEMMA DerivedPaths ==
    ASSUME NEW p, IsSeq(p)
    PROVE  /\ IsSeq(ParentPath(p)) /\ IsSeq(VersionBase(p))
           /\ \A m : IsSeq(VersionPath(p, m)) /\ Len(VersionPath(p, m)) > 1
           /\ \A s, t : IsSeq(trash_fc_name(s, t))
<1>1. Len(p) \in Nat  BY SeqFacts
<1>2. IsSeq(ParentPath(p))
  <2>1. IsSeq(Front(p))  BY <1>1, Part DEF Front
  <2> QED BY <2>1, RootIsSeq DEF ParentPath
<1>3. IsSeq(RelPath(p))  BY <1>1, Part DEF RelPath
<1>4. \A x : IsSeq(<<x>>)  BY Tuples
<1>5. IsSeq(VersionBase(p))  BY <1>3, <1>4, Joined DEF VersionBase
<1>6. ASSUME NEW m PROVE IsSeq(VersionPath(p, m)) /\ Len(VersionPath(p, m)) > 1
  <2> DEFINE a == Front(RelPath(p))
             x == <<Last(p)[1], m, 0>>
  <2>1. Len(RelPath(p)) \in Nat  BY <1>3, SeqFacts
  <2>2. IsSeq(a)  BY <2>1, Part DEF Front
  <2>3. Len(a) \in Nat  BY <2>2, SeqFacts
  <2>4. VersionPath(p, m) = <<VersionsSeg>> \o a \o <<x>>  BY DEF VersionPath
  <2> HIDE DEF a, x
  <2>5. \A y : IsSeq(<<y>>) /\ Len(<<y>>) = 1  BY Tuples
  <2>6. IsSeq(<<VersionsSeg>> \o a) /\ Len(<<VersionsSeg>> \o a) = 1 + Len(a)
    BY <2>2, <2>5, Joined
  <2>7. /\ IsSeq(<<VersionsSeg>> \o a \o <<x>>)
        /\ Len(<<VersionsSeg>> \o a \o <<x>>) = 1 + Len(a) + 1
    BY <2>5, <2>6, Joined
  <2> QED BY <2>3, <2>4, <2>7
<1>7. ASSUME NEW s, NEW t PROVE IsSeq(trash_fc_name(s, t))
  BY <1>4, FixedPaths, Joined DEF trash_fc_name
<1> QED BY <1>2, <1>5, <1>6, <1>7

LEMMA RebasedPath ==
    ASSUME NEW q, IsSeq(q), NEW from, IsSeq(from), NEW to, IsSeq(to)
    PROVE  IsSeq(Rebase(q, from, to))
<1>1. Len(q) \in Nat /\ Len(from) \in Nat  BY SeqFacts
<1>2. IsSeq(SubSeq(q, Len(from) + 1, Len(q)))  BY <1>1, Part
<1> QED BY <1>2, Joined DEF Rebase
-----------------------------------------------------------------------------
LEMMA RowInserted ==
    ASSUME NEW f, TableFits(f), NEW i, NEW v, DOMAIN v = RowFields, IsSeq(v.path)
    PROVE  TableFits(InsertRow(f, i, v))
BY DEF TableFits, InsertRow

LEMMA RowsDeleted == ASSUME NEW f, TableFits(f), NEW S PROVE TableFits(DeleteRows(f, S))
BY DEF TableFits, DeleteRows, Restrict

LEMMA RowsStamped ==
    ASSUME NEW f, TableFits(f), NEW p, NEW e
    PROVE  TableFits(PropagateEtag(f, p, e))
<1>1. ASSUME NEW i \in DOMAIN f
      PROVE  DOMAIN PropagateEtag(f, p, e)[i] = RowFields /\ PropagateEtag(f, p, e)[i].path = f[i].path
  <2>1. DOMAIN f[i] = RowFields  BY DEF TableFits
  <2>2. DOMAIN [f[i] EXCEPT !.etag = e] = RowFields /\ [f[i] EXCEPT !.etag = e].path = f[i].path
    BY <2>1 DEF RowFields
  <2> QED BY <2>1, <2>2 DEF PropagateEtag
<1>2. DOMAIN PropagateEtag(f, p, e) = DOMAIN f  BY DEF PropagateEtag
<1> QED BY <1>1, <1>2 DEF TableFits

LEMMA NewDirRow ==
    ASSUME NEW p, IsSeq(p), NEW par, NEW e, NEW t
    PROVE  DOMAIN DirRow(p, par, e, t) = RowFields /\ IsSeq(DirRow(p, par, e, t).path)
BY DEF DirRow, RowFields

LEMMA RowMoved ==
    ASSUME NEW f, TableFits(f), NEW i \in DOMAIN f, NEW p, IsSeq(p), NEW par
    PROVE  TableFits(MoveRow(f, i, p, par))
<1> DEFINE m == MoveRow(f, i, p, par)
           v == [f[i] EXCEPT !.path = p, !.name = Last(p), !.parent = par]
<1>1. DOMAIN f[i] = RowFields  BY DEF TableFits
<1>2. DOMAIN v = RowFields /\ v.path = p  BY <1>1 DEF RowFields
<1> HIDE DEF v
<1>3. m = [f EXCEPT ![i] = v]
  <2>1. MoveRow(f, i, p, par) =
          [[[f EXCEPT ![i].path = p] EXCEPT ![i].name = Last(p)] EXCEPT ![i].parent = par]
    BY DEF MoveRow
  <2> QED BY <2>1 DEF v
<1>4. DOMAIN m = DOMAIN f /\ m[i] = v /\ \A j \in DOMAIN f : j # i => m[j] = f[j]
  BY <1>3
<1> HIDE DEF m
<1> QED BY <1>2, <1>4 DEF TableFits, m

LEMMA RowsRekeyed ==
    ASSUME NEW f, TableFits(f), NEW from, IsSeq(from), NEW to, IsSeq(to)
    PROVE  TableFits(Rekeyed(f, from, to))
<1> DEFINE new == rekey_subtree_paths(f, from, to)
<1>1. ASSUME NEW i \in DOMAIN f
      PROVE  DOMAIN new[i] = RowFields /\ IsSeq(new[i].path)
  <2>1. DOMAIN f[i] = RowFields /\ IsSeq(f[i].path)  BY DEF TableFits
  <2> DEFINE q == Rebase(f[i].path, from, to)
  <2>2. IsSeq(q)  BY <2>1, RebasedPath
  <2> HIDE DEF q
  <2>3. DOMAIN [f[i] EXCEPT !.path = q] = RowFields /\ [f[i] EXCEPT !.path = q].path = q
    BY <2>1 DEF RowFields
  <2>4. new[i] = IF Under(f[i].path, from) THEN [f[i] EXCEPT !.path = q] ELSE f[i]
    BY DEF rekey_subtree_paths, q
  <2> QED BY <2>1, <2>2, <2>3, <2>4
<1>2. DOMAIN new = DOMAIN f  BY DEF rekey_subtree_paths
<1> HIDE DEF new
<1>3. TableFits(new)  BY <1>1, <1>2 DEF TableFits
<1>4. Rekeyed(f, from, to) = IF UniquePaths(new) THEN new ELSE f  BY DEF Rekeyed, new
<1> QED BY <1>3, <1>4

LEMMA RowsRepathed ==
    ASSUME NEW f, TableFits(f), NEW M, \A m \in M : IsSeq(m[2])
    PROVE  TableFits(RepathRows(f, M))
<1>1. ASSUME NEW i \in DOMAIN f
      PROVE  DOMAIN RepathRows(f, M)[i] = RowFields /\ IsSeq(RepathRows(f, M)[i].path)
  <2>1. DOMAIN f[i] = RowFields /\ IsSeq(f[i].path)  BY DEF TableFits
  <2>2. CASE \E m \in M : f[i].path = m[1] /\ m[1] # m[2] /\ ~Exists(f, m[2])
    <3> DEFINE m   == CHOOSE m \in M : f[i].path = m[1]
               par == IF Exists(f, ParentPath(m[2]))
                      THEN lookup_by_path(f, ParentPath(m[2])) ELSE f[i].parent
               v   == [f[i] EXCEPT !.path = m[2], !.name = Last(m[2]), !.parent = par]
    <3>1. m \in M  BY <2>2
    <3>2. RepathRows(f, M)[i] = v  BY <2>1, <2>2 DEF RepathRows, RowFields
    <3>3. IsSeq(m[2])  BY <3>1
    <3> HIDE DEF m, par
    <3>4. DOMAIN v = RowFields /\ v.path = m[2]  BY <2>1 DEF RowFields
    <3> QED BY <3>2, <3>3, <3>4
  <2>3. CASE ~ \E m \in M : f[i].path = m[1] /\ m[1] # m[2] /\ ~Exists(f, m[2])
    <3>1. RepathRows(f, M)[i] = f[i]  BY <2>3 DEF RepathRows
    <3> QED BY <2>1, <3>1
  <2> QED BY <2>2, <2>3
<1>2. DOMAIN RepathRows(f, M) = DOMAIN f  BY DEF RepathRows
<1> QED BY <1>1, <1>2 DEF TableFits

(* The row of a file gets a new etag, mtime and storage_mtime.             *)
LEMMA RowUpdated ==
    ASSUME NEW f, TableFits(f), NEW k, NEW e, NEW m
    PROVE  TableFits([i \in DOMAIN f |->
             IF i = k THEN [f[i] EXCEPT !.etag = e, !.mtime = m, !.smtime = m] ELSE f[i]])
<1> DEFINE g == [i \in DOMAIN f |->
             IF i = k THEN [f[i] EXCEPT !.etag = e, !.mtime = m, !.smtime = m] ELSE f[i]]
<1>1. ASSUME NEW i \in DOMAIN f PROVE DOMAIN g[i] = RowFields /\ IsSeq(g[i].path)
  <2> DEFINE v == [f[i] EXCEPT !.etag = e, !.mtime = m, !.smtime = m]
  <2>1. DOMAIN f[i] = RowFields /\ IsSeq(f[i].path)  BY DEF TableFits
  <2>2. DOMAIN v = RowFields /\ v.path = f[i].path  BY <2>1 DEF RowFields
  <2>3. g[i] = IF i = k THEN v ELSE f[i]  OBVIOUS
  <2> HIDE DEF v
  <2> QED BY <2>1, <2>2, <2>3
<1>2. DOMAIN g = DOMAIN f  OBVIOUS
<1> HIDE DEF g
<1>3. TableFits(g)  BY <1>1, <1>2 DEF TableFits
<1> QED BY <1>3 DEF g
-----------------------------------------------------------------------------
LEMMA FileOnDisk ==
    ASSUME NEW d, DiskFits(d), NEW p, IsSeq(p), NEW v
    PROVE  DiskFits(InsertRow(d, p, v))
BY DEF DiskFits, InsertRow

LEMMA DirsOnDisk ==
    ASSUME NEW d, DiskFits(d), NEW p, IsSeq(p)
    PROVE  DiskFits(WithDirs(d, p))
<1>1. Len(p) \in Nat  BY SeqFacts
<1>2. \A k \in 1..Len(p) : IsSeq(SubSeq(p, 1, k))  BY <1>1, Part
<1>3. DOMAIN WithDirs(d, p) = DOMAIN d \cup {SubSeq(p, 1, k) : k \in 1..Len(p)}
  BY DEF WithDirs
<1> QED BY <1>2, <1>3 DEF DiskFits

LEMMA DiskRenamed ==
    ASSUME DiskFits(disk), NEW from, IsSeq(from), NEW to, IsSeq(to)
    PROVE  DiskFits(RenameOnDisk(from, to))
<1>1. \A x \in Subtree(from) : IsSeq(Rebase(x, from, to))
  BY RebasedPath DEF Subtree, DiskFits
<1>2. DOMAIN RenameOnDisk(from, to) \subseteq DOMAIN disk \cup {Rebase(x, from, to) : x \in Subtree(from)}
  BY DEF RenameOnDisk
<1> QED BY <1>1, <1>2 DEF DiskFits

LEMMA DiskDeleted == ASSUME NEW d, DiskFits(d), NEW S PROVE DiskFits(DeleteRows(d, S))
BY DEF DiskFits, DeleteRows, Restrict
-----------------------------------------------------------------------------
LEMMA AtHead ==
    ASSUME WellFormed, NEW r \in Reqs, NEW k, At(r, k)
    PROVE  /\ Active(r) /\ StepFits(req[r].op, Arg(r)) /\ OpFits(req[r].op)
           /\ Arg(r).k = k /\ Belongs(req[r].op, k)
           /\ IsSeq(Arg(r).p) /\ IsSeq(Arg(r).q) /\ \A y \in Arg(r).s : IsSeq(y)
           /\ DOMAIN req[r] = DOMAIN Idle /\ "op" \in DOMAIN req[r]
<1>1. RequestFits(req[r])  BY DEF WellFormed
<1>2. Active(r) /\ req[r].todo # <<>> /\ Arg(r) = Head(req[r].todo) /\ Arg(r).k = k
  BY DEF At, Active, Arg
<1>3. StepFits(req[r].op, Arg(r))  BY <1>1, <1>2, TailFits DEF RequestFits
<1>4. "op" \in DOMAIN Idle  BY DEF Idle
<1> QED BY <1>1, <1>2, <1>3, <1>4 DEF RequestFits, StepFits

LEMMA FilesUntouched ==
    ASSUME WellFormed, NEW r \in Reqs, RunsAlone(r), UNCHANGED <<fc, disk, nextEtag>>
    PROVE  Kept(r)
<1>1. nextEtag \in Nat  BY DEF WellFormed
<1> QED BY <1>1 DEF Kept, WellFormed, Stamped

(* What the requests of the DAV write path themselves may call for.        *)
LEMMA DavStep ==
    ASSUME NEW op, op.kind \notin UploadOps
    PROVE  \A k : k \notin UploadSteps => Belongs(op, k)
BY DEF Belongs

LEMMA NewEtags == ASSUME WellFormed, NEW n \in Nat, NEW m, Touch(n, m) PROVE Stamped
BY DEF WellFormed, Touch, Stamped

LEMMA SameEtags == ASSUME WellFormed, nextEtag' = nextEtag PROVE Stamped
BY DEF WellFormed, Stamped

(* The steps that the handlers of uploads share with the others.           *)
LEMMA SharedEffects ==
    ASSUME WellFormed, NEW r \in Reqs, propagate_change(r) \/ LazyDirRow(r) \/ Respond(r)
    PROVE  /\ TableFits(fc') /\ DiskFits(disk') /\ Stamped
           /\ \E k \in {"prop", "lazy", "done"} : At(r, k)
           /\ Next1(r) \/ Advance(r, <<>>, [req[r] EXCEPT !.resp = "ok"])
<1> DEFINE a == Arg(r)
<1>t. TableFits(fc) /\ DiskFits(disk)  BY DEF WellFormed
<1>1. CASE propagate_change(r)
  <2>1. At(r, "prop") /\ Next1(r) /\ Touch(1, 0) /\ disk' = disk /\ fc' = PropagateEtag(fc, a.p, nextEtag)
    BY <1>1 DEF propagate_change
  <2>2. Stamped  BY <2>1, NewEtags
  <2> QED BY <1>t, <2>1, <2>2, RowsStamped
<1>2. CASE LazyDirRow(r)
  <2>1. At(r, "lazy") /\ Next1(r) /\ disk' = disk  BY <1>2 DEF LazyDirRow
  <2>2. IsSeq(a.p)  BY <2>1, AtHead
  <2>3. CASE Exists(fc, a.p)
    <3>1. UNCHANGED <<fc, nextEtag>>  BY <1>2, <2>3 DEF LazyDirRow
    <3> QED BY <1>t, <2>1, <3>1, SameEtags
  <2>4. CASE ~Exists(fc, a.p)
    <3> DEFINE par == IF Exists(fc, Root) THEN lookup_by_path(fc, Root) ELSE -1
    <3>1. fc' = InsertRow(fc, nextId, DirRow(a.p, par, nextEtag, clock)) /\ Touch(1, 1)
      BY <1>2, <2>4 DEF LazyDirRow
    <3>2. TableFits(fc')  BY <1>t, <2>2, <3>1, NewDirRow, RowInserted
    <3>3. Stamped  BY <3>1, NewEtags
    <3> QED BY <1>t, <2>1, <3>2, <3>3
  <2> QED BY <2>3, <2>4
<1>3. CASE Respond(r)
  <2>1. /\ At(r, "done") /\ Advance(r, <<>>, [req[r] EXCEPT !.resp = "ok"])
        /\ UNCHANGED <<fc, disk, nextEtag>>
    BY <1>3 DEF Respond
  <2> QED BY <1>t, <2>1, SameEtags
<1> QED BY <1>1, <1>2, <1>3

LEMMA SharedStepKeeps ==
    ASSUME WellFormed, NEW r \in Reqs, req[r].op.kind \notin UploadOps, SharedStep(r)
    PROVE  Kept(r)
<1> DEFINE op == req[r].op
           a  == Arg(r)
<1>f. \A k : k \notin UploadSteps => Belongs(op, k)  BY DavStep
<1>t. TableFits(fc) /\ DiskFits(disk)  BY DEF WellFormed
<1>1. CASE propagate_change(r) \/ LazyDirRow(r) \/ Respond(r)
  <2> DEFINE l == [req[r] EXCEPT !.resp = "ok"]
  <2>1. /\ TableFits(fc') /\ DiskFits(disk') /\ Stamped
        /\ Next1(r) \/ Advance(r, <<>>, l)
    BY <1>1, SharedEffects
  <2>2. \E k : At(r, k)  BY <1>1, SharedEffects
  <2>3. Active(r) /\ DOMAIN req[r] = DOMAIN Idle /\ "op" \in DOMAIN req[r]  BY <2>2, AtHead
  <2>4. DOMAIN l = DOMAIN Idle /\ l.op = op  BY <2>3
  <2> HIDE DEF op, l
  <2>5. RunsAlone(r)  BY <2>1, <2>3, <2>4, NoSteps, Going, Advancing DEF op
  <2> QED BY <2>1, <2>5 DEF Kept
<1>2. CASE PropagateEach(r)
  <2>1. At(r, "props") /\ UNCHANGED <<fc, disk, nextEtag>>  BY <1>2 DEF PropagateEach
  <2>2. CASE a.s = {}
    <3>1. Next1(r)  BY <1>2, <2>2 DEF PropagateEach
    <3> QED BY <2>1, <3>1, AtHead, Going, FilesUntouched
  <2>3. CASE a.s # {}
    <3>1. PICK p \in a.s : Advance(r, <<Prop(p, 0), [a EXCEPT !.s = @ \ {p}]>>, req[r])
      BY <1>2, <2>3 DEF PropagateEach
    <3>2. /\ a = Step(a.k, a.p, a.q, a.n, a.s) /\ a.k = "props" /\ IsSeq(a.p) /\ IsSeq(a.q)
          /\ \A y \in a.s : IsSeq(y)
      BY <2>1, AtHead DEF StepFits
    <3>3. [a EXCEPT !.s = @ \ {p}] = Step("props", a.p, a.q, a.n, a.s \ {p})
      BY <3>2 DEF Step
    <3>4. Belongs(op, "props") /\ Belongs(op, "prop")  BY <1>f DEF UploadSteps
    <3>5. StepFits(op, Step("props", a.p, a.q, a.n, a.s \ {p}))  BY <3>2, <3>4, SomeStep
    <3>6. StepFits(op, Prop(p, 0))  BY <3>2, <3>4, RootIsSeq, SomeStep DEF Prop
    <3>7. TodoFits(op, <<Prop(p, 0), [a EXCEPT !.s = @ \ {p}]>>)  BY <3>3, <3>5, <3>6, TwoSteps
    <3>8. Active(r) /\ DOMAIN req[r] = DOMAIN Idle  BY <2>1, AtHead
    <3> HIDE DEF op, a
    <3> QED BY <2>1, <3>1, <3>7, <3>8, Advancing, FilesUntouched DEF op
  <2> QED BY <2>2, <2>3
<1>3. CASE RecomputeLookup(r)
  <2>1. At(r, "size") /\ UNCHANGED <<fc, disk, nextEtag>>  BY <1>3 DEF RecomputeLookup
  <2>2. CASE Exists(fc, a.p)
    <3> DEFINE i == lookup_by_path(fc, a.p)
               l == [req[r] EXCEPT !.cid = i, !.csize = size[i]]
    <3>1. Advance(r, <<Do("sum")>>, l)  BY <1>3, <2>2 DEF RecomputeLookup
    <3>2. Active(r) /\ DOMAIN l = DOMAIN Idle /\ l.op = op  BY <2>1, AtHead
    <3>3. TodoFits(op, <<Do("sum")>>)  BY <1>f, PlainStep, OneStep DEF UploadSteps
    <3> HIDE DEF op, l
    <3> QED BY <2>1, <3>1, <3>2, <3>3, Advancing, FilesUntouched DEF op
  <2>3. CASE ~Exists(fc, a.p)
    <3>1. Next1(r)  BY <1>3, <2>3 DEF RecomputeLookup
    <3> QED BY <2>1, <3>1, AtHead, Going, FilesUntouched
  <2> QED BY <2>2, <2>3
<1>4. CASE RecomputeSum(r)
  <2> DEFINE new == FolderSize(fc, size, req[r].cid)
             l == [req[r] EXCEPT !.cnew = new]
  <2>1. At(r, "sum") /\ UNCHANGED <<fc, disk, nextEtag>>  BY <1>4 DEF RecomputeSum
  <2>2. CASE new = req[r].csize
    <3>1. Next1(r)  BY <1>4, <2>2 DEF RecomputeSum
    <3> QED BY <2>1, <3>1, AtHead, Going, FilesUntouched
  <2>3. CASE new # req[r].csize
    <3>1. Advance(r, <<Do("setsize")>>, l)  BY <1>4, <2>3 DEF RecomputeSum
    <3>2. Active(r) /\ DOMAIN l = DOMAIN Idle /\ l.op = op  BY <2>1, AtHead
    <3>3. TodoFits(op, <<Do("setsize")>>)  BY <1>f, PlainStep, OneStep DEF UploadSteps
    <3> HIDE DEF op, l
    <3> QED BY <2>1, <3>1, <3>2, <3>3, Advancing, FilesUntouched DEF op
  <2> QED BY <2>2, <2>3
<1>5. CASE RecomputeUpdate(r)
  <2>1. At(r, "setsize") /\ Next1(r) /\ UNCHANGED <<fc, disk, nextEtag>>  BY <1>5 DEF RecomputeUpdate
  <2> QED BY <2>1, AtHead, Going, FilesUntouched
<1>6. CASE EnsureFast(r)
  <2>1. At(r, "ensure") /\ UNCHANGED <<fc, disk, nextEtag>>  BY <1>6 DEF EnsureFast
  <2>2. Active(r) /\ IsSeq(a.p) /\ DOMAIN req[r] = DOMAIN Idle /\ "op" \in DOMAIN req[r]  BY <2>1, AtHead
  <2>3. CASE Exists(fc, a.p)
    <3> DEFINE l == [req[r] EXCEPT !.pid = lookup_by_path(fc, a.p)]
    <3>1. Advance(r, <<>>, l)  BY <1>6, <2>3 DEF EnsureFast
    <3>2. DOMAIN l = DOMAIN Idle /\ l.op = op  BY <2>2
    <3> HIDE DEF op, l
    <3> QED BY <2>1, <2>2, <3>1, <3>2, NoSteps, Advancing, FilesUntouched DEF op
  <2>4. CASE ~Exists(fc, a.p)
    <3> DEFINE more == [k \in 1..Len(a.p) |-> DoAt("segment", SubSeq(a.p, 1, k))]
    <3>1. Advance(r, more, req[r])  BY <1>6, <2>4 DEF EnsureFast
    <3>2. Belongs(op, "segment") /\ Len(a.p) \in Nat  BY <1>f, <2>2, SeqFacts DEF UploadSteps
    <3>3. TodoFits(op, more)  BY <3>2, SegmentsFit
    <3> HIDE DEF op, more
    <3> QED BY <2>1, <2>2, <3>1, <3>3, Advancing, FilesUntouched DEF op
  <2> QED BY <2>3, <2>4
<1>7. CASE EnsureLookup(r)
  <2>1. At(r, "segment") /\ UNCHANGED <<fc, disk, nextEtag>>  BY <1>7 DEF EnsureLookup
  <2>2. Active(r) /\ IsSeq(a.p) /\ DOMAIN req[r] = DOMAIN Idle /\ "op" \in DOMAIN req[r]  BY <2>1, AtHead
  <2>3. CASE Exists(fc, a.p)
    <3> DEFINE l == [req[r] EXCEPT !.pid = lookup_by_path(fc, a.p)]
    <3>1. Advance(r, <<>>, l)  BY <1>7, <2>3 DEF EnsureLookup
    <3>2. DOMAIN l = DOMAIN Idle /\ l.op = op  BY <2>2
    <3> HIDE DEF op, l
    <3> QED BY <2>1, <2>2, <3>1, <3>2, NoSteps, Advancing, FilesUntouched DEF op
  <2>4. CASE ~Exists(fc, a.p)
    <3> DEFINE l == [req[r] EXCEPT !.pid = IF Len(a.p) = 1 /\ Exists(fc, FilesPath)
                                           THEN fc[lookup_by_path(fc, FilesPath)].parent ELSE @]
    <3>1. Advance(r, <<DoAt("mkseg", a.p)>>, l)  BY <1>7, <2>4 DEF EnsureLookup
    <3>2. DOMAIN l = DOMAIN Idle /\ l.op = op  BY <2>2
    <3>3. TodoFits(op, <<DoAt("mkseg", a.p)>>)  BY <1>f, <2>2, StepAt, OneStep DEF UploadSteps
    <3> HIDE DEF op, l
    <3> QED BY <2>1, <2>2, <3>1, <3>2, <3>3, Advancing, FilesUntouched DEF op
  <2> QED BY <2>3, <2>4
<1>8. CASE EnsureInsert(r)
  <2>1. At(r, "mkseg") /\ disk' = WithDirs(disk, a.p)  BY <1>8 DEF EnsureInsert
  <2>2. Active(r) /\ IsSeq(a.p) /\ DOMAIN req[r] = DOMAIN Idle /\ "op" \in DOMAIN req[r]  BY <2>1, AtHead
  <2>3. DiskFits(disk')  BY <1>t, <2>1, <2>2, DirsOnDisk
  <2>4. CASE Exists(fc, a.p)
    <3> DEFINE l == [req[r] EXCEPT !.pid = lookup_by_path(fc, a.p)]
    <3>1. Advance(r, <<>>, l) /\ UNCHANGED <<fc, nextEtag>>  BY <1>8, <2>4 DEF EnsureInsert
    <3>2. DOMAIN l = DOMAIN Idle /\ l.op = op  BY <2>2
    <3>3. Stamped  BY <3>1 DEF Stamped, WellFormed
    <3> HIDE DEF op, l
    <3> QED BY <1>t, <2>2, <2>3, <3>1, <3>2, <3>3, NoSteps, Advancing DEF op, Kept
  <2>5. CASE ~Exists(fc, a.p)
    <3> DEFINE l == [req[r] EXCEPT !.pid = nextId]
               row == DirRow(a.p, req[r].pid, nextEtag, clock)
    <3>1. /\ Advance(r, <<Prop(a.p, 0)>>, l) /\ Touch(1, 1)
          /\ fc' = InsertRow(fc, nextId, row)
      BY <1>8, <2>5 DEF EnsureInsert
    <3>2. DOMAIN l = DOMAIN Idle /\ l.op = op  BY <2>2
    <3>3. Stamped  BY <3>1, NewEtags
    <3>4. TableFits(fc')  BY <1>t, <2>2, <3>1, NewDirRow, RowInserted
    <3>5. Belongs(op, "prop")  BY <1>f DEF UploadSteps
    <3>6. TodoFits(op, <<Prop(a.p, 0)>>)  BY <2>2, <3>5, RootIsSeq, SomeStep, OneStep DEF Prop
    <3> HIDE DEF op, l
    <3> QED BY <2>2, <2>3, <3>1, <3>2, <3>3, <3>4, <3>6, Advancing DEF op, Kept
  <2> QED BY <2>4, <2>5
<1> QED BY <1>1, <1>2, <1>3, <1>4, <1>5, <1>6, <1>7, <1>8 DEF SharedStep
-----------------------------------------------------------------------------
LEMMA LeastOf ==
    ASSUME NEW T, T \subseteq Nat, T # {}
    PROVE  \E x \in T : \A y \in T : x <= y
<1> DEFINE R == OpToRel(<, Nat)
<1>1. IsWellFoundedOn(R, Nat)  BY NatLessThanWellFounded
<1>2. \A x, y \in Nat : y < x => <<y, x>> \in R  BY DEF R, OpToRel
<1> HIDE DEF R
<1>3. PICK x \in T : \A y \in T : ~(<<y, x>> \in R)  BY <1>1, WFMin
<1>4. \A y \in T : ~(y < x)  BY <1>2, <1>3
<1> QED BY <1>3, <1>4

LEMMA SkipFits ==
    ASSUME NEW op, NEW t, TodoFits(op, t), NEW K
    PROVE  TodoFits(op, SkipTo(t, K))
<1> DEFINE First(i) == /\ i <= Len(t) => t[i].k \in K
                       /\ \A j \in 1..(i - 1) : t[j].k \notin K
           T == {i \in 1..(Len(t) + 1) : i <= Len(t) => t[i].k \in K}
           i == CHOOSE i \in 1..(Len(t) + 1) : First(i)
<1>1. IsSeq(t) /\ Len(t) \in Nat  BY SeqFacts DEF TodoFits
<1>2. \E x \in T : \A y \in T : x <= y
  <2>1. T \subseteq Nat /\ Len(t) + 1 \in T  BY <1>1
  <2> HIDE DEF T
  <2> QED BY <2>1, LeastOf
<1>3. \E x \in 1..(Len(t) + 1) : First(x)
  <2>1. PICK x \in T : \A y \in T : x <= y  BY <1>2
  <2>2. ASSUME NEW j \in 1..(x - 1) PROVE t[j].k \notin K
    <3>1. j \in 1..(Len(t) + 1) /\ j <= Len(t) /\ ~(x <= j)  BY <1>1, <2>1
    <3> QED BY <2>1, <3>1
  <2> QED BY <2>1, <2>2
<1>4. i \in 1..(Len(t) + 1)
  <2> HIDE DEF First
  <2> QED BY <1>3
<1>5. SkipTo(t, K) = SubSeq(t, i, Len(t))  BY DEF SkipTo
<1> HIDE DEF i, First
<1> DEFINE u == SubSeq(t, i, Len(t))
<1>6. i \in Nat /\ i > 0 /\ i <= Len(t) + 1  BY <1>1, <1>4
<1>7. /\ IsSeq(u) /\ Len(u) = IF i <= Len(t) THEN Len(t) - i + 1 ELSE 0
      /\ \A j \in 1..(Len(t) - i + 1) : u[j] = t[i + j - 1]
  BY <1>1, <1>6, Part
<1> HIDE DEF u
<1>8. ASSUME NEW j \in 1..Len(u) PROVE StepFits(op, u[j])
  <2>1. j \in 1..(Len(t) - i + 1) /\ i + j - 1 \in 1..Len(t)  BY <1>1, <1>6, <1>7
  <2> QED BY <1>7, <2>1 DEF TodoFits
<1> QED BY <1>5, <1>7, <1>8 DEF TodoFits, u

LEMMA GivingUp ==
    ASSUME WellFormed, NEW r \in Reqs, NEW K, GiveUp(r, K)
    PROVE  RunsAlone(r)
<1> DEFINE t == SkipTo(req[r].todo, K)
<1>1. DOMAIN req = Reqs /\ RequestFits(req[r])  BY DEF WellFormed
<1>2. TodoFits(req[r].op, t)  BY <1>1, SkipFits DEF RequestFits
<1>3. req' = [req EXCEPT ![r] = [req[r] EXCEPT !.todo = t]]  BY <1>1 DEF GiveUp
<1> HIDE DEF t
<1>4. "todo" \in DOMAIN Idle /\ "op" \in DOMAIN Idle  BY DEF Idle
<1>5. req'[r] = [req[r] EXCEPT !.todo = t] /\ DOMAIN req' = Reqs /\ \A s \in Reqs \ {r} : req'[s] = req[s]
  BY <1>1, <1>3
<1>6. DOMAIN req'[r] = DOMAIN Idle /\ req'[r].op = req[r].op /\ req'[r].todo = t
  BY <1>1, <1>4, <1>5 DEF RequestFits
<1>7. RequestFits(req'[r])  BY <1>1, <1>2, <1>6 DEF RequestFits
<1> QED BY <1>5, <1>6, <1>7 DEF RunsAlone

(* The whole of a step that advances.                                      *)
LEMMA Stepping ==
    ASSUME WellFormed, NEW r \in Reqs, NEW k, At(r, k), NEW more, TodoFits(req[r].op, more),
           NEW l, DOMAIN l = DOMAIN Idle, l.op = req[r].op, Advance(r, more, l),
           TableFits(fc'), DiskFits(disk'), Stamped
    PROVE  Kept(r)
<1>1. Active(r)  BY AtHead
<1>2. RunsAlone(r)  BY <1>1, Advancing
<1> QED BY <1>2 DEF Kept

LEMMA SteppingOn ==
    ASSUME WellFormed, NEW r \in Reqs, NEW k, At(r, k), Next1(r),
           TableFits(fc'), DiskFits(disk'), Stamped
    PROVE  Kept(r)
<1>1. Active(r)  BY AtHead
<1> QED BY <1>1, Going DEF Kept

LEMMA FoundRowIn == ASSUME NEW f, NEW p, Exists(f, p) PROVE lookup_by_path(f, p) \in DOMAIN f
BY DEF Exists, Ids, lookup_by_path
-----------------------------------------------------------------------------
LEMMA PropStep ==
    ASSUME NEW op, op.kind \notin UploadOps, NEW p, IsSeq(p), NEW n
    PROVE  StepFits(op, Prop(p, n))
<1>1. Belongs(op, "prop")  BY DEF Belongs, UploadSteps
<1> QED BY <1>1, RootIsSeq, SomeStep DEF Prop

LEMMA StoreVersionKeeps ==
    ASSUME WellFormed, NEW r \in Reqs, req[r].op.kind \notin UploadOps, StoreVersion(r)
    PROVE  Kept(r)
<1> DEFINE op == req[r].op
           p  == Arg(r).p
           vp == VersionPath(p, req[r].row.mtime)
           d  == WithDirs(disk, ParentPath(vp))
<1>f. \A k : k \notin UploadSteps => Belongs(op, k)  BY DavStep
<1>1. At(r, "version") /\ fc' = fc /\ nextEtag' = nextEtag  BY DEF StoreVersion
<1>2. TableFits(fc') /\ Stamped /\ DiskFits(disk)  BY <1>1, SameEtags DEF WellFormed
<1>3. IsSeq(p) /\ DOMAIN req[r] = DOMAIN Idle  BY <1>1, AtHead
<1>4. IsSeq(vp) /\ Len(vp) > 1 /\ Len(vp) \in Nat  BY <1>3, DerivedPaths, SeqFacts
<1>5. DiskFits(d)
  <2>1. IsSeq(ParentPath(vp))  BY <1>4, DerivedPaths
  <2> QED BY <1>2, <2>1, DirsOnDisk
<1>6. CASE req[r].row.size = 0 \/ req[r].row.dir
  <2>1. Next1(r) /\ disk' = disk  BY <1>6 DEF StoreVersion
  <2> QED BY <1>1, <1>2, <2>1, SteppingOn
<1>7. CASE ~(req[r].row.size = 0 \/ req[r].row.dir) /\ ~OnDisk(p)
  <2>1. Next1(r) /\ disk' = d  BY <1>7 DEF StoreVersion
  <2> QED BY <1>1, <1>2, <1>5, <2>1, SteppingOn
<1>8. CASE ~(req[r].row.size = 0 \/ req[r].row.dir) /\ OnDisk(p)
  <2> DEFINE walk == [k \in 1..(Len(vp) - 1) |-> DoAt("vsegment", SubSeq(vp, 1, k))]
             more == walk \o <<DoAt("vrow", vp), Prop(vp, 0)>> \o SizeChain(vp)
  <2>1. /\ disk' = InsertRow(d, vp, [dir |-> FALSE, size |-> disk[p].size, mtime |-> clock])
        /\ Advance(r, more, req[r])
    BY <1>8 DEF StoreVersion
  <2>2. DiskFits(disk')  BY <1>4, <1>5, <2>1, FileOnDisk
  <2>3. TodoFits(op, walk)
    <3>1. Belongs(op, "vsegment") /\ Len(vp) - 1 \in Nat  BY <1>f, <1>4 DEF UploadSteps
    <3> HIDE DEF vp, op
    <3> QED BY <3>1, SegmentsFit
  <2>4. TodoFits(op, <<DoAt("vrow", vp), Prop(vp, 0)>>)
    <3>1. Belongs(op, "vrow")  BY <1>f DEF UploadSteps
    <3>2. StepFits(op, DoAt("vrow", vp))  BY <1>4, <3>1, StepAt
    <3>3. StepFits(op, Prop(vp, 0))  BY <1>4, PropStep
    <3> QED BY <3>2, <3>3, TwoSteps
  <2>5. TodoFits(op, SizeChain(vp))  BY <1>4, ChainFits
  <2> HIDE DEF walk
  <2>6. TodoFits(op, more)
    <3>1. TodoFits(op, walk \o <<DoAt("vrow", vp), Prop(vp, 0)>>)  BY <2>3, <2>4, BothFit
    <3> QED BY <2>5, <3>1, BothFit
  <2> HIDE DEF more, op, vp
  <2> QED BY <1>1, <1>2, <1>3, <2>1, <2>2, <2>6, Stepping DEF op
<1> QED BY <1>6, <1>7, <1>8

LEMMA VersionParentKeeps ==
    ASSUME WellFormed, NEW r \in Reqs, req[r].op.kind \notin UploadOps,
           VersionParentLookup(r) \/ VersionParentInsert(r)
    PROVE  Kept(r)
<1> DEFINE op == req[r].op
           p  == Arg(r).p
<1>f. \A k : k \notin UploadSteps => Belongs(op, k)  BY DavStep
<1>t. TableFits(fc) /\ DiskFits(disk)  BY DEF WellFormed
<1>1. CASE VersionParentLookup(r)
  <2>1. At(r, "vsegment") /\ UNCHANGED <<fc, disk, nextEtag>>  BY <1>1 DEF VersionParentLookup
  <2>2. IsSeq(p) /\ DOMAIN req[r] = DOMAIN Idle  BY <2>1, AtHead
  <2>3. TableFits(fc') /\ DiskFits(disk') /\ Stamped  BY <1>t, <2>1, SameEtags
  <2>4. CASE Exists(fc, p)
    <3>1. Next1(r)  BY <1>1, <2>4 DEF VersionParentLookup
    <3> QED BY <2>1, <2>3, <3>1, SteppingOn
  <2>5. CASE ~Exists(fc, p)
    <3>1. Advance(r, <<DoAt("vmkseg", p)>>, req[r])  BY <1>1, <2>5 DEF VersionParentLookup
    <3>2. Belongs(op, "vmkseg")  BY <1>f DEF UploadSteps
    <3>3. TodoFits(op, <<DoAt("vmkseg", p)>>)  BY <2>2, <3>2, StepAt, OneStep
    <3> HIDE DEF op, p
    <3> QED BY <2>1, <2>2, <2>3, <3>1, <3>3, Stepping DEF op
  <2> QED BY <2>4, <2>5
<1>2. CASE VersionParentInsert(r)
  <2> DEFINE top == Len(p) = 1
             anchor == IF top THEN FilesPath ELSE ParentPath(p)
             at  == lookup_by_path(fc, anchor)
             row == DirRow(p, IF top THEN fc[at].parent ELSE at, nextEtag, clock)
  <2>1. At(r, "vmkseg") /\ disk' = disk  BY <1>2 DEF VersionParentInsert
  <2>2. IsSeq(p) /\ DOMAIN req[r] = DOMAIN Idle  BY <2>1, AtHead
  <2>3. CASE Exists(fc, p) \/ ~Exists(fc, anchor)
    <3>1. GiveUp(r, {"quota", "bulkwrite"}) /\ UNCHANGED <<fc, nextEtag>>
      BY <1>2, <2>3 DEF VersionParentInsert
    <3>2. RunsAlone(r)  BY <3>1, GivingUp
    <3> QED BY <2>1, <3>1, <3>2, FilesUntouched
  <2>4. CASE ~(Exists(fc, p) \/ ~Exists(fc, anchor))
    <3>1. fc' = InsertRow(fc, nextId, row) /\ Touch(1, 1) /\ Advance(r, <<Prop(p, 0)>>, req[r])
      BY <1>2, <2>4 DEF VersionParentInsert
    <3>2. DOMAIN row = RowFields /\ IsSeq(row.path)  BY <2>2, NewDirRow
    <3> HIDE DEF row
    <3>3. TableFits(fc')  BY <1>t, <3>1, <3>2, RowInserted
    <3>4. TodoFits(op, <<Prop(p, 0)>>)  BY <2>2, PropStep, OneStep
    <3>5. Stamped /\ DiskFits(disk')  BY <1>t, <2>1, <3>1, NewEtags
    <3> HIDE DEF op, p
    <3> QED BY <2>1, <2>2, <3>1, <3>3, <3>4, <3>5, Stepping DEF op
  <2> QED BY <2>3, <2>4
<1> QED BY <1>1, <1>2

LEMMA InsertVersionRowKeeps ==
    ASSUME WellFormed, NEW r \in Reqs, req[r].op.kind \notin UploadOps, InsertVersionRow(r)
    PROVE  Kept(r)
<1> DEFINE vp == Arg(r).p
           row == [path |-> vp, name |-> Last(vp),
                   parent |-> lookup_by_path(fc, ParentPath(vp)), dir |-> FALSE,
                   etag |-> req[r].row.etag, mtime |-> req[r].row.mtime, smtime |-> clock]
<1>1. At(r, "vrow") /\ Next1(r) /\ disk' = disk  BY DEF InsertVersionRow
<1>2. IsSeq(vp)  BY <1>1, AtHead
<1>3. TableFits(fc) /\ DiskFits(disk')  BY <1>1 DEF WellFormed
<1>4. CASE Exists(fc, vp) \/ ~Exists(fc, ParentPath(vp))
  <2>1. fc' = fc /\ nextEtag' = nextEtag  BY <1>4 DEF InsertVersionRow
  <2> QED BY <1>1, <1>3, <2>1, SameEtags, SteppingOn
<1>5. CASE ~(Exists(fc, vp) \/ ~Exists(fc, ParentPath(vp)))
  <2>1. fc' = InsertRow(fc, nextId, row) /\ Touch(0, 1)  BY <1>5 DEF InsertVersionRow
  <2>2. DOMAIN row = RowFields /\ IsSeq(row.path)  BY <1>2 DEF RowFields
  <2> HIDE DEF row
  <2>3. TableFits(fc') /\ Stamped  BY <1>3, <2>1, <2>2, RowInserted, NewEtags
  <2> QED BY <1>1, <1>3, <2>3, SteppingOn
<1> QED BY <1>4, <1>5

LEMMA RenameVersionsKeeps ==
    ASSUME WellFormed, NEW r \in Reqs, req[r].op.kind \notin UploadOps, RenameVersionsDisk(r)
    PROVE  Kept(r)
<1> DEFINE op == req[r].op
           from == Arg(r).p
           to   == Arg(r).q
           old  == VersionBase(from)
           new  == VersionBase(to)
           vs   == VersionsOnDisk(from)
           d    == WithDirs(disk, ParentPath(new))
<1>1. At(r, "vrename") /\ fc' = fc /\ nextEtag' = nextEtag  BY DEF RenameVersionsDisk
<1>2. TableFits(fc') /\ Stamped /\ DiskFits(disk)  BY <1>1, SameEtags DEF WellFormed
<1>3. IsSeq(from) /\ IsSeq(to) /\ DOMAIN req[r] = DOMAIN Idle  BY <1>1, AtHead
<1>4. IsSeq(old) /\ IsSeq(new) /\ IsSeq(ParentPath(new))
  BY <1>3, DerivedPaths
<1>5. DiskFits(d)  BY <1>2, <1>4, DirsOnDisk
<1>6. \A k : k \notin UploadSteps => Belongs(op, k)  BY DavStep
<1> HIDE DEF old, new, d
<1>7. CASE IsVersionDir(from)
  <2> DEFINE D == (DOMAIN d \ Subtree(old)) \cup {Rebase(x, old, new) : x \in Subtree(old)}
             e == [q \in D |-> IF q = new \/ Under(q, new) THEN disk[Rebase(q, new, old)] ELSE d[q]]
  <2>1. /\ disk' = IF ~Replaceable(old, new) THEN d ELSE e
        /\ Advance(r, <<Step("vrekey", old, new, 0, {})>>, req[r])
    BY <1>7 DEF RenameVersionsDisk, old, new, d
  <2>2. \A x \in Subtree(old) : IsSeq(Rebase(x, old, new))
    BY <1>2, <1>4, RebasedPath DEF Subtree, DiskFits
  <2>3. DiskFits(e)  BY <1>5, <2>2 DEF DiskFits
  <2> HIDE DEF e
  <2>4. DiskFits(disk')  BY <1>5, <2>1, <2>3
  <2>5. Belongs(op, "vrekey")  BY <1>6 DEF UploadSteps
  <2>6. StepFits(op, Step("vrekey", old, new, 0, {}))  BY <1>4, <2>5, SomeStep
  <2>7. TodoFits(op, <<Step("vrekey", old, new, 0, {})>>)  BY <2>6, OneStep
  <2> HIDE DEF op
  <2> QED BY <1>1, <1>2, <1>3, <2>1, <2>4, <2>7, Stepping DEF op
<1>8. CASE ~IsVersionDir(from) /\ vs = {}
  <2>1. Next1(r) /\ disk' = disk  BY <1>8 DEF RenameVersionsDisk
  <2> QED BY <1>1, <1>2, <2>1, SteppingOn
<1>9. CASE ~IsVersionDir(from) /\ vs # {}
  <2> DEFINE e == [q \in (DOMAIN d \ vs) \cup {VersionAt(x, to) : x \in vs} |->
                      IF \E x \in vs : VersionAt(x, to) = q
                      THEN disk[CHOOSE x \in vs : VersionAt(x, to) = q] ELSE d[q]]
  <2>1. disk' = e /\ Advance(r, <<Step("vrepath", from, to, 0, vs)>>, req[r])
    BY <1>9 DEF RenameVersionsDisk, d, new, old
  <2>2. \A x \in vs : IsSeq(x) /\ IsSeq(VersionAt(x, to))
    BY <1>2, <1>3, DerivedPaths DEF VersionsOnDisk, DiskFits, VersionAt
  <2>3. DiskFits(e)  BY <1>5, <2>2 DEF DiskFits
  <2> HIDE DEF e
  <2>5. Belongs(op, "vrepath")  BY <1>6 DEF UploadSteps
  <2>6. StepFits(op, Step("vrepath", from, to, 0, vs))  BY <1>3, <2>2, <2>5, SomeStep
  <2>7. TodoFits(op, <<Step("vrepath", from, to, 0, vs)>>)  BY <2>6, OneStep
  <2> HIDE DEF op
  <2> QED BY <1>1, <1>2, <1>3, <2>1, <2>3, <2>7, Stepping DEF op
<1> QED BY <1>7, <1>8, <1>9

LEMMA CopyVersionsKeeps ==
    ASSUME WellFormed, NEW r \in Reqs, CopyVersions(r)
    PROVE  Kept(r)
<1> DEFINE from == Arg(r).p
           to   == Arg(r).q
           vs   == VersionsOnDisk(from)
           par  == ParentPath(VersionBase(to))
           d    == IF vs = {} THEN disk ELSE WithDirs(disk, par)
           new  == {x \in vs : /\ Exists(fc, ListedRowPath(x)) /\ Exists(fc, par)
                               /\ ~Exists(fc, VersionAt(x, to))}
           id(x)  == nextId + Cardinality({y \in new : Last(y)[2] < Last(x)[2]})
           src(i) == lookup_by_path(fc, ListedRowPath(CHOOSE x \in new : id(x) = i))
           ids    == {id(x) : x \in new}
           row(i) == LET v == VersionAt(CHOOSE x \in new : id(x) = i, to)
                     IN  [fc[src(i)] EXCEPT !.path = v, !.name = Last(v),
                                            !.parent = lookup_by_path(fc, par)]
<1>1. /\ At(r, "vcopy") /\ Next1(r) /\ Touch(0, Cardinality(new))
      /\ disk' = [q \in DOMAIN d \cup {VersionAt(x, to) : x \in vs} |->
                    IF \E x \in vs : VersionAt(x, to) = q
                    THEN [disk[CHOOSE x \in vs : VersionAt(x, to) = q] EXCEPT !.mtime = clock]
                    ELSE d[q]]
      /\ fc' = [i \in DOMAIN fc \cup ids |-> IF i \in ids THEN row(i) ELSE fc[i]]
  BY DEF CopyVersions
<1>2. TableFits(fc) /\ DiskFits(disk)  BY DEF WellFormed
<1>3. IsSeq(to) /\ IsSeq(par)  BY <1>1, AtHead, DerivedPaths
<1>4. DiskFits(d)  BY <1>2, <1>3, DirsOnDisk
<1>5. \A x : IsSeq(VersionAt(x, to))  BY <1>3, DerivedPaths DEF VersionAt
<1>6. DiskFits(disk')
  <2>1. DOMAIN disk' = DOMAIN d \cup {VersionAt(x, to) : x \in vs}  BY <1>1
  <2> HIDE DEF d, vs
  <2> QED BY <1>4, <1>5, <2>1 DEF DiskFits
<1>7. ASSUME NEW i \in ids PROVE DOMAIN row(i) = RowFields /\ IsSeq(row(i).path)
  <2> DEFINE x == CHOOSE x \in new : id(x) = i
             v == VersionAt(x, to)
             n == lookup_by_path(fc, par)
             s == src(i)
  <2>1. \E y \in new : id(y) = i  OBVIOUS
  <2> HIDE DEF id
  <2>2. x \in new  BY <2>1
  <2>3. Exists(fc, ListedRowPath(x))  BY <2>2
  <2>4. s \in DOMAIN fc  BY <2>3, FoundRowIn
  <2>5. DOMAIN fc[s] = RowFields  BY <1>2, <2>4 DEF TableFits
  <2>6. row(i) = [fc[s] EXCEPT !.path = v, !.name = Last(v), !.parent = n]  OBVIOUS
  <2>7. IsSeq(v)  BY <1>5
  <2> HIDE DEF v, s, n, row
  <2> QED BY <2>5, <2>6, <2>7 DEF RowFields
<1>8. TableFits(fc')
  <2>1. DOMAIN fc' = DOMAIN fc \cup ids  BY <1>1
  <2>2. \A i \in DOMAIN fc' : fc'[i] = IF i \in ids THEN row(i) ELSE fc[i]  BY <1>1
  <2> HIDE DEF ids, row
  <2> QED BY <1>2, <1>7, <2>1, <2>2 DEF TableFits
<1>9. Stamped  BY <1>1, NewEtags
<1> HIDE DEF new
<1> QED BY <1>1, <1>6, <1>8, <1>9, SteppingOn

LEMMA VersionStepKeeps ==
    ASSUME WellFormed, NEW r \in Reqs, req[r].op.kind \notin UploadOps, VersionStep(r)
    PROVE  Kept(r)
<1>t. TableFits(fc) /\ DiskFits(disk)  BY DEF WellFormed
<1>1. CASE RepathVersionRows(r)
  <2> DEFINE M == {<<ListedRowPath(x), VersionAt(x, Arg(r).q)>> : x \in Arg(r).s}
  <2>1. /\ At(r, "vrepath") /\ Next1(r) /\ UNCHANGED <<disk, nextEtag>>
        /\ fc' = RepathRows(fc, M)
    BY <1>1 DEF RepathVersionRows
  <2>2. IsSeq(Arg(r).q)  BY <2>1, AtHead
  <2>3. \A x : IsSeq(VersionAt(x, Arg(r).q))  BY <2>2, DerivedPaths DEF VersionAt
  <2>5. \A m \in M : IsSeq(m[2])  BY <2>3
  <2> HIDE DEF M
  <2>4. TableFits(fc') /\ DiskFits(disk') /\ Stamped  BY <1>t, <2>1, <2>5, RowsRepathed, SameEtags
  <2> QED BY <2>1, <2>4, SteppingOn
<1>2. CASE RepathVersionSubtree(r)
  <2> DEFINE old == Arg(r).p
             new == Arg(r).q
  <2>1. /\ At(r, "vrekey") /\ Next1(r) /\ UNCHANGED <<disk, nextEtag>>
        /\ fc' = RepathRows(Rekeyed(fc, old, new), {<<old, new>>})
    BY <1>2 DEF RepathVersionSubtree
  <2>2. IsSeq(old) /\ IsSeq(new)  BY <2>1, AtHead
  <2>3. TableFits(Rekeyed(fc, old, new))  BY <1>t, <2>2, RowsRekeyed
  <2>4. \A m \in {<<old, new>>} : IsSeq(m[2])  BY <2>2
  <2>5. TableFits(fc') /\ DiskFits(disk') /\ Stamped
    BY <1>t, <2>1, <2>3, <2>4, RowsRepathed, SameEtags
  <2> QED BY <2>1, <2>5, SteppingOn
<1>3. CASE SyncVersionEntities(r)
  <2>1. At(r, "vsync") /\ Next1(r) /\ UNCHANGED <<fc, disk, nextEtag>>  BY <1>3 DEF SyncVersionEntities
  <2>2. TableFits(fc') /\ DiskFits(disk') /\ Stamped  BY <1>t, <2>1, SameEtags
  <2> QED BY <2>1, <2>2, SteppingOn
<1> QED BY <1>1, <1>2, <1>3, StoreVersionKeeps, VersionParentKeeps, InsertVersionRowKeeps,
           RenameVersionsKeeps, CopyVersionsKeeps DEF VersionStep
-----------------------------------------------------------------------------
LEMMA Calling ==
    ASSUME WellFormed, NEW r \in Reqs, NEW k, At(r, k), NEW more, TodoFits(req[r].op, more),
           NEW l, DOMAIN l = DOMAIN Idle, l.op = req[r].op, Advance(r, more, l),
           UNCHANGED <<fc, disk, nextEtag>>
    PROVE  Kept(r)
<1>1. TableFits(fc') /\ DiskFits(disk') /\ Stamped  BY SameEtags DEF WellFormed
<1> QED BY <1>1, Stepping

LEMMA Passing ==
    ASSUME WellFormed, NEW r \in Reqs, NEW k, At(r, k), Next1(r), UNCHANGED <<fc, disk, nextEtag>>
    PROVE  Kept(r)
<1>1. TableFits(fc') /\ DiskFits(disk') /\ Stamped  BY SameEtags DEF WellFormed
<1> QED BY <1>1, SteppingOn

LEMMA Refusing ==
    ASSUME WellFormed, NEW r \in Reqs, NEW st, Fail(r, st), UNCHANGED <<fc, disk, nextEtag>>
    PROVE  Kept(r)
BY Failing, FilesUntouched

LEMMA PutStepKeeps ==
    ASSUME WellFormed, NEW r \in Reqs, req[r].op.kind \notin UploadOps, PutStep(r)
    PROVE  Kept(r)
<1> DEFINE op == req[r].op
           p  == req[r].op.path
<1>f. \A k : k \notin UploadSteps => Belongs(op, k)  BY DavStep
<1>t. TableFits(fc) /\ DiskFits(disk) /\ DOMAIN req[r] = DOMAIN Idle /\ OpFits(op)
  BY DEF WellFormed, RequestFits
<1>p. IsSeq(p) /\ IsSeq(ParentPath(p))  BY <1>t, DerivedPaths DEF OpFits
<1>s. \A k : k \notin UploadSteps => StepFits(op, Do(k))  BY <1>f, PlainStep
<1>1. CASE PutAdmit(r)
  <2>1. At(r, "put") /\ UNCHANGED <<fc, disk, nextEtag>>  BY <1>1 DEF PutAdmit
  <2>2. CASE check_quota(IF req[r].op.known THEN req[r].op.size ELSE 0)
    <3>1. Advance(r, <<Do("open")>>, req[r])  BY <1>1, <2>2 DEF PutAdmit
    <3>2. TodoFits(op, <<Do("open")>>)  BY <1>s, OneStep DEF UploadSteps
    <3> HIDE DEF op
    <3> QED BY <1>t, <2>1, <3>1, <3>2, Calling DEF op
  <2>3. CASE ~check_quota(IF req[r].op.known THEN req[r].op.size ELSE 0)
    <3>1. Fail(r, "507")  BY <1>1, <2>3 DEF PutAdmit
    <3> QED BY <2>1, <3>1, Refusing
  <2> QED BY <2>2, <2>3
<1>2. CASE PutOpen(r)
  <2> DEFINE i == lookup_by_path(fc, p)
             l == IF Exists(fc, p)
                  THEN [req[r] EXCEPT !.fid = i,
                          !.row = [size |-> size[i], etag |-> fc[i].etag, dir |-> fc[i].dir,
                                   mtime |-> fc[i].mtime, smtime |-> fc[i].smtime]]
                  ELSE req[r]
             more == <<Ensure(ParentPath(p)), Do("temp"), Do("flush")>>
  <2>1. At(r, "open") /\ UNCHANGED <<fc, disk, nextEtag>> /\ Advance(r, more, l)
    BY <1>2 DEF PutOpen
  <2>2. DOMAIN l = DOMAIN Idle /\ l.op = op
    <3>1. "op" \in DOMAIN req[r]  BY <1>t DEF Idle
    <3> QED BY <1>t, <3>1
  <2>3. TodoFits(op, more)
    <3>1. StepFits(op, Ensure(ParentPath(p)))  BY <1>f, <1>p, StepAt DEF Ensure, UploadSteps
    <3>2. StepFits(op, Do("temp")) /\ StepFits(op, Do("flush"))  BY <1>s DEF UploadSteps
    <3> QED BY <3>1, <3>2, ThreeSteps
  <2> HIDE DEF op, l, more
  <2> QED BY <2>1, <2>2, <2>3, Calling DEF op
<1>3. CASE PutBody(r)
  <2> DEFINE l == [req[r] EXCEPT !.wm = clock]
  <2>1. /\ At(r, "temp") /\ UNCHANGED <<fc, nextEtag>> /\ Advance(r, <<>>, l)
        /\ disk' = WithDirs(disk, ParentPath(p))
    BY <1>3 DEF PutBody
  <2>2. DOMAIN l = DOMAIN Idle /\ l.op = op  BY <1>t, <2>1, AtHead
  <2>3. DiskFits(disk')  BY <1>t, <1>p, <2>1, DirsOnDisk
  <2>4. TableFits(fc') /\ Stamped  BY <1>t, <2>1, SameEtags
  <2> HIDE DEF op, l
  <2> QED BY <2>1, <2>2, <2>3, <2>4, NoSteps, Stepping DEF op
<1>4. CASE PutChecksum(r)
  <2>1. At(r, "flush") /\ UNCHANGED <<fc, disk, nextEtag>>  BY <1>4 DEF PutChecksum
  <2>2. CASE req[r].op.bad
    <3>1. Fail(r, "400")  BY <1>4, <2>2 DEF PutChecksum
    <3> QED BY <2>1, <3>1, Refusing
  <2>3. CASE ~req[r].op.bad
    <3> DEFINE ver == IF req[r].fid # 0 THEN <<DoAt("version", p)>> ELSE <<>>
               end == <<Do("quota"), Do("rename"), Do("touch"), Do("upsert")>>
               l   == [req[r] EXCEPT !.um = IF req[r].op.mtime # 0 THEN req[r].op.mtime ELSE clock]
    <3>1. Advance(r, ver \o end, l)  BY <1>4, <2>3 DEF PutChecksum
    <3>2. DOMAIN l = DOMAIN Idle /\ l.op = op  BY <1>t, <2>1, AtHead
    <3>3. TodoFits(op, ver)
      <4>1. StepFits(op, DoAt("version", p))  BY <1>f, <1>p, StepAt DEF UploadSteps
      <4> QED BY <4>1, OneStep, NoSteps
    <3>4. TodoFits(op, end)
      <4>1. /\ StepFits(op, Do("quota")) /\ StepFits(op, Do("rename")) /\ StepFits(op, Do("touch"))
            /\ StepFits(op, Do("upsert"))
        BY <1>s DEF UploadSteps
      <4> QED BY <4>1, FourSteps
    <3> HIDE DEF op, l, ver, end
    <3>5. TodoFits(op, ver \o end)  BY <3>3, <3>4, BothFit
    <3> QED BY <2>1, <3>1, <3>2, <3>5, Calling DEF op
  <2> QED BY <2>2, <2>3
<1>5. CASE PutQuota(r)
  <2>1. At(r, "quota") /\ UNCHANGED <<fc, disk, nextEtag>> /\ (Next1(r) \/ Fail(r, "507"))
    BY <1>5 DEF PutQuota
  <2> QED BY <2>1, Passing, Refusing
<1>6. CASE PutRename(r)
  <2> DEFINE v == [dir |-> FALSE, size |-> req[r].op.size, mtime |-> req[r].wm]
  <2>1. At(r, "rename") /\ UNCHANGED <<fc, nextEtag>>  BY <1>6 DEF PutRename
  <2>2. CASE DiskDir(ParentPath(p)) /\ ~(OnDisk(p) /\ disk[p].dir)
    <3>1. disk' = InsertRow(disk, p, v) /\ Next1(r)  BY <1>6, <2>2 DEF PutRename
    <3>2. DiskFits(disk')  BY <1>t, <1>p, <3>1, FileOnDisk
    <3>3. TableFits(fc') /\ Stamped  BY <1>t, <2>1, SameEtags
    <3> QED BY <2>1, <3>1, <3>2, <3>3, SteppingOn
  <2>3. CASE ~(DiskDir(ParentPath(p)) /\ ~(OnDisk(p) /\ disk[p].dir))
    <3>1. disk' = disk /\ Fail(r, "404")  BY <1>6, <2>3 DEF PutRename
    <3> QED BY <2>1, <3>1, Refusing
  <2> QED BY <2>2, <2>3
<1>7. CASE PutTouch(r)
  <2> DEFINE l(m) == [req[r] EXCEPT !.wm = m]
  <2>1. At(r, "touch") /\ UNCHANGED <<fc, nextEtag>> /\ DOMAIN disk' = DOMAIN disk
    BY <1>7 DEF PutTouch
  <2>2. \E m : Advance(r, <<>>, l(m))  BY <1>7 DEF PutTouch
  <2>3. PICK m : Advance(r, <<>>, l(m))  BY <2>2
  <2>4. DOMAIN l(m) = DOMAIN Idle /\ l(m).op = op  BY <1>t, <2>1, AtHead
  <2>5. TableFits(fc') /\ Stamped /\ DiskFits(disk')  BY <1>t, <2>1, SameEtags DEF DiskFits
  <2> HIDE DEF op, l
  <2> QED BY <2>1, <2>3, <2>4, <2>5, NoSteps, Stepping DEF op
<1>8. CASE PutUpdate(r) \/ PutInsert(r)
  <2> DEFINE tail(c, d) == c \o <<Prop(p, d), Do("entity"), Lazy, Do("done")>>
  <2>1. \A c, d : TodoFits(op, c) => TodoFits(op, tail(c, d))
    <3>1. \A d : StepFits(op, Prop(p, d))  BY <1>p, PropStep
    <3>2. StepFits(op, Do("entity")) /\ StepFits(op, Do("done"))  BY <1>s DEF UploadSteps
    <3>3. StepFits(op, Lazy)  BY <1>f, FixedPaths, StepAt DEF Lazy, UploadSteps
    <3>4. \A d : TodoFits(op, <<Prop(p, d), Do("entity"), Lazy, Do("done")>>)
      BY <3>1, <3>2, <3>3, FourSteps
    <3> QED BY <3>4, BothFit
  <2>2. CASE PutUpdate(r)
    <3> DEFINE l == [req[r] EXCEPT !.retag = nextEtag]
               f == req[r].fid
               e == PutEtag(r)
    <3>1. /\ At(r, "upsert") /\ disk' = disk /\ Touch(1, 0)
          /\ Advance(r, tail(<<>>, req[r].op.size - req[r].row.size), l)
          /\ fc' = [i \in DOMAIN fc |-> IF i = f THEN [fc[i] EXCEPT !.etag = e, !.mtime = req[r].um,
                                               !.smtime = req[r].um] ELSE fc[i]]
      BY <2>2 DEF PutUpdate, AfterUpsert
    <3>2. DOMAIN l = DOMAIN Idle /\ l.op = op  BY <1>t, <3>1, AtHead
    <3> DEFINE m == req[r].um
    <3>3. fc' = [i \in DOMAIN fc |-> IF i = f THEN [fc[i] EXCEPT !.etag = e, !.mtime = m, !.smtime = m] ELSE fc[i]]
      BY <3>1
    <3> HIDE DEF e, f, m
    <3>4. TableFits(fc')
      <4>1. PICK T, a, b, c : T = fc /\ a = f /\ b = e /\ c = m  OBVIOUS
      <4>2. fc' = [i \in DOMAIN T |-> IF i = a THEN [T[i] EXCEPT !.etag = b, !.mtime = c, !.smtime = c] ELSE T[i]]
        BY ONLY <3>3, <4>1, Zenon
      <4>3. TableFits(T)  BY ONLY <1>t, <4>1 DEF TableFits
      <4> QED BY ONLY <4>2, <4>3, RowUpdated, Zenon
    <3>5. Stamped /\ DiskFits(disk')  BY <1>t, <3>1, NewEtags
    <3>6. TodoFits(op, tail(<<>>, req[r].op.size - req[r].row.size))  BY <2>1, NoSteps
    <3> HIDE DEF op, l, tail
    <3> QED BY <3>1, <3>2, <3>4, <3>5, <3>6, Stepping DEF op
  <2>3. CASE PutInsert(r)
    <3>1. At(r, "upsert") /\ disk' = disk  BY <2>3 DEF PutInsert
    <3>2. CASE Exists(fc, p)
      <4>1. Fail(r, "500") /\ UNCHANGED <<fc, nextEtag>>  BY <2>3, <3>2 DEF PutInsert
      <4> QED BY <3>1, <4>1, Refusing
    <3>3. CASE ~Exists(fc, p)
      <4> DEFINE l == [req[r] EXCEPT !.retag = nextEtag, !.fid = nextId]
                 v == [path |-> p, name |-> Last(p), parent |-> req[r].pid, dir |-> FALSE,
                       etag |-> nextEtag, mtime |-> req[r].um, smtime |-> req[r].um]
      <4>1. /\ fc' = InsertRow(fc, nextId, v) /\ Touch(1, 1)
            /\ Advance(r, tail(SizeChain(p), 0), l)
        BY <2>3, <3>3 DEF PutInsert, AfterUpsert
      <4>2. DOMAIN l = DOMAIN Idle /\ l.op = op  BY <1>t, <3>1, AtHead
      <4>3. DOMAIN v = RowFields /\ IsSeq(v.path)  BY <1>p DEF RowFields
      <4> HIDE DEF v
      <4>4. TableFits(fc')  BY <1>t, <4>1, <4>3, RowInserted
      <4>5. Stamped /\ DiskFits(disk')  BY <1>t, <3>1, <4>1, NewEtags
      <4>6. TodoFits(op, SizeChain(p))  BY <1>p, ChainFits
      <4>7. TodoFits(op, tail(SizeChain(p), 0))  BY <2>1, <4>6
      <4> HIDE DEF op, l, tail
      <4> QED BY <3>1, <4>1, <4>2, <4>4, <4>5, <4>7, Stepping DEF op
    <3> QED BY <3>2, <3>3
  <2> QED BY <1>8, <2>2, <2>3
<1>9. CASE PutEntity(r)
  <2>1. At(r, "entity") /\ Next1(r) /\ UNCHANGED <<fc, disk, nextEtag>>  BY <1>9 DEF PutEntity
  <2> QED BY <2>1, Passing
<1> QED BY <1>1, <1>2, <1>3, <1>4, <1>5, <1>6, <1>7, <1>8, <1>9 DEF PutStep
-----------------------------------------------------------------------------
LEMMA StructureStepKeeps ==
    ASSUME WellFormed, NEW r \in Reqs, req[r].op.kind \notin UploadOps, StructureStep(r)
    PROVE  Kept(r)
<1> DEFINE op   == req[r].op
           p    == req[r].op.path
           to   == req[r].op.to
<1>f. \A k : k \notin UploadSteps => Belongs(op, k)  BY DavStep
<1>t. TableFits(fc) /\ DiskFits(disk) /\ DOMAIN req[r] = DOMAIN Idle /\ OpFits(op)
  BY DEF WellFormed, RequestFits
<1>o. "op" \in DOMAIN req[r]  BY <1>t DEF Idle
<1>p. IsSeq(p) /\ IsSeq(to) /\ IsSeq(ParentPath(p)) /\ IsSeq(ParentPath(to)) /\ IsSeq(VersionBase(to))
  BY <1>t, DerivedPaths DEF OpFits
<1>s. \A k : k \notin UploadSteps => StepFits(op, Do(k))  BY <1>f, PlainStep
<1>c. \A q : IsSeq(q) => TodoFits(op, SizeChain(q)) /\ \A n : StepFits(op, Prop(q, n))
  BY ChainFits, PropStep
<1>d. TodoFits(op, <<Do("done")>>)  BY <1>s, OneStep DEF UploadSteps
<1>1. CASE MkcolCheck(r)
  <2> DEFINE more == <<Ensure(ParentPath(p)), Do("mkdir"), Do("mkrow")>>
  <2>1. At(r, "mkcol") /\ UNCHANGED <<fc, disk, nextEtag>>  BY <1>1 DEF MkcolCheck
  <2>2. Fail(r, "507") \/ Fail(r, "405") \/ Advance(r, more, req[r])  BY <1>1 DEF MkcolCheck
  <2>3. TodoFits(op, more)
    <3>1. StepFits(op, Ensure(ParentPath(p)))  BY <1>f, <1>p, StepAt DEF Ensure, UploadSteps
    <3>2. StepFits(op, Do("mkdir")) /\ StepFits(op, Do("mkrow"))  BY <1>s DEF UploadSteps
    <3> QED BY <3>1, <3>2, ThreeSteps
  <2> HIDE DEF op, more
  <2> QED BY <1>t, <2>1, <2>2, <2>3, Refusing, Calling DEF op
<1>2. CASE MkcolDisk(r)
  <2> DEFINE v == [dir |-> TRUE, size |-> 0, mtime |-> 0]
  <2>1. At(r, "mkdir") /\ UNCHANGED <<fc, nextEtag>>  BY <1>2 DEF MkcolDisk
  <2>2. \/ Fail(r, "405") /\ disk' = disk
        \/ Fail(r, "404") /\ disk' = disk
        \/ disk' = InsertRow(disk, p, v) /\ Next1(r)
    BY <1>2 DEF MkcolDisk
  <2>3. CASE disk' = InsertRow(disk, p, v) /\ Next1(r)
    <3>1. DiskFits(disk')  BY <1>t, <1>p, <2>3, FileOnDisk
    <3>2. TableFits(fc') /\ Stamped  BY <1>t, <2>1, SameEtags
    <3> QED BY <2>1, <2>3, <3>1, <3>2, SteppingOn
  <2> QED BY <2>1, <2>2, <2>3, Refusing
<1>3. CASE MkcolInsert(r)
  <2> DEFINE row == DirRow(p, req[r].pid, nextEtag, clock)
             more == <<Prop(p, 0), Do("done")>>
  <2>1. At(r, "mkrow") /\ disk' = disk  BY <1>3 DEF MkcolInsert
  <2>2. CASE Exists(fc, p)
    <3>1. Fail(r, "500") /\ UNCHANGED <<fc, nextEtag>>  BY <1>3, <2>2 DEF MkcolInsert
    <3> QED BY <2>1, <3>1, Refusing
  <2>3. CASE ~Exists(fc, p)
    <3>1. fc' = InsertRow(fc, nextId, row) /\ Touch(1, 1) /\ Advance(r, more, req[r])
      BY <1>3, <2>3 DEF MkcolInsert
    <3>2. DOMAIN row = RowFields /\ IsSeq(row.path)  BY <1>p, NewDirRow
    <3> HIDE DEF row
    <3>3. TableFits(fc')  BY <1>t, <3>1, <3>2, RowInserted
    <3>4. Stamped /\ DiskFits(disk')  BY <1>t, <2>1, <3>1, NewEtags
    <3>5. StepFits(op, Prop(p, 0)) /\ StepFits(op, Do("done"))  BY <1>c, <1>p, <1>s DEF UploadSteps
    <3>6. TodoFits(op, more)  BY <3>5, TwoSteps
    <3> HIDE DEF op, more
    <3> QED BY <1>t, <2>1, <3>1, <3>3, <3>4, <3>6, Stepping DEF op
  <2> QED BY <2>2, <2>3
<1>4. CASE MoveLookup(r)
  <2> DEFINE i == lookup_by_path(fc, p)
             l == [req[r] EXCEPT !.fid = i, !.pid = lookup_by_path(fc, ParentPath(to)),
                                 !.row.dir = fc[i].dir]
             more == <<Do("mvdisk"), Do("mvrow")>>
  <2>1. At(r, "move") /\ UNCHANGED <<fc, disk, nextEtag>> /\ (Fail(r, "404") \/ Advance(r, more, l))
    BY <1>4 DEF MoveLookup
  <2>2. DOMAIN l = DOMAIN Idle /\ l.op = op  BY <1>t, <1>o
  <2>3. TodoFits(op, more)  BY <1>s, TwoSteps DEF UploadSteps
  <2> HIDE DEF op, l, more
  <2> QED BY <2>1, <2>2, <2>3, Refusing, Calling DEF op
<1>5. CASE MoveDisk(r)
  <2>1. At(r, "mvdisk") /\ UNCHANGED <<fc, nextEtag>>  BY <1>5 DEF MoveDisk
  <2>2. \/ Fail(r, "404") /\ disk' = disk
        \/ disk' = RenameOnDisk(p, to) /\ Next1(r)
    BY <1>5 DEF MoveDisk
  <2>3. CASE disk' = RenameOnDisk(p, to) /\ Next1(r)
    <3>1. DiskFits(disk')  BY <1>t, <1>p, <2>3, DiskRenamed
    <3>2. TableFits(fc') /\ Stamped  BY <1>t, <2>1, SameEtags
    <3> QED BY <2>1, <2>3, <3>1, <3>2, SteppingOn
  <2> QED BY <2>1, <2>2, <2>3, Refusing
<1>6. CASE MoveUpdate(r)
  <2> DEFINE f == req[r].fid
             dir == req[r].row.dir
  <2>1. At(r, "mvrow") /\ UNCHANGED <<disk, nextEtag>>  BY <1>6 DEF MoveUpdate
  <2>2. CASE Ids(fc, to) \ {f} # {} /\ f \in DOMAIN fc
    <3>1. Fail(r, "500") /\ UNCHANGED fc  BY <1>6, <2>2 DEF MoveUpdate
    <3> QED BY <2>1, <3>1, Refusing
  <2>3. CASE ~(Ids(fc, to) \ {f} # {} /\ f \in DOMAIN fc)
    <3>1. /\ fc' = IF f \in DOMAIN fc THEN MoveRow(fc, f, to, req[r].pid) ELSE fc
          /\ Advance(r, MoveTail(p, to, dir), req[r])
      BY <1>6, <2>3 DEF MoveUpdate
    <3>2. TableFits(fc')  BY <1>t, <1>p, <3>1, RowMoved
    <3>3. DiskFits(disk') /\ Stamped  BY <1>t, <2>1, SameEtags
    <3>4. TodoFits(op, MoveTail(p, to, dir))
      <4> DEFINE a == IF dir THEN <<Step("rekey", p, to, 0, {})>> ELSE <<>>
                 b == <<Step("vrename", p, to, 0, {}), Prop(p, 0), Prop(to, 0)>>
                 c == MoveSizeChains(p, to)
                 d == <<Prop(VersionBase(to), 0)>>
                 e == SizeChain(VersionBase(to))
                 g == <<Do("done")>>
      <4>1. TodoFits(op, a)
        <5>1. Belongs(op, "rekey")  BY <1>f DEF UploadSteps
        <5>2. StepFits(op, Step("rekey", p, to, 0, {}))  BY <1>p, <5>1, SomeStep
        <5> QED BY <5>2, OneStep, NoSteps
      <4>2. TodoFits(op, b)
        <5>1. Belongs(op, "vrename")  BY <1>f DEF UploadSteps
        <5>2. StepFits(op, Step("vrename", p, to, 0, {}))  BY <1>p, <5>1, SomeStep
        <5>3. StepFits(op, Prop(p, 0)) /\ StepFits(op, Prop(to, 0))  BY <1>p, <1>c
        <5> QED BY <5>2, <5>3, ThreeSteps
      <4>3. TodoFits(op, c)
        <5>1. TodoFits(op, SizeChain(ParentPath(p))) /\ TodoFits(op, SizeChain(ParentPath(to)))
          BY <1>p, <1>c
        <5> QED BY <5>1, BothFit DEF MoveSizeChains
      <4>4. TodoFits(op, d)
        <5>1. StepFits(op, Prop(VersionBase(to), 0))  BY <1>p, <1>c
        <5> QED BY <5>1, OneStep
      <4>5. TodoFits(op, e)  BY <1>p, <1>c
      <4>6. MoveTail(p, to, dir) = a \o b \o c \o d \o e \o g  BY DEF MoveTail
      <4> HIDE DEF op, a, b, c, d, e
      <4>7. TodoFits(op, a \o b)  BY <4>1, <4>2, BothFit
      <4>8. TodoFits(op, a \o b \o c)  BY <4>3, <4>7, BothFit
      <4>9. TodoFits(op, a \o b \o c \o d)  BY <4>4, <4>8, BothFit
      <4>10. TodoFits(op, a \o b \o c \o d \o e)  BY <4>5, <4>9, BothFit
      <4>11. TodoFits(op, g)  BY <1>d
      <4> HIDE DEF g
      <4>12. TodoFits(op, a \o b \o c \o d \o e \o g)  BY <4>10, <4>11, BothFit
      <4> QED BY <4>6, <4>12
    <3> HIDE DEF op, dir
    <3> QED BY <1>t, <2>1, <3>1, <3>2, <3>3, <3>4, Stepping DEF op
  <2> QED BY <2>2, <2>3
<1>7. CASE RekeySubtree(r)
  <2>1. /\ At(r, "rekey") /\ Next1(r) /\ UNCHANGED <<disk, nextEtag>>
        /\ fc' = Rekeyed(fc, Arg(r).p, Arg(r).q)
    BY <1>7 DEF RekeySubtree
  <2>2. IsSeq(Arg(r).p) /\ IsSeq(Arg(r).q)  BY <2>1, AtHead
  <2>3. TableFits(fc')  BY <1>t, <2>1, <2>2, RowsRekeyed
  <2>4. DiskFits(disk') /\ Stamped  BY <1>t, <2>1, SameEtags
  <2> QED BY <2>1, <2>3, <2>4, SteppingOn
<1>8. CASE CopyAdmit(r)
  <2> DEFINE more == <<Do("cpdisk"), Do("cpdel")>>
  <2>1. At(r, "copy") /\ UNCHANGED <<fc, disk, nextEtag>> /\ (Fail(r, "507") \/ Advance(r, more, req[r]))
    BY <1>8 DEF CopyAdmit
  <2>2. TodoFits(op, more)  BY <1>s, TwoSteps DEF UploadSteps
  <2> HIDE DEF op, more
  <2> QED BY <1>t, <2>1, <2>2, Refusing, Calling DEF op
<1>9. CASE CopyDisk(r)
  <2> DEFINE v == [disk[p] EXCEPT !.mtime = clock]
  <2>1. At(r, "cpdisk") /\ UNCHANGED <<fc, nextEtag>>  BY <1>9 DEF CopyDisk
  <2>2. \/ Fail(r, "404") /\ disk' = disk
        \/ disk' = InsertRow(disk, to, v) /\ Next1(r)
    BY <1>9 DEF CopyDisk
  <2>3. CASE disk' = InsertRow(disk, to, v) /\ Next1(r)
    <3>1. DiskFits(disk')  BY <1>t, <1>p, <2>3, FileOnDisk
    <3>2. TableFits(fc') /\ Stamped  BY <1>t, <2>1, SameEtags
    <3> QED BY <2>1, <2>3, <3>1, <3>2, SteppingOn
  <2> QED BY <2>1, <2>2, <2>3, Refusing
<1>10. CASE CopyDelete(r)
  <2> DEFINE x == <<Do("cplookup")>>
             b == <<Step("vcopy", p, to, 0, {}), DoAt("vsync", to), Prop(to, 0)>>
             c == SizeChain(to)
             d == <<Prop(VersionBase(to), 0)>>
             e == SizeChain(VersionBase(to))
             g == <<Do("done")>>
             more == x \o (b \o c \o d \o e \o g)
  <2>1. /\ At(r, "cpdel") /\ UNCHANGED <<disk, nextEtag>> /\ fc' = DeleteRows(fc, Ids(fc, to))
        /\ Advance(r, more, req[r])
    BY <1>10 DEF CopyDelete, CopyTail
  <2>2. TodoFits(op, x)  BY <1>s, OneStep DEF UploadSteps
  <2>3. TodoFits(op, b)
    <3>1. Belongs(op, "vcopy") /\ Belongs(op, "vsync")  BY <1>f DEF UploadSteps
    <3>2. StepFits(op, Step("vcopy", p, to, 0, {}))  BY <1>p, <3>1, SomeStep
    <3>3. StepFits(op, DoAt("vsync", to)) /\ StepFits(op, Prop(to, 0))  BY <1>p, <1>c, <3>1, StepAt
    <3> QED BY <3>2, <3>3, ThreeSteps
  <2>4. TodoFits(op, c) /\ TodoFits(op, e)  BY <1>p, <1>c
  <2>5. TodoFits(op, d)
    <3>1. StepFits(op, Prop(VersionBase(to), 0))  BY <1>p, <1>c
    <3> QED BY <3>1, OneStep
  <2>6. TodoFits(op, g)  BY <1>d
  <2>7. TableFits(fc')  BY <1>t, <2>1, RowsDeleted
  <2>8. DiskFits(disk') /\ Stamped  BY <1>t, <2>1, SameEtags
  <2> HIDE DEF op, x, b, c, d, e, g
  <2>9. TodoFits(op, b \o c)  BY <2>3, <2>4, BothFit
  <2>10. TodoFits(op, b \o c \o d)  BY <2>5, <2>9, BothFit
  <2>11. TodoFits(op, b \o c \o d \o e)  BY <2>4, <2>10, BothFit
  <2>12. TodoFits(op, b \o c \o d \o e \o g)  BY <2>6, <2>11, BothFit
  <2>13. TodoFits(op, more)  BY <2>2, <2>12, BothFit
  <2> HIDE DEF more
  <2> QED BY <1>t, <2>1, <2>7, <2>8, <2>13, Stepping DEF op
<1>11. CASE CopyLookup(r)
  <2> DEFINE i == lookup_by_path(fc, p)
             l == [req[r] EXCEPT !.fid = i,
                       !.row = [size |-> size[i], etag |-> fc[i].etag, dir |-> fc[i].dir,
                                mtime |-> fc[i].mtime, smtime |-> fc[i].smtime]]
             more == <<Ensure(ParentPath(to)), Do("cprow")>>
  <2>1. At(r, "cplookup") /\ UNCHANGED <<fc, disk, nextEtag>> /\ (Next1(r) \/ Advance(r, more, l))
    BY <1>11 DEF CopyLookup
  <2>2. DOMAIN l = DOMAIN Idle /\ l.op = op  BY <1>t, <1>o
  <2>3. StepFits(op, Ensure(ParentPath(to)))  BY <1>f, <1>p, StepAt DEF Ensure, UploadSteps
  <2>4. StepFits(op, Do("cprow"))  BY <1>s DEF UploadSteps
  <2>5. TodoFits(op, more)  BY <2>3, <2>4, TwoSteps
  <2> HIDE DEF op, l, more
  <2> QED BY <2>1, <2>2, <2>5, Passing, Calling DEF op
<1>12. CASE CopyInsert(r)
  <2> DEFINE par == ParentPath(to)
             v == [path |-> to, name |-> Last(to), parent |-> lookup_by_path(fc, par),
                   dir |-> req[r].row.dir, etag |-> req[r].row.etag,
                   mtime |-> req[r].row.mtime, smtime |-> clock]
  <2>1. At(r, "cprow") /\ Next1(r) /\ disk' = disk  BY <1>12 DEF CopyInsert
  <2>2. CASE Exists(fc, to) \/ ~Exists(fc, par)
    <3>1. UNCHANGED <<fc, nextEtag>>  BY <1>12, <2>2 DEF CopyInsert
    <3> QED BY <2>1, <3>1, Passing
  <2>3. CASE ~(Exists(fc, to) \/ ~Exists(fc, par))
    <3>1. fc' = InsertRow(fc, nextId, v) /\ Touch(0, 1)  BY <1>12, <2>3 DEF CopyInsert
    <3>2. DOMAIN v = RowFields /\ IsSeq(v.path)  BY <1>p DEF RowFields
    <3> HIDE DEF v
    <3>3. TableFits(fc')  BY <1>t, <3>1, <3>2, RowInserted
    <3>4. Stamped /\ DiskFits(disk')  BY <1>t, <2>1, <3>1, NewEtags
    <3> QED BY <2>1, <3>3, <3>4, SteppingOn
  <2> QED BY <2>2, <2>3
<1>13. CASE SetMtime(r)
  <2> DEFINE more == <<Prop(p, 0), Do("done")>>
             m == req[r].op.mtime
             v(i) == [fc[i] EXCEPT !.mtime = m, !.smtime = m]
  <2>1. /\ At(r, "setmtime") /\ UNCHANGED <<disk, nextEtag>> /\ Advance(r, more, req[r])
        /\ fc' = [i \in DOMAIN fc |-> IF fc[i].path = p THEN v(i) ELSE fc[i]]
    BY <1>13 DEF SetMtime
  <2>2. \A i \in DOMAIN fc : DOMAIN v(i) = RowFields /\ v(i).path = fc[i].path
    BY <1>t DEF TableFits, RowFields
  <2>3. \A i \in DOMAIN fc : IsSeq(fc[i].path) /\ DOMAIN fc[i] = RowFields  BY <1>t DEF TableFits
  <2> HIDE DEF v
  <2>4. DOMAIN fc' = DOMAIN fc /\ \A i \in DOMAIN fc : fc'[i] = v(i) \/ fc'[i] = fc[i]  BY <2>1
  <2>5. TableFits(fc')  BY <2>2, <2>3, <2>4 DEF TableFits
  <2>6. DiskFits(disk') /\ Stamped  BY <1>t, <2>1, SameEtags
  <2>7. StepFits(op, Prop(p, 0)) /\ StepFits(op, Do("done"))  BY <1>c, <1>p, <1>s DEF UploadSteps
  <2>8. TodoFits(op, more)  BY <2>7, TwoSteps
  <2> HIDE DEF op, more
  <2> QED BY <1>t, <2>1, <2>5, <2>6, <2>8, Stepping DEF op
<1> QED BY <1>1, <1>2, <1>3, <1>4, <1>5, <1>6, <1>7, <1>8, <1>9, <1>10, <1>11, <1>12, <1>13
        DEF StructureStep
-----------------------------------------------------------------------------
LEMMA SomeSteps ==
    ASSUME NEW op, NEW k, Belongs(op, k), NEW p, IsSeq(p), NEW q, IsSeq(q)
    PROVE  \A n : StepFits(op, Step(k, p, q, n, {}))
BY SomeStep

LEMMA TrashStepKeeps ==
    ASSUME WellFormed, NEW r \in Reqs, req[r].op.kind \notin UploadOps,
           \/ DeleteLookup(r) \/ TrashName(r) \/ TrashDisk(r) \/ TrashRow(r)
           \/ TrashItem(r) \/ TrashNow(r) \/ TrashVersionsPick(r)
    PROVE  Kept(r)
<1> DEFINE op == req[r].op
           p  == Arg(r).p
           t  == Arg(r).q
<1>f. \A k : k \notin UploadSteps => Belongs(op, k)  BY DavStep
<1>t. TableFits(fc) /\ DiskFits(disk) /\ DOMAIN req[r] = DOMAIN Idle
  BY DEF WellFormed, RequestFits
<1>o. "op" \in DOMAIN req[r]  BY <1>t DEF Idle
<1>s. \A k : k \notin UploadSteps => StepFits(op, Do(k))  BY <1>f, PlainStep
<1>c. \A q : IsSeq(q) => TodoFits(op, SizeChain(q)) /\ \A n : StepFits(op, Prop(q, n))
  BY ChainFits, PropStep
<1>r. IsSeq(Root)  BY RootIsSeq
<1>1. CASE DeleteLookup(r)
  <2> DEFINE i == lookup_by_path(fc, p)
             l == [req[r] EXCEPT !.fid = i, !.row =
                    [size |-> size[i], etag |-> fc[i].etag, dir |-> fc[i].dir,
                     mtime |-> fc[i].mtime, smtime |-> fc[i].smtime]]
             name == <<Step("tname", p, Root, clock, {})>>
             hard == <<DoAt("hdisk", p), DoAt("hrow", p)>>
             first(c) == <<DoAt("delete", fc[c].path), Arg(r)>>
  <2>1. At(r, "delete") /\ UNCHANGED <<fc, disk, nextEtag>>  BY <1>1 DEF DeleteLookup
  <2>2. \/ Fail(r, "404") \/ Advance(r, name, l) \/ Advance(r, hard, l)
        \/ \E c \in Children(fc, i) : Advance(r, first(c), req[r])
    BY <1>1 DEF DeleteLookup
  <2>3. IsSeq(p) /\ StepFits(op, Arg(r))  BY <2>1, AtHead
  <2>4. DOMAIN l = DOMAIN Idle /\ l.op = op  BY <1>t, <1>o
  <2>5. TodoFits(op, name)
    <3>1. Belongs(op, "tname")  BY <1>f DEF UploadSteps
    <3>2. StepFits(op, Step("tname", p, Root, clock, {}))  BY <1>r, <2>3, <3>1, SomeSteps
    <3> QED BY <3>2, OneStep
  <2>6. TodoFits(op, hard)
    <3>1. Belongs(op, "hdisk") /\ Belongs(op, "hrow")  BY <1>f DEF UploadSteps
    <3>2. StepFits(op, DoAt("hdisk", p)) /\ StepFits(op, DoAt("hrow", p))  BY <2>3, <3>1, StepAt
    <3> QED BY <3>2, TwoSteps
  <2>7. ASSUME NEW c \in Children(fc, i) PROVE TodoFits(op, first(c))
    <3>1. c \in DOMAIN fc  BY DEF Children
    <3>2. IsSeq(fc[c].path)  BY <1>t, <3>1 DEF TableFits
    <3>3. Belongs(op, "delete")  BY <1>f DEF UploadSteps
    <3>4. StepFits(op, DoAt("delete", fc[c].path))  BY <3>2, <3>3, StepAt
    <3> QED BY <2>3, <3>4, TwoSteps
  <2> HIDE DEF op, l, name, hard, first, i
  <2>8. CASE \E c \in Children(fc, i) : Advance(r, first(c), req[r])
    BY <1>t, <2>1, <2>7, <2>8, Calling DEF op
  <2> QED BY <2>1, <2>2, <2>4, <2>5, <2>6, <2>8, Refusing, Calling DEF op
<1>2. CASE TrashName(r)
  <2> DEFINE at == trash_fc_name(Last(p), Arg(r).n)
             again == <<[Arg(r) EXCEPT !.n = @ + 1]>>
             a == <<Ensure(TrashFiles), Ensure(TrashVersions), Ensure(TrashKeys), Lazy>>
             b == <<Step("tdisk", p, at, 0, {}), Step("trow", p, at, 0, {})>>
             l == [req[r] EXCEPT !.ts = Arg(r).n]
  <2>1. At(r, "tname") /\ UNCHANGED <<fc, disk, nextEtag>>  BY <1>2 DEF TrashName
  <2>2. Advance(r, again, req[r]) \/ Advance(r, a \o b, l)
    <3>1. <<Ensure(TrashFiles), Ensure(TrashVersions), Ensure(TrashKeys), Lazy,
            Step("tdisk", p, at, 0, {}), Step("trow", p, at, 0, {})>> = a \o b
      OBVIOUS
    <3> HIDE DEF a, b
    <3> QED BY <1>2, <3>1 DEF TrashName
  <2>3. IsSeq(p) /\ IsSeq(t) /\ Arg(r).k = "tname" /\ StepFits(op, Arg(r))  BY <2>1, AtHead
  <2>4. IsSeq(at)  BY <2>3, DerivedPaths
  <2>5. DOMAIN l = DOMAIN Idle /\ l.op = op  BY <1>t, <1>o
  <2>6. TodoFits(op, again)
    <3> DEFINE x == Arg(r)
    <3>1. x = Step(x.k, x.p, x.q, x.n, x.s) /\ \A y \in x.s : IsSeq(y)  BY <2>3 DEF StepFits
    <3>2. [x EXCEPT !.n = @ + 1] = Step(x.k, x.p, x.q, x.n + 1, x.s)  BY <3>1 DEF Step
    <3>3. Belongs(op, x.k)  BY <2>3 DEF StepFits
    <3>4. StepFits(op, Step(x.k, x.p, x.q, x.n + 1, x.s))  BY <2>3, <3>1, <3>3, SomeStep
    <3> QED BY <3>2, <3>4, OneStep
  <2>7. TodoFits(op, a)
    <3>1. Belongs(op, "ensure") /\ Belongs(op, "lazy")  BY <1>f DEF UploadSteps
    <3>2. /\ StepFits(op, Ensure(TrashFiles)) /\ StepFits(op, Ensure(TrashVersions))
          /\ StepFits(op, Ensure(TrashKeys)) /\ StepFits(op, Lazy)
      BY <3>1, FixedPaths, StepAt DEF Ensure, Lazy
    <3> QED BY <3>2, FourSteps
  <2>8. TodoFits(op, b)
    <3>1. Belongs(op, "tdisk") /\ Belongs(op, "trow")  BY <1>f DEF UploadSteps
    <3>2. StepFits(op, Step("tdisk", p, at, 0, {})) /\ StepFits(op, Step("trow", p, at, 0, {}))
      BY <2>3, <2>4, <3>1, SomeSteps
    <3> QED BY <3>2, TwoSteps
  <2> HIDE DEF op, l, again, a, b
  <2>9. TodoFits(op, a \o b)  BY <2>7, <2>8, BothFit
  <2> QED BY <1>t, <2>1, <2>2, <2>5, <2>6, <2>9, Calling DEF op
<1>3. CASE TrashDisk(r)
  <2>1. At(r, "tdisk") /\ UNCHANGED <<fc, nextEtag>>  BY <1>3 DEF TrashDisk
  <2>2. \/ Fail(r, "404") /\ disk' = disk
        \/ disk' = RenameOnDisk(p, t) /\ Next1(r)
    BY <1>3 DEF TrashDisk
  <2>3. IsSeq(p) /\ IsSeq(t)  BY <2>1, AtHead
  <2>4. CASE disk' = RenameOnDisk(p, t) /\ Next1(r)
    <3>1. DiskFits(disk')  BY <1>t, <2>3, <2>4, DiskRenamed
    <3>2. TableFits(fc') /\ Stamped  BY <1>t, <2>1, SameEtags
    <3> QED BY <2>1, <2>4, <3>1, <3>2, SteppingOn
  <2> QED BY <2>1, <2>2, <2>4, Refusing
<1>4. CASE TrashRow(r)
  <2> DEFINE f   == req[r].fid
             dir == req[r].row.dir
             sz  == req[r].row.size
             m   == MoveRow(fc, f, t, lookup_by_path(fc, TrashFiles))
             v   == IF OnDisk(t) THEN disk[t].mtime ELSE req[r].ts
             more == TrashTail(p, t, dir, sz)
  <2>1. At(r, "trow") /\ UNCHANGED <<disk, nextEtag>>  BY <1>4 DEF TrashRow
  <2>2. IsSeq(p) /\ IsSeq(t)  BY <2>1, AtHead
  <2>3. \/ Fail(r, "500") /\ UNCHANGED fc
        \/ /\ fc' = IF f \in DOMAIN fc THEN [m EXCEPT ![f].smtime = v] ELSE fc
           /\ Advance(r, more, req[r])
    BY <1>4 DEF TrashRow
  <2>4. CASE /\ fc' = IF f \in DOMAIN fc THEN [m EXCEPT ![f].smtime = v] ELSE fc
             /\ Advance(r, more, req[r])
    <3>1. TableFits(fc')
      <4>1. CASE f \in DOMAIN fc
        <5>1. TableFits(m)  BY <1>t, <2>2, <4>1, RowMoved
        <5> HIDE DEF m, v
        <5>2. fc' = [m EXCEPT ![f].smtime = v]  BY <2>4, <4>1
        <5> DEFINE g == [m EXCEPT ![f].smtime = v]
        <5>3. DOMAIN g = DOMAIN m
              /\ \A i \in DOMAIN m : g[i] = IF i = f THEN [m[f] EXCEPT !.smtime = v] ELSE m[i]
          OBVIOUS
        <5> HIDE DEF g
        <5>4. ASSUME NEW i \in DOMAIN m PROVE DOMAIN g[i] = RowFields /\ IsSeq(g[i].path)
          <6>1. DOMAIN m[i] = RowFields /\ IsSeq(m[i].path)  BY <5>1 DEF TableFits
          <6>2. DOMAIN [m[i] EXCEPT !.smtime = v] = RowFields
                /\ [m[i] EXCEPT !.smtime = v].path = m[i].path
            BY <6>1 DEF RowFields
          <6> QED BY <5>3, <6>1, <6>2
        <5> QED BY <5>2, <5>3, <5>4 DEF TableFits, g
      <4>2. CASE f \notin DOMAIN fc  BY <1>t, <2>4, <4>2
      <4> QED BY <4>1, <4>2
    <3>2. DiskFits(disk') /\ Stamped  BY <1>t, <2>1, SameEtags
    <3>3. TodoFits(op, more)
      <4> DEFINE n == IF sz > 0 THEN -sz ELSE 0
                 a == <<Step("titem", p, t, 0, {})>>
                 b == IF dir THEN <<Step("rekey", p, t, 0, {})>> ELSE <<>>
                 c == <<Do("tnow")>>
                 d == SizeChain(t)
                 e == <<Prop(t, 0), DoAt("tpick", p), Prop(p, n)>>
      <4>1. Belongs(op, "titem") /\ Belongs(op, "rekey") /\ Belongs(op, "tpick")
        BY <1>f DEF UploadSteps
      <4>2. TodoFits(op, a)
        <5>1. StepFits(op, Step("titem", p, t, 0, {}))  BY <2>2, <4>1, SomeSteps
        <5> QED BY <5>1, OneStep
      <4>3. TodoFits(op, b)
        <5>1. StepFits(op, Step("rekey", p, t, 0, {}))  BY <2>2, <4>1, SomeSteps
        <5> QED BY <5>1, OneStep, NoSteps
      <4>4. TodoFits(op, c)  BY <1>s, OneStep DEF UploadSteps
      <4>5. TodoFits(op, d)  BY <1>c, <2>2
      <4>6. TodoFits(op, e)
        <5> HIDE DEF n
        <5>1. StepFits(op, Prop(t, 0)) /\ StepFits(op, Prop(p, n)) /\ StepFits(op, DoAt("tpick", p))
          BY <1>c, <2>2, <4>1, StepAt
        <5> QED BY <5>1, ThreeSteps
      <4>7. more = a \o b \o c \o d \o e  BY DEF TrashTail
      <4> HIDE DEF op, a, b, c, d, e, more
      <4>8. TodoFits(op, a \o b)  BY <4>2, <4>3, BothFit
      <4>9. TodoFits(op, a \o b \o c)  BY <4>4, <4>8, BothFit
      <4>10. TodoFits(op, a \o b \o c \o d)  BY <4>5, <4>9, BothFit
      <4>11. TodoFits(op, a \o b \o c \o d \o e)  BY <4>6, <4>10, BothFit
      <4> QED BY <4>7, <4>11
    <3> HIDE DEF op, more
    <3> QED BY <1>t, <2>1, <2>4, <3>1, <3>2, <3>3, Stepping DEF op
  <2> QED BY <2>1, <2>3, <2>4, Refusing
<1>5. CASE TrashItem(r)
  <2>1. At(r, "titem") /\ Next1(r) /\ UNCHANGED <<fc, disk, nextEtag>>  BY <1>5 DEF TrashItem
  <2> QED BY <2>1, Passing
<1>6. CASE TrashNow(r)
  <2> DEFINE l == [req[r] EXCEPT !.um = clock]
  <2>1. At(r, "tnow") /\ Advance(r, <<>>, l) /\ UNCHANGED <<fc, disk, nextEtag>>  BY <1>6 DEF TrashNow
  <2>2. DOMAIN l = DOMAIN Idle /\ l.op = op  BY <1>t, <1>o
  <2> HIDE DEF op, l
  <2> QED BY <2>1, <2>2, NoSteps, Calling DEF op
<1>7. CASE TrashVersionsPick(r)
  <2> DEFINE rs == VersionRows(fc, p)
             more == <<Step("tvmove", p, Root, 0, {fc[i].path : i \in rs})>>
  <2>1. At(r, "tpick") /\ UNCHANGED <<fc, disk, nextEtag>> /\ (Next1(r) \/ Advance(r, more, req[r]))
    BY <1>7 DEF TrashVersionsPick
  <2>2. IsSeq(p)  BY <2>1, AtHead
  <2>3. \A y \in {fc[i].path : i \in rs} : IsSeq(y)  BY <1>t DEF VersionRows, TableFits
  <2>4. Belongs(op, "tvmove")  BY <1>f DEF UploadSteps
  <2> HIDE DEF rs
  <2>5. StepFits(op, Step("tvmove", p, Root, 0, {fc[i].path : i \in rs}))
    BY <1>r, <2>2, <2>3, <2>4, SomeStep
  <2>6. TodoFits(op, more)  BY <2>5, OneStep
  <2> HIDE DEF op, more
  <2> QED BY <1>t, <2>1, <2>6, Passing, Calling DEF op
<1> QED BY <1>1, <1>2, <1>3, <1>4, <1>5, <1>6, <1>7

LEMMA TrashVersionsKeeps ==
    ASSUME WellFormed, NEW r \in Reqs, req[r].op.kind \notin UploadOps, TrashVersionsMove(r)
    PROVE  Kept(r)
<1> DEFINE op   == req[r].op
           p    == Arg(r).p
           base == VersionBase(p)
           kids == {x \in Arg(r).s : Under(x, base)}
           tgt(x) == TrashVersions \o <<<<Last(x)[1], Last(x)[2], req[r].um>>>>
           moved  == {x \in Arg(r).s \ kids : OnDisk(x) /\ Replaceable(x, tgt(x))}
           d    == WithDirs(disk, TrashVersions)
           gone == UNION {Subtree(x) : x \in moved}
           new  == {pr \in moved \X gone : pr[2] = pr[1] \/ Under(pr[2], pr[1])}
           to(pr) == Rebase(pr[2], pr[1], tgt(pr[1]))
           rekeyed == IF kids = {} THEN fc ELSE Rekeyed(fc, base, tgt(base))
           dests == {tgt(base) \o SubSeq(x, Len(base) + 1, Len(x)) : x \in kids}
                    \cup {tgt(x) : x \in moved}
           M == {<<x, tgt(x)>> : x \in moved}
           P == PerParent(kids \cup moved)
           Q == PerParent(dests)
           a == <<Step("props", Root, Root, 0, P), Step("props", Root, Root, 0, Q)>>
           more == a \o SizeChain(base) \o SizeChain(tgt(base))
           D == (DOMAIN d \ gone) \cup {to(pr) : pr \in new}
           e == [q \in D |-> IF \E pr \in new : to(pr) = q
                             THEN disk[(CHOOSE pr \in new : to(pr) = q)[2]] ELSE d[q]]
<1>f. \A k : k \notin UploadSteps => Belongs(op, k)  BY DavStep
<1>t. TableFits(fc) /\ DiskFits(disk) /\ DOMAIN req[r] = DOMAIN Idle
  BY DEF WellFormed, RequestFits
<1>1. /\ At(r, "tvmove") /\ nextEtag' = nextEtag /\ disk' = e
      /\ fc' = RepathRows(rekeyed, M) /\ Advance(r, more, req[r])
  BY DEF TrashVersionsMove
<1>2. IsSeq(p) /\ \A y \in Arg(r).s : IsSeq(y)  BY <1>1, AtHead
<1>3. IsSeq(base)  BY <1>2, DerivedPaths
<1>4. \A x : IsSeq(tgt(x))
  <2>1. \A y : IsSeq(<<y>>)  BY Tuples
  <2> QED BY <2>1, FixedPaths, Joined
<1>5. \A x \in moved : IsSeq(x)  BY <1>2
<1>6. \A x \in kids : IsSeq(x)  BY <1>2
<1> HIDE DEF tgt, base
<1>7. TableFits(rekeyed)  BY <1>t, <1>3, <1>4, RowsRekeyed
<1>8. \A m \in M : IsSeq(m[2])  BY <1>4
<1>9. TableFits(fc')
  <2> HIDE DEF rekeyed, M
  <2> QED BY <1>1, <1>7, <1>8, RowsRepathed
<1>10. DiskFits(disk')
  <2>1. DiskFits(d)  BY <1>t, FixedPaths, DirsOnDisk
  <2>2. \A x \in gone : IsSeq(x)  BY <1>t DEF Subtree, DiskFits
  <2> HIDE DEF gone, moved, d
  <2>3. ASSUME NEW pr \in new PROVE IsSeq(to(pr))
    <3>1. pr[1] \in moved /\ pr[2] \in gone  OBVIOUS
    <3>2. IsSeq(pr[1]) /\ IsSeq(pr[2]) /\ IsSeq(tgt(pr[1]))  BY <1>4, <1>5, <2>2, <3>1
    <3> QED BY <3>2, RebasedPath
  <2> HIDE DEF new, to
  <2>4. \A q \in D : IsSeq(q)  BY <2>1, <2>3 DEF DiskFits
  <2>5. DOMAIN e = D  OBVIOUS
  <2> HIDE DEF e, D
  <2> QED BY <1>1, <2>4, <2>5 DEF DiskFits
<1>11. \A x \in dests : IsSeq(x)
  <2>1. ASSUME NEW x \in kids PROVE IsSeq(tgt(base) \o SubSeq(x, Len(base) + 1, Len(x)))
    <3>1. Len(base) + 1 \in Int /\ Len(x) \in Int  BY <1>3, <1>6, SeqFacts
    <3>2. IsSeq(SubSeq(x, Len(base) + 1, Len(x)))  BY <3>1, Part
    <3> QED BY <1>4, <3>2, Joined
  <2> HIDE DEF kids, moved
  <2> QED BY <1>4, <2>1
<1>12. \A S : (\A x \in S : IsSeq(x)) => \A y \in PerParent(S) : IsSeq(y)
  <2> SUFFICES ASSUME NEW S, \A x \in S : IsSeq(x), NEW y \in PerParent(S) PROVE IsSeq(y)
    OBVIOUS
  <2>1. PICK q \in {ParentPath(x) : x \in S} : y = CHOOSE x \in S : ParentPath(x) = q
    BY DEF PerParent
  <2>2. \E x \in S : ParentPath(x) = q  OBVIOUS
  <2>3. y \in S  BY <2>1, <2>2
  <2> QED BY <2>3
<1> HIDE DEF dests, moved, kids
<1>13. (\A y \in P : IsSeq(y)) /\ (\A y \in Q : IsSeq(y))
  <2>1. \A x \in kids \cup moved : IsSeq(x)  BY <1>5, <1>6
  <2> QED BY <1>11, <1>12, <2>1
<1> HIDE DEF P, Q
<1>14. TodoFits(op, a)
  <2>1. Belongs(op, "props")  BY <1>f DEF UploadSteps
  <2>2. StepFits(op, Step("props", Root, Root, 0, P)) /\ StepFits(op, Step("props", Root, Root, 0, Q))
    BY <1>13, <2>1, RootIsSeq, SomeStep
  <2> QED BY <2>2, TwoSteps
<1>15. TodoFits(op, SizeChain(base)) /\ TodoFits(op, SizeChain(tgt(base)))  BY <1>3, <1>4, ChainFits
<1> HIDE DEF op, a
<1>16. TodoFits(op, a \o SizeChain(base))  BY <1>14, <1>15, BothFit
<1>17. TodoFits(op, more)  BY <1>15, <1>16, BothFit
<1>18. Stamped  BY <1>1, SameEtags
<1> HIDE DEF more
<1> QED BY <1>t, <1>1, <1>9, <1>10, <1>17, <1>18, Stepping DEF op

LEMMA HardDeleteKeeps ==
    ASSUME WellFormed, NEW r \in Reqs, req[r].op.kind \notin UploadOps,
           HardDisk(r) \/ HardRow(r) \/ HardDeleteVersions(r)
    PROVE  Kept(r)
<1> DEFINE op == req[r].op
           p  == Arg(r).p
<1>f. \A k : k \notin UploadSteps => Belongs(op, k)  BY DavStep
<1>t. TableFits(fc) /\ DiskFits(disk) /\ DOMAIN req[r] = DOMAIN Idle
  BY DEF WellFormed, RequestFits
<1>c. \A q : IsSeq(q) => TodoFits(op, SizeChain(q)) /\ \A n : StepFits(op, Prop(q, n))
  BY ChainFits, PropStep
<1>1. CASE HardDisk(r)
  <2>1. At(r, "hdisk") /\ UNCHANGED <<fc, nextEtag>>  BY <1>1 DEF HardDisk
  <2>2. \/ Fail(r, "404") /\ disk' = disk
        \/ disk' = DeleteRows(disk, Subtree(p)) /\ Next1(r)
    BY <1>1 DEF HardDisk
  <2>3. CASE disk' = DeleteRows(disk, Subtree(p)) /\ Next1(r)
    <3>1. DiskFits(disk')  BY <1>t, <2>3, DiskDeleted
    <3>2. TableFits(fc') /\ Stamped  BY <1>t, <2>1, SameEtags
    <3> QED BY <2>1, <2>3, <3>1, <3>2, SteppingOn
  <2> QED BY <2>1, <2>2, <2>3, Refusing
<1>2. CASE HardRow(r)
  <2> DEFINE dir == req[r].row.dir
             n == IF req[r].row.size > 0 THEN -req[r].row.size ELSE 0
             gone == IF dir THEN {i \in DOMAIN fc : fc[i].path = p \/ Under(fc[i].path, p)}
                     ELSE {req[r].fid}
             a == <<Prop(p, n)>>
             b == IF dir THEN <<>> ELSE <<DoAt("hversions", p)>>
  <2>1. /\ At(r, "hrow") /\ UNCHANGED <<disk, nextEtag>> /\ fc' = DeleteRows(fc, gone)
        /\ Advance(r, a \o b, req[r])
    BY <1>2 DEF HardRow, HardTail
  <2>2. IsSeq(p)  BY <2>1, AtHead
  <2>3. TodoFits(op, a)
    <3> HIDE DEF n
    <3>1. StepFits(op, Prop(p, n))  BY <1>c, <2>2
    <3> QED BY <3>1, OneStep
  <2>4. TodoFits(op, b)
    <3>1. Belongs(op, "hversions")  BY <1>f DEF UploadSteps
    <3>2. StepFits(op, DoAt("hversions", p))  BY <2>2, <3>1, StepAt
    <3> QED BY <3>2, OneStep, NoSteps
  <2> HIDE DEF op, a, b, gone
  <2>5. TodoFits(op, a \o b)  BY <2>3, <2>4, BothFit
  <2>6. TableFits(fc')  BY <1>t, <2>1, RowsDeleted
  <2>7. DiskFits(disk') /\ Stamped  BY <1>t, <2>1, SameEtags
  <2> QED BY <1>t, <2>1, <2>5, <2>6, <2>7, Stepping DEF op
<1>3. CASE HardDeleteVersions(r)
  <2> DEFINE vs == {i \in DOMAIN fc : fc[i].path # Root /\ IsVersionOf(fc[i].path, p)}
             S  == {fc[i].path : i \in vs}
             q  == ParentPath(VersionBase(p))
             a  == <<Prop(q, 0)>>
             b  == SizeChain(q)
  <2>1. At(r, "hversions") /\ nextEtag' = nextEtag  BY <1>3 DEF HardDeleteVersions
  <2>2. \/ Next1(r) /\ UNCHANGED <<fc, disk>>
        \/ disk' = DeleteRows(disk, S) /\ fc' = DeleteRows(fc, vs) /\ Advance(r, a \o b, req[r])
    BY <1>3 DEF HardDeleteVersions, HardVersionsTail
  <2>3. IsSeq(p)  BY <2>1, AtHead
  <2>4. IsSeq(q)  BY <2>3, DerivedPaths
  <2>5. TodoFits(op, a) /\ TodoFits(op, b)
    <3>1. StepFits(op, Prop(q, 0))  BY <1>c, <2>4
    <3> QED BY <1>c, <2>4, <3>1, OneStep
  <2> HIDE DEF op, a, b, S, vs
  <2>6. TodoFits(op, a \o b)  BY <2>5, BothFit
  <2>7. CASE disk' = DeleteRows(disk, S) /\ fc' = DeleteRows(fc, vs) /\ Advance(r, a \o b, req[r])
    <3>1. TableFits(fc')  BY <1>t, <2>7, RowsDeleted
    <3>2. DiskFits(disk') /\ Stamped  BY <1>t, <2>1, <2>7, DiskDeleted, SameEtags
    <3> QED BY <1>t, <2>1, <2>6, <2>7, <3>1, <3>2, Stepping DEF op
  <2> QED BY <2>1, <2>2, <2>7, Passing
<1> QED BY <1>1, <1>2, <1>3

LEMMA PropfindKeeps ==
    ASSUME WellFormed, NEW r \in Reqs, req[r].op.kind \notin UploadOps,
           PropfindSelf(r) \/ PropfindList(r) \/ EnsureLazyCache(r) \/ BumpRoot(r)
    PROVE  Kept(r)
<1> DEFINE op == req[r].op
           p  == Arg(r).p
<1>f. \A k : k \notin UploadSteps => Belongs(op, k)  BY DavStep
<1>t. TableFits(fc) /\ DiskFits(disk) /\ DOMAIN req[r] = DOMAIN Idle
  BY DEF WellFormed, RequestFits
<1>o. "op" \in DOMAIN req[r]  BY <1>t DEF Idle
<1>s. \A k : k \notin UploadSteps => StepFits(op, Do(k))  BY <1>f, PlainStep
<1>1. CASE PropfindSelf(r)
  <2> DEFINE i == lookup_by_path(fc, p)
             l == [req[r] EXCEPT !.fid = i, !.retag = fc[i].etag]
             more == <<Do("pflist")>>
  <2>1. /\ At(r, "pfself") /\ UNCHANGED <<fc, disk, nextEtag>>
        /\ Fail(r, "404") \/ Advance(r, more, l)
    BY <1>1 DEF PropfindSelf
  <2>2. DOMAIN l = DOMAIN Idle /\ l.op = op  BY <1>t, <1>o
  <2>3. TodoFits(op, more)  BY <1>s, OneStep DEF UploadSteps
  <2> HIDE DEF op, l, more
  <2> QED BY <2>1, <2>2, <2>3, Refusing, Calling DEF op
<1>2. CASE PropfindList(r)
  <2> DEFINE a == IF req[r].op.path = FilesPath THEN <<Do("lazycache")>> ELSE <<>>
             b == <<Do("done")>>
  <2>1. At(r, "pflist") /\ UNCHANGED <<fc, disk, nextEtag>> /\ Advance(r, a \o b, req[r])
    BY <1>2 DEF PropfindList
  <2>2. TodoFits(op, a)  BY <1>s, OneStep, NoSteps DEF UploadSteps
  <2>3. TodoFits(op, b)  BY <1>s, OneStep DEF UploadSteps
  <2> HIDE DEF op, a, b
  <2>4. TodoFits(op, a \o b)  BY <2>2, <2>3, BothFit
  <2> QED BY <1>t, <2>1, <2>4, Calling DEF op
<1>3. CASE EnsureLazyCache(r)
  <2> DEFINE more == IF Exists(fc, CachePath) THEN <<>> ELSE <<Lazy, Do("bumproot")>>
  <2>1. At(r, "lazycache") /\ UNCHANGED <<fc, disk, nextEtag>> /\ Advance(r, more, req[r])
    BY <1>3 DEF EnsureLazyCache
  <2>2. TodoFits(op, more)
    <3>1. Belongs(op, "lazy")  BY <1>f DEF UploadSteps
    <3>2. StepFits(op, Lazy)  BY <3>1, FixedPaths, StepAt DEF Lazy
    <3>3. StepFits(op, Do("bumproot"))  BY <1>s DEF UploadSteps
    <3> QED BY <3>2, <3>3, TwoSteps, NoSteps
  <2> HIDE DEF op, more
  <2> QED BY <1>t, <2>1, <2>2, Calling DEF op
<1>4. CASE BumpRoot(r)
  <2> DEFINE v(i) == [fc[i] EXCEPT !.etag = nextEtag]
  <2>1. /\ At(r, "bumproot") /\ Touch(1, 0) /\ Next1(r) /\ disk' = disk
        /\ fc' = [i \in DOMAIN fc |-> IF fc[i].path = Root THEN v(i) ELSE fc[i]]
    BY <1>4 DEF BumpRoot
  <2>2. \A i \in DOMAIN fc : DOMAIN v(i) = RowFields /\ v(i).path = fc[i].path
    BY <1>t DEF TableFits, RowFields
  <2>3. \A i \in DOMAIN fc : IsSeq(fc[i].path) /\ DOMAIN fc[i] = RowFields  BY <1>t DEF TableFits
  <2> HIDE DEF v
  <2>4. DOMAIN fc' = DOMAIN fc /\ \A i \in DOMAIN fc : fc'[i] = v(i) \/ fc'[i] = fc[i]  BY <2>1
  <2>5. TableFits(fc')  BY <2>2, <2>3, <2>4 DEF TableFits
  <2>6. DiskFits(disk') /\ Stamped  BY <1>t, <2>1, NewEtags
  <2> QED BY <2>1, <2>5, <2>6, SteppingOn
<1> QED BY <1>1, <1>2, <1>3, <1>4

(* Every statement of the DAV write path, from a request that is not one   *)
(* of an upload.                                                           *)
LEMMA RequestStepKeeps ==
    ASSUME WellFormed, NEW r \in Reqs, req[r].op.kind \notin UploadOps, RequestStep(r)
    PROVE  Kept(r)
BY SharedStepKeeps, VersionStepKeeps, PutStepKeeps, StructureStepKeeps, TrashStepKeeps,
   TrashVersionsKeeps, HardDeleteKeeps, PropfindKeeps DEF RequestStep, DeleteStep
-----------------------------------------------------------------------------
LEMMA UpdateFits ==
    ASSUME WellFormed, NEW r \in Reqs, UpdatedRows(r)
    PROVE  TableFits(fc') /\ Stamped
<1> DEFINE k == req[r].fid
           m == req[r].um
<1>1. TableFits(fc)  BY DEF WellFormed
<1>2. /\ Touch(1, 0)
      /\ fc' = [i \in DOMAIN fc |->
                  IF i = k THEN [fc[i] EXCEPT !.etag = nextEtag, !.mtime = m, !.smtime = m] ELSE fc[i]]
  BY DEF UpdatedRows
<1> HIDE DEF k, m
<1> DEFINE e == nextEtag
<1>4. fc' = [i \in DOMAIN fc |->
                IF i = k THEN [fc[i] EXCEPT !.etag = e, !.mtime = m, !.smtime = m] ELSE fc[i]]
  BY <1>2
<1> HIDE DEF e
<1>3. TableFits(fc')  BY <1>1, <1>4, RowUpdated
<1> QED BY <1>2, <1>3, NewEtags

LEMMA InsertFits ==
    ASSUME WellFormed, NEW r \in Reqs, NEW p, IsSeq(p), NEW n, InsertedRow(r, p, n)
    PROVE  TableFits(fc') /\ Stamped
<1> DEFINE v == [path |-> p, name |-> Last(p), parent |-> req[r].pid, dir |-> FALSE,
                 etag |-> nextEtag, mtime |-> req[r].um, smtime |-> req[r].um]
<1>1. fc' = InsertRow(fc, nextId, v) /\ Touch(1, 1)  BY DEF InsertedRow
<1>2. DOMAIN v = RowFields /\ IsSeq(v.path)  BY DEF RowFields
<1>3. TableFits(fc)  BY DEF WellFormed
<1> HIDE DEF v
<1>4. TableFits(fc')  BY <1>1, <1>2, <1>3, RowInserted
<1> QED BY <1>1, <1>4, NewEtags

SharedSteps == {"prop", "lazy", "done"}

(* Only the steps listed for it are run for an upload.                     *)
LEMMA OfUpload ==
    ASSUME WellFormed, NEW r \in Reqs, NEW k, At(r, k)
    PROVE  /\ k \notin UploadSteps \cup SharedSteps => req[r].op.kind \notin UploadOps
           /\ k \in UploadSteps => req[r].op.kind \in UploadOps
<1>1. Belongs(req[r].op, k)  BY AtHead
<1> QED BY <1>1 DEF Belongs, StepsOf, UploadSteps, SharedSteps

LEMMA BulkStepKeeps ==
    ASSUME WellFormed, NEW r \in Reqs, BulkStep(r)
    PROVE  Kept(r) /\ req[r].op.kind \notin UploadOps /\ KeepUpload
<1> DEFINE op  == req[r].op
           p   == Arg(r).p
           n   == Arg(r).n
           par == ParentPath(p)
           BulkSteps == {"part", "bulkparent", "bulkfind", "bulkwrite", "bulkrow", "bulkentity", "bulkend"}
<1>a. (\E k \in BulkSteps : At(r, k)) /\ KeepUpload
  BY DEF BulkStep, BulkPart, BulkParent, BulkFind, BulkWrite, BulkRow, BulkEntity, BulkEnd
<1>k. op.kind \notin UploadOps
  <2>1. \A k \in BulkSteps : k \notin UploadSteps \cup SharedSteps  BY DEF UploadSteps, SharedSteps
  <2> HIDE DEF BulkSteps
  <2> QED BY <1>a, <2>1, OfUpload
<1>f. \A k : k \notin UploadSteps => Belongs(op, k)  BY <1>k, DavStep
<1>t. TableFits(fc) /\ DiskFits(disk) /\ DOMAIN req[r] = DOMAIN Idle
  BY DEF WellFormed, RequestFits
<1>o. "op" \in DOMAIN req[r]  BY <1>t DEF Idle
<1>p. IsSeq(p) /\ IsSeq(par)  BY <1>a, AtHead, DerivedPaths
<1>s. \A k : k \notin UploadSteps => \A m : StepFits(op, Step(k, p, Root, m, {})) /\ StepFits(op, DoAt(k, p))
  BY <1>f, <1>p, RootIsSeq, SomeSteps, StepAt
<1>n. \A m : StepFits(op, Prop(p, m))  BY <1>k, <1>p, PropStep
<1> HIDE DEF BulkSteps
<1> SUFFICES Kept(r)  BY <1>a, <1>k
<1>0. ASSUME NEW K, GiveUp(r, K), UNCHANGED <<fc, disk, nextEtag>> PROVE Kept(r)
  BY <1>0, GivingUp, FilesUntouched
<1>1. CASE BulkPart(r)
  <2> DEFINE more == <<DoAt("bulkparent", p), Step("bulkfind", p, Root, n, {})>>
  <2>1. At(r, "part") /\ UNCHANGED <<fc, disk, nextEtag>>  BY <1>1 DEF BulkPart, KeepFiles
  <2>2. GiveUp(r, {"bulkend"}) \/ Next1(r) \/ Advance(r, more, req[r])
    BY <1>1 DEF BulkPart, GiveUp
  <2>3. StepFits(op, DoAt("bulkparent", p)) /\ StepFits(op, Step("bulkfind", p, Root, n, {}))
    BY <1>s DEF UploadSteps
  <2>4. TodoFits(op, more)  BY <2>3, TwoSteps
  <2> HIDE DEF op, more
  <2> QED BY <1>t, <1>0, <2>1, <2>2, <2>4, Passing, Calling DEF op
<1>2. CASE BulkParent(r)
  <2> DEFINE l == [req[r] EXCEPT !.pid = lookup_by_path(fc, par)]
  <2>1. At(r, "bulkparent") /\ UNCHANGED <<fc, disk, nextEtag>>  BY <1>2 DEF BulkParent, KeepFiles
  <2>2. GiveUp(r, NextPart) \/ Advance(r, <<>>, l)  BY <1>2 DEF BulkParent, PartFails
  <2>3. DOMAIN l = DOMAIN Idle /\ l.op = op  BY <1>t, <1>o
  <2> HIDE DEF op, l
  <2> QED BY <1>0, <2>1, <2>2, <2>3, NoSteps, Calling DEF op
<1>3. CASE BulkFind(r)
  <2> DEFINE l == FoundRow(r, p)
             a == IF Exists(fc, p) THEN <<DoAt("version", p)>> ELSE <<>>
             b == <<Step("bulkwrite", p, Root, n, {}), Step("bulkrow", p, Root, n, {})>>
  <2>1. /\ At(r, "bulkfind") /\ UNCHANGED <<fc, nextEtag>> /\ disk' = WithDirs(disk, par)
        /\ Advance(r, a \o b, l)
    BY <1>3 DEF BulkFind
  <2>2. DOMAIN l = DOMAIN Idle /\ l.op = op  BY <1>t, <1>o DEF FoundRow
  <2>3. TodoFits(op, a)
    <3>1. StepFits(op, DoAt("version", p))  BY <1>s DEF UploadSteps
    <3> QED BY <3>1, OneStep, NoSteps
  <2>4. TodoFits(op, b)
    <3>1. StepFits(op, Step("bulkwrite", p, Root, n, {})) /\ StepFits(op, Step("bulkrow", p, Root, n, {}))
      BY <1>s DEF UploadSteps
    <3> QED BY <3>1, TwoSteps
  <2>5. DiskFits(disk')  BY <1>t, <1>p, <2>1, DirsOnDisk
  <2>6. TableFits(fc') /\ Stamped  BY <1>t, <2>1, SameEtags
  <2> HIDE DEF op, l, a, b
  <2>7. TodoFits(op, a \o b)  BY <2>3, <2>4, BothFit
  <2> QED BY <2>1, <2>2, <2>5, <2>6, <2>7, Stepping DEF op
<1>4. CASE BulkWrite(r)
  <2> DEFINE f == PartOf(r)
             m == IF f.mtime # 0 THEN f.mtime ELSE clock
             l == [req[r] EXCEPT !.um = m]
             v == [dir |-> FALSE, size |-> f.size, mtime |-> m]
  <2>1. At(r, "bulkwrite") /\ UNCHANGED <<fc, nextEtag>>  BY <1>4 DEF BulkWrite
  <2>2. \/ GiveUp(r, NextPart) /\ disk' = disk
        \/ disk' = InsertRow(disk, p, v) /\ Advance(r, <<>>, l)
    BY <1>4 DEF BulkWrite, PartFails
  <2>3. DOMAIN l = DOMAIN Idle /\ l.op = op  BY <1>t, <1>o
  <2> HIDE DEF op, l
  <2>4. CASE disk' = InsertRow(disk, p, v) /\ Advance(r, <<>>, l)
    <3>1. DiskFits(disk')  BY <1>t, <1>p, <2>4, FileOnDisk
    <3>2. TableFits(fc') /\ Stamped  BY <1>t, <2>1, SameEtags
    <3> QED BY <2>1, <2>3, <2>4, <3>1, <3>2, NoSteps, Stepping DEF op
  <2> QED BY <1>0, <2>1, <2>2, <2>4
<1>5. CASE BulkRow(r)
  <2> DEFINE sz == PartOf(r).size
             more == AfterBulkRow(r, p, n)
             l == [req[r] EXCEPT !.fid = nextId]
  <2>1. At(r, "bulkrow") /\ disk' = disk  BY <1>5 DEF BulkRow
  <2>2. \/ UpdatedRows(r) /\ Advance(r, more, req[r])
        \/ GiveUp(r, NextPart) /\ UNCHANGED <<fc, nextEtag>>
        \/ InsertedRow(r, p, sz) /\ Advance(r, more, l)
    BY <1>5 DEF BulkRow, PartFails
  <2>3. TodoFits(op, more)
    <3> DEFINE d == PartOf(r).size - req[r].row.size
    <3>1. StepFits(op, Step("bulkentity", p, Root, n, {}))  BY <1>s DEF UploadSteps
    <3> HIDE DEF d
    <3>2. StepFits(op, Prop(p, d))  BY <1>n
    <3>3. TodoFits(op, <<Prop(p, d), Step("bulkentity", p, Root, n, {})>>)  BY <3>1, <3>2, TwoSteps
    <3> QED BY <3>3 DEF AfterBulkRow, d
  <2>4. DOMAIN l = DOMAIN Idle /\ l.op = op  BY <1>t, <1>o
  <2> HIDE DEF op, more, l, sz
  <2>5. CASE UpdatedRows(r) /\ Advance(r, more, req[r])
    <3>1. TableFits(fc') /\ Stamped  BY <1>t, <2>5, UpdateFits
    <3> QED BY <1>t, <2>1, <2>3, <2>5, <3>1, Stepping DEF op
  <2>6. CASE InsertedRow(r, p, sz) /\ Advance(r, more, l)
    <3>1. TableFits(fc') /\ Stamped  BY <1>p, <1>t, <2>6, InsertFits
    <3> QED BY <1>t, <2>1, <2>3, <2>4, <2>6, <3>1, Stepping DEF op
  <2> QED BY <1>0, <2>1, <2>2, <2>5, <2>6
<1>6. CASE BulkEntity(r)
  <2>1. At(r, "bulkentity") /\ Next1(r) /\ UNCHANGED <<fc, disk, nextEtag>>  BY <1>6 DEF BulkEntity
  <2> QED BY <2>1, Passing
<1>7. CASE BulkEnd(r)
  <2> DEFINE l == [req[r] EXCEPT !.resp = loc[r].status]
  <2>1. At(r, "bulkend") /\ Advance(r, <<>>, l) /\ UNCHANGED <<fc, disk, nextEtag>>
    BY <1>7 DEF BulkEnd, KeepFiles
  <2>2. DOMAIN l = DOMAIN Idle /\ l.op = op  BY <1>t, <1>o
  <2> HIDE DEF op, l
  <2> QED BY <2>1, <2>2, NoSteps, Calling DEF op
<1> QED BY <1>1, <1>2, <1>3, <1>4, <1>5, <1>6, <1>7 DEF BulkStep
-----------------------------------------------------------------------------
(* The steps of a handler that only ever follow one other step.            *)
Precedes(a, b) ==
    /\ b = "chunkbody"  => a = "chunkcreate"
    /\ b = "addchunk"   => a = "chunkbody"
    /\ b = "endsession" => a = "rmchunks"
InOrder(t) == \A i \in 2..Len(t) : Precedes(t[i - 1].k, t[i].k)

(* The step r has run was the one its next step had to wait for, and it    *)
(* asks for chunks only if there is a slot for them.                       *)
Turned(r) ==
    LET t == req[r].todo  u == req'[r].todo IN
    /\ InOrder(u)
    /\ \A k : At(r, k) /\ u # <<>> => Precedes(k, u[1].k)
    /\ \A i \in 1..Len(u) : u[i].k \in ChunkSteps =>
          \/ \E j \in 1..Len(t) : t[j].k \in ChunkSteps
          \/ At(r, "putchunk") /\ HasSession(Up(r))

LEMMA Turning ==
    ASSUME WellFormed, NEW r \in Reqs, InOrder(req[r].todo), NEW k, At(r, k),
           NEW more, TodoFits(req[r].op, more), InOrder(more),
           \A i \in 1..Len(more) : more[i].k \in ChunkSteps => k = "putchunk" /\ HasSession(Up(r)),
           \/ more = <<>>
           \/ /\ k \notin {"chunkcreate", "chunkbody", "rmchunks"}
              /\ more[1].k \notin {"chunkbody", "addchunk", "endsession"},
           NEW l, DOMAIN l = DOMAIN Idle, Advance(r, more, l)
    PROVE  Turned(r) /\ req'[r].todo = more \o Tail(req[r].todo) /\ req'[r].resp = l.resp
<1> DEFINE t == req[r].todo
           v == Tail(t)
           u == more \o v
<1>1. RequestFits(req[r]) /\ DOMAIN req = Reqs  BY DEF WellFormed
<1>2. IsSeq(t) /\ t # <<>> /\ Head(t).k = k /\ IsSeq(more)
  BY <1>1 DEF At, Active, RequestFits, TodoFits
<1>3. /\ IsSeq(v) /\ Head(t) = t[1] /\ 1 \in 1..Len(t) /\ Len(v) = Len(t) - 1 /\ Len(t) \in Nat
      /\ \A i \in 1..Len(v) : i + 1 \in 1..Len(t) /\ v[i] = t[i + 1]
  BY <1>2, Rest, SeqFacts
<1>4. "todo" \in DOMAIN Idle /\ "resp" \in DOMAIN Idle  BY DEF Idle
<1>5. req'[r].todo = u /\ req'[r].resp = l.resp
  <2>1. req' = [req EXCEPT ![r] = [l EXCEPT !.todo = u]]  BY DEF Advance
  <2> HIDE DEF u
  <2> QED BY <1>1, <1>4, <2>1
<1> HIDE DEF v
<1>6. /\ IsSeq(u) /\ Len(u) = Len(more) + Len(v) /\ Len(more) \in Nat /\ Len(v) \in Nat
      /\ \A i \in 1..Len(more) : u[i] = more[i]
      /\ \A i \in 1..Len(v) : u[Len(more) + i] = v[i]
  <2>1. Len(more) \in Nat /\ Len(v) \in Nat  BY <1>2, <1>3, SeqFacts
  <2>2. IsSeq(more) /\ IsSeq(v)  BY <1>2, <1>3
  <2> QED BY ONLY <2>1, <2>2, Joined
<1> HIDE DEF u, t
<1>7. \A i \in 2..Len(v) : Precedes(v[i - 1].k, v[i].k)
  <2> SUFFICES ASSUME NEW i \in 2..Len(v) PROVE Precedes(v[i - 1].k, v[i].k)
    OBVIOUS
  <2>1. i \in 1..Len(v) /\ i - 1 \in 1..Len(v)  BY <1>6
  <2>2. v[i] = t[i + 1] /\ v[i - 1] = t[i - 1 + 1]  BY <1>3, <2>1
  <2>3. i + 1 \in 2..Len(t) /\ i + 1 - 1 = i - 1 + 1  BY <1>3, <1>6, <2>1
  <2>4. Precedes(t[i + 1 - 1].k, t[i + 1].k)  BY <2>3 DEF InOrder, t
  <2> QED BY <2>2, <2>3, <2>4
<1>8. Len(v) > 0 => Precedes(k, v[1].k)
  <2>1. ASSUME Len(v) > 0 PROVE Precedes(k, v[1].k)
    <3>1. 1 \in 1..Len(v) /\ 2 \in 2..Len(t)  BY <1>3, <1>6, <2>1
    <3>2. v[1] = t[1 + 1]  BY <1>3, <3>1
    <3>3. Precedes(t[2 - 1].k, t[2].k)  BY <3>1 DEF InOrder, t
    <3>4. 1 + 1 = 2 /\ 2 - 1 = 1  OBVIOUS
    <3> QED BY <1>2, <1>3, <3>2, <3>3, <3>4
  <2> QED BY <2>1
<1>9. u # <<>> => Precedes(k, u[1].k)
  <2>1. CASE more = <<>>
    <3>1. Len(more) = 0  BY <2>1, Tuples
    <3>2. u # <<>> => Len(v) > 0  BY <1>6, <3>1, SeqFacts
    <3>3. Len(v) > 0 => u[1] = v[1]  BY <1>6, <3>1
    <3> QED BY <1>8, <3>2, <3>3
  <2>2. CASE more # <<>>
    <3>1. 1 \in 1..Len(more)  BY <1>2, <2>2, SeqFacts
    <3>2. u[1] = more[1]  BY <1>6, <3>1
    <3> QED BY <2>2, <3>2 DEF Precedes
  <2> QED BY <2>1, <2>2
<1>10. InOrder(u)
  <2> SUFFICES ASSUME NEW i \in 2..Len(u) PROVE Precedes(u[i - 1].k, u[i].k)
    BY DEF InOrder
  <2>1. CASE i <= Len(more)
    <3>1. i \in 1..Len(more) /\ i - 1 \in 1..Len(more) /\ i \in 2..Len(more)  BY <1>6, <2>1
    <3>2. u[i] = more[i] /\ u[i - 1] = more[i - 1]  BY <1>6, <3>1
    <3> QED BY <3>1, <3>2 DEF InOrder
  <2>2. CASE i > Len(more) + 1
    <3> DEFINE j == i - Len(more)
    <3>1. /\ j \in 2..Len(v) /\ j \in 1..Len(v) /\ j - 1 \in 1..Len(v)
          /\ Len(more) + j = i /\ Len(more) + (j - 1) = i - 1
      BY <1>6, <2>2
    <3>2. u[i] = v[j] /\ u[i - 1] = v[j - 1]  BY <1>6, <3>1
    <3> HIDE DEF j
    <3> QED BY <1>7, <3>1, <3>2
  <2>3. CASE i = Len(more) + 1
    <3>1. Len(more) \in 1..Len(more) /\ 1 \in 1..Len(v) /\ i - 1 = Len(more)  BY <1>6, <2>3
    <3>2. u[i - 1] = more[Len(more)] /\ u[i] = v[1]  BY <1>6, <2>3, <3>1
    <3>3. more # <<>>  BY <3>1, Tuples
    <3>4. k \notin {"chunkcreate", "chunkbody", "rmchunks"}  BY <3>3
    <3>5. Precedes(k, v[1].k)  BY <1>6, <1>8, <3>1
    <3> QED BY <3>2, <3>4, <3>5 DEF Precedes
  <2> QED BY <1>6, <2>1, <2>2, <2>3
<1>11. \A i \in 1..Len(u) : u[i].k \in ChunkSteps =>
          \/ \E j \in 1..Len(t) : t[j].k \in ChunkSteps
          \/ k = "putchunk" /\ HasSession(Up(r))
  <2> SUFFICES ASSUME NEW i \in 1..Len(u), u[i].k \in ChunkSteps
               PROVE  \/ \E j \in 1..Len(t) : t[j].k \in ChunkSteps
                      \/ k = "putchunk" /\ HasSession(Up(r))
    OBVIOUS
  <2>1. CASE i <= Len(more)
    <3>1. i \in 1..Len(more)  BY <1>6, <2>1
    <3> QED BY <1>6, <3>1
  <2>2. CASE i > Len(more)
    <3> DEFINE j == i - Len(more)
    <3>1. j \in 1..Len(v) /\ Len(more) + j = i  BY <1>6, <2>2
    <3>2. u[i] = v[j] /\ j + 1 \in 1..Len(t) /\ v[j] = t[j + 1]  BY <1>3, <1>6, <3>1
    <3> HIDE DEF j
    <3> QED BY <3>2
  <2> QED BY <1>6, <2>1, <2>2
<1>12. \A x : At(r, x) => x = k  BY DEF At
<1> QED BY <1>5, <1>9, <1>10, <1>11, <1>12 DEF Turned, t, u, v

LEMMA TurningOn ==
    ASSUME WellFormed, NEW r \in Reqs, InOrder(req[r].todo), NEW k, At(r, k),
           NEW l, DOMAIN l = DOMAIN Idle, Advance(r, <<>>, l)
    PROVE  Turned(r) /\ req'[r].todo = Tail(req[r].todo) /\ req'[r].resp = l.resp
<1>1. Len(<<>>) = 0 /\ IsSeq(<<>>)  BY Tuples
<1>2. InOrder(<<>>) /\ TodoFits(req[r].op, <<>>)  BY <1>1, NoSteps DEF InOrder
<1>3. \A i \in 1..Len(<<>>) : FALSE  BY <1>1
<1>4. Turned(r) /\ req'[r].todo = <<>> \o Tail(req[r].todo) /\ req'[r].resp = l.resp
  BY <1>2, <1>3, Turning
<1>5. IsSeq(Tail(req[r].todo))
  <2>1. IsSeq(req[r].todo) /\ req[r].todo # <<>>  BY DEF WellFormed, RequestFits, TodoFits, At, Active
  <2> QED BY <2>1, Rest
<1>6. <<>> \o Tail(req[r].todo) = Tail(req[r].todo)  BY <1>5, ConcatEmptySeq, Zenon DEF IsSeq
<1> QED BY <1>4, <1>6

LEMMA TurningDown ==
    ASSUME WellFormed, NEW r \in Reqs, NEW st, Fail(r, st)
    PROVE  Turned(r) /\ req'[r].todo = <<>> /\ req'[r].resp = st
<1>1. DOMAIN req = Reqs /\ DOMAIN req[r] = DOMAIN Idle  BY DEF WellFormed, RequestFits
<1>2. req' = [req EXCEPT ![r] = [req[r] EXCEPT !.todo = <<>>, !.resp = st]]
  BY <1>1 DEF Fail
<1>3. "todo" \in DOMAIN Idle /\ "resp" \in DOMAIN Idle  BY DEF Idle
<1>4. req'[r].todo = <<>> /\ req'[r].resp = st  BY <1>1, <1>2, <1>3
<1>5. Len(<<>>) = 0  BY Tuples
<1> QED BY <1>4, <1>5 DEF Turned, InOrder
-----------------------------------------------------------------------------
SessionsFit ==
    \A u \in DOMAIN sessions : /\ DOMAIN sessions[u] = {"gen", "chunks"}
                               /\ DOMAIN sessions[u].chunks \subseteq 1..MaxPart

LEMMA UpCalls ==
    ASSUME WellFormed, NEW r \in Reqs, InOrder(req[r].todo), NEW k, At(r, k),
           NEW more, TodoFits(req[r].op, more), InOrder(more),
           \A i \in 1..Len(more) : more[i].k \in ChunkSteps => k = "putchunk" /\ HasSession(Up(r)),
           k \notin {"chunkcreate", "chunkbody", "rmchunks"},
           more = <<>> \/ more[1].k \notin {"chunkbody", "addchunk", "endsession"},
           NEW l, DOMAIN l = DOMAIN Idle, l.op = req[r].op, Advance(r, more, l),
           TableFits(fc'), DiskFits(disk'), Stamped
    PROVE  Kept(r) /\ Turned(r)
<1>1. Kept(r)  BY Stepping
<1>2. Turned(r)  BY Turning
<1> QED BY <1>1, <1>2

LEMMA UpGoesOn ==
    ASSUME WellFormed, NEW r \in Reqs, InOrder(req[r].todo), NEW k, At(r, k),
           NEW l, DOMAIN l = DOMAIN Idle, l.op = req[r].op, Advance(r, <<>>, l),
           TableFits(fc'), DiskFits(disk'), Stamped
    PROVE  Kept(r) /\ Turned(r)
BY NoSteps, Stepping, TurningOn

LEMMA UpPasses ==
    ASSUME WellFormed, NEW r \in Reqs, InOrder(req[r].todo), NEW k, At(r, k), Next1(r),
           UNCHANGED <<fc, disk, nextEtag>>
    PROVE  Kept(r) /\ Turned(r)
<1>1. TableFits(fc') /\ DiskFits(disk') /\ Stamped  BY SameEtags DEF WellFormed
<1>2. DOMAIN req[r] = DOMAIN Idle  BY DEF WellFormed, RequestFits
<1>3. Advance(r, <<>>, req[r])  BY DEF Next1
<1> QED BY <1>1, <1>2, <1>3, UpGoesOn

LEMMA UpRefuses ==
    ASSUME WellFormed, NEW r \in Reqs, NEW st, Fail(r, st), UNCHANGED <<fc, disk, nextEtag>>
    PROVE  Kept(r) /\ Turned(r)
BY Refusing, TurningDown

(* A handler calls for steps none of which is about chunks or waits for    *)
(* another.                                                                *)
FreeSteps == {"done", "total", "parts", "read", "asmquota", "target", "parent", "asmwrite", "asmrow"}
FreeTodo(t) == \A i \in 1..Len(t) : t[i].k \in FreeSteps

LEMMA UpAsks ==
    ASSUME WellFormed, NEW r \in Reqs, InOrder(req[r].todo), NEW k, At(r, k),
           k \notin {"chunkcreate", "chunkbody", "rmchunks"},
           NEW more, TodoFits(req[r].op, more), FreeTodo(more),
           Advance(r, more, req[r]), TableFits(fc'), DiskFits(disk'), Stamped
    PROVE  Kept(r) /\ Turned(r)
<1>1. IsSeq(more) /\ Len(more) \in Nat  BY SeqFacts DEF TodoFits
<1>2. \A i \in 1..Len(more) : more[i].k \notin ChunkSteps \cup {"chunkbody", "addchunk", "endsession"}
  BY DEF FreeTodo, FreeSteps, ChunkSteps
<1>3. InOrder(more)
  <2>1. \A i \in 2..Len(more) : i \in 1..Len(more)  BY <1>1
  <2> QED BY <1>2, <2>1 DEF InOrder, Precedes
<1>4. more = <<>> \/ more[1].k \notin {"chunkbody", "addchunk", "endsession"}
  <2>1. more # <<>> => 1 \in 1..Len(more)  BY <1>1, SeqFacts
  <2> QED BY <1>2, <2>1
<1>5. DOMAIN req[r] = DOMAIN Idle  BY DEF WellFormed, RequestFits
<1> QED BY <1>2, <1>3, <1>4, <1>5, UpCalls

LEMMA FreeJoined ==
    ASSUME NEW a, IsSeq(a), FreeTodo(a), NEW b, IsSeq(b), FreeTodo(b)
    PROVE  FreeTodo(a \o b)
<1>1. \A i \in 1..Len(a \o b) : \/ i \in 1..Len(a) /\ (a \o b)[i] = a[i]
                                \/ i - Len(a) \in 1..Len(b) /\ (a \o b)[i] = b[i - Len(a)]
  BY Joined
<1>2. ASSUME NEW i \in 1..Len(a \o b) PROVE (a \o b)[i].k \in FreeSteps
  <2>1. CASE i \in 1..Len(a) /\ (a \o b)[i] = a[i]  BY <2>1 DEF FreeTodo
  <2>2. CASE i - Len(a) \in 1..Len(b) /\ (a \o b)[i] = b[i - Len(a)]  BY <2>2 DEF FreeTodo
  <2> QED BY <1>1, <2>1, <2>2
<1> QED BY <1>2 DEF FreeTodo

LEMMA OneFree ==
    ASSUME NEW op, NEW k, k \in FreeSteps, Belongs(op, k)
    PROVE  TodoFits(op, <<Do(k)>>) /\ FreeTodo(<<Do(k)>>) /\ IsSeq(<<Do(k)>>)
<1>1. TodoFits(op, <<Do(k)>>)  BY PlainStep, OneStep
<1>2. Len(<<Do(k)>>) = 1 /\ <<Do(k)>>[1] = Do(k) /\ IsSeq(<<Do(k)>>)  BY Tuples
<1>3. Do(k).k = k  BY DEF Do, Step
<1> QED BY <1>1, <1>2, <1>3 DEF FreeTodo

LEMMA NoneFree == TodoFits(NoOp, <<>>) /\ FreeTodo(<<>>) /\ IsSeq(<<>>)
<1>1. Len(<<>>) = 0 /\ IsSeq(<<>>)  BY Tuples
<1> QED BY <1>1, NoSteps DEF FreeTodo
-----------------------------------------------------------------------------
(* Every finite set of numbers has an ascending enumeration.               *)
Ascending(s, n) == \A i \in 2..n : s[i - 1] < s[i]
Enumerations(S, n) == {s \in [1..n -> S] : Ascending(s, n)}

LEMMA Enumerated ==
    ASSUME NEW S, S \subseteq Nat, IsFiniteSet(S)
    PROVE  Enumerations(S, Cardinality(S)) # {}
<1> DEFINE Bad == {n \in Nat : \E X \in SUBSET Nat : /\ IsFiniteSet(X) /\ Cardinality(X) = n
                                                     /\ Enumerations(X, n) = {}}
<1>1. Bad = {}
  <2> SUFFICES ASSUME Bad # {} PROVE FALSE
    OBVIOUS
  <2>1. PICK n \in Bad : \A m \in Bad : n <= m
    <3>1. Bad \subseteq Nat  OBVIOUS
    <3> HIDE DEF Bad
    <3> QED BY <3>1, LeastOf
  <2>2. n \in Nat  BY <2>1
  <2>3. PICK X \in SUBSET Nat : IsFiniteSet(X) /\ Cardinality(X) = n /\ Enumerations(X, n) = {}
    BY <2>1
  <2>4. CASE n = 0
    <3> DEFINE s == [i \in 1..0 |-> 0]
    <3>1. s \in [1..0 -> X]  OBVIOUS
    <3>2. Ascending(s, 0)  BY DEF Ascending
    <3> HIDE DEF s
    <3> QED BY <2>3, <2>4, <3>1, <3>2 DEF Enumerations
  <2>5. CASE n # 0
    <3>1. X # {}  BY <2>3, <2>5, FS_EmptySet
    <3>2. PICK x \in X : \A y \in X : x <= y  BY <3>1, LeastOf
    <3> DEFINE Y == X \ {x}
    <3>3. IsFiniteSet(Y) /\ Cardinality(Y) = n - 1  BY <2>3, <3>2, FS_RemoveElement
    <3>4. n - 1 \in Nat /\ ~(n <= n - 1)  BY <2>2, <2>5
    <3>5. n - 1 \notin Bad  BY <2>1, <3>4
    <3>6. Y \in SUBSET Nat  BY <2>3
    <3> HIDE DEF Y
    <3>7. Enumerations(Y, n - 1) # {}  BY <3>3, <3>4, <3>5, <3>6
    <3>8. PICK s \in Enumerations(Y, n - 1) : TRUE  BY <3>7
    <3>9. s \in [1..(n - 1) -> Y] /\ Ascending(s, n - 1)  BY <3>8 DEF Enumerations
    <3> DEFINE z == [i \in 1..n |-> IF i = 1 THEN x ELSE s[i - 1]]
    <3>10. \A y \in Y : y \in X /\ y \in Nat /\ x < y  BY <2>3, <3>2 DEF Y
    <3>11. ASSUME NEW i \in 2..n PROVE i - 1 \in 1..(n - 1) /\ i - 1 \in 1..n
      BY <2>2
    <3>12. \A i \in 2..n : z[i] = s[i - 1] /\ s[i - 1] \in Y
      <4> TAKE i \in 2..n
      <4>1. i \in 1..n /\ i # 1 /\ i - 1 \in 1..(n - 1)  BY <2>2
      <4> QED BY <3>9, <4>1
    <3>13. z \in [1..n -> X]
      <4>1. \A i \in 1..n : i # 1 => i \in 2..n  BY <2>2
      <4>2. \A i \in 1..n : z[i] \in X
        <5> TAKE i \in 1..n
        <5>1. CASE i = 1  BY <3>2, <5>1
        <5>2. CASE i # 1
          <6>1. z[i] \in Y  BY <3>12, <4>1, <5>2
          <6> QED BY <3>10, <6>1
        <5> QED BY <5>1, <5>2
      <4>3. z = [i \in 1..n |-> z[i]]  OBVIOUS
      <4> HIDE DEF z
      <4> QED BY <4>2, <4>3
    <3>14. Ascending(z, n)
      <4> SUFFICES ASSUME NEW i \in 2..n PROVE z[i - 1] < z[i]
        BY DEF Ascending
      <4>1. z[i] = s[i - 1] /\ s[i - 1] \in Y  BY <3>12
      <4>2. CASE i = 2
        <5>1. z[1] = x /\ i - 1 = 1  BY <2>2, <2>5, <4>2
        <5> HIDE DEF z
        <5> QED BY <3>10, <4>1, <5>1
      <4>3. CASE i # 2
        <5>1. i - 1 \in 2..n /\ i - 1 \in 2..(n - 1)  BY <2>2, <4>3
        <5>2. z[i - 1] = s[i - 1 - 1]  BY <3>12, <5>1
        <5>3. s[i - 1 - 1] < s[i - 1]  BY <3>9, <5>1 DEF Ascending
        <5> HIDE DEF z
        <5> QED BY <4>1, <5>2, <5>3
      <4> QED BY <4>2, <4>3
    <3> HIDE DEF z
    <3>15. z \in Enumerations(X, n)  BY <3>13, <3>14 DEF Enumerations
    <3> QED BY <2>3, <3>15
  <2> QED BY <2>4, <2>5
<1>2. Cardinality(S) \in Nat  BY FS_CardinalityType
<1> QED BY <1>1, <1>2

LEMMA SortedFacts ==
    ASSUME NEW S, S \subseteq Nat, IsFiniteSet(S)
    PROVE  /\ Cardinality(S) \in Nat /\ Sorted(S) \in [1..Cardinality(S) -> S]
           /\ Ascending(Sorted(S), Cardinality(S))
           /\ IsSeq(Sorted(S)) /\ Len(Sorted(S)) = Cardinality(S)
<1> DEFINE n == Cardinality(S)
<1>1. n \in Nat  BY FS_CardinalityType
<1>2. \E s \in [1..n -> S] : \A i \in 2..n : s[i - 1] < s[i]
  <2>1. PICK s \in Enumerations(S, n) : TRUE  BY Enumerated
  <2> QED BY <2>1 DEF Enumerations, Ascending
<1>3. /\ Sorted(S) \in [1..n -> S]
      /\ \A i \in 2..n : Sorted(S)[i - 1] < Sorted(S)[i]
  BY <1>2 DEF Sorted
<1> HIDE DEF n
<1> DEFINE s == Sorted(S)
<1>7. s \in [1..n -> S]  BY <1>3
<1>8. DOMAIN s = 1..n
  <2> HIDE DEF s
  <2> QED BY <1>7, Zenon
<1> HIDE DEF s
<1>4. s \in Seq(S)
  <2>1. \E m \in Nat : s \in [1..m -> S]  BY <1>1, <1>7, Zenon
  <2> QED BY ONLY <2>1, SeqDef, Zenon
<1>5. IsSeq(s)  BY <1>4, OverItself
<1>6. Len(s) = n
  <2>1. DOMAIN s = 1..Len(s) /\ Len(s) \in Nat  BY <1>5, SeqFacts
  <2> QED BY ONLY <1>1, <1>8, <2>1
<1> QED BY <1>1, <1>3, <1>5, <1>6 DEF n, s, Ascending
-----------------------------------------------------------------------------
(* A list of steps whose kinds are known one by one.                       *)
LEMMA FourInOrder ==
    ASSUME NEW x, NEW y, NEW z, NEW w, Precedes(x.k, y.k), Precedes(y.k, z.k), Precedes(z.k, w.k)
    PROVE  InOrder(<<x, y, z, w>>)
BY DEF InOrder

LEMMA PartIdsFit ==
    ASSUME SessionsFit, MaxPart \in Nat, NEW u
    PROVE  /\ IsSeq(get_sorted_part_ids(u)) /\ Len(get_sorted_part_ids(u)) \in Nat
<1>1. CASE HasSession(u)
  <2> DEFINE S == DOMAIN sessions[u].chunks
  <2>1. S \subseteq 1..MaxPart  BY <1>1 DEF SessionsFit, HasSession
  <2>2. S \subseteq Nat  BY <2>1
  <2>3. IsFiniteSet(S)
    <3>1. IsFiniteSet(1..MaxPart)  BY FS_Interval
    <3> HIDE DEF S
    <3> QED BY <2>1, <3>1, FS_Subset
  <2>4. get_sorted_part_ids(u) = Sorted(S)  BY <1>1 DEF get_sorted_part_ids
  <2> HIDE DEF S
  <2> QED BY <2>2, <2>3, <2>4, SortedFacts
<1>2. CASE ~HasSession(u)
  <2>1. get_sorted_part_ids(u) = <<>>  BY <1>2 DEF get_sorted_part_ids
  <2> QED BY <2>1, Tuples
<1> QED BY <1>1, <1>2

LEMMA ReadsFit ==
    ASSUME NEW op, op.kind = "assemble", NEW ids, IsSeq(ids)
    PROVE  LET t == [i \in 1..Len(ids) |-> Step("read", Root, Root, ids[i], {})]
           IN  TodoFits(op, t) /\ FreeTodo(t) /\ IsSeq(t) /\ Len(t) = Len(ids)
<1> DEFINE t == [i \in 1..Len(ids) |-> Step("read", Root, Root, ids[i], {})]
<1>1. Len(ids) \in Nat  BY SeqFacts
<1>2. Belongs(op, "read")  BY DEF Belongs, UploadOps, StepsOf, ChunkSteps
<1>3. \A i \in 1..Len(ids) : StepFits(op, t[i]) /\ t[i].k = "read"
  <2> TAKE i \in 1..Len(ids)
  <2>1. t[i] = Step("read", Root, Root, ids[i], {})  OBVIOUS
  <2> HIDE DEF t
  <2>2. StepFits(op, t[i])  BY <1>2, <2>1, RootIsSeq, SomeStep
  <2> QED BY <2>1, <2>2 DEF Step
<1>4. IsSeq(t) /\ Len(t) = Len(ids)
  <2> DEFINE S == {t[i] : i \in 1..Len(ids)}
  <2>1. t \in [1..Len(ids) -> S] /\ DOMAIN t = 1..Len(ids)  OBVIOUS
  <2> HIDE DEF S, t
  <2>2. t \in Seq(S)  BY <1>1, <2>1, SeqDef, Zenon
  <2>3. IsSeq(t)  BY <2>2, OverItself
  <2>4. Len(t) \in Nat /\ DOMAIN t = 1..Len(t)  BY <2>3, SeqFacts
  <2>5. Len(t) = Len(ids)  BY ONLY <1>1, <2>1, <2>4
  <2> QED BY <2>3, <2>5
<1> HIDE DEF t
<1>5. TodoFits(op, t) /\ FreeTodo(t)  BY <1>3, <1>4 DEF TodoFits, FreeTodo, FreeSteps
<1> QED BY <1>4, <1>5 DEF t

(* What is left to do once the parts have been read.                       *)
AfterReads == <<Do("asmquota"), Do("target"), Do("parent"), Do("asmwrite"), Do("asmrow")>>

LEMMA AfterReadsFit ==
    ASSUME NEW op, op.kind = "assemble"
    PROVE  TodoFits(op, AfterReads) /\ FreeTodo(AfterReads) /\ IsSeq(AfterReads)
<1> DEFINE a == <<Do("asmquota"), Do("target"), Do("parent"), Do("asmwrite")>>
           b == <<Do("asmrow")>>
<1>1. \A k \in {"asmquota", "target", "parent", "asmwrite", "asmrow"} : Belongs(op, k)
  BY DEF Belongs, UploadOps, StepsOf, ChunkSteps
<1>2. \A k \in {"asmquota", "target", "parent", "asmwrite", "asmrow"} : StepFits(op, Do(k))
  BY <1>1, PlainStep
<1>3. TodoFits(op, a) /\ TodoFits(op, b)  BY <1>2, OneStep, FourSteps
<1>4. AfterReads = a \o b  BY DEF AfterReads
<1>5. TodoFits(op, AfterReads)
  <2> HIDE DEF a, b
  <2> QED BY <1>3, <1>4, BothFit
<1>6. FreeTodo(AfterReads)  BY DEF FreeTodo, FreeSteps, AfterReads, Do, Step
<1> QED BY <1>5, <1>6 DEF TodoFits

LEMMA AfterAssemblyFits ==
    ASSUME NEW r, req[r].op.kind = "assemble", IsSeq(req[r].op.to), NEW n
    PROVE  LET t == AfterAssembly(r, n) IN
           /\ TodoFits(req[r].op, t) /\ InOrder(t) /\ t[1].k = "lazy"
           /\ \A i \in 1..Len(t) : t[i].k \notin ChunkSteps
<1> DEFINE op == req[r].op
           d  == n - req[r].row.size
           to == op.to
           a == <<DoAt("lazy", UploadsPath), Prop(to, d), Prop(SourcePath, 0)>>
           b == <<Do("asmentity"), Do("rmchunks"), Do("endsession"), Do("done")>>
<1>1. \A k \in {"lazy", "prop", "asmentity", "rmchunks", "endsession", "done"} : Belongs(op, k)
  BY DEF Belongs, UploadOps, StepsOf, ChunkSteps
<1>2. IsSeq(UploadsPath) /\ IsSeq(SourcePath)
  <2>1. IsSeq(UploadsPath)  BY Tuples DEF UploadsPath
  <2>2. SourcePath \in Seq(Range(SourcePath))
    BY DEF SourcePath, UploadsPath, Range
  <2> QED BY <2>1, <2>2 DEF IsSeq
<1> HIDE DEF op, d, to
<1>3. StepFits(op, DoAt("lazy", UploadsPath)) /\ \A k \in {"asmentity", "rmchunks", "endsession", "done"} : StepFits(op, Do(k))
  BY <1>1, <1>2, StepAt, PlainStep
<1>4. IsSeq(to)  BY DEF to, op
<1>5. StepFits(op, Prop(to, d)) /\ StepFits(op, Prop(SourcePath, 0))
  BY <1>1, <1>2, <1>4, RootIsSeq, SomeStep DEF Prop
<1>6. TodoFits(op, a) /\ TodoFits(op, b)  BY <1>3, <1>5, ThreeSteps, FourSteps
<1>7. AfterAssembly(r, n) = a \o b  BY DEF AfterAssembly, op, d, to
<1>8. TodoFits(op, a \o b)
  <2> HIDE DEF a, b
  <2> QED BY <1>6, BothFit
<1>9. /\ InOrder(a \o b) /\ (a \o b)[1].k = "lazy"
      /\ \A i \in 1..Len(a \o b) : (a \o b)[i].k \notin ChunkSteps
  BY DEF InOrder, Precedes, ChunkSteps, Do, DoAt, Prop, Step
<1> QED BY <1>7, <1>8, <1>9 DEF op

LEMMA UploadStepTurns ==
    ASSUME WellFormed, SessionsFit, MaxPart \in Nat, NEW r \in Reqs, InOrder(req[r].todo), UploadStep(r)
    PROVE  Kept(r) /\ Turned(r)
<1> DEFINE op == req[r].op
           ids == get_sorted_part_ids(Up(r))
<1>t. /\ TableFits(fc) /\ DiskFits(disk) /\ DOMAIN req[r] = DOMAIN Idle /\ OpFits(op)
      /\ "op" \in DOMAIN req[r]
  BY DEF WellFormed, RequestFits, Idle
<1>b. ASSUME NEW k, At(r, k) PROVE Belongs(op, k)
  BY <1>b, AtHead
<1>n. TodoFits(op, <<>>) /\ InOrder(<<>>)
  BY NoSteps, Tuples DEF InOrder
<1>c. ASSUME UNCHANGED <<fc, disk, nextEtag>>
      PROVE  TableFits(fc') /\ DiskFits(disk') /\ Stamped
  BY <1>c, SameEtags DEF WellFormed
<1>1. CASE handle_mkcol(r)
  <2>1. At(r, "mkslot") /\ Advance(r, <<Do("done")>>, req[r]) /\ nextEtag' = nextEtag + 1 /\ UNCHANGED <<fc, disk>>
    BY <1>1 DEF handle_mkcol
  <2>2. Stamped  BY <2>1 DEF Stamped, WellFormed
  <2>3. Belongs(op, "mkslot")  BY <1>b, <2>1
  <2>4. Belongs(op, "done")  BY <2>3 DEF Belongs, StepsOf, UploadOps, UploadSteps, ChunkSteps
  <2>5. TodoFits(op, <<Do("done")>>) /\ FreeTodo(<<Do("done")>>)  BY <2>4, OneFree DEF FreeSteps
  <2> QED BY <1>t, <2>1, <2>2, <2>5, UpAsks
<1>2. CASE PutChunkAdmit(r)
  <2> DEFINE more == <<Do("chunkquota"), Do("chunkcreate"), Do("chunkbody"), Do("addchunk")>>
  <2>1. At(r, "putchunk") /\ UNCHANGED <<fc, disk, nextEtag>>  BY <1>2 DEF PutChunkAdmit, KeepFiles
  <2>2. \/ \E st : Fail(r, st)
        \/ HasSession(Up(r)) /\ op.part \in 1..MaxPart /\ Advance(r, more, req[r])
    BY <1>2, Zenon DEF PutChunkAdmit
  <2>3. CASE HasSession(Up(r)) /\ op.part \in 1..MaxPart /\ Advance(r, more, req[r])
    <3>1. Belongs(op, "putchunk")  BY <1>b, <2>1
    <3>2. \A k \in ChunkSteps : Belongs(op, k)
      BY <2>3, <3>1 DEF Belongs, StepsOf, UploadOps, UploadSteps, ChunkSteps
    <3>3. \A k \in ChunkSteps : StepFits(op, Do(k))  BY <3>2, PlainStep
    <3>4. TodoFits(op, more)  BY <3>3, FourSteps DEF ChunkSteps
    <3>5. InOrder(more) /\ more[1].k \notin {"chunkbody", "addchunk", "endsession"}
      BY DEF InOrder, Precedes, Do, Step
    <3> HIDE DEF op, more
    <3> QED BY <1>t, <1>c, <2>1, <2>3, <3>4, <3>5, UpCalls DEF op
  <2> QED BY <2>1, <2>2, <2>3, UpRefuses
<1>3. CASE ChunkQuota(r)
  <2>1. At(r, "chunkquota") /\ UNCHANGED <<fc, disk, nextEtag>> /\ (Next1(r) \/ \E st : Fail(r, st))
    BY <1>3, Zenon DEF ChunkQuota, KeepFiles
  <2> QED BY <2>1, UpPasses, UpRefuses
<1>4. CASE ChunkCreate(r)
  <2>1. At(r, "chunkcreate") /\ UNCHANGED <<fc, disk, nextEtag>> /\ Next1(r)
    BY <1>4 DEF ChunkCreate, KeepFiles
  <2> QED BY <2>1, UpPasses
<1>5. CASE ChunkBody(r)
  <2>1. At(r, "chunkbody") /\ UNCHANGED <<fc, disk, nextEtag>> /\ (Next1(r) \/ \E st : Fail(r, st))
    BY <1>5, Zenon DEF ChunkBody, KeepFiles
  <2> QED BY <2>1, UpPasses, UpRefuses
<1>6. CASE add_chunk(r)
  <2>1. /\ At(r, "addchunk") /\ UNCHANGED <<fc, disk, nextEtag>>
        /\ Advance(r, <<Do("done")>>, req[r]) \/ \E st : Fail(r, st)
    BY <1>6, Zenon DEF add_chunk, KeepFiles
  <2>3. Belongs(op, "addchunk")  BY <1>b, <2>1
  <2>4. Belongs(op, "done")  BY <2>3 DEF Belongs, StepsOf, UploadOps, UploadSteps, ChunkSteps
  <2>5. TodoFits(op, <<Do("done")>>) /\ FreeTodo(<<Do("done")>>)  BY <2>4, OneFree DEF FreeSteps
  <2> QED BY <1>t, <1>c, <2>1, <2>5, UpAsks, UpRefuses
<1>7. CASE AssembleSession(r)
  <2> DEFINE a == IF op.known THEN <<Do("total")>> ELSE <<>>
  <2>1. /\ At(r, "assemble") /\ UNCHANGED <<fc, disk, nextEtag>>
        /\ Advance(r, a \o <<Do("parts")>>, req[r]) \/ \E st : Fail(r, st)
    BY <1>7, Zenon DEF AssembleSession, KeepFiles
  <2>3. Belongs(op, "assemble")  BY <1>b, <2>1
  <2>4. Belongs(op, "total") /\ Belongs(op, "parts")
    BY <2>3 DEF Belongs, StepsOf, UploadOps, UploadSteps, ChunkSteps
  <2>5. TodoFits(op, a) /\ FreeTodo(a) /\ IsSeq(a)
    BY <1>n, <2>4, OneFree, NoneFree DEF FreeSteps
  <2>6. TodoFits(op, <<Do("parts")>>) /\ FreeTodo(<<Do("parts")>>) /\ IsSeq(<<Do("parts")>>)
    BY <2>4, OneFree DEF FreeSteps
  <2> HIDE DEF op, a
  <2>7. TodoFits(op, a \o <<Do("parts")>>) /\ FreeTodo(a \o <<Do("parts")>>)
    BY <2>5, <2>6, BothFit, FreeJoined
  <2> QED BY <1>t, <1>c, <2>1, <2>7, UpAsks, UpRefuses DEF op
<1>8. CASE AssembleTotal(r)
  <2>1. At(r, "total") /\ UNCHANGED <<fc, disk, nextEtag>> /\ (Next1(r) \/ \E st : Fail(r, st))
    BY <1>8, Zenon DEF AssembleTotal, KeepFiles
  <2> QED BY <2>1, UpPasses, UpRefuses
<1>9. CASE AssembleParts(r)
  <2> DEFINE a == [i \in 1..Len(ids) |-> Step("read", Root, Root, ids[i], {})]
  <2>1. /\ At(r, "parts") /\ UNCHANGED <<fc, disk, nextEtag>>
        /\ Advance(r, a \o AfterReads, req[r]) \/ \E st : Fail(r, st)
    BY <1>9, Zenon DEF AssembleParts, KeepFiles, AfterReads
  <2>3. Belongs(op, "parts")  BY <1>b, <2>1
  <2>4. op.kind = "assemble"
    BY <2>3 DEF Belongs, StepsOf, UploadOps, UploadSteps, ChunkSteps
  <2>5. IsSeq(ids)  BY PartIdsFit
  <2> HIDE DEF op, ids
  <2>6. TodoFits(op, a) /\ FreeTodo(a) /\ IsSeq(a)  BY <2>4, <2>5, ReadsFit
  <2>7. TodoFits(op, AfterReads) /\ FreeTodo(AfterReads) /\ IsSeq(AfterReads)  BY <2>4, AfterReadsFit
  <2> HIDE DEF a
  <2>8. TodoFits(op, a \o AfterReads) /\ FreeTodo(a \o AfterReads)
    BY <2>6, <2>7, BothFit, FreeJoined
  <2> QED BY <1>t, <1>c, <2>1, <2>8, UpAsks, UpRefuses DEF op
<1>10. CASE AssembleRead(r)
  <2>1. At(r, "read") /\ UNCHANGED <<fc, disk, nextEtag>> /\ (Next1(r) \/ \E st : Fail(r, st))
    BY <1>10, Zenon DEF AssembleRead, KeepFiles
  <2> QED BY <2>1, UpPasses, UpRefuses
<1>11. CASE AssembleQuota(r)
  <2>1. At(r, "asmquota") /\ UNCHANGED <<fc, disk, nextEtag>> /\ (Next1(r) \/ \E st : Fail(r, st))
    BY <1>11, Zenon DEF AssembleQuota, KeepFiles
  <2> QED BY <2>1, UpPasses, UpRefuses
<1>12. CASE AssembleTarget(r)
  <2> DEFINE l == FoundRow(r, op.to)
  <2>1. At(r, "target") /\ UNCHANGED <<fc, disk, nextEtag>> /\ Advance(r, <<>>, l)
    BY <1>12 DEF AssembleTarget, KeepFiles
  <2>2. DOMAIN l = DOMAIN Idle /\ l.op = op  BY <1>t DEF FoundRow
  <2> HIDE DEF l, op
  <2> QED BY <1>c, <2>1, <2>2, UpGoesOn DEF op
<1>13. CASE AssembleParent(r)
  <2> DEFINE l == [req[r] EXCEPT !.pid = lookup_by_path(fc, ParentPath(op.to))]
  <2>1. /\ At(r, "parent") /\ UNCHANGED <<fc, disk, nextEtag>>
        /\ Advance(r, <<>>, l) \/ \E st : Fail(r, st)
    BY <1>13, Zenon DEF AssembleParent, KeepFiles
  <2>2. DOMAIN l = DOMAIN Idle /\ l.op = op  BY <1>t
  <2> HIDE DEF l, op
  <2> QED BY <1>c, <2>1, <2>2, UpGoesOn, UpRefuses DEF op
<1>14. CASE AssembleWrite(r)
  <2> DEFINE m == IF op.mtime # 0 THEN op.mtime ELSE clock
             l == [req[r] EXCEPT !.um = m]
             p == op.to
             n == Len(loc[r].data)
  <2>1. At(r, "asmwrite") /\ UNCHANGED <<fc, nextEtag>>  BY <1>14 DEF AssembleWrite
  <2>2. /\ \/ disk' = WithDirs(disk, ParentPath(p))
           \/ disk' = WrittenFile(p, n, clock)
           \/ disk' = WrittenFile(p, n, m)
        /\ Advance(r, <<>>, l) \/ \E st : Fail(r, st)
    BY <1>14, Zenon DEF AssembleWrite
  <2>3. DOMAIN l = DOMAIN Idle /\ l.op = op  BY <1>t
  <2>4. IsSeq(p) /\ IsSeq(ParentPath(p))  BY <1>t, DerivedPaths DEF OpFits
  <2> HIDE DEF l, p, n, m, op
  <2>5. DiskFits(WithDirs(disk, ParentPath(p)))  BY <1>t, <2>4, DirsOnDisk
  <2>6. \A x : DiskFits(WrittenFile(p, n, x))
    BY <2>4, <2>5, FileOnDisk DEF WrittenFile
  <2>7. DiskFits(disk')  BY <2>2, <2>5, <2>6
  <2>8. TableFits(fc') /\ Stamped  BY <1>t, <2>1, SameEtags
  <2>9. CASE Advance(r, <<>>, l)
    BY <2>1, <2>3, <2>7, <2>8, <2>9, UpGoesOn DEF op
  <2>10. CASE \E st : Fail(r, st)
    BY <2>7, <2>8, <2>10, Failing, TurningDown DEF Kept
  <2> QED BY <2>2, <2>9, <2>10
<1>15. CASE AssembleRow(r)
  <2> DEFINE p == op.to
             n == Len(loc[r].data)
             more == AfterAssembly(r, n)
             l == [req[r] EXCEPT !.fid = nextId]
  <2>1. At(r, "asmrow") /\ disk' = disk  BY <1>15 DEF AssembleRow
  <2>2. \/ UpdatedRows(r) /\ Advance(r, more, req[r])
        \/ (\E st : Fail(r, st)) /\ UNCHANGED <<fc, nextEtag>>
        \/ InsertedRow(r, p, n) /\ Advance(r, more, l)
    BY <1>15, Zenon DEF AssembleRow
  <2>3. Belongs(op, "asmrow")  BY <1>b, <2>1
  <2>4. op.kind = "assemble"
    BY <2>3 DEF Belongs, StepsOf, UploadOps, UploadSteps, ChunkSteps
  <2>5. IsSeq(p)  BY <1>t DEF OpFits
  <2>6. /\ TodoFits(op, more) /\ InOrder(more) /\ more[1].k = "lazy"
        /\ \A i \in 1..Len(more) : more[i].k \notin ChunkSteps
    BY <2>4, <2>5, AfterAssemblyFits
  <2>7. DOMAIN l = DOMAIN Idle /\ l.op = op  BY <1>t
  <2> HIDE DEF op, more, l, n
  <2>8. CASE UpdatedRows(r) /\ Advance(r, more, req[r])
    <3>1. TableFits(fc') /\ Stamped  BY <2>8, UpdateFits
    <3>2. DiskFits(disk')  BY <1>t, <2>1
    <3> QED BY <1>t, <2>1, <2>6, <2>8, <3>1, <3>2, UpCalls DEF op
  <2>9. CASE InsertedRow(r, p, n) /\ Advance(r, more, l)
    <3>1. TableFits(fc') /\ Stamped  BY <2>5, <2>9, InsertFits
    <3>2. DiskFits(disk')  BY <1>t, <2>1
    <3> QED BY <1>t, <2>1, <2>6, <2>7, <2>9, <3>1, <3>2, UpCalls DEF op
  <2>10. CASE (\E st : Fail(r, st)) /\ UNCHANGED <<fc, nextEtag>>
    BY <2>1, <2>10, UpRefuses
  <2> QED BY <2>2, <2>8, <2>9, <2>10
<1>16. CASE AssembleEntity(r)
  <2>1. At(r, "asmentity") /\ UNCHANGED <<fc, disk, nextEtag>> /\ Next1(r)
    BY <1>16 DEF AssembleEntity
  <2> QED BY <2>1, UpPasses
<1>17. CASE cleanup_chunks(r)
  <2>1. At(r, "rmchunks") /\ UNCHANGED <<fc, disk, nextEtag>> /\ Next1(r)
    BY <1>17 DEF cleanup_chunks, KeepFiles
  <2> QED BY <2>1, UpPasses
<1>18. CASE remove_session(r)
  <2>1. At(r, "endsession") /\ UNCHANGED <<fc, disk, nextEtag>> /\ Next1(r)
    BY <1>18 DEF remove_session, KeepFiles
  <2> QED BY <2>1, UpPasses
<1>19. CASE handle_delete(r)
  <2> DEFINE more == <<Do("rmchunks"), Do("endsession"), Do("done")>>
  <2>1. At(r, "abort") /\ UNCHANGED <<fc, disk, nextEtag>> /\ Advance(r, more, req[r])
    BY <1>19 DEF handle_delete, KeepFiles
  <2>2. Belongs(op, "abort")  BY <1>b, <2>1
  <2>3. \A k \in {"rmchunks", "endsession", "done"} : Belongs(op, k)
    BY <2>2 DEF Belongs, StepsOf, UploadOps, UploadSteps, ChunkSteps
  <2>4. \A k \in {"rmchunks", "endsession", "done"} : StepFits(op, Do(k))  BY <2>3, PlainStep
  <2>5. TodoFits(op, more)  BY <2>4, ThreeSteps
  <2>6. /\ InOrder(more) /\ more[1].k = "rmchunks"
        /\ \A i \in 1..Len(more) : more[i].k \notin ChunkSteps
    BY DEF InOrder, Precedes, ChunkSteps, Do, Step
  <2> HIDE DEF op, more
  <2> QED BY <1>t, <1>c, <2>1, <2>5, <2>6, UpCalls DEF op
<1>20. CASE handle_propfind(r)
  <2>1. /\ At(r, "slotinfo") /\ UNCHANGED <<fc, disk, nextEtag>>
        /\ Advance(r, <<Do("done")>>, req[r]) \/ \E st : Fail(r, st)
    BY <1>20, Zenon DEF handle_propfind, KeepFiles
  <2>3. Belongs(op, "slotinfo")  BY <1>b, <2>1
  <2>4. Belongs(op, "done")  BY <2>3 DEF Belongs, StepsOf, UploadOps, UploadSteps, ChunkSteps
  <2>5. TodoFits(op, <<Do("done")>>) /\ FreeTodo(<<Do("done")>>)  BY <2>4, OneFree DEF FreeSteps
  <2> QED BY <1>t, <1>c, <2>1, <2>5, UpAsks, UpRefuses
<1> QED BY <1>1, <1>2, <1>3, <1>4, <1>5, <1>6, <1>7, <1>8, <1>9, <1>10, <1>11, <1>12, <1>13, <1>14,
           <1>15, <1>16, <1>17, <1>18, <1>19, <1>20 DEF UploadStep
-----------------------------------------------------------------------------
(* A step of r changes the slot and the directory of its own upload only;  *)
(* the slot goes with "endsession", a directory comes with "chunkcreate"   *)
(* and has gone after "rmchunks".                                          *)
ChangesOwn(r) ==
    /\ UNCHANGED <<plan, over, restarts>> /\ SessionsFit'
    /\ \A u : u # Up(r) => /\ u \in DOMAIN sessions' <=> u \in DOMAIN sessions
                           /\ u \in DOMAIN chunkdir' <=> u \in DOMAIN chunkdir
    /\ HasSession(Up(r)) => Up(r) \in DOMAIN sessions' \/ At(r, "endsession")
    /\ Up(r) \in DOMAIN chunkdir' => HasDir(Up(r)) \/ At(r, "chunkcreate")
    /\ At(r, "rmchunks") => Up(r) \notin DOMAIN chunkdir'

LEMMA SlotsKept ==
    ASSUME SessionsFit, NEW r, UNCHANGED <<plan, sessions, chunkdir, over, restarts>>, ~At(r, "rmchunks")
    PROVE  ChangesOwn(r)
BY DEF ChangesOwn, SessionsFit, HasSession, HasDir

LEMMA DirsChanged ==
    ASSUME SessionsFit, NEW r, UNCHANGED <<plan, sessions, over, restarts>>,
           \A u : u # Up(r) => (u \in DOMAIN chunkdir' <=> u \in DOMAIN chunkdir),
           Up(r) \in DOMAIN chunkdir' => HasDir(Up(r)) \/ At(r, "chunkcreate"),
           At(r, "rmchunks") => Up(r) \notin DOMAIN chunkdir'
    PROVE  ChangesOwn(r)
BY DEF ChangesOwn, SessionsFit, HasSession, HasDir

LEMMA SessionsChanged ==
    ASSUME NEW r, UNCHANGED <<plan, chunkdir, over, restarts>>, SessionsFit',
           \A u : u # Up(r) => (u \in DOMAIN sessions' <=> u \in DOMAIN sessions),
           HasSession(Up(r)) => Up(r) \in DOMAIN sessions' \/ At(r, "endsession"),
           ~At(r, "rmchunks")
    PROVE  ChangesOwn(r)
BY DEF ChangesOwn, HasSession, HasDir

LEMMA UploadEffects ==
    ASSUME WellFormed, SessionsFit, NEW r \in Reqs, UploadStep(r)
    PROVE  ChangesOwn(r)
<1> DEFINE u == Up(r)
           n == req[r].op.part
<1>a. \A k, j : At(r, k) /\ At(r, j) => k = j  BY DEF At
<1>b. ASSUME At(r, "chunkbody") \/ At(r, "addchunk") PROVE n \in 1..MaxPart
  <2>1. Belongs(req[r].op, "chunkbody") \/ Belongs(req[r].op, "addchunk")  BY <1>b, AtHead
  <2> QED BY <2>1 DEF Belongs, StepsOf, UploadOps, UploadSteps, ChunkSteps
<1>g. ASSUME chunkdir' = remove_dir_all(u)
      PROVE  DOMAIN chunkdir' = DOMAIN chunkdir \ {u}
  <2>1. DOMAIN remove_dir_all(u) = DOMAIN chunkdir \ {u}  BY DEF remove_dir_all, Restrict
  <2> QED BY <1>g, <2>1
<1>1. CASE handle_mkcol(r)
  <2> DEFINE v == [gen |-> nextEtag, chunks |-> <<>>]
  <2>1. At(r, "mkslot") /\ UNCHANGED <<plan, chunkdir, over, restarts>> /\ sessions' = InsertRow(sessions, u, v)
    BY <1>1 DEF handle_mkcol, create_session
  <2>2. DOMAIN v = {"gen", "chunks"} /\ DOMAIN v.chunks \subseteq 1..MaxPart
    BY Tuples, SeqFacts
  <2> HIDE DEF v, u
  <2>3. DOMAIN sessions' = DOMAIN sessions \cup {u}  BY <2>1 DEF InsertRow
  <2>4. \A x \in DOMAIN sessions' : sessions'[x] = v \/ (x \in DOMAIN sessions /\ sessions'[x] = sessions[x])
    BY <2>1 DEF InsertRow
  <2>5. SessionsFit'  BY <2>2, <2>4 DEF SessionsFit
  <2> QED BY <1>a, <2>1, <2>3, <2>5, SessionsChanged DEF u, HasSession
<1>2. CASE add_chunk(r)
  <2>1. At(r, "addchunk") /\ UNCHANGED <<plan, chunkdir, over, restarts>>  BY <1>2 DEF add_chunk
  <2>2. CASE HasSession(u)
    <3> DEFINE c == InsertRow(sessions[u].chunks, n, ContentLength(req[r].op))
    <3>1. sessions' = [sessions EXCEPT ![u].chunks = c]  BY <1>2, <2>2 DEF add_chunk
    <3>2. n \in 1..MaxPart  BY <1>b, <2>1
    <3>3. DOMAIN sessions[u].chunks \subseteq 1..MaxPart /\ DOMAIN sessions[u] = {"gen", "chunks"}
      BY <2>2 DEF SessionsFit, HasSession
    <3>4. DOMAIN c \subseteq 1..MaxPart  BY <3>2, <3>3 DEF InsertRow
    <3> HIDE DEF c, u
    <3>5. DOMAIN sessions' = DOMAIN sessions  BY <3>1
    <3>6. sessions'[u] = [sessions[u] EXCEPT !.chunks = c]  BY <2>2, <3>1 DEF HasSession
    <3>7. DOMAIN sessions'[u] = {"gen", "chunks"} /\ sessions'[u].chunks = c  BY <3>3, <3>6
    <3>8. \A x \in DOMAIN sessions : x # u => sessions'[x] = sessions[x]  BY <3>1
    <3>9. SessionsFit'  BY <3>4, <3>5, <3>7, <3>8 DEF SessionsFit
    <3> QED BY <1>a, <2>1, <3>5, <3>9, SessionsChanged DEF u, HasSession
  <2>3. CASE ~HasSession(u)
    <3>1. sessions' = sessions  BY <1>2, <2>3 DEF add_chunk
    <3> QED BY <1>a, <2>1, <3>1, SlotsKept
  <2> QED BY <2>2, <2>3
<1>3. CASE remove_session(r)
  <2>1. /\ At(r, "endsession") /\ UNCHANGED <<plan, chunkdir, over, restarts>>
        /\ sessions' = Restrict(sessions, DOMAIN sessions \ {u})
    BY <1>3 DEF remove_session
  <2> HIDE DEF u
  <2>2. DOMAIN sessions' = DOMAIN sessions \ {u} /\ \A x \in DOMAIN sessions' : sessions'[x] = sessions[x]
    BY <2>1 DEF Restrict
  <2>3. SessionsFit'  BY <2>2 DEF SessionsFit
  <2> QED BY <1>a, <2>1, <2>2, <2>3, SessionsChanged DEF u, HasSession
<1>4. CASE ChunkCreate(r)
  <2>1. At(r, "chunkcreate") /\ UNCHANGED <<plan, sessions, over, restarts>>  BY <1>4 DEF ChunkCreate
  <2>2. PICK v : chunkdir' = InsertRow(chunkdir, u, v)  BY <1>4, Zenon DEF ChunkCreate
  <2>3. DOMAIN chunkdir' = DOMAIN chunkdir \cup {u}  BY <2>2 DEF InsertRow
  <2> HIDE DEF u
  <2> QED BY <1>a, <2>1, <2>3, DirsChanged DEF u
<1>5. CASE ChunkBody(r)
  <2>1. At(r, "chunkbody") /\ UNCHANGED <<plan, sessions, over, restarts>>  BY <1>5 DEF ChunkBody
  <2>2. DOMAIN chunkdir' = DOMAIN chunkdir  BY <1>5 DEF ChunkBody
  <2> HIDE DEF u
  <2> QED BY <1>a, <2>1, <2>2, DirsChanged DEF u, HasDir
<1>6. CASE AssembleTotal(r)
  <2>1. /\ At(r, "total") /\ UNCHANGED <<plan, sessions, over, restarts>>
        /\ chunkdir' = chunkdir \/ chunkdir' = remove_dir_all(u)
    BY <1>6 DEF AssembleTotal
  <2>2. chunkdir' = chunkdir \/ DOMAIN chunkdir' = DOMAIN chunkdir \ {u}  BY <1>g, <2>1
  <2> HIDE DEF u
  <2> QED BY <1>a, <2>1, <2>2, DirsChanged DEF u, HasDir
<1>7. CASE AssembleQuota(r)
  <2>1. /\ At(r, "asmquota") /\ UNCHANGED <<plan, sessions, over, restarts>>
        /\ chunkdir' = chunkdir \/ chunkdir' = remove_dir_all(u)
    BY <1>7 DEF AssembleQuota
  <2>2. chunkdir' = chunkdir \/ DOMAIN chunkdir' = DOMAIN chunkdir \ {u}  BY <1>g, <2>1
  <2> HIDE DEF u
  <2> QED BY <1>a, <2>1, <2>2, DirsChanged DEF u, HasDir
<1>8. CASE cleanup_chunks(r)
  <2>1. /\ At(r, "rmchunks") /\ UNCHANGED <<plan, sessions, over, restarts>>
        /\ chunkdir' = remove_dir_all(u)
    BY <1>8 DEF cleanup_chunks
  <2>2. DOMAIN chunkdir' = DOMAIN chunkdir \ {u}  BY <1>g, <2>1
  <2> HIDE DEF u
  <2> QED BY <1>a, <2>1, <2>2, DirsChanged DEF u, HasDir
<1>9. CASE \/ PutChunkAdmit(r) \/ ChunkQuota(r) \/ AssembleSession(r) \/ AssembleParts(r) \/ AssembleRead(r)
           \/ AssembleTarget(r) \/ AssembleParent(r) \/ AssembleWrite(r) \/ AssembleRow(r)
           \/ AssembleEntity(r) \/ handle_delete(r) \/ handle_propfind(r)
  <2>1. UNCHANGED uvars
    BY <1>9 DEF PutChunkAdmit, ChunkQuota, AssembleSession, AssembleParts, AssembleRead, AssembleTarget,
                AssembleParent, AssembleWrite, AssembleRow, AssembleEntity, handle_delete, handle_propfind,
                KeepUpload
  <2>2. \E k \in UploadSteps \ {"rmchunks"} : At(r, k)
    BY <1>9 DEF PutChunkAdmit, ChunkQuota, AssembleSession, AssembleParts, AssembleRead, AssembleTarget,
                AssembleParent, AssembleWrite, AssembleRow, AssembleEntity, handle_delete, handle_propfind,
                UploadSteps
  <2> QED BY <1>a, <2>1, <2>2, SlotsKept DEF uvars
<1> QED BY <1>1, <1>2, <1>3, <1>4, <1>5, <1>6, <1>7, <1>8, <1>9 DEF UploadStep
-----------------------------------------------------------------------------
(* The steps only the DAV write path has.                                  *)
DavSteps ==
    {"props", "size", "sum", "setsize", "ensure", "segment", "mkseg",
     "vcopy", "version", "vmkseg", "vrekey", "vrename", "vrepath", "vrow", "vsegment", "vsync",
     "entity", "flush", "open", "put", "quota", "rename", "temp", "touch", "upsert",
     "copy", "cpdel", "cpdisk", "cplookup", "cprow", "mkcol", "mkdir", "mkrow", "move", "mvdisk",
     "mvrow", "rekey", "setmtime",
     "delete", "hdisk", "hrow", "hversions", "tdisk", "titem", "tname", "tnow", "tpick", "trow",
     "tvmove", "pfself", "pflist", "lazycache", "bumproot"}

LEMMA SharedByUploads ==
    ASSUME WellFormed, NEW r \in Reqs, req[r].op.kind \in UploadOps, RequestStep(r)
    PROVE  propagate_change(r) \/ LazyDirRow(r) \/ Respond(r)
<1>1. \A k \in DavSteps : ~At(r, k)
  <2> SUFFICES ASSUME NEW k \in DavSteps, At(r, k) PROVE FALSE
    OBVIOUS
  <2>1. k \notin UploadSteps \cup SharedSteps  BY DEF DavSteps, UploadSteps, SharedSteps
  <2> QED BY <2>1, OfUpload
<1>2. CASE SharedStep(r)
  BY <1>1, <1>2, Zenon DEF SharedStep, DavSteps, PropagateEach, RecomputeLookup, RecomputeSum, RecomputeUpdate,
     EnsureFast, EnsureLookup, EnsureInsert
<1>3. CASE VersionStep(r)
  <2>1. \E k \in DavSteps : At(r, k)
    BY <1>3, ZenonT(60) DEF VersionStep, DavSteps, StoreVersion, VersionParentLookup, VersionParentInsert,
       InsertVersionRow, RenameVersionsDisk, RepathVersionRows, RepathVersionSubtree, CopyVersions,
       SyncVersionEntities
  <2> QED BY <1>1, <2>1
<1>4. CASE PutStep(r)
  <2>1. \E k \in DavSteps : At(r, k)
    BY <1>4, ZenonT(60) DEF PutStep, DavSteps, PutAdmit, PutOpen, PutBody, PutChecksum, PutQuota, PutRename, PutTouch,
       PutUpdate, PutInsert, PutEntity
  <2> QED BY <1>1, <2>1
<1>5. CASE StructureStep(r)
  <2>1. \E k \in DavSteps : At(r, k)
    BY <1>5, ZenonT(60) DEF StructureStep, DavSteps, MkcolCheck, MkcolDisk, MkcolInsert, MoveLookup, MoveDisk, MoveUpdate,
       RekeySubtree, CopyAdmit, CopyDisk, CopyDelete, CopyLookup, CopyInsert, SetMtime
  <2> QED BY <1>1, <2>1
<1>6. CASE DeleteStep(r)
  <2>1. \E k \in DavSteps : At(r, k)
    BY <1>6, ZenonT(60) DEF DeleteStep, DavSteps, DeleteLookup, TrashName, TrashDisk, TrashRow, TrashItem, TrashNow,
       TrashVersionsPick, TrashVersionsMove, HardDisk, HardRow, HardDeleteVersions
  <2> QED BY <1>1, <2>1
<1>7. CASE PropfindSelf(r) \/ PropfindList(r) \/ EnsureLazyCache(r) \/ BumpRoot(r)
  <2>1. \E k \in DavSteps : At(r, k)
    BY <1>7, Zenon DEF DavSteps, PropfindSelf, PropfindList, EnsureLazyCache, BumpRoot
  <2> QED BY <1>1, <2>1
<1> QED BY <1>2, <1>3, <1>4, <1>5, <1>6, <1>7 DEF RequestStep

LEMMA UploadSharedTurns ==
    ASSUME WellFormed, SessionsFit, NEW r \in Reqs, req[r].op.kind \in UploadOps, InOrder(req[r].todo),
           RequestStep(r), UNCHANGED uvars
    PROVE  Kept(r) /\ Turned(r) /\ ChangesOwn(r)
<1> DEFINE l == [req[r] EXCEPT !.resp = "ok"]
<1>1. propagate_change(r) \/ LazyDirRow(r) \/ Respond(r)  BY SharedByUploads
<1>2. /\ TableFits(fc') /\ DiskFits(disk') /\ Stamped
      /\ \E k \in {"prop", "lazy", "done"} : At(r, k)
      /\ Next1(r) \/ Advance(r, <<>>, l)
  BY <1>1, SharedEffects
<1>3. DOMAIN req[r] = DOMAIN Idle /\ "op" \in DOMAIN Idle  BY DEF WellFormed, RequestFits, Idle
<1>4. DOMAIN l = DOMAIN Idle /\ l.op = req[r].op  BY <1>3
<1>5. PICK k : k \in {"prop", "lazy", "done"} /\ At(r, k)  BY <1>2
<1>6. PICK x : x \in {req[r], l} /\ Advance(r, <<>>, x)  BY <1>2 DEF Next1
<1>7. DOMAIN x = DOMAIN Idle /\ x.op = req[r].op  BY <1>3, <1>4, <1>6
<1>8. Kept(r) /\ Turned(r)
  <2> HIDE DEF l
  <2> QED BY ONLY WellFormed, r \in Reqs, InOrder(req[r].todo), <1>2, <1>5, <1>6, <1>7, UpGoesOn
<1>9. ~At(r, "rmchunks")  BY <1>5 DEF At
<1>10. ChangesOwn(r)  BY <1>9, SlotsKept DEF uvars
<1> QED BY <1>8, <1>10
-----------------------------------------------------------------------------
(* What clients send is what the handlers expect.                          *)
LEMMA PlannedFits ==
    ASSUME NEW p \in Plans, NEW i \in 1..Len(p), NEW op \in p[i]
    PROVE  OpFits(op) /\ op.kind \in Kinds
<1>1. p \in Seq(SUBSET OpT) /\ op.kind \in Kinds  BY PlansAssumption
<1>2. p[i] \in SUBSET OpT  BY <1>1
<1>3. op \in OpT  BY <1>2
<1>4. op.path \in Seq(Segment) /\ op.to \in Seq(Segment)
      /\ op.files \in Seq([path : Path, size : Nat, mtime : Int, fault : STRING])
  BY <1>3 DEF OpT, Path
<1>5. \A j \in 1..Len(op.files) : op.files[j].path \in Seq(Segment)
  <2> DEFINE F == [path : Path, size : Nat, mtime : Int, fault : STRING]
  <2>1. op.files \in Seq(F) /\ \A f \in F : f.path \in Seq(Segment)  BY <1>4 DEF Path
  <2> HIDE DEF F
  <2>2. \A j \in 1..Len(op.files) : op.files[j] \in F  BY <2>1
  <2> QED BY <2>1, <2>2
<1>6. IsSeq(op.path) /\ IsSeq(op.to) /\ IsSeq(op.files)
      /\ \A j \in 1..Len(op.files) : IsSeq(op.files[j].path)
  BY <1>4, <1>5, OverItself
<1> QED BY <1>1, <1>6 DEF OpFits

(* The first steps of a handler.                                           *)
LEMMA FirstSteps ==
    ASSUME NEW op, OpFits(op), op.kind \in Kinds
    PROVE  LET t == IF op.kind = "bulk" THEN bulk_handler(op).todo
                    ELSE IF op.kind \in UploadOps THEN upload_handler(op).todo ELSE FirstStep(op)
           IN  /\ TodoFits(op, t)
               /\ op.kind \in UploadOps => t = <<>> \/ t = <<Do(op.kind)>>
<1>p. IsSeq(op.path)  BY DEF OpFits
<1>1. CASE op.kind = "bulk"
  <2> DEFINE n == Len(op.files)
             a == [i \in 1..n |-> Step("part", op.files[i].path, Root, i, {})]
             b == <<Do("bulkend")>>
  <2>1. bulk_handler(op).todo = a \o b  BY DEF bulk_handler, Idle
  <2>2. op.kind \notin UploadOps  BY <1>1 DEF UploadOps
  <2>3. Belongs(op, "part") /\ Belongs(op, "bulkend")  BY <2>2 DEF Belongs, UploadSteps
  <2>4. n \in Nat  BY SeqFacts DEF OpFits
  <2>5. \A i \in 1..n : StepFits(op, a[i])
    <3> TAKE i \in 1..n
    <3>1. a[i] = Step("part", op.files[i].path, Root, i, {})  OBVIOUS
    <3>2. IsSeq(op.files[i].path)  BY DEF OpFits
    <3> HIDE DEF a
    <3> QED BY <2>3, <3>1, <3>2, RootIsSeq, SomeStep
  <2>6. IsSeq(a) /\ Len(a) = n
    <3> DEFINE S == {a[i] : i \in 1..n}
    <3>1. a \in [1..n -> S] /\ DOMAIN a = 1..n  OBVIOUS
    <3> HIDE DEF S, a
    <3>2. \E m \in Nat : a \in [1..m -> S]  BY <2>4, <3>1, Zenon
    <3>3. a \in Seq(S)  BY ONLY <3>2, SeqDef, Zenon
    <3>4. IsSeq(a)  BY <3>3, OverItself
    <3>5. Len(a) \in Nat /\ DOMAIN a = 1..Len(a)  BY <3>4, SeqFacts
    <3>6. Len(a) = n  BY ONLY <2>4, <3>1, <3>5
    <3> QED BY <3>4, <3>6
  <2>7. TodoFits(op, b)  BY <2>3, PlainStep, OneStep
  <2> HIDE DEF a, b
  <2>8. TodoFits(op, a)  BY <2>5, <2>6 DEF TodoFits
  <2>9. TodoFits(op, a \o b)  BY <2>7, <2>8, BothFit
  <2> QED BY <1>1, <2>1, <2>2, <2>9
<1>2. CASE op.kind \in UploadOps
  <2>1. op.kind # "bulk"  BY <1>2 DEF UploadOps
  <2>2. upload_handler(op).todo = <<>> \/ upload_handler(op).todo = <<Do(op.kind)>>
    BY DEF upload_handler, Idle
  <2>3. Belongs(op, op.kind)  BY <1>2 DEF Belongs, UploadOps, StepsOf, ChunkSteps
  <2>4. TodoFits(op, <<>>) /\ TodoFits(op, <<Do(op.kind)>>)  BY <2>3, NoSteps, PlainStep, OneStep
  <2> QED BY <1>2, <2>1, <2>2, <2>4
<1>3. CASE op.kind \notin UploadOps /\ op.kind # "bulk"
  <2>1. op.kind \in {"put", "mkcol", "move", "copy", "setmtime", "delete", "propfind"}
    BY <1>3 DEF Kinds
  <2>2. \A k \in {"put", "mkcol", "move", "copy", "setmtime", "delete", "done", "pfself"} : Belongs(op, k)
    BY <1>3 DEF Belongs, UploadSteps
  <2>3. CASE op.kind = "delete"
    <3>1. FirstStep(op) = <<DoAt("delete", op.path), Do("done")>>  BY <2>3 DEF FirstStep
    <3>2. StepFits(op, DoAt("delete", op.path)) /\ StepFits(op, Do("done"))
      BY <1>p, <2>2, StepAt, PlainStep
    <3> QED BY <1>3, <3>1, <3>2, TwoSteps
  <2>4. CASE op.kind = "propfind"
    <3>1. FirstStep(op) = <<DoAt("pfself", op.path)>>  BY <2>4 DEF FirstStep
    <3>2. StepFits(op, DoAt("pfself", op.path))  BY <1>p, <2>2, StepAt
    <3> QED BY <1>3, <3>1, <3>2, OneStep
  <2>5. CASE op.kind \notin {"delete", "propfind"}
    <3>1. FirstStep(op) = <<Do(op.kind)>>  BY <2>5 DEF FirstStep
    <3>2. Belongs(op, op.kind)  BY <2>1, <2>2, <2>5
    <3>3. StepFits(op, Do(op.kind))  BY <3>2, PlainStep
    <3> QED BY <1>3, <3>1, <3>3, OneStep
  <2> QED BY <2>3, <2>4, <2>5
<1> QED BY <1>1, <1>2, <1>3 DEF Kinds

LEMMA StartFits ==
    ASSUME WellFormed, NEW r \in Reqs, NEW op, OpFits(op), op.kind \in Kinds, StartUpload(r, op)
    PROVE  /\ WellFormed'
           /\ DOMAIN req' = Reqs /\ \A s \in Reqs \ {r} : req'[s] = req[s]
           /\ req[r] = Idle /\ req'[r].op = op
           /\ op.kind \in UploadOps => req'[r].todo = <<>> \/ req'[r].todo = <<Do(op.kind)>>
<1> DEFINE t == IF op.kind = "bulk" THEN bulk_handler(op).todo
                ELSE IF op.kind \in UploadOps THEN upload_handler(op).todo ELSE FirstStep(op)
           x == IF op.kind = "bulk" THEN bulk_handler(op)
                ELSE IF op.kind \in UploadOps THEN upload_handler(op)
                ELSE [Idle EXCEPT !.op = op, !.todo = FirstStep(op)]
<1>1. /\ req' = [req EXCEPT ![r] = x] /\ req[r] = Idle
      /\ UNCHANGED <<fc, disk, nextEtag>>
  BY DEF StartUpload, KeepFiles
<1>2. DOMAIN x = DOMAIN Idle /\ x.op = op /\ x.todo = t
  BY DEF bulk_handler, upload_handler, Idle
<1>3. TodoFits(op, t) /\ (op.kind \in UploadOps => t = <<>> \/ t = <<Do(op.kind)>>)
  BY FirstSteps
<1> HIDE DEF x, t
<1>4. RequestFits(x)  BY <1>2, <1>3 DEF RequestFits
<1>5. DOMAIN req = Reqs /\ \A s \in Reqs : RequestFits(req[s])  BY DEF WellFormed
<1>6. DOMAIN req' = Reqs /\ req'[r] = x /\ \A s \in Reqs \ {r} : req'[s] = req[s]  BY <1>1, <1>5
<1>7. \A s \in Reqs : RequestFits(req'[s])  BY <1>4, <1>5, <1>6
<1>8. WellFormed'  BY <1>1, <1>6, <1>7 DEF WellFormed
<1> QED BY <1>1, <1>2, <1>3, <1>6, <1>8
-----------------------------------------------------------------------------
(* Uploads whose requests never overlapped have one request at a time.     *)
OfUp(r, u) == req[r].op.kind \in UploadOps /\ Up(r) = u
Alone == \A r, s \in Reqs : \A u :
    (r # s /\ Active(r) /\ Active(s) /\ OfUp(r, u) /\ OfUp(s, u)) => r \in over

(* A directory has its slot, and so has a request that is about to write   *)
(* to one; a slot is given up after its directory.                         *)
AsksForChunks(r) == \E i \in 1..Len(req[r].todo) : req[r].todo[i].k \in ChunkSteps
Owned(u) ==
    /\ HasDir(u) => HasSession(u)
    /\ \A r \in Reqs : OfUp(r, u) => /\ AsksForChunks(r) => HasSession(u)
                                     /\ At(r, "endsession") => ~HasDir(u)

OrphanInv ==
    /\ WellFormed /\ SessionsFit /\ restarts \in Nat /\ plan \in Plans
    /\ \A r \in Reqs : req[r].op.kind \in UploadOps => InOrder(req[r].todo)
    /\ Alone
    /\ restarts = 0 => \A u : Undisturbed(u) => Owned(u)

LEMMA IdleFits == RequestFits(Idle) /\ InOrder(Idle.todo) /\ Idle.op.kind \notin UploadOps /\ Idle.todo = <<>>
<1>1. Idle.op = NoOp /\ Idle.todo = <<>>  BY DEF Idle
<1>2. NoOp.kind = "none" /\ NoOp.path = <<>> /\ NoOp.to = <<>> /\ NoOp.files = <<>>  BY DEF NoOp, Root
<1>3. IsSeq(<<>>) /\ Len(<<>>) = 0  BY Tuples
<1>4. OpFits(NoOp)  BY <1>2, <1>3 DEF OpFits
<1>5. TodoFits(NoOp, <<>>)  BY NoSteps
<1> QED BY <1>1, <1>2, <1>3, <1>4, <1>5 DEF RequestFits, InOrder, UploadOps

LEMMA OrphanInit == UploadInit => OrphanInv
<1> SUFFICES ASSUME UploadInit PROVE OrphanInv
  OBVIOUS
<1>1. req = [r \in Reqs |-> Idle] /\ fc = InitFc /\ disk = InitDisk
      /\ nextEtag = Cardinality(DOMAIN InitFc) + 1
  BY DEF UploadInit, Init
<1>2. \A r \in Reqs : RequestFits(req[r]) /\ InOrder(req[r].todo) /\ req[r].op.kind \notin UploadOps
                      /\ req[r].todo = <<>>
  BY <1>1, IdleFits
<1>3. InitFc \in Seq(Row) /\ DOMAIN InitDisk \subseteq Path  BY StorageAssumption
<1>4. TableFits(fc)
  <2> SUFFICES ASSUME NEW i \in DOMAIN fc PROVE DOMAIN fc[i] = RowFields /\ IsSeq(fc[i].path)
    BY DEF TableFits
  <2>1. fc[i] \in Row  BY <1>1, <1>3
  <2>2. DOMAIN fc[i] = RowFields /\ fc[i].path \in Seq(Segment)  BY <2>1 DEF Row, RowFields, Path
  <2> QED BY <2>2, OverItself
<1>5. DiskFits(disk)  BY <1>1, <1>3, OverItself DEF DiskFits, Path
<1>6. nextEtag \in Nat
  <2>1. DOMAIN InitFc = 1..Len(InitFc) /\ Len(InitFc) \in Nat  BY <1>3, LenProperties
  <2>2. IsFiniteSet(DOMAIN InitFc)
    <3> DEFINE n == Len(InitFc)
    <3> HIDE DEF n
    <3>1. IsFiniteSet(1..n)  BY <2>1, FS_Interval DEF n
    <3> QED BY <2>1, <3>1 DEF n
  <2>3. Cardinality(DOMAIN InitFc) \in Nat  BY <2>2, FS_CardinalityType
  <2> QED BY <1>1, <2>3
<1>7. WellFormed  BY <1>1, <1>2, <1>4, <1>5, <1>6 DEF WellFormed
<1>8. sessions = <<>> /\ chunkdir = <<>> /\ restarts = 0 /\ plan \in Plans  BY DEF UploadInit
<1>9. DOMAIN sessions = {} /\ DOMAIN chunkdir = {}
  <2>1. DOMAIN <<>> = {}  BY Tuples, SeqFacts
  <2> QED BY <1>8, <2>1
<1>10. SessionsFit /\ restarts \in Nat  BY <1>8, <1>9 DEF SessionsFit
<1>11. Alone  BY <1>2 DEF Alone, Active
<1>12. \A u : Owned(u)  BY <1>2, <1>9 DEF Owned, OfUp, HasDir
<1> QED BY <1>2, <1>7, <1>8, <1>10, <1>11, <1>12 DEF OrphanInv

(* A step of a request of the upload leaves it in order.                   *)
LEMMA OwnStepOwned ==
    ASSUME WellFormed, NEW r \in Reqs, NEW u, OfUp(r, u), Alone, Owned(u), r \notin over,
           \E k : At(r, k), Kept(r), Turned(r), ChangesOwn(r)
    PROVE  Owned(u)'
<1>0. Up(r) = u /\ req[r].op.kind \in UploadOps  BY DEF OfUp
<1>1. /\ DOMAIN req' = Reqs /\ \A s \in Reqs \ {r} : req'[s] = req[s]
      /\ RequestFits(req'[r]) /\ req'[r].op = req[r].op
  BY DEF Kept, RunsAlone
<1>2. PICK k : At(r, k) /\ Active(r)  BY DEF At
<1> SUFFICES /\ u \in DOMAIN chunkdir' => u \in DOMAIN sessions'
             /\ \A s \in Reqs : (OfUp(s, u))' =>
                   /\ (AsksForChunks(s))' => u \in DOMAIN sessions'
                   /\ (At(s, "endsession"))' => u \notin DOMAIN chunkdir'
  BY Zenon DEF Owned, HasDir, HasSession
<1>4. \A s \in Reqs : s # r /\ (OfUp(s, u))' => ~(AsksForChunks(s))' /\ ~(At(s, "endsession"))'
  <2> SUFFICES ASSUME NEW s \in Reqs, s # r, (OfUp(s, u))' PROVE ~(AsksForChunks(s))' /\ ~(At(s, "endsession"))'
    OBVIOUS
  <2>1. req'[s] = req[s] /\ OfUp(s, u)  BY <1>1 DEF OfUp, Up
  <2>2. ~Active(s)  BY <1>2, <2>1 DEF Alone
  <2>3. req'[s].todo = <<>>  BY <2>1, <2>2 DEF Active
  <2>4. Len(<<>>) = 0  BY Tuples
  <2> QED BY <2>3, <2>4 DEF AsksForChunks, At, Active
<1>5. HasDir(u) \/ AsksForChunks(r) => HasSession(u)  BY DEF Owned
<1>6. At(r, "endsession") => ~HasDir(u) /\ ~AsksForChunks(r)
  <2> SUFFICES ASSUME At(r, "endsession") PROVE ~HasDir(u) /\ ~AsksForChunks(r)
    OBVIOUS
  <2>1. ~HasDir(u)  BY DEF Owned
  <2>2. Belongs(req[r].op, "endsession")  BY AtHead
  <2>3. ASSUME AsksForChunks(r) PROVE FALSE
    <3>1. PICK i \in 1..Len(req[r].todo) : req[r].todo[i].k \in ChunkSteps  BY <2>3 DEF AsksForChunks
    <3>2. Belongs(req[r].op, req[r].todo[i].k)  BY <3>1 DEF WellFormed, RequestFits, TodoFits, StepFits
    <3> QED BY <1>0, <2>2, <3>1, <3>2 DEF Belongs, StepsOf, ChunkSteps, UploadOps
  <2> QED BY <2>1, <2>3
<1>7. (AsksForChunks(r))' => AsksForChunks(r) \/ (At(r, "putchunk") /\ HasSession(u))
  BY <1>0 DEF AsksForChunks, Turned
<1>8. HasSession(u) => u \in DOMAIN sessions' \/ At(r, "endsession")  BY <1>0 DEF ChangesOwn
<1>9. (AsksForChunks(r))' => u \in DOMAIN sessions'
  <2>1. At(r, "putchunk") => ~At(r, "endsession")  BY DEF At
  <2> QED BY <1>5, <1>6, <1>7, <1>8, <2>1
<1>10. (At(r, "endsession"))' => u \notin DOMAIN chunkdir'
  <2> SUFFICES ASSUME (At(r, "endsession"))' PROVE u \notin DOMAIN chunkdir'
    OBVIOUS
  <2>1. req'[r].todo # <<>> /\ Head(req'[r].todo).k = "endsession"  BY DEF At, Active
  <2>2. IsSeq(req'[r].todo)  BY <1>1 DEF RequestFits, TodoFits
  <2>3. req'[r].todo[1].k = "endsession"  BY <2>1, <2>2, Rest
  <2>4. Precedes(k, "endsession")  BY <1>2, <2>1, <2>3 DEF Turned
  <2>5. At(r, "rmchunks")  BY <1>2, <2>4 DEF Precedes
  <2> QED BY <1>0, <2>5 DEF ChangesOwn
<1>11. u \in DOMAIN chunkdir' => u \in DOMAIN sessions'
  <2> SUFFICES ASSUME u \in DOMAIN chunkdir' PROVE u \in DOMAIN sessions'
    OBVIOUS
  <2>1. HasDir(u) \/ At(r, "chunkcreate")  BY <1>0 DEF ChangesOwn
  <2>2. At(r, "chunkcreate") => AsksForChunks(r)
    <3> SUFFICES ASSUME At(r, "chunkcreate") PROVE AsksForChunks(r)
      OBVIOUS
    <3>1. IsSeq(req[r].todo) /\ req[r].todo # <<>> /\ Head(req[r].todo).k = "chunkcreate"
      BY DEF WellFormed, RequestFits, TodoFits, At, Active
    <3>2. 1 \in 1..Len(req[r].todo) /\ Head(req[r].todo) = req[r].todo[1]  BY <3>1, Rest
    <3> QED BY <3>1, <3>2 DEF AsksForChunks, ChunkSteps
  <2>3. ~At(r, "endsession")  BY <1>6, <2>1, <2>2
  <2> QED BY <1>5, <1>8, <2>1, <2>2, <2>3
<1> QED BY <1>4, <1>9, <1>10, <1>11

LEMMA UploadStepAt == ASSUME NEW r, UploadStep(r) PROVE \E k \in UploadSteps : At(r, k)
<1> SUFFICES ASSUME \A k \in UploadSteps : ~At(r, k) PROVE FALSE
  OBVIOUS
<1> QED BY Zenon DEF UploadStep, UploadSteps, handle_mkcol, PutChunkAdmit, ChunkQuota, ChunkCreate, ChunkBody,
     add_chunk, AssembleSession, AssembleTotal, AssembleParts, AssembleRead, AssembleQuota, AssembleTarget,
     AssembleParent, AssembleWrite, AssembleRow, AssembleEntity, cleanup_chunks, remove_session,
     handle_delete, handle_propfind

(* What a step of an upload's request does, and one of any other request.  *)
LEMMA StepOfUpload ==
    ASSUME WellFormed, SessionsFit, NEW r \in Reqs, req[r].op.kind \in UploadOps, InOrder(req[r].todo),
           AnyStep(r)
    PROVE  Kept(r) /\ Turned(r) /\ ChangesOwn(r) /\ \E k : At(r, k)
<1>1. CASE RequestStep(r) /\ UNCHANGED <<uvars, loc>>
  <2>1. UNCHANGED uvars  BY <1>1
  <2>2. Kept(r) /\ Turned(r) /\ ChangesOwn(r)  BY <1>1, <2>1, UploadSharedTurns
  <2>3. \E k : At(r, k)
    <3>1. propagate_change(r) \/ LazyDirRow(r) \/ Respond(r)  BY <1>1, SharedByUploads
    <3> QED BY <3>1, SharedEffects
  <2> QED BY <2>2, <2>3
<1>2. CASE UploadStep(r)
  <2>1. MaxPart \in Nat  BY PlansAssumption
  <2>2. Kept(r) /\ Turned(r) /\ ChangesOwn(r)  BY <1>2, <2>1, UploadStepTurns, UploadEffects
  <2>3. \E k : At(r, k)  BY <1>2, UploadStepAt
  <2> QED BY <2>2, <2>3
<1>3. CASE BulkStep(r)
  BY <1>3, BulkStepKeeps
<1> QED BY <1>1, <1>2, <1>3 DEF AnyStep

LEMMA StepOfOthers ==
    ASSUME WellFormed, NEW r \in Reqs, req[r].op.kind \notin UploadOps, AnyStep(r)
    PROVE  Kept(r) /\ UNCHANGED uvars
<1>1. CASE RequestStep(r) /\ UNCHANGED <<uvars, loc>>
  <2>1. UNCHANGED uvars  BY <1>1
  <2> QED BY <1>1, <2>1, RequestStepKeeps
<1>2. CASE UploadStep(r)
  <2>1. PICK k \in UploadSteps : At(r, k)  BY <1>2, UploadStepAt
  <2>2. req[r].op.kind \in UploadOps  BY <2>1, OfUpload
  <2> QED BY <2>2
<1>3. CASE BulkStep(r)
  BY <1>3, BulkStepKeeps DEF KeepUpload
<1> QED BY <1>1, <1>2, <1>3 DEF AnyStep

LEMMA KeptWellFormed ==
    ASSUME WellFormed, NEW r \in Reqs, Kept(r)
    PROVE  WellFormed'
<1>1. \A s \in Reqs : RequestFits(req'[s])
  BY DEF WellFormed, Kept, RunsAlone
<1> QED BY <1>1 DEF WellFormed, Kept, RunsAlone, Stamped

(* Nothing a step changes makes an upload undisturbed.                     *)
LEMMA DisturbedStays ==
    ASSUME NEW u, over \subseteq over', \A s \in Reqs : req[s].op.kind \in UploadOps => req'[s].op = req[s].op,
           Undisturbed(u)'
    PROVE  Undisturbed(u)
BY DEF Undisturbed, Up

LEMMA OrphanStep ==
    ASSUME OrphanInv, NEW r \in Reqs, AnyStep(r)
    PROVE  OrphanInv'
<1>0. /\ WellFormed /\ SessionsFit /\ restarts \in Nat /\ plan \in Plans
      /\ \A s \in Reqs : req[s].op.kind \in UploadOps => InOrder(req[s].todo)
      /\ Alone
      /\ restarts = 0 => \A u : Undisturbed(u) => Owned(u)
  BY DEF OrphanInv
<1>1. CASE req[r].op.kind \in UploadOps
  <2>1. Kept(r) /\ Turned(r) /\ ChangesOwn(r) /\ \E k : At(r, k)  BY <1>0, <1>1, StepOfUpload
  <2>2. /\ DOMAIN req' = Reqs /\ \A s \in Reqs \ {r} : req'[s] = req[s]
        /\ RequestFits(req'[r]) /\ req'[r].op = req[r].op
    BY <2>1 DEF Kept, RunsAlone
  <2>3. /\ UNCHANGED <<plan, over, restarts>> /\ SessionsFit'
        /\ \A u : u # Up(r) => /\ u \in DOMAIN sessions' <=> u \in DOMAIN sessions
                               /\ u \in DOMAIN chunkdir' <=> u \in DOMAIN chunkdir
    BY <2>1 DEF ChangesOwn
  <2>4. WellFormed'  BY <1>0, <2>1, KeptWellFormed
  <2>5. \A s \in Reqs : req'[s].op = req[s].op  BY <2>2
  <2>6. \A s \in Reqs : req'[s].op.kind \in UploadOps => InOrder(req'[s].todo)
    BY <1>0, <2>1, <2>2 DEF Turned
  <2>7. Active(r)  BY <2>1 DEF At
  <2>8. Alone'
    <3> SUFFICES ASSUME NEW a \in Reqs, NEW b \in Reqs, NEW u,
                        a # b, Active(a)', Active(b)', OfUp(a, u)', OfUp(b, u)'
                 PROVE  a \in over'
      BY DEF Alone
    <3>1. Active(a) /\ Active(b)  BY <2>2, <2>7 DEF Active
    <3>2. OfUp(a, u) /\ OfUp(b, u)  BY <2>5 DEF OfUp, Up
    <3> QED BY <1>0, <2>3, <3>1, <3>2 DEF Alone
  <2>9. ASSUME restarts' = 0, NEW u, Undisturbed(u)' PROVE Owned(u)'
    <3>1. Undisturbed(u)
      <4>1. over \subseteq over'  BY <2>3
      <4> QED BY <2>5, <2>9, <4>1, DisturbedStays
    <3>2. Owned(u)  BY <1>0, <2>3, <2>9, <3>1
    <3>3. CASE u = Up(r)
      <4>1. OfUp(r, u)  BY <1>1, <3>3 DEF OfUp
      <4>2. r \notin over  BY <3>1, <4>1 DEF Undisturbed, OfUp
      <4> QED BY <1>0, <2>1, <3>2, <4>1, <4>2, OwnStepOwned
    <3>4. CASE u # Up(r)
      <4>1. /\ HasSession(u)' <=> HasSession(u)
            /\ HasDir(u)' <=> HasDir(u)
        BY <2>3, <3>4 DEF HasSession, HasDir
      <4>2. ASSUME NEW s \in Reqs, OfUp(s, u)'
            PROVE  /\ OfUp(s, u) /\ s # r
                   /\ AsksForChunks(s)' <=> AsksForChunks(s)
                   /\ At(s, "endsession")' <=> At(s, "endsession")
        <5>1. OfUp(s, u)  BY <2>5, <4>2 DEF OfUp, Up
        <5>2. s # r  BY <3>4, <5>1 DEF OfUp
        <5>3. req'[s] = req[s]  BY <2>2, <5>2
        <5> QED BY <5>1, <5>2, <5>3 DEF AsksForChunks, At, Active
      <4> QED BY <3>2, <4>1, <4>2 DEF Owned
    <3> QED BY <3>3, <3>4
  <2>10. restarts' \in Nat /\ plan' \in Plans  BY <1>0, <2>3
  <2> QED BY <2>3, <2>4, <2>6, <2>8, <2>9, <2>10 DEF OrphanInv
<1>2. CASE req[r].op.kind \notin UploadOps
  <2>1. Kept(r) /\ UNCHANGED <<plan, sessions, chunkdir, over, restarts>>
    BY <1>0, <1>2, StepOfOthers DEF uvars
  <2>2. /\ DOMAIN req' = Reqs /\ \A s \in Reqs \ {r} : req'[s] = req[s]
        /\ RequestFits(req'[r]) /\ req'[r].op = req[r].op
    BY <2>1 DEF Kept, RunsAlone
  <2>3. WellFormed'  BY <1>0, <2>1, KeptWellFormed
  <2>4. \A s \in Reqs : /\ req'[s].op = req[s].op
                        /\ req[s].op.kind \in UploadOps => req'[s] = req[s]
    BY <1>2, <2>2
  <2>5. \A s \in Reqs : req'[s].op.kind \in UploadOps => InOrder(req'[s].todo)
    BY <1>0, <2>4
  <2>6. \A s \in Reqs : \A u : OfUp(s, u)' => OfUp(s, u) /\ req'[s] = req[s]
    BY <2>4 DEF OfUp, Up
  <2>7. Alone'
    <3> SUFFICES ASSUME NEW a \in Reqs, NEW b \in Reqs, NEW u,
                        a # b, Active(a)', Active(b)', OfUp(a, u)', OfUp(b, u)'
                 PROVE  a \in over'
      BY DEF Alone
    <3>1. Active(a) /\ Active(b) /\ OfUp(a, u) /\ OfUp(b, u)  BY <2>6 DEF Active
    <3> QED BY <1>0, <2>1, <3>1 DEF Alone
  <2>8. SessionsFit'  BY <1>0, <2>1 DEF SessionsFit
  <2>9. ASSUME restarts' = 0, NEW u, Undisturbed(u)' PROVE Owned(u)'
    <3>1. Undisturbed(u)
      <4>1. over \subseteq over'  BY <2>1
      <4> QED BY <2>4, <2>9, <4>1, DisturbedStays
    <3>2. Owned(u)  BY <1>0, <2>1, <2>9, <3>1
    <3>3. (HasSession(u)' <=> HasSession(u)) /\ (HasDir(u)' <=> HasDir(u))
      BY <2>1 DEF HasSession, HasDir
    <3>4. ASSUME NEW s \in Reqs, OfUp(s, u)'
          PROVE  /\ OfUp(s, u)
                 /\ AsksForChunks(s)' <=> AsksForChunks(s)
                 /\ At(s, "endsession")' <=> At(s, "endsession")
      BY <2>6, <3>4 DEF AsksForChunks, At, Active
    <3> QED BY <3>2, <3>3, <3>4 DEF Owned
  <2>10. restarts' \in Nat /\ plan' \in Plans  BY <1>0, <2>1
  <2> QED BY <2>3, <2>5, <2>7, <2>8, <2>9, <2>10 DEF OrphanInv
<1> QED BY <1>1, <1>2

LEMMA OrphanStart ==
    ASSUME OrphanInv, NEW r \in 1..Len(plan), NEW op \in plan[r], StartUpload(r, op)
    PROVE  OrphanInv'
<1>0. /\ WellFormed /\ SessionsFit /\ restarts \in Nat /\ plan \in Plans
      /\ \A s \in Reqs : req[s].op.kind \in UploadOps => InOrder(req[s].todo)
      /\ Alone
      /\ restarts = 0 => \A u : Undisturbed(u) => Owned(u)
  BY DEF OrphanInv
<1>1. r \in Reqs /\ OpFits(op) /\ op.kind \in Kinds
  BY <1>0, PlansAssumption, PlannedFits
<1>2. /\ WellFormed'
      /\ DOMAIN req' = Reqs /\ \A s \in Reqs \ {r} : req'[s] = req[s]
      /\ req[r] = Idle /\ req'[r].op = op
      /\ op.kind \in UploadOps => req'[r].todo = <<>> \/ req'[r].todo = <<Do(op.kind)>>
  BY <1>0, <1>1, StartFits
<1>3. UNCHANGED <<plan, sessions, chunkdir, restarts>>  BY DEF StartUpload
<1>4. /\ over \subseteq over'
      /\ op.kind \in UploadOps /\ RunningOf(Reqs, op.up) # {} => {r} \cup RunningOf(Reqs, op.up) \subseteq over'
  BY DEF StartUpload
<1>5. ASSUME op.kind \in UploadOps
      PROVE  /\ \A i \in 1..Len(req'[r].todo) : req'[r].todo[i].k = op.kind
             /\ Len(req'[r].todo) \in {0, 1}
             /\ req'[r].todo # <<>> => Head(req'[r].todo).k = op.kind
  <2>1. Len(<<>>) = 0 /\ Len(<<Do(op.kind)>>) = 1 /\ <<Do(op.kind)>>[1] = Do(op.kind)  BY Tuples
  <2>2. Do(op.kind).k = op.kind /\ Head(<<Do(op.kind)>>) = Do(op.kind)  BY DEF Do, Step
  <2>3. CASE req'[r].todo = <<>>
    <3>1. Len(req'[r].todo) = 0  BY <2>1, <2>3
    <3> QED BY <2>3, <3>1
  <2>4. CASE req'[r].todo = <<Do(op.kind)>>
    <3> DEFINE d == Do(op.kind)
               t == <<d>>
    <3>1. d.k = op.kind /\ Head(t) = d /\ Len(t) = 1 /\ t[1] = d  BY <2>1, <2>2
    <3> HIDE DEF t, d
    <3>2. req'[r].todo = t  BY <2>4 DEF t, d
    <3>3. \A i \in 1..1 : i = 1  OBVIOUS
    <3> QED BY <3>1, <3>2, <3>3
  <2> QED BY <1>2, <1>5, <2>3, <2>4
<1>6. \A s \in Reqs : req'[s].op.kind \in UploadOps => InOrder(req'[s].todo)
  <2> SUFFICES ASSUME NEW s \in Reqs, req'[s].op.kind \in UploadOps PROVE InOrder(req'[s].todo)
    OBVIOUS
  <2>1. CASE s = r
    <3>1. \A i \in 2..Len(req'[r].todo) : FALSE  BY <1>2, <1>5, <2>1
    <3> QED BY <2>1, <3>1 DEF InOrder
  <2>2. CASE s # r
    BY <1>0, <1>2, <2>2
  <2> QED BY <2>1, <2>2
<1>7. ASSUME NEW s \in Reqs, NEW u, OfUp(s, u)', s # r
      PROVE  OfUp(s, u) /\ req'[s] = req[s]
  BY <1>2, <1>7 DEF OfUp, Up
<1>8. Alone'
  <2> SUFFICES ASSUME NEW a \in Reqs, NEW b \in Reqs, NEW u,
                      a # b, Active(a)', Active(b)', OfUp(a, u)', OfUp(b, u)'
               PROVE  a \in over'
    BY DEF Alone
  <2>1. CASE a # r /\ b # r
    <3>1. OfUp(a, u) /\ OfUp(b, u) /\ Active(a) /\ Active(b)  BY <1>7, <2>1 DEF Active
    <3> QED BY <1>0, <1>4, <3>1 DEF Alone
  <2>2. CASE a = r \/ b = r
    <3>1. PICK c \in {a, b} : c # r  BY <2>2
    <3>2. OfUp(c, u) /\ Active(c)  BY <1>7, <3>1 DEF Active
    <3>3. op.kind \in UploadOps /\ op.up = u  BY <1>2, <2>2 DEF OfUp, Up
    <3>4. c \in RunningOf(Reqs, op.up)  BY <3>1, <3>2, <3>3 DEF RunningOf, OfUp
    <3> QED BY <1>4, <2>2, <3>1, <3>3, <3>4
  <2> QED BY <2>1, <2>2
<1>9. SessionsFit'  BY <1>0, <1>3 DEF SessionsFit
<1>10. ASSUME restarts' = 0, NEW u, Undisturbed(u)' PROVE Owned(u)'
  <2>1. Undisturbed(u)
    <3>1. \A s \in Reqs : req[s].op.kind \in UploadOps => req'[s].op = req[s].op
      BY <1>2, IdleFits
    <3> QED BY <1>4, <1>10, <3>1, DisturbedStays
  <2>2. Owned(u)  BY <1>0, <1>3, <1>10, <2>1
  <2>3. (HasSession(u)' <=> HasSession(u)) /\ (HasDir(u)' <=> HasDir(u))
    BY <1>3 DEF HasSession, HasDir
  <2>4. ASSUME NEW s \in Reqs, OfUp(s, u)'
        PROVE  \/ ~AsksForChunks(s)' /\ ~At(s, "endsession")'
               \/ /\ OfUp(s, u)
                  /\ AsksForChunks(s)' <=> AsksForChunks(s)
                  /\ At(s, "endsession")' <=> At(s, "endsession")
    <3>1. CASE s = r
      <4>1. op.kind \in UploadOps  BY <1>2, <2>4, <3>1 DEF OfUp
      <4>2. op.kind \notin ChunkSteps /\ op.kind # "endsession"  BY <4>1 DEF UploadOps, ChunkSteps
      <4> QED BY <1>5, <3>1, <4>1, <4>2 DEF AsksForChunks, At, Active
    <3>2. CASE s # r
      <4>1. OfUp(s, u) /\ req'[s] = req[s]  BY <1>7, <2>4, <3>2
      <4> QED BY <4>1 DEF AsksForChunks, At, Active
    <3> QED BY <3>1, <3>2
  <2> QED BY <2>2, <2>3, <2>4 DEF Owned
<1>11. restarts' \in Nat /\ plan' \in Plans  BY <1>0, <1>3
<1> QED BY <1>2, <1>6, <1>8, <1>9, <1>10, <1>11 DEF OrphanInv

Lost(x) == [x EXCEPT !.todo = <<>>, !.resp = "lost"]

LEMMA OrphanRestart ==
    ASSUME OrphanInv, Restart
    PROVE  OrphanInv'
<1>0. WellFormed /\ restarts \in Nat /\ plan \in Plans  BY DEF OrphanInv
<1>1. /\ restarts' = restarts + 1 /\ sessions' = <<>> /\ UNCHANGED <<fc, disk, nextEtag, plan>>
      /\ req' = [r \in Reqs |-> IF Active(r) THEN Lost(req[r]) ELSE req[r]]
  <2>1. /\ restarts' = restarts + 1 /\ sessions' = <<>> /\ UNCHANGED <<plan, chunkdir, over, loc>>
        /\ req' = [r \in Reqs |-> IF Active(r) THEN Lost(req[r]) ELSE req[r]]
        /\ KeepFiles
    BY Zenon DEF Restart, Lost
  <2> QED BY <2>1 DEF KeepFiles
<1>2. DOMAIN req' = Reqs /\ \A r \in Reqs : RequestFits(req'[r]) /\ req'[r].todo = <<>>
  <2> SUFFICES ASSUME NEW r \in Reqs PROVE RequestFits(req'[r]) /\ req'[r].todo = <<>>
    BY <1>1
  <2>1. RequestFits(req[r])  BY <1>0 DEF WellFormed
  <2>2. CASE Active(r)
    <3>1. req'[r] = Lost(req[r])  BY <1>1, <2>2
    <3>2. DOMAIN req'[r] = DOMAIN Idle /\ req'[r].op = req[r].op /\ req'[r].todo = <<>>
      BY <2>1, <3>1 DEF RequestFits, Idle, Lost
    <3> QED BY <2>1, <3>2, NoSteps DEF RequestFits
  <2>3. CASE ~Active(r)
    <3>1. req'[r] = req[r]  BY <1>1, <2>3
    <3> QED BY <2>1, <2>3, <3>1 DEF Active
  <2> QED BY <2>2, <2>3
<1>3. WellFormed'  BY <1>0, <1>1, <1>2 DEF WellFormed
<1>4. DOMAIN <<>> = {} /\ Len(<<>>) = 0  BY Tuples, SeqFacts
<1>5. SessionsFit'  BY <1>1, <1>4 DEF SessionsFit
<1>6. \A r \in Reqs : InOrder(req'[r].todo)  BY <1>2, <1>4 DEF InOrder
<1>7. Alone'  BY <1>2 DEF Alone, Active
<1>8. restarts' \in Nat /\ restarts' # 0 /\ plan' \in Plans  BY <1>0, <1>1
<1> QED BY <1>3, <1>5, <1>6, <1>7, <1>8 DEF OrphanInv

LEMMA OrphanNext == OrphanInv /\ [UploadNext]_allvars => OrphanInv'
<1> SUFFICES ASSUME OrphanInv, [UploadNext]_allvars PROVE OrphanInv'
  OBVIOUS
<1>1. ASSUME NEW r \in Reqs, AnyStep(r) PROVE OrphanInv'
  BY <1>1, OrphanStep
<1>2. ASSUME NEW r \in 1..Len(plan), NEW op \in plan[r], StartUpload(r, op) PROVE OrphanInv'
  BY <1>2, OrphanStart
<1>3. ASSUME Restart PROVE OrphanInv'
  BY <1>3, OrphanRestart
<1>4. ASSUME UNCHANGED allvars PROVE OrphanInv'
  BY <1>4 DEF OrphanInv, allvars, vars, uvars, WellFormed, SessionsFit, Alone, Undisturbed, Owned, OfUp, Up,
     AsksForChunks, HasDir, HasSession, At, Active
<1> QED BY <1>1, <1>2, <1>3, <1>4 DEF UploadNext, UploadFinished

LEMMA OrphanImplies == OrphanInv => NoOrphanChunks
BY DEF OrphanInv, NoOrphanChunks, Owned, HasDir

(* No chunks are left behind: without a restart, a chunk directory of an   *)
(* upload whose requests ran one after the other, and none of whose bodies *)
(* broke off, belongs to a session that can still be assembled or aborted; *)
(* create_session, handle_put and cleanup_chunks keep the directory and   *)
(* the UploadStateStore in this order, whatever else runs next to them     *)
(* (upload.rs, upload_handler.rs).                                         *)
THEOREM OrphansNever == UploadSpec => []NoOrphanChunks
<1>1. UploadInit => OrphanInv  BY OrphanInit
<1>2. OrphanInv /\ [UploadNext]_allvars => OrphanInv'  BY OrphanNext
<1>3. OrphanInv => NoOrphanChunks  BY OrphanImplies
<1> QED BY <1>1, <1>2, <1>3, PTL DEF UploadSpec
-----------------------------------------------------------------------------
(***************************************************************************)
(* Assemblies: the inductive invariant behind AssemblyExact.               *)
(***************************************************************************)
LEMMA MaxOf ==
    ASSUME NEW S, S \subseteq Nat, S # {}, NEW n \in Nat, \A x \in S : x <= n
    PROVE  Max(S) \in S /\ \A y \in S : y <= Max(S)
<1> DEFINE B == {m \in Nat : \A x \in S : x <= m}
<1>1. PICK m \in B : \A y \in B : m <= y
  <2>1. B \subseteq Nat /\ B # {}  OBVIOUS
  <2> HIDE DEF B
  <2> QED BY <2>1, LeastOf
<1>2. m \in Nat /\ \A x \in S : x <= m  BY <1>1
<1>3. m \in S
  <2> SUFFICES ASSUME m \notin S PROVE FALSE
    OBVIOUS
  <2>1. PICK x \in S : TRUE  OBVIOUS
  <2>2. m # 0  BY <1>2, <2>1
  <2>3. m - 1 \in Nat /\ \A y \in S : y <= m - 1  BY <1>2, <2>2
  <2>4. m - 1 \in B  BY <2>3
  <2> QED BY <1>1, <1>2, <2>4
<1>4. \E x \in S : \A y \in S : x >= y  BY <1>2, <1>3
<1>5. Max(S) \in S /\ \A y \in S : Max(S) >= y  BY <1>4, Zenon DEF Max
<1> QED BY <1>5

(* d is the concatenation of the first j elements of L.                    *)
Prefix(L, j, d) ==
    \E F : F[0] = <<>> /\ (\A i \in 1..j : F[i] = F[i - 1] \o L[i]) /\ d = F[j]

LEMMA PrefixNone == ASSUME NEW L PROVE Prefix(L, 0, <<>>)
<1> DEFINE F == [i \in 0..0 |-> <<>>]
<1>1. F[0] = <<>> /\ \A i \in 1..0 : F[i] = F[i - 1] \o L[i]  OBVIOUS
<1> QED BY <1>1, Zenon DEF Prefix

LEMMA PrefixMore ==
    ASSUME NEW L, NEW j \in Nat, NEW d, Prefix(L, j, d)
    PROVE  Prefix(L, j + 1, d \o L[j + 1])
<1>1. PICK F : F[0] = <<>> /\ (\A i \in 1..j : F[i] = F[i - 1] \o L[i]) /\ d = F[j]
  BY DEF Prefix
<1> DEFINE z == d \o L[j + 1]
           G == [i \in 0..(j + 1) |-> IF i <= j THEN F[i] ELSE z]
<1>2. \A i \in 0..j : G[i] = F[i]
  <2> HIDE DEF z
  <2> QED OBVIOUS
<1>3. G[j + 1] = z
  <2> HIDE DEF z
  <2> QED OBVIOUS
<1> HIDE DEF G
<1>4. \A i \in 1..(j + 1) : G[i] = G[i - 1] \o L[i]
  <2> SUFFICES ASSUME NEW i \in 1..(j + 1) PROVE G[i] = G[i - 1] \o L[i]
    OBVIOUS
  <2>1. CASE i = j + 1
    <3>1. i - 1 = j /\ j \in 0..j  BY <2>1
    <3> QED BY <1>1, <1>2, <1>3, <2>1, <3>1
  <2>2. CASE i # j + 1
    <3>1. i \in 1..j /\ i \in 0..j /\ i - 1 \in 0..j  BY <2>2
    <3> QED BY <1>1, <1>2, <3>1
  <2> QED BY <2>1, <2>2
<1>5. G[0] = <<>>  BY <1>1, <1>2
<1> QED BY <1>3, <1>4, <1>5, Zenon DEF Prefix, z

LEMMA PrefixAll ==
    ASSUME NEW L, NEW V, L \in Seq(Seq(V)), L # <<>>, NEW d, Prefix(L, Len(L), d)
    PROVE  d = FlattenSeq(L)
<1> DEFINE n == Len(L)
           Eqn(f) == f = [i \in 1..n |-> IF i = 1 THEN L[i] ELSE f[i - 1] \o L[i]]
           g == CHOOSE f : Eqn(f)
<1>1. n \in Nat /\ n # 0 /\ \A i \in 1..n : L[i] \in Seq(V)
  BY EmptySeq, LenProperties, ElementOfSeq
<1>2. PICK F : F[0] = <<>> /\ (\A i \in 1..n : F[i] = F[i - 1] \o L[i]) /\ d = F[n]
  BY DEF Prefix
<1>3. F[1] = L[1]
  <2>1. F[1] = <<>> \o L[1]
    <3>1. 1 \in 1..n /\ 1 - 1 = 0  BY <1>1
    <3> QED BY <1>2, <3>1
  <2>2. L[1] \in Seq(V)  BY <1>1
  <2> QED BY <2>1, <2>2, ConcatEmptySeq
<1> DEFINE f == [i \in 1..n |-> F[i]]
<1>4. Eqn(f)
  <2>1. ASSUME NEW i \in 1..n PROVE F[i] = IF i = 1 THEN L[i] ELSE f[i - 1] \o L[i]
    <3>1. CASE i = 1  BY <1>3, <3>1
    <3>2. CASE i # 1
      <4>1. i - 1 \in 1..n  BY <1>1, <3>2
      <4>2. f[i - 1] = F[i - 1]  BY <4>1
      <4> HIDE DEF f
      <4> QED BY <1>2, <3>2, <4>2
    <3> QED BY <3>1, <3>2
  <2>2. f = [i \in 1..n |-> F[i]]  OBVIOUS
  <2> HIDE DEF f, n
  <2> QED BY <2>1, <2>2
<1>5. Eqn(g)
  <2>1. \E h : Eqn(h)  BY <1>4
  <2> HIDE DEF Eqn
  <2> QED BY <2>1, Zenon
<1>6. FlattenSeq(L) = g[n]
  BY <1>1, Zenon DEF FlattenSeq
<1> HIDE DEF g, f
<1> DEFINE Bad == {i \in Nat : i \in 1..n /\ g[i] # F[i]}
<1>7. Bad = {}
  <2> SUFFICES ASSUME Bad # {} PROVE FALSE
    OBVIOUS
  <2>1. PICK i \in Bad : \A y \in Bad : i <= y
    <3>1. Bad \subseteq Nat  OBVIOUS
    <3> HIDE DEF Bad
    <3> QED BY <3>1, LeastOf
  <2>2. i \in 1..n /\ g[i] # F[i]  BY <2>1
  <2>3. g[i] = IF i = 1 THEN L[i] ELSE g[i - 1] \o L[i]
    <3> HIDE DEF n
    <3> QED BY <1>5, <2>2
  <2>4. i # 1  BY <1>3, <2>2, <2>3
  <2>5. i - 1 \in 1..n /\ i - 1 \in Nat /\ ~(i <= i - 1)  BY <1>1, <2>2, <2>4
  <2>6. g[i - 1] = F[i - 1]  BY <2>1, <2>5
  <2> QED BY <1>2, <2>2, <2>3, <2>4, <2>6
<1>8. g[n] = F[n]  BY <1>1, <1>7
<1> QED BY <1>2, <1>6, <1>8
-----------------------------------------------------------------------------
(* Requests are numbered in the order they arrive, and one that runs when  *)
(* another of its upload arrives has overlapped it.                        *)
Started(s) == req[s].op.kind \in Kinds
Arrived ==
    /\ \A s \in Reqs : req[s] = Idle \/ Started(s)
    /\ \A s \in Reqs : Started(s) => s \in 1..Len(plan) /\ req[s].op.size \in Nat
    /\ \A r, s \in Reqs : r < s /\ Started(s) => Started(r)
    /\ \A r, s \in Reqs : \A u : r < s /\ Active(r) /\ OfUp(r, u) /\ OfUp(s, u) => r \in over

(* A session has a number no earlier one had, and a request the number of  *)
(* a session of its own upload or none.                                    *)
Gens ==
    /\ nextEtag # 0 /\ DOMAIN loc = Reqs
    /\ \A s \in Reqs : DOMAIN loc[s] = DOMAIN NoLoc /\ loc[s].gen \in 0..(nextEtag - 1)
    /\ \A s \in Reqs : ~Started(s) => loc[s] = NoLoc
    /\ \A u \in DOMAIN sessions : sessions[u].gen \in 1..(nextEtag - 1)
    /\ \A u, v \in DOMAIN sessions : sessions[u].gen = sessions[v].gen => u = v
    /\ \A s \in Reqs : \A v \in DOMAIN sessions : loc[s].gen = sessions[v].gen => Up(s) = v
    /\ \A r, s \in Reqs : loc[r].gen = loc[s].gen /\ loc[r].gen # 0 => Up(r) = Up(s)

(* t is the end of a list of steps of the kinds K.                         *)
Ends(t, K) == Len(t) <= Len(K) /\ \A i \in 1..Len(t) : t[i].k = K[Len(K) - Len(t) + i]

(* The PUTs of session g of an upload, its parts, and what the last PUT of *)
(* each of them has sent.                                                  *)
IsPut(s, u) == OfUp(s, u) /\ req[s].op.kind = "putchunk"
InGen(s, u, g) == IsPut(s, u) /\ loc[s].gen = g
PutsOf(u, g, n) == {s \in Reqs : InGen(s, u, g) /\ req[s].op.part = n}
Bytes(s) == [i \in 1..req[s].op.size |-> s]
LastOf(u, g, n) == Bytes(Max(PutsOf(u, g, n)))
Sent(u, g) == {n \in 1..MaxPart : PutsOf(u, g, n) # {}}
Parts(u, g) == [i \in 1..Cardinality(Sent(u, g)) |-> LastOf(u, g, Sorted(Sent(u, g))[i])]

Settled(u, g) == \A s \in Reqs : InGen(s, u, g) => Acked(s, "putchunk") /\ ~Active(s)
Live(r, u) == HasSession(u) /\ loc[r].gen = sessions[u].gen
Complete(r, u) == loc[r].gen # 0 /\ Settled(u, loc[r].gen) /\ loc[r].data = FlattenSeq(Parts(u, loc[r].gen))

(* The session knows the parts that were sent, and the directory holds the *)
(* last bytes of each but the one that is being written.                   *)
Written(n, u) ==
    /\ n \in DOMAIN ChunkFiles(u)
    /\ \A s \in Reqs : IsPut(s, u) /\ req[s].op.part = n => ~At(s, "chunkbody") /\ ~At(s, "addchunk")
Slot(u) ==
    HasSession(u) =>
        LET g == sessions[u].gen IN
        /\ DOMAIN sessions[u].chunks = Sent(u, g)
        /\ \A s \in Reqs : InGen(s, u, g) => Acked(s, "putchunk") \/ Active(s)
        /\ \A n \in Sent(u, g) : Written(n, u) => ChunkFiles(u)[n].data = LastOf(u, g, n)

(* A PUT on its way.                                                       *)
PutKinds == <<"chunkquota", "chunkcreate", "chunkbody", "addchunk">>
PutPhase(s, u) ==
    /\ Ends(req[s].todo, <<"putchunk">>) \/ Ends(req[s].todo, PutKinds) \/ Ends(req[s].todo, <<"done">>)
    /\ Active(s) /\ ~At(s, "done") => loc[s].gen = 0
    /\ At(s, "chunkbody") => /\ req[s].op.part \in DOMAIN ChunkFiles(u)
                             /\ ChunkFiles(u)[req[s].op.part] = [ino |-> loc[s].ino, data |-> <<>>]
    /\ At(s, "addchunk")  => /\ req[s].op.part \in DOMAIN ChunkFiles(u)
                             /\ ChunkFiles(u)[req[s].op.part].data = Bytes(s)

(* An assembly: before it reads, after j parts, with all of them.          *)
ReadKinds  == <<"asmquota", "target", "parent", "asmwrite", "asmrow">>
CloseKinds == <<"lazy", "prop", "prop", "asmentity", "rmchunks", "endsession", "done">>
Reading(t, ids, j) ==
    /\ j \in 0..Len(ids) /\ ids # <<>> /\ Len(t) = Len(ids) - j + 5
    /\ \A i \in 1..(Len(ids) - j) : t[i].k = "read" /\ t[i].n = ids[j + i]
    /\ \A i \in 1..5 : t[Len(ids) - j + i].k = ReadKinds[i]

Begins(r) == Ends(req[r].todo, <<"assemble">>) /\ loc[r].data = <<>>
Prepares(r, u) == Ends(req[r].todo, <<"total", "parts">>) /\ loc[r].data = <<>> /\ Live(r, u)
Reads(r, u) ==
    /\ Live(r, u)
    /\ \E j \in Nat : /\ Reading(req[r].todo, Sorted(Sent(u, loc[r].gen)), j)
                      /\ Prefix(Parts(u, loc[r].gen), j, loc[r].data)
Closes(r, u) ==
    /\ Complete(r, u) /\ (At(r, "done") => ~HasSession(u))
    /\ Ends(req[r].todo, ReadKinds) \/ Ends(req[r].todo, CloseKinds)
AsmPhase(r, u) ==
    /\ Active(r) => /\ req[r].resp # "ok"
                    /\ Begins(r) \/ Prepares(r, u) \/ Reads(r, u) \/ Closes(r, u)
    /\ Acked(r, "assemble") /\ ~Active(r) => Complete(r, u) /\ ~Live(r, u)

Exact(u) ==
    /\ Slot(u)
    /\ \A s \in Reqs : IsPut(s, u) => PutPhase(s, u)
    /\ \A r \in Reqs : OfUp(r, u) /\ req[r].op.kind = "assemble" => AsmPhase(r, u)

ExactInv == OrphanInv /\ Arrived /\ Gens /\ \A u : Undisturbed(u) => Exact(u)

LEMMA PlanFits == ASSUME plan \in Plans PROVE Len(plan) \in Nat /\ 1..Len(plan) \subseteq Reqs /\ Reqs \subseteq Nat
<1>1. plan \in Seq(SUBSET OpT) /\ 1..Len(plan) \subseteq Reqs /\ Reqs \subseteq Nat  BY PlansAssumption
<1> QED BY <1>1, LenProperties

LEMMA LastPut ==
    ASSUME Arrived, plan \in Plans, NEW u, NEW g, NEW n, PutsOf(u, g, n) # {}
    PROVE  /\ Max(PutsOf(u, g, n)) \in PutsOf(u, g, n)
           /\ \A s \in PutsOf(u, g, n) : s <= Max(PutsOf(u, g, n))
<1>1. Len(plan) \in Nat /\ Reqs \subseteq Nat  BY PlanFits
<1>2. \A s \in PutsOf(u, g, n) : s \in Reqs /\ Started(s)
  BY DEF PutsOf, InGen, IsPut, Started, Kinds, UploadOps
<1>3. \A s \in PutsOf(u, g, n) : s <= Len(plan)
  <2> TAKE s \in PutsOf(u, g, n)
  <2>1. s \in 1..Len(plan)  BY <1>2 DEF Arrived
  <2> QED BY <1>1, <2>1
<1>4. PutsOf(u, g, n) \subseteq Nat  BY <1>1, <1>2
<1> QED BY <1>1, <1>3, <1>4, MaxOf

LEMMA SentFacts ==
    ASSUME NEW u, NEW g
    PROVE  /\ Cardinality(Sent(u, g)) \in Nat /\ Len(Sorted(Sent(u, g))) = Cardinality(Sent(u, g))
           /\ IsSeq(Sorted(Sent(u, g)))
           /\ \A i \in 1..Cardinality(Sent(u, g)) : Sorted(Sent(u, g))[i] \in Sent(u, g)
<1>1. Sent(u, g) \subseteq 1..MaxPart /\ MaxPart \in Nat  BY PlansAssumption DEF Sent
<1>2. Sent(u, g) \subseteq Nat  BY <1>1
<1>3. IsFiniteSet(Sent(u, g))
  <2>1. IsFiniteSet(1..MaxPart)  BY <1>1, FS_Interval
  <2> QED BY ONLY <1>1, <2>1, FS_Subset
<1> DEFINE S == Sent(u, g)
<1> HIDE DEF S
<1>4. /\ Cardinality(S) \in Nat /\ Sorted(S) \in [1..Cardinality(S) -> S]
      /\ IsSeq(Sorted(S)) /\ Len(Sorted(S)) = Cardinality(S)
  BY <1>2, <1>3, SortedFacts DEF S
<1> QED BY <1>4 DEF S

(* What a session has received depends on its own PUTs alone.              *)
LEMMA PutsKept ==
    ASSUME Arrived, plan \in Plans, NEW u, NEW g,
           \A s \in Reqs : InGen(s, u, g)' <=> InGen(s, u, g),
           \A s \in Reqs : InGen(s, u, g) => req'[s].op = req[s].op
    PROVE  /\ \A n : PutsOf(u, g, n)' = PutsOf(u, g, n)
           /\ Sent(u, g)' = Sent(u, g)
           /\ \A n \in Sent(u, g) : LastOf(u, g, n)' = LastOf(u, g, n)
           /\ Parts(u, g)' = Parts(u, g)
<1>1. ASSUME NEW n PROVE PutsOf(u, g, n)' = PutsOf(u, g, n)
  BY DEF PutsOf
<1>2. Sent(u, g)' = Sent(u, g)  BY <1>1 DEF Sent
<1>3. ASSUME NEW n \in Sent(u, g) PROVE LastOf(u, g, n)' = LastOf(u, g, n)
  <2>1. PICK m : m = Max(PutsOf(u, g, n))  OBVIOUS
  <2>2. m \in PutsOf(u, g, n)  BY <1>3, <2>1, LastPut DEF Sent
  <2>3. req'[m].op = req[m].op  BY <2>2 DEF PutsOf
  <2>4. Bytes(m)' = Bytes(m)  BY <2>3 DEF Bytes
  <2>5. Max(PutsOf(u, g, n)') = m  BY <1>1, <2>1
  <2>6. LastOf(u, g, n)' = Bytes(m)'  BY <2>5, Zenon DEF LastOf, Bytes
  <2>7. LastOf(u, g, n) = Bytes(m)  BY <2>1 DEF LastOf
  <2> QED BY <2>4, <2>6, <2>7
<1>4. Parts(u, g)' = Parts(u, g)
  <2>1. PICK ids, c : ids = Sorted(Sent(u, g)) /\ c = Cardinality(Sent(u, g))  OBVIOUS
  <2>2. \A i \in 1..c : ids[i] \in Sent(u, g)  BY <2>1, SentFacts
  <2>3. Sorted(Sent(u, g)') = ids /\ Cardinality(Sent(u, g)') = c  BY <1>2, <2>1
  <2>4. Parts(u, g)' = [i \in 1..c |-> LastOf(u, g, ids[i])']  BY <2>3, Zenon DEF Parts
  <2>5. Parts(u, g) = [i \in 1..c |-> LastOf(u, g, ids[i])]  BY <2>1 DEF Parts
  <2>6. \A i \in 1..c : LastOf(u, g, ids[i])' = LastOf(u, g, ids[i])
    <3> TAKE i \in 1..c
    <3>1. ids[i] \in Sent(u, g)  BY <2>2
    <3> QED BY <1>3, <3>1
  <2> QED BY <2>4, <2>5, <2>6, Zenon
<1> QED BY <1>1, <1>2, <1>3, <1>4
-----------------------------------------------------------------------------
(* The PUTs of session g stay as they are; so do all requests of u.        *)
PutsRest(u, g) == \A s \in Reqs : /\ InGen(s, u, g)' <=> InGen(s, u, g)
                                  /\ InGen(s, u, g) => req'[s] = req[s]
Same(u) == \A s \in Reqs : /\ OfUp(s, u)' <=> OfUp(s, u)
                           /\ OfUp(s, u) => req'[s] = req[s] /\ loc'[s] = loc[s]

LEMMA SameRests == ASSUME NEW u, Same(u), NEW g PROVE PutsRest(u, g)
BY DEF Same, PutsRest, InGen, IsPut

LEMMA RestKeeps ==
    ASSUME Arrived, plan \in Plans, NEW u, NEW g, PutsRest(u, g)
    PROVE  /\ \A n : PutsOf(u, g, n)' = PutsOf(u, g, n)
           /\ Sent(u, g)' = Sent(u, g)
           /\ \A n \in Sent(u, g) : LastOf(u, g, n)' = LastOf(u, g, n)
           /\ Parts(u, g)' = Parts(u, g)
<1>1. \A s \in Reqs : InGen(s, u, g)' <=> InGen(s, u, g)  BY DEF PutsRest
<1>2. \A s \in Reqs : InGen(s, u, g) => req'[s].op = req[s].op  BY DEF PutsRest
<1> QED BY <1>1, <1>2, PutsKept

LEMMA CompleteKept ==
    ASSUME Arrived, plan \in Plans, NEW u, NEW r, Complete(r, u), NEW g, g = loc[r].gen,
           loc'[r] = loc[r], PutsRest(u, g)
    PROVE  Complete(r, u)'
<1>1. Parts(u, g)' = Parts(u, g)  BY RestKeeps
<1>2. g # 0 /\ Settled(u, g) /\ loc[r].data = FlattenSeq(Parts(u, g))  BY DEF Complete
<1>3. Settled(u, g)'
  <2> SUFFICES ASSUME NEW s \in Reqs, InGen(s, u, g)' PROVE Acked(s, "putchunk")' /\ ~Active(s)'
    BY DEF Settled
  <2>1. InGen(s, u, g) /\ req'[s] = req[s]  BY DEF PutsRest
  <2> QED BY <1>2, <2>1 DEF Settled, Acked, Active
<1>4. loc'[r].gen = g /\ loc'[r].data = FlattenSeq(Parts(u, g)')  BY <1>1, <1>2
<1>5. Settled(u, loc[r].gen)'
  <2>1. \A s \in Reqs : InGen(s, u, loc[r].gen)' <=> InGen(s, u, g)'  BY <1>4 DEF InGen, IsPut
  <2> QED BY <1>3, <2>1 DEF Settled
<1>6. Parts(u, loc[r].gen)' = Parts(u, g)'
  <2>1. \A n : PutsOf(u, loc[r].gen, n)' = PutsOf(u, g, n)'
    BY <1>4 DEF PutsOf, InGen
  <2>2. Sent(u, loc[r].gen)' = Sent(u, g)'  BY <2>1 DEF Sent
  <2> QED BY <2>1, <2>2 DEF Parts, LastOf
<1> QED BY <1>2, <1>4, <1>5, <1>6 DEF Complete
LEMMA AsmKept ==
    ASSUME Arrived, plan \in Plans, NEW u, NEW r, AsmPhase(r, u), NEW g, g = loc[r].gen,
           req'[r] = req[r], loc'[r] = loc[r], PutsRest(u, g),
           HasSession(u)' <=> HasSession(u), HasSession(u) => sessions'[u].gen = sessions[u].gen
    PROVE  AsmPhase(r, u)'
<1>1. /\ Active(r)' <=> Active(r)
      /\ Acked(r, "assemble")' <=> Acked(r, "assemble")
      /\ At(r, "done")' <=> At(r, "done")
  BY DEF Active, Acked, At
<1>2. Live(r, u)' <=> Live(r, u)  BY DEF Live
<1>3. Complete(r, u) => Complete(r, u)'  BY CompleteKept
<1>4. Begins(r) => Begins(r)'  BY DEF Begins, Ends
<1>5. Prepares(r, u) => Prepares(r, u)'  BY <1>2 DEF Prepares, Ends
<1>6. Reads(r, u) => Reads(r, u)'
  <2> SUFFICES ASSUME Reads(r, u) PROVE Reads(r, u)'
    OBVIOUS
  <2>1. PICK ids, L : ids = Sorted(Sent(u, g)) /\ L = Parts(u, g)  OBVIOUS
  <2>2. Sent(u, g)' = Sent(u, g) /\ Parts(u, g)' = Parts(u, g)  BY RestKeeps
  <2>3. \A n : PutsOf(u, loc[r].gen, n)' = PutsOf(u, g, n)'
    BY DEF PutsOf, InGen
  <2>4. Sent(u, loc[r].gen)' = Sent(u, g)'  BY <2>3 DEF Sent
  <2>5. Parts(u, loc[r].gen)' = Parts(u, g)'  BY <2>3, <2>4 DEF Parts, LastOf
  <2>6. Sorted(Sent(u, loc[r].gen)') = ids /\ Parts(u, loc[r].gen)' = L  BY <2>1, <2>2, <2>4, <2>5
  <2>7. PICK j \in Nat : Reading(req[r].todo, ids, j) /\ Prefix(L, j, loc[r].data)
    BY <2>1 DEF Reads
  <2>8. Reading(req'[r].todo, ids, j) /\ Prefix(L, j, loc'[r].data)  BY <2>7
  <2>9. Live(r, u)'  BY <1>2 DEF Reads
  <2> QED BY <2>6, <2>8, <2>9, Zenon DEF Reads
<1>7. Closes(r, u) => Closes(r, u)'  BY <1>1, <1>3 DEF Closes, Ends
<1> QED BY <1>1, <1>2, <1>3, <1>4, <1>5, <1>6, <1>7 DEF AsmPhase

LEMMA AsmAtRest ==
    ASSUME Arrived, plan \in Plans, NEW u, NEW r, AsmPhase(r, u), ~Active(r), NEW g, g = loc[r].gen,
           req'[r] = req[r], loc'[r] = loc[r],
           Complete(r, u) /\ ~Live(r, u) => PutsRest(u, g) /\ ~Live(r, u)'
    PROVE  AsmPhase(r, u)'
<1>1. ~Active(r)' /\ (Acked(r, "assemble")' <=> Acked(r, "assemble"))  BY DEF Active, Acked
<1>2. Acked(r, "assemble") => Complete(r, u) /\ ~Live(r, u)  BY DEF AsmPhase
<1>3. Acked(r, "assemble") => Complete(r, u)'  BY <1>2, CompleteKept
<1> QED BY <1>1, <1>2, <1>3 DEF AsmPhase

LEMMA PutKept ==
    ASSUME NEW u, NEW s, PutPhase(s, u), req'[s] = req[s], loc'[s] = loc[s],
           ~Active(s) \/ ChunkFiles(u)' = ChunkFiles(u)
    PROVE  PutPhase(s, u)'
<1>1. (Active(s)' <=> Active(s)) /\ \A k : At(s, k)' <=> At(s, k)  BY DEF Active, At
<1>2. \A k : At(s, k) => Active(s)  BY DEF At
<1>3. Bytes(s)' = Bytes(s)  BY DEF Bytes
<1>4. Ends(req'[s].todo, <<"putchunk">>) \/ Ends(req'[s].todo, PutKinds) \/ Ends(req'[s].todo, <<"done">>)
  BY DEF PutPhase
<1>5. Active(s)' /\ ~At(s, "done")' => loc'[s].gen = 0  BY <1>1 DEF PutPhase
<1>6. CASE ~Active(s)  BY <1>1, <1>2, <1>4, <1>6 DEF PutPhase
<1>7. CASE ChunkFiles(u)' = ChunkFiles(u)
  <2>1. At(s, "chunkbody")' =>
           /\ req'[s].op.part \in DOMAIN ChunkFiles(u)'
           /\ ChunkFiles(u)'[req'[s].op.part] = [ino |-> loc'[s].ino, data |-> <<>>]
    BY <1>1, <1>7 DEF PutPhase
  <2>2. At(s, "addchunk")' =>
           /\ req'[s].op.part \in DOMAIN ChunkFiles(u)'
           /\ ChunkFiles(u)'[req'[s].op.part].data = Bytes(s)'
    BY <1>1, <1>3, <1>7 DEF PutPhase
  <2> QED BY <1>4, <1>5, <2>1, <2>2 DEF PutPhase
<1> QED BY <1>6, <1>7

LEMMA SlotKept ==
    ASSUME Arrived, plan \in Plans, NEW u, Slot(u), HasSession(u), sessions'[u] = sessions[u],
           NEW g, g = sessions[u].gen,
           \A s \in Reqs : InGen(s, u, g)' <=> InGen(s, u, g),
           \A s \in Reqs : InGen(s, u, g) =>
               /\ req'[s].op = req[s].op
               /\ Acked(s, "putchunk") \/ Active(s) => Acked(s, "putchunk")' \/ Active(s)',
           \A n : Written(n, u)' => Written(n, u) /\ ChunkFiles(u)'[n].data = ChunkFiles(u)[n].data
    PROVE  Slot(u)'
<1>2. sessions'[u] = sessions[u]  OBVIOUS
<1>3. \A s \in Reqs : InGen(s, u, g) => req'[s].op = req[s].op  OBVIOUS
<1>4. Sent(u, g)' = Sent(u, g) /\ \A n \in Sent(u, g) : LastOf(u, g, n)' = LastOf(u, g, n)  BY <1>3, PutsKept
<1>5. /\ DOMAIN sessions[u].chunks = Sent(u, g)
      /\ \A s \in Reqs : InGen(s, u, g) => Acked(s, "putchunk") \/ Active(s)
      /\ \A n \in Sent(u, g) : Written(n, u) => ChunkFiles(u)[n].data = LastOf(u, g, n)
  BY DEF Slot
<1>6. \A s \in Reqs : InGen(s, u, g)' => Acked(s, "putchunk")' \/ Active(s)'
  BY <1>5
<1>7. \A n \in Sent(u, g)' : Written(n, u)' => ChunkFiles(u)'[n].data = LastOf(u, g, n)'
  BY <1>4, <1>5
<1>8. sessions'[u].gen = g /\ DOMAIN sessions'[u].chunks = Sent(u, g)'  BY <1>2, <1>4, <1>5
<1>9. \A s \in Reqs : InGen(s, u, sessions[u].gen)' <=> InGen(s, u, g)'  BY <1>8 DEF InGen
<1>10. \A n : PutsOf(u, sessions[u].gen, n)' = PutsOf(u, g, n)'  BY <1>9 DEF PutsOf
<1>11. Sent(u, sessions[u].gen)' = Sent(u, g)' /\ \A n : LastOf(u, sessions[u].gen, n)' = LastOf(u, g, n)'
  BY <1>10 DEF Sent, LastOf
<1> QED BY <1>6, <1>7, <1>8, <1>9, <1>11 DEF Slot

LEMMA NoSlot == ASSUME NEW u, ~HasSession(u)' PROVE Slot(u)'
BY DEF Slot

LEMMA ViewKept ==
    ASSUME Arrived, plan \in Plans, NEW u, Exact(u), Same(u), HasSession(u)' <=> HasSession(u),
           HasSession(u) => sessions'[u] = sessions[u], ChunkFiles(u)' = ChunkFiles(u)
    PROVE  Exact(u)'
<1>1. Slot(u)'
  <2>1. CASE HasSession(u)'
    <3>1. PICK g : g = sessions[u].gen  OBVIOUS
    <3>2. /\ \A s \in Reqs : InGen(s, u, g)' <=> InGen(s, u, g)
          /\ \A s \in Reqs : InGen(s, u, g) => req'[s] = req[s]
          /\ \A s \in Reqs : IsPut(s, u) => IsPut(s, u)' /\ req'[s] = req[s]
      BY DEF Same, InGen, IsPut
    <3>3. \A s \in Reqs : InGen(s, u, g) =>
             /\ req'[s].op = req[s].op
             /\ Acked(s, "putchunk") \/ Active(s) => Acked(s, "putchunk")' \/ Active(s)'
      BY <3>2 DEF Acked, Active
    <3>4. \A n : Written(n, u)' => Written(n, u) /\ ChunkFiles(u)'[n].data = ChunkFiles(u)[n].data
      BY <3>2 DEF Written, At, Active
    <3> QED BY <2>1, <3>1, <3>2, <3>3, <3>4, SlotKept DEF Exact
  <2> QED BY <2>1, NoSlot
<1>2. ASSUME NEW s \in Reqs, IsPut(s, u)' PROVE PutPhase(s, u)'
  <2>1. IsPut(s, u) /\ req'[s] = req[s] /\ loc'[s] = loc[s]  BY <1>2 DEF Same, IsPut
  <2> QED BY <2>1, PutKept DEF Exact
<1>3. ASSUME NEW r \in Reqs, OfUp(r, u)', req'[r].op.kind = "assemble" PROVE AsmPhase(r, u)'
  <2>1. OfUp(r, u) /\ req'[r] = req[r] /\ loc'[r] = loc[r]  BY <1>3 DEF Same
  <2>2. AsmPhase(r, u)  BY <1>3, <2>1 DEF Exact
  <2>3. PICK g : g = loc[r].gen  OBVIOUS
  <2>4. PutsRest(u, g)  BY SameRests
  <2> QED BY <2>1, <2>2, <2>3, <2>4, AsmKept
<1> QED BY <1>1, <1>2, <1>3 DEF Exact
-----------------------------------------------------------------------------
(* What a step does to sessions, directories and locals.                   *)
LocStep(r) ==
    /\ DOMAIN loc' = DOMAIN loc /\ \A s \in Reqs : s # r => loc'[s] = loc[s]
    /\ DOMAIN loc'[r] = DOMAIN NoLoc
    /\ loc'[r].gen = loc[r].gen \/ (HasSession(Up(r)) /\ loc'[r].gen = sessions[Up(r)].gen)

LEMMA LocSame == ASSUME NEW r \in Reqs, DOMAIN loc[r] = DOMAIN NoLoc, loc' = loc PROVE LocStep(r)
BY DEF LocStep

LEMMA UploadLocs ==
    ASSUME NEW r \in Reqs, DOMAIN loc = Reqs, DOMAIN loc[r] = DOMAIN NoLoc, UploadStep(r)
    PROVE  LocStep(r)
<1>0. DOMAIN NoLoc = {"gen", "ino", "data", "results", "status"}  BY DEF NoLoc
<1>1. CASE UNCHANGED loc  BY <1>1, LocSame
<1>2. CASE ChunkCreate(r)
  <2>1. PICK i : loc' = [loc EXCEPT ![r].ino = i]  BY <1>2 DEF ChunkCreate
  <2> QED BY <1>0, <2>1 DEF LocStep
<1>3. ASSUME HasSession(Up(r)), loc' = [loc EXCEPT ![r].gen = sessions[Up(r)].gen] PROVE LocStep(r)
  <2>1. PICK g : g = sessions[Up(r)].gen  OBVIOUS
  <2>2. loc' = [loc EXCEPT ![r].gen = g]  BY <1>3, <2>1
  <2> QED BY <1>0, <1>3, <2>1, <2>2 DEF LocStep
<1>4. CASE AssembleRead(r)
  <2>1. UNCHANGED loc \/ \E d : loc' = [loc EXCEPT ![r].data = @ \o d]  BY <1>4, Zenon DEF AssembleRead
  <2>2. ASSUME NEW d, loc' = [loc EXCEPT ![r].data = @ \o d] PROVE LocStep(r)
    BY <1>0, <2>2 DEF LocStep
  <2> QED BY <1>1, <2>1, <2>2
<1>5. \/ UNCHANGED loc \/ ChunkCreate(r) \/ AssembleRead(r)
      \/ HasSession(Up(r)) /\ loc' = [loc EXCEPT ![r].gen = sessions[Up(r)].gen]
  BY Zenon DEF UploadStep, handle_mkcol, PutChunkAdmit, ChunkQuota, ChunkBody,
     add_chunk, AssembleSession, AssembleTotal, AssembleParts, AssembleQuota, AssembleTarget,
     AssembleParent, AssembleWrite, AssembleRow, AssembleEntity, cleanup_chunks, remove_session,
     handle_delete, handle_propfind
<1> QED BY <1>1, <1>2, <1>3, <1>4, <1>5

LEMMA BulkLocs ==
    ASSUME NEW r \in Reqs, DOMAIN loc = Reqs, DOMAIN loc[r] = DOMAIN NoLoc, BulkStep(r)
    PROVE  LocStep(r)
<1>0. DOMAIN NoLoc = {"gen", "ino", "data", "results", "status"}  BY DEF NoLoc
<1>1. CASE UNCHANGED loc  BY <1>1, LocSame
<1>2. ASSUME NEW f, loc' = [loc EXCEPT ![r].results = f] PROVE LocStep(r)
  BY <1>0, <1>2 DEF LocStep
<1>3. ASSUME NEW p, NEW v, Result(r, p, v) PROVE LocStep(r)
  <2>1. PICK f : f = InsertRow(loc[r].results, p, v)  OBVIOUS
  <2>2. loc' = [loc EXCEPT ![r].results = f]  BY <1>3, <2>1 DEF Result
  <2> QED BY <1>2, <2>2
<1>4. ASSUME NEW f, loc' = [loc EXCEPT ![r].status = "400", ![r].results = f] PROVE LocStep(r)
  BY <1>0, <1>4 DEF LocStep
<1>5. ASSUME loc' = [loc EXCEPT ![r].status = "400"] PROVE LocStep(r)
  BY <1>0, <1>5 DEF LocStep
<1>6. CASE BulkPart(r)
  <2>1. CASE PartOf(r).fault = "hash"
    <3>1. loc' = [loc EXCEPT ![r].status = "400", ![r].results = InsertRow(@, PartOf(r).path, FALSE)]
      BY <1>6, <2>1 DEF BulkPart
    <3>2. PICK f : loc' = [loc EXCEPT ![r].status = "400", ![r].results = f]
      BY <3>1, Zenon
    <3> QED BY <1>4, <3>2
  <2>2. CASE PartOf(r).fault # "hash"
    <3>1. \/ UNCHANGED loc \/ loc' = [loc EXCEPT ![r].status = "400"]
          \/ Result(r, PartOf(r).path, FALSE)
      BY <1>6, <2>2 DEF BulkPart
    <3> QED BY <1>1, <1>3, <1>5, <3>1
  <2> QED BY <2>1, <2>2
<1>7. CASE BulkParent(r) \/ BulkFind(r) \/ BulkWrite(r) \/ BulkRow(r) \/ BulkEntity(r) \/ BulkEnd(r)
  <2>1. UNCHANGED loc \/ \E p, v : Result(r, p, v)
    BY <1>7, Zenon DEF BulkParent, BulkFind, BulkWrite, BulkRow, BulkEntity, BulkEnd, PartFails
  <2> QED BY <1>1, <1>3, <2>1
<1> QED BY <1>6, <1>7 DEF BulkStep

(* The sessions of other uploads stay; one that a step makes is new.       *)
SessionsStep(r) ==
    LET v == Up(r) IN
    /\ \A u : u # v => /\ u \in DOMAIN sessions' <=> u \in DOMAIN sessions
                       /\ u \in DOMAIN sessions => sessions'[u] = sessions[u]
    /\ v \in DOMAIN sessions' =>
          \/ v \in DOMAIN sessions /\ sessions'[v].gen = sessions[v].gen
          \/ sessions'[v].gen = nextEtag /\ nextEtag' = nextEtag + 1 /\ UNCHANGED loc
DirsStep(r) == \A u : u # Up(r) => ChunkFiles(u)' = ChunkFiles(u)

LEMMA UploadSessions ==
    ASSUME SessionsFit, NEW r \in Reqs, UploadStep(r)
    PROVE  SessionsStep(r)
<1>1. PICK v : v = Up(r)  OBVIOUS
<1>2. CASE UNCHANGED sessions  BY <1>2 DEF SessionsStep
<1>3. CASE handle_mkcol(r)
  <2>1. PICK x : x = [gen |-> nextEtag, chunks |-> <<>>]  OBVIOUS
  <2>2. sessions' = InsertRow(sessions, v, x) /\ nextEtag' = nextEtag + 1 /\ UNCHANGED loc
    BY <1>1, <1>3, <2>1 DEF handle_mkcol, create_session
  <2>3. x.gen = nextEtag  BY <2>1
  <2> QED BY <1>1, <2>2, <2>3 DEF SessionsStep, InsertRow
<1>4. CASE remove_session(r)
  <2>1. sessions' = Restrict(sessions, DOMAIN sessions \ {v})  BY <1>1, <1>4 DEF remove_session
  <2> QED BY <1>1, <2>1 DEF SessionsStep, Restrict
<1>5. CASE add_chunk(r) /\ HasSession(v)
  <2>1. PICK c : c = InsertRow(sessions[v].chunks, req[r].op.part, ContentLength(req[r].op))  OBVIOUS
  <2>2. sessions' = [sessions EXCEPT ![v].chunks = c]  BY <1>1, <1>5, <2>1 DEF add_chunk
  <2>3. v \in DOMAIN sessions /\ DOMAIN sessions[v] = {"gen", "chunks"}  BY <1>5 DEF SessionsFit, HasSession
  <2>4. sessions'[v] = [sessions[v] EXCEPT !.chunks = c]  BY <2>2, <2>3
  <2>5. sessions'[v].gen = sessions[v].gen  BY <2>3, <2>4
  <2>6. \A u : u # v => /\ u \in DOMAIN sessions' <=> u \in DOMAIN sessions
                        /\ u \in DOMAIN sessions => sessions'[u] = sessions[u]
    BY <2>2
  <2> QED BY <1>1, <2>3, <2>5, <2>6 DEF SessionsStep
<1>6. \/ UNCHANGED sessions \/ handle_mkcol(r) \/ remove_session(r) \/ (add_chunk(r) /\ HasSession(v))
  BY <1>1, Zenon DEF UploadStep, PutChunkAdmit, ChunkQuota, ChunkCreate, ChunkBody,
     add_chunk, AssembleSession, AssembleTotal, AssembleParts, AssembleRead, AssembleQuota, AssembleTarget,
     AssembleParent, AssembleWrite, AssembleRow, AssembleEntity, cleanup_chunks,
     handle_delete, handle_propfind, KeepUpload, uvars
<1> QED BY <1>2, <1>3, <1>4, <1>5, <1>6

LEMMA UploadDirs ==
    ASSUME NEW r \in Reqs, UploadStep(r)
    PROVE  DirsStep(r)
<1>1. PICK v : v = Up(r)  OBVIOUS
<1>0. SUFFICES ASSUME NEW u, u # v PROVE ChunkFiles(u)' = ChunkFiles(u)
  BY <1>1 DEF DirsStep
<1>2. CASE UNCHANGED chunkdir  BY <1>2 DEF ChunkFiles, HasDir
<1>3. CASE chunkdir' = remove_dir_all(v)
  BY <1>0, <1>3 DEF ChunkFiles, HasDir, remove_dir_all, Restrict
<1>4. CASE ChunkCreate(r)
  <2>1. PICK x : chunkdir' = InsertRow(chunkdir, v, x)  BY <1>1, <1>4, Zenon DEF ChunkCreate
  <2> QED BY <1>0, <2>1 DEF ChunkFiles, HasDir, InsertRow
<1>5. CASE ChunkBody(r)
  <2>1. PICK x : chunkdir' = chunkdir \/ chunkdir' = [chunkdir EXCEPT ![v] = x]
    <3>1. PICK n, w : chunkdir' = chunkdir \/ chunkdir' = [chunkdir EXCEPT ![v][n].data = Overwritten(@, r, w)]
      BY <1>1, <1>5, Zenon DEF ChunkBody
    <3>2. PICK x : x = [chunkdir[v] EXCEPT ![n].data = Overwritten(@, r, w)]  OBVIOUS
    <3> QED BY <3>1, <3>2
  <2>2. DOMAIN chunkdir' = DOMAIN chunkdir /\ (u \in DOMAIN chunkdir => chunkdir'[u] = chunkdir[u])
    BY <1>0, <2>1
  <2> QED BY <2>2 DEF ChunkFiles, HasDir
<1>6. UNCHANGED chunkdir \/ chunkdir' = remove_dir_all(v) \/ ChunkCreate(r) \/ ChunkBody(r)
  BY <1>1, Zenon DEF UploadStep, handle_mkcol, PutChunkAdmit, ChunkQuota,
     add_chunk, AssembleSession, AssembleTotal, AssembleParts, AssembleRead, AssembleQuota, AssembleTarget,
     AssembleParent, AssembleWrite, AssembleRow, AssembleEntity, cleanup_chunks, remove_session,
     handle_delete, handle_propfind, KeepUpload, uvars
<1> QED BY <1>2, <1>3, <1>4, <1>5, <1>6
-----------------------------------------------------------------------------
(* What any step of r does.                                                *)
LEMMA RequestStepAt == ASSUME NEW r, RequestStep(r) PROVE Active(r)
<1> SUFFICES ASSUME ~Active(r) PROVE FALSE
  OBVIOUS
<1>1. \A k : ~At(r, k)  BY DEF At
<1>2. CASE SharedStep(r)
  BY <1>1, <1>2, Zenon DEF SharedStep, PropagateEach, RecomputeLookup, RecomputeSum, RecomputeUpdate,
     EnsureFast, EnsureLookup, EnsureInsert, propagate_change, LazyDirRow, Respond
<1>3. CASE VersionStep(r)
  BY <1>1, <1>3, Zenon DEF VersionStep, StoreVersion, VersionParentLookup, VersionParentInsert,
     InsertVersionRow, RenameVersionsDisk, RepathVersionRows, RepathVersionSubtree, CopyVersions,
     SyncVersionEntities
<1>4. CASE PutStep(r)
  BY <1>1, <1>4, Zenon DEF PutStep, PutAdmit, PutOpen, PutBody, PutChecksum, PutQuota, PutRename, PutTouch,
     PutUpdate, PutInsert, PutEntity
<1>5. CASE StructureStep(r)
  <2>1. ~MkcolCheck(r)  BY <1>1 DEF MkcolCheck
  <2>3. ~MkcolDisk(r)  BY <1>1 DEF MkcolDisk
  <2>4. ~MkcolInsert(r)  BY <1>1 DEF MkcolInsert
  <2>5. CASE MoveLookup(r) \/ MoveUpdate(r) \/ MoveDisk(r)
    BY <1>1, <2>5, Zenon DEF MoveLookup, MoveUpdate, MoveDisk
  <2>2. CASE RekeySubtree(r) \/ CopyAdmit(r) \/ CopyDisk(r) \/ CopyDelete(r) \/ CopyLookup(r) \/ CopyInsert(r)
             \/ SetMtime(r)
    BY <1>1, <2>2, Zenon DEF RekeySubtree, CopyAdmit, CopyDisk, CopyDelete, CopyLookup, CopyInsert, SetMtime
  <2> QED BY <1>5, <2>1, <2>2, <2>3, <2>4, <2>5 DEF StructureStep
<1>6. CASE DeleteStep(r)
  BY <1>1, <1>6, Zenon DEF DeleteStep, DeleteLookup, TrashName, TrashDisk, TrashRow, TrashItem, TrashNow,
     TrashVersionsPick, TrashVersionsMove, HardDisk, HardRow, HardDeleteVersions
<1>7. CASE PropfindSelf(r) \/ PropfindList(r) \/ EnsureLazyCache(r) \/ BumpRoot(r)
  BY <1>1, <1>7, Zenon DEF PropfindSelf, PropfindList, EnsureLazyCache, BumpRoot
<1> QED BY <1>2, <1>3, <1>4, <1>5, <1>6, <1>7 DEF RequestStep

LEMMA BulkStepAt == ASSUME NEW r, BulkStep(r) PROVE Active(r)
<1> SUFFICES ASSUME ~Active(r) PROVE FALSE
  OBVIOUS
<1>1. \A k : ~At(r, k)  BY DEF At
<1> QED BY <1>1, Zenon DEF BulkStep, BulkPart, BulkParent, BulkFind, BulkWrite, BulkRow, BulkEntity, BulkEnd

Stands(r) ==
    /\ RunsAlone(r) /\ Stamped /\ Active(r) /\ UNCHANGED <<plan, over, restarts>>
    /\ LocStep(r) /\ SessionsStep(r) /\ DirsStep(r)

LEMMA StepFacts ==
    ASSUME OrphanInv, Gens, NEW r \in Reqs, AnyStep(r)
    PROVE  Stands(r)
<1>0. /\ WellFormed /\ SessionsFit /\ DOMAIN loc = Reqs /\ DOMAIN loc[r] = DOMAIN NoLoc
      /\ \A s \in Reqs : req[s].op.kind \in UploadOps => InOrder(req[s].todo)
  BY DEF OrphanInv, Gens
<1>1. RunsAlone(r) /\ Stamped /\ UNCHANGED <<plan, over, restarts>>
  <2>1. CASE req[r].op.kind \in UploadOps
    BY <1>0, <2>1, StepOfUpload DEF Kept, ChangesOwn
  <2>2. CASE req[r].op.kind \notin UploadOps
    BY <1>0, <2>2, StepOfOthers DEF Kept, uvars
  <2> QED BY <2>1, <2>2
<1>2. ASSUME UNCHANGED uvars PROVE SessionsStep(r) /\ DirsStep(r)
  <2>1. sessions' = sessions /\ chunkdir' = chunkdir  BY <1>2 DEF uvars
  <2> QED BY <2>1 DEF SessionsStep, DirsStep, ChunkFiles, HasDir
<1>3. CASE RequestStep(r) /\ UNCHANGED <<uvars, loc>>
  <2>1. SessionsStep(r) /\ DirsStep(r)  BY <1>2, <1>3
  <2>2. LocStep(r)  BY <1>0, <1>3, LocSame
  <2> QED BY <1>1, <1>3, <2>1, <2>2, RequestStepAt DEF Stands
<1>4. CASE UploadStep(r)
  <2>1. SessionsStep(r)  BY <1>0, <1>4, UploadSessions
  <2>2. DirsStep(r)  BY <1>4, UploadDirs
  <2>3. LocStep(r)  BY <1>0, <1>4, UploadLocs
  <2>4. Active(r)  BY <1>4, UploadStepAt DEF At
  <2> QED BY <1>1, <2>1, <2>2, <2>3, <2>4 DEF Stands
<1>5. CASE BulkStep(r)
  <2>1. KeepUpload  BY <1>0, <1>5, BulkStepKeeps
  <2>2. SessionsStep(r) /\ DirsStep(r)  BY <1>2, <2>1 DEF KeepUpload
  <2>3. LocStep(r)  BY <1>0, <1>5, BulkLocs
  <2> QED BY <1>1, <1>5, <2>2, <2>3, BulkStepAt DEF Stands
<1> QED BY <1>3, <1>4, <1>5 DEF AnyStep

LEMMA ArrivedStep ==
    ASSUME Arrived, NEW r \in Reqs, Stands(r)
    PROVE  Arrived'
<1>1. /\ \A s \in Reqs : req'[s].op = req[s].op
      /\ \A s \in Reqs : s # r => req'[s] = req[s]
      /\ Active(r) /\ UNCHANGED <<plan, over>>
  BY DEF Stands, RunsAlone
<1>2. \A s \in Reqs : Started(s)' <=> Started(s)  BY <1>1 DEF Started
<1>3. \A s \in Reqs : \A u : OfUp(s, u)' <=> OfUp(s, u)  BY <1>1 DEF OfUp, Up
<1>4. \A s \in Reqs : Active(s)' => Active(s)  BY <1>1 DEF Active
<1>5. Started(r)
  <2>1. req[r] # Idle  BY <1>1, IdleFits DEF Active
  <2> QED BY <2>1 DEF Arrived
<1>6. \A s \in Reqs : req'[s] = Idle \/ Started(s)'  BY <1>1, <1>2, <1>5 DEF Arrived
<1>7. \A s \in Reqs : Started(s)' => s \in 1..Len(plan') /\ req'[s].op.size \in Nat
  BY <1>1, <1>2 DEF Arrived
<1>8. \A a, b \in Reqs : a < b /\ Started(b)' => Started(a)'  BY <1>2 DEF Arrived
<1>9. \A a, b \in Reqs : \A u : a < b /\ Active(a)' /\ OfUp(a, u)' /\ OfUp(b, u)' => a \in over'
  BY <1>1, <1>3, <1>4 DEF Arrived
<1> QED BY <1>6, <1>7, <1>8, <1>9 DEF Arrived

LEMMA GensStep ==
    ASSUME Gens, WellFormed, Arrived, NEW r \in Reqs, Stands(r)
    PROVE  Gens'
<1>1. /\ \A s \in Reqs : req'[s].op = req[s].op
      /\ nextEtag' \in Nat /\ nextEtag' >= nextEtag /\ nextEtag \in Nat /\ nextEtag # 0
  BY DEF Stands, RunsAlone, Stamped, WellFormed, Gens
<1>2. /\ DOMAIN loc' = Reqs /\ \A s \in Reqs : s # r => loc'[s] = loc[s]
      /\ DOMAIN loc'[r] = DOMAIN NoLoc
      /\ loc'[r].gen = loc[r].gen \/ (HasSession(Up(r)) /\ loc'[r].gen = sessions[Up(r)].gen)
  BY DEF Stands, LocStep, Gens
<1>3. Started(r)
  <2>1. req[r] # Idle  BY IdleFits DEF Active, Stands
  <2> QED BY <2>1 DEF Arrived
<1>4. \A s \in Reqs : (Started(s)' <=> Started(s)) /\ Up(s)' = Up(s)  BY <1>1 DEF Started, Up
<1>5. PICK v : v = Up(r)  OBVIOUS
<1>6. /\ \A u : u # v => /\ u \in DOMAIN sessions' <=> u \in DOMAIN sessions
                         /\ u \in DOMAIN sessions => sessions'[u] = sessions[u]
      /\ v \in DOMAIN sessions' =>
            \/ v \in DOMAIN sessions /\ sessions'[v].gen = sessions[v].gen
            \/ sessions'[v].gen = nextEtag /\ nextEtag' = nextEtag + 1 /\ UNCHANGED loc
  BY <1>5 DEF Stands, SessionsStep
<1>7. /\ \A s \in Reqs : DOMAIN loc[s] = DOMAIN NoLoc /\ loc[s].gen \in 0..(nextEtag - 1)
      /\ \A s \in Reqs : ~Started(s) => loc[s] = NoLoc
      /\ \A u \in DOMAIN sessions : sessions[u].gen \in 1..(nextEtag - 1)
      /\ \A u, w \in DOMAIN sessions : sessions[u].gen = sessions[w].gen => u = w
      /\ \A s \in Reqs : \A w \in DOMAIN sessions : loc[s].gen = sessions[w].gen => Up(s) = w
      /\ \A a, s \in Reqs : loc[a].gen = loc[s].gen /\ loc[a].gen # 0 => Up(a) = Up(s)
  BY DEF Gens
<1>8. loc'[r].gen = loc[r].gen \/ (v \in DOMAIN sessions /\ loc'[r].gen = sessions[v].gen)
  BY <1>2, <1>5 DEF HasSession
(* A number in use is smaller than the next one.                           *)
<1>9. \A s \in Reqs : loc'[s].gen \in 0..(nextEtag - 1) /\ DOMAIN loc'[s] = DOMAIN NoLoc
  BY <1>1, <1>2, <1>7, <1>8
<1>10. \A u \in DOMAIN sessions' : \/ u \in DOMAIN sessions /\ sessions'[u].gen = sessions[u].gen
                                   \/ u = v /\ sessions'[u].gen = nextEtag /\ nextEtag' = nextEtag + 1
  BY <1>6
<1>11. \A s \in Reqs : loc'[s].gen \in 0..(nextEtag' - 1)  BY <1>1, <1>9
<1>12. \A u \in DOMAIN sessions' : sessions'[u].gen \in 1..(nextEtag' - 1)
  <2> TAKE u \in DOMAIN sessions'
  <2>1. CASE u \in DOMAIN sessions /\ sessions'[u].gen = sessions[u].gen
    <3>1. sessions[u].gen \in 1..(nextEtag - 1)  BY <1>7, <2>1
    <3> QED BY <1>1, <2>1, <3>1
  <2>2. CASE sessions'[u].gen = nextEtag /\ nextEtag' = nextEtag + 1
    BY <1>1, <2>2
  <2> QED BY <1>10, <2>1, <2>2
<1>13. \A u, w \in DOMAIN sessions' : sessions'[u].gen = sessions'[w].gen => u = w
  <2> SUFFICES ASSUME NEW u \in DOMAIN sessions', NEW w \in DOMAIN sessions',
                      sessions'[u].gen = sessions'[w].gen, u # w
               PROVE  FALSE
    OBVIOUS
  <2>1. CASE /\ u \in DOMAIN sessions /\ sessions'[u].gen = sessions[u].gen
             /\ w \in DOMAIN sessions /\ sessions'[w].gen = sessions[w].gen
    BY <1>7, <2>1
  <2>2. CASE u = v /\ sessions'[u].gen = nextEtag
    <3>1. w \in DOMAIN sessions /\ sessions'[w].gen = sessions[w].gen  BY <1>10, <2>2
    <3>2. sessions[w].gen \in 1..(nextEtag - 1)  BY <1>7, <3>1
    <3> QED BY <1>1, <2>2, <3>1, <3>2
  <2>3. CASE w = v /\ sessions'[w].gen = nextEtag
    <3>1. u \in DOMAIN sessions /\ sessions'[u].gen = sessions[u].gen  BY <1>10, <2>3
    <3>2. sessions[u].gen \in 1..(nextEtag - 1)  BY <1>7, <3>1
    <3> QED BY <1>1, <2>3, <3>1, <3>2
  <2> QED BY <1>10, <2>1, <2>2, <2>3
<1>14. \A s \in Reqs : \A w \in DOMAIN sessions' : loc'[s].gen = sessions'[w].gen => Up(s) = w
  <2> SUFFICES ASSUME NEW s \in Reqs, NEW w \in DOMAIN sessions', loc'[s].gen = sessions'[w].gen
               PROVE  Up(s) = w
    OBVIOUS
  <2>1. CASE w \in DOMAIN sessions /\ sessions'[w].gen = sessions[w].gen
    <3>1. CASE loc'[s].gen = loc[s].gen  BY <1>7, <2>1, <3>1
    <3>2. CASE s = r /\ v \in DOMAIN sessions /\ loc'[r].gen = sessions[v].gen
      <4>1. v = w  BY <1>7, <2>1, <3>2
      <4> QED BY <1>5, <3>2, <4>1
    <3> QED BY <1>2, <1>8, <3>1, <3>2
  <2>2. CASE sessions'[w].gen = nextEtag
    <3>1. loc'[s].gen \in 0..(nextEtag - 1)  BY <1>9
    <3> QED BY <1>1, <2>2, <3>1
  <2> QED BY <1>10, <2>1, <2>2
<1>15. \A a, s \in Reqs : loc'[a].gen = loc'[s].gen /\ loc'[a].gen # 0 => Up(a) = Up(s)
  <2> SUFFICES ASSUME NEW a \in Reqs, NEW s \in Reqs, loc'[a].gen = loc'[s].gen, loc'[a].gen # 0
               PROVE  Up(a) = Up(s)
    OBVIOUS
  <2>1. CASE loc'[a].gen = loc[a].gen /\ loc'[s].gen = loc[s].gen  BY <1>7, <2>1
  <2>2. CASE v \in DOMAIN sessions /\ loc'[r].gen = sessions[v].gen
    <3>1. \A x \in Reqs : loc'[x].gen = sessions[v].gen => Up(x) = v
      BY <1>2, <1>5, <1>7, <2>2
    <3>2. a = r \/ s = r \/ (loc'[a].gen = loc[a].gen /\ loc'[s].gen = loc[s].gen)  BY <1>2
    <3>3. CASE a = r \/ s = r
      <4>1. loc'[a].gen = sessions[v].gen /\ loc'[s].gen = sessions[v].gen  BY <2>2, <3>3
      <4> QED BY <3>1, <4>1
    <3> QED BY <2>1, <3>2, <3>3
  <2>3. CASE loc'[r].gen = loc[r].gen
    BY <1>2, <2>1, <2>3
  <2> QED BY <1>8, <2>2, <2>3
<1>16. \A s \in Reqs : ~Started(s) => loc'[s] = NoLoc  BY <1>2, <1>3, <1>7
<1>17. nextEtag' # 0  BY <1>1
<1> QED BY <1>2, <1>4, <1>9, <1>11, <1>12, <1>13, <1>14, <1>15, <1>16, <1>17 DEF Gens

LEMMA IdleNotStarted == Idle.op.kind \notin Kinds
BY DEF Idle, NoOp, Kinds, UploadOps

(* A request arrives, and the server restarts.                             *)
LEMMA StartFacts ==
    ASSUME OrphanInv, NEW r \in 1..Len(plan), NEW op \in plan[r], StartUpload(r, op)
    PROVE  /\ r \in Reqs /\ op.kind \in Kinds /\ op.size \in Nat
           /\ \A s \in Reqs : s # r => req'[s] = req[s]
           /\ req[r] = Idle /\ req'[r].op = op /\ ~Active(r)
           /\ op.kind \in UploadOps => /\ req'[r].todo = <<>> \/ req'[r].todo = <<Do(op.kind)>>
                                     /\ req'[r].resp # "ok"
           /\ \A s \in Reqs : s < r => req[s] # Idle
           /\ UNCHANGED <<plan, sessions, chunkdir, loc, nextEtag>> /\ over \subseteq over'
           /\ op.kind \in UploadOps /\ RunningOf(Reqs, op.up) # {} => {r} \cup RunningOf(Reqs, op.up) \subseteq over'
<1>0. WellFormed /\ plan \in Plans  BY DEF OrphanInv
<1>1. r \in Reqs /\ OpFits(op) /\ op.kind \in Kinds
  BY <1>0, PlansAssumption, PlannedFits
<1>2. /\ \A s \in Reqs \ {r} : req'[s] = req[s]
      /\ req[r] = Idle /\ req'[r].op = op
      /\ op.kind \in UploadOps => req'[r].todo = <<>> \/ req'[r].todo = <<Do(op.kind)>>
  BY <1>0, <1>1, StartFits
<1>3. op.size \in Nat
  <2>1. plan \in Seq(SUBSET OpT)  BY <1>0, PlansAssumption
  <2>2. plan[r] \in SUBSET OpT  BY <2>1
  <2>3. op \in OpT  BY <2>2
  <2> QED BY <2>3 DEF OpT
<1>4. ~Active(r)  BY <1>2, IdleFits DEF Active
<1>5. op.kind \in UploadOps => req'[r].resp # "ok"
  <2> SUFFICES ASSUME op.kind \in UploadOps PROVE req'[r].resp # "ok"
    OBVIOUS
  <2>1. op.kind # "bulk"  BY DEF UploadOps
  <2>2. req' = [req EXCEPT ![r] = upload_handler(op)]  BY <2>1 DEF StartUpload
  <2>3. req'[r] = upload_handler(op)  BY <1>0, <1>1, <2>2 DEF WellFormed
  <2>4. upload_handler(op).resp # "ok"  BY DEF upload_handler, Idle
  <2> QED BY <2>3, <2>4
<1> QED BY <1>1, <1>2, <1>3, <1>4, <1>5 DEF StartUpload, KeepFiles

LEMMA ArrivedStart ==
    ASSUME OrphanInv, Arrived, NEW r \in 1..Len(plan), NEW op \in plan[r], StartUpload(r, op)
    PROVE  Arrived'
<1>1. /\ r \in Reqs /\ op.kind \in Kinds /\ op.size \in Nat
      /\ \A s \in Reqs : s # r => req'[s] = req[s]
      /\ req[r] = Idle /\ req'[r].op = op /\ ~Active(r)
      /\ \A s \in Reqs : s < r => req[s] # Idle
      /\ plan' = plan /\ over \subseteq over'
      /\ op.kind \in UploadOps /\ RunningOf(Reqs, op.up) # {} => {r} \cup RunningOf(Reqs, op.up) \subseteq over'
  BY StartFacts
<1>2. ~Started(r) /\ Started(r)'  BY <1>1, IdleNotStarted DEF Started
<1>3. \A s \in Reqs : s # r => /\ Started(s)' <=> Started(s)
                               /\ Active(s)' <=> Active(s)
                               /\ \A u : OfUp(s, u)' <=> OfUp(s, u)
  BY <1>1 DEF Started, Active, OfUp, Up
<1>4. \A s \in Reqs : req'[s] = Idle \/ Started(s)'
  <2> TAKE s \in Reqs
  <2>1. CASE s = r  BY <1>2, <2>1
  <2>2. CASE s # r
    <3>1. req'[s] = req[s] /\ (req[s] = Idle \/ Started(s))  BY <1>1, <2>2 DEF Arrived
    <3> QED BY <1>3, <2>2, <3>1
  <2> QED BY <2>1, <2>2
<1>5. \A s \in Reqs : Started(s)' => s \in 1..Len(plan') /\ req'[s].op.size \in Nat
  <2> SUFFICES ASSUME NEW s \in Reqs, Started(s)' PROVE s \in 1..Len(plan') /\ req'[s].op.size \in Nat
    OBVIOUS
  <2>1. CASE s = r  BY <1>1, <2>1
  <2>2. CASE s # r  BY <1>1, <1>3, <2>2 DEF Arrived
  <2> QED BY <2>1, <2>2
<1>6. \A a, b \in Reqs : a < b /\ Started(b)' => Started(a)'
  <2> SUFFICES ASSUME NEW a \in Reqs, NEW b \in Reqs, a < b, Started(b)' PROVE Started(a)'
    OBVIOUS
  <2>1. CASE a = r  BY <1>2, <2>1
  <2>2. CASE a # r /\ b = r
    <3>1. req[a] # Idle  BY <1>1, <2>2
    <3>2. Started(a)  BY <3>1 DEF Arrived
    <3> QED BY <1>3, <2>2, <3>2
  <2>3. CASE a # r /\ b # r  BY <1>3, <2>3 DEF Arrived
  <2> QED BY <2>1, <2>2, <2>3
<1>7. \A a, b \in Reqs : \A u : a < b /\ Active(a)' /\ OfUp(a, u)' /\ OfUp(b, u)' => a \in over'
  <2> SUFFICES ASSUME NEW a \in Reqs, NEW b \in Reqs, NEW u, a < b, Active(a)', OfUp(a, u)', OfUp(b, u)'
               PROVE  a \in over'
    OBVIOUS
  <2>0. a # b
    <3>1. a \in Nat /\ b \in Nat  BY PlansAssumption
    <3> QED BY <3>1
  <2>1. CASE a = r
    <3>1. b # r  BY <2>0, <2>1
    <3>2. OfUp(b, u)  BY <1>3, <3>1
    <3>3. Started(b)  BY <3>2 DEF OfUp, Started, Kinds
    <3>4. Started(r)  BY <1>1, <2>1, <3>3 DEF Arrived
    <3> QED BY <1>2, <3>4
  <2>2. CASE a # r /\ b = r
    <3>1. Active(a) /\ OfUp(a, u)  BY <1>3, <2>2
    <3>2. op.kind \in UploadOps /\ op.up = u  BY <1>1, <2>2 DEF OfUp, Up
    <3>3. a \in RunningOf(Reqs, op.up)  BY <3>1, <3>2 DEF RunningOf, OfUp
    <3> QED BY <1>1, <3>2, <3>3
  <2>3. CASE a # r /\ b # r
    <3>1. Active(a) /\ OfUp(a, u) /\ OfUp(b, u)  BY <1>3, <2>3
    <3>2. a \in over  BY <3>1 DEF Arrived
    <3> QED BY <1>1, <3>2
  <2> QED BY <2>1, <2>2, <2>3
<1> QED BY <1>4, <1>5, <1>6, <1>7 DEF Arrived

LEMMA GensStart ==
    ASSUME OrphanInv, Gens, NEW r \in 1..Len(plan), NEW op \in plan[r], StartUpload(r, op)
    PROVE  Gens'
<1>1. /\ r \in Reqs /\ op.kind \in Kinds
      /\ \A s \in Reqs : s # r => req'[s] = req[s]
      /\ req[r] = Idle /\ req'[r].op = op
      /\ UNCHANGED <<sessions, loc, nextEtag>>
  BY StartFacts
<1>2. ~Started(r) /\ Started(r)'  BY <1>1, IdleNotStarted DEF Started
<1>3. \A s \in Reqs : s # r => (Started(s)' <=> Started(s)) /\ Up(s)' = Up(s)  BY <1>1 DEF Started, Up
<1>4. loc[r].gen = 0  BY <1>1, <1>2 DEF Gens, NoLoc
<1>5. /\ \A s \in Reqs : ~Started(s) => loc[s] = NoLoc
      /\ \A u \in DOMAIN sessions : sessions[u].gen \in 1..(nextEtag - 1)
      /\ \A s \in Reqs : \A v \in DOMAIN sessions : loc[s].gen = sessions[v].gen => Up(s) = v
      /\ \A a, s \in Reqs : loc[a].gen = loc[s].gen /\ loc[a].gen # 0 => Up(a) = Up(s)
  BY DEF Gens
<1>6. \A s \in Reqs : ~Started(s)' => loc'[s] = NoLoc  BY <1>1, <1>2, <1>3, <1>5
<1>7. \A v \in DOMAIN sessions : sessions[v].gen # loc[r].gen  BY <1>4, <1>5
<1>8. \A s \in Reqs : \A v \in DOMAIN sessions' : loc'[s].gen = sessions'[v].gen => Up(s)' = v
  BY <1>1, <1>3, <1>5, <1>7
<1>9. \A a, s \in Reqs : loc'[a].gen = loc'[s].gen /\ loc'[a].gen # 0 => Up(a)' = Up(s)'
  BY <1>1, <1>3, <1>4, <1>5
<1> QED BY <1>1, <1>6, <1>8, <1>9 DEF Gens

LEMMA RestartFacts ==
    ASSUME OrphanInv, Restart
    PROVE  /\ sessions' = <<>> /\ DOMAIN sessions' = {}
           /\ UNCHANGED <<chunkdir, loc, plan, over, nextEtag>>
           /\ \A s \in Reqs : /\ req'[s].op = req[s].op /\ ~Active(s)'
                              /\ Active(s) => req'[s].resp = "lost"
                              /\ ~Active(s) => req'[s] = req[s]
<1>0. \A s \in Reqs : DOMAIN req[s] = DOMAIN Idle  BY DEF OrphanInv, WellFormed, RequestFits
<1>1. /\ sessions' = <<>> /\ UNCHANGED <<chunkdir, loc, plan, over>> /\ KeepFiles
      /\ req' = [s \in Reqs |-> IF Active(s) THEN Lost(req[s]) ELSE req[s]]
  BY Zenon DEF Restart, Lost
<1>2. DOMAIN <<>> = {}  BY Tuples, SeqFacts
<1>3. \A s \in Reqs : Lost(req[s]).op = req[s].op /\ Lost(req[s]).todo = <<>> /\ Lost(req[s]).resp = "lost"
  BY <1>0 DEF Lost, Idle
<1>4. \A s \in Reqs : req'[s] = IF Active(s) THEN Lost(req[s]) ELSE req[s]  BY <1>1
<1>5. \A s \in Reqs : /\ req'[s].op = req[s].op /\ ~Active(s)'
                      /\ Active(s) => req'[s].resp = "lost"
                      /\ ~Active(s) => req'[s] = req[s]
  <2> TAKE s \in Reqs
  <2>1. CASE Active(s)
    <3>1. req'[s] = Lost(req[s])  BY <1>4, <2>1
    <3> QED BY <1>3, <2>1, <3>1 DEF Active
  <2>2. CASE ~Active(s)
    <3>1. req'[s] = req[s]  BY <1>4, <2>2
    <3> QED BY <2>2, <3>1 DEF Active
  <2> QED BY <2>1, <2>2
<1> QED BY <1>1, <1>2, <1>5 DEF KeepFiles

LEMMA ArrivedRestart ==
    ASSUME OrphanInv, Arrived, Restart
    PROVE  Arrived'
<1>1. /\ UNCHANGED <<plan, over>>
      /\ \A s \in Reqs : /\ req'[s].op = req[s].op /\ ~Active(s)'
                         /\ Active(s) => req'[s].resp = "lost"
                         /\ ~Active(s) => req'[s] = req[s]
  BY RestartFacts
<1>2. \A s \in Reqs : Started(s)' <=> Started(s)  BY <1>1 DEF Started
<1>3. \A s \in Reqs : Active(s) => Started(s)
  <2> TAKE s \in Reqs
  <2>1. Active(s) => req[s] # Idle  BY IdleFits DEF Active
  <2> QED BY <2>1 DEF Arrived
<1>4. \A s \in Reqs : req'[s] = Idle \/ Started(s)'  BY <1>1, <1>2, <1>3 DEF Arrived
<1>5. \A s \in Reqs : Started(s)' => s \in 1..Len(plan') /\ req'[s].op.size \in Nat
  BY <1>1, <1>2 DEF Arrived
<1>6. \A a, b \in Reqs : a < b /\ Started(b)' => Started(a)'  BY <1>2 DEF Arrived
<1>7. \A a, b \in Reqs : \A u : a < b /\ Active(a)' /\ OfUp(a, u)' /\ OfUp(b, u)' => a \in over'
  BY <1>1
<1> QED BY <1>4, <1>5, <1>6, <1>7 DEF Arrived

LEMMA GensRestart ==
    ASSUME OrphanInv, Gens, Restart
    PROVE  Gens'
<1>1. /\ DOMAIN sessions' = {} /\ UNCHANGED <<loc, nextEtag>>
      /\ \A s \in Reqs : req'[s].op = req[s].op
  BY RestartFacts
<1>2. \A s \in Reqs : (Started(s)' <=> Started(s)) /\ Up(s)' = Up(s)  BY <1>1 DEF Started, Up
<1> QED BY <1>1, <1>2 DEF Gens
-----------------------------------------------------------------------------
(* A step of a request that is not of upload u.                            *)
LEMMA OthersKeep ==
    ASSUME OrphanInv, Arrived, Gens, NEW r \in Reqs, AnyStep(r), NEW u, ~OfUp(r, u), Exact(u)
    PROVE  Exact(u)'
<1>1. Stands(r)  BY StepFacts
<1>2. /\ \A s \in Reqs : req'[s].op = req[s].op
      /\ \A s \in Reqs : s # r => req'[s] = req[s] /\ loc'[s] = loc[s]
  BY <1>1 DEF Stands, RunsAlone, LocStep
<1>3. plan \in Plans  BY DEF OrphanInv
<1>4. Same(u)
  <2> SUFFICES ASSUME NEW s \in Reqs
               PROVE  /\ OfUp(s, u)' <=> OfUp(s, u)
                      /\ OfUp(s, u) => req'[s] = req[s] /\ loc'[s] = loc[s]
    BY DEF Same
  <2>1. OfUp(s, u)' <=> OfUp(s, u)  BY <1>2 DEF OfUp, Up
  <2>2. OfUp(s, u) => s # r  OBVIOUS
  <2> QED BY <1>2, <2>1, <2>2
<1>5. CASE req[r].op.kind \in UploadOps
  <2>1. u # Up(r)  BY <1>5 DEF OfUp
  <2>2. SessionsStep(r) /\ DirsStep(r)  BY <1>1 DEF Stands
  <2>3. /\ HasSession(u)' <=> HasSession(u)
        /\ HasSession(u) => sessions'[u] = sessions[u]
        /\ ChunkFiles(u)' = ChunkFiles(u)
    BY <2>1, <2>2 DEF SessionsStep, DirsStep, HasSession
  <2> QED BY <1>3, <1>4, <2>3, ViewKept
<1>6. CASE req[r].op.kind \notin UploadOps
  <2>1. UNCHANGED <<sessions, chunkdir>>
    <3>1. WellFormed  BY DEF OrphanInv
    <3> QED BY <1>6, <3>1, StepOfOthers DEF uvars
  <2>2. /\ HasSession(u)' <=> HasSession(u)
        /\ HasSession(u) => sessions'[u] = sessions[u]
        /\ ChunkFiles(u)' = ChunkFiles(u)
    BY <2>1 DEF HasSession, HasDir, ChunkFiles
  <2> QED BY <1>3, <1>4, <2>2, ViewKept
<1> QED BY <1>5, <1>6
-----------------------------------------------------------------------------
(* A step of the one request that runs for upload u.                       *)
Turn(r, u) ==
    /\ OrphanInv /\ Arrived /\ Gens /\ Exact(u) /\ Undisturbed(u)
    /\ r \in Reqs /\ OfUp(r, u) /\ AnyStep(r)

LEMMA TurnFacts ==
    ASSUME NEW r, NEW u, Turn(r, u)
    PROVE  /\ WellFormed /\ SessionsFit /\ plan \in Plans /\ InOrder(req[r].todo)
           /\ Up(r) = u /\ req[r].op.kind \in UploadOps /\ Active(r)
           /\ DOMAIN req = Reqs /\ DOMAIN req' = Reqs /\ DOMAIN req[r] = DOMAIN Idle
           /\ IsSeq(req[r].todo) /\ req[r].todo # <<>>
           /\ Stands(r)
           /\ \A s \in Reqs : req'[s].op = req[s].op
           /\ \A s \in Reqs : s # r => req'[s] = req[s] /\ loc'[s] = loc[s]
           /\ \A s \in Reqs : s # r /\ OfUp(s, u) => ~Active(s)
           /\ \A s \in Reqs : OfUp(s, u)' <=> OfUp(s, u)
           /\ \A s \in Reqs : IsPut(s, u)' <=> IsPut(s, u)
<1>1. /\ WellFormed /\ SessionsFit /\ plan \in Plans /\ InOrder(req[r].todo)
      /\ Up(r) = u /\ req[r].op.kind \in UploadOps
  BY DEF Turn, OrphanInv, OfUp
<1>2. Stands(r)  BY StepFacts DEF Turn
<1>3. /\ \A s \in Reqs : req'[s].op = req[s].op
      /\ \A s \in Reqs : s # r => req'[s] = req[s] /\ loc'[s] = loc[s]
      /\ Active(r) /\ DOMAIN req' = Reqs
  BY <1>2 DEF Stands, RunsAlone, LocStep
<1>4. \A s \in Reqs : s # r /\ OfUp(s, u) => ~Active(s)
  <2> SUFFICES ASSUME NEW s \in Reqs, s # r, OfUp(s, u), Active(s) PROVE FALSE
    OBVIOUS
  <2>1. r \in over
    <3>1. Alone /\ r \in Reqs /\ OfUp(r, u)  BY DEF OrphanInv, Turn
    <3> QED BY <1>3, <3>1 DEF Alone
  <2>2. r \notin over  BY DEF Undisturbed, OfUp, Turn
  <2> QED BY <2>1, <2>2
<1>5. \A s \in Reqs : OfUp(s, u)' <=> OfUp(s, u)  BY <1>3 DEF OfUp, Up
<1>6. \A s \in Reqs : IsPut(s, u)' <=> IsPut(s, u)  BY <1>3, <1>5 DEF IsPut
<1>7. DOMAIN req = Reqs /\ DOMAIN req[r] = DOMAIN Idle /\ IsSeq(req[r].todo) /\ r \in Reqs
  BY <1>1 DEF WellFormed, RequestFits, TodoFits, Turn
<1> QED BY <1>1, <1>2, <1>3, <1>4, <1>5, <1>6, <1>7 DEF Active

(* The other requests of the upload have ended, and nothing about them     *)
(* changes.                                                                *)
LEMMA PutsOfOthers ==
    ASSUME NEW r, NEW u, Turn(r, u), NEW s \in Reqs, s # r, IsPut(s, u)'
    PROVE  PutPhase(s, u)'
<1>1. IsPut(s, u) /\ req'[s] = req[s] /\ loc'[s] = loc[s] /\ ~Active(s)
  BY TurnFacts DEF IsPut
<1>2. PutPhase(s, u)  BY <1>1 DEF Turn, Exact
<1> QED BY <1>1, <1>2, PutKept

LEMMA EndedAsm ==
    ASSUME NEW r, NEW u, Turn(r, u), NEW s \in Reqs, s # r, OfUp(s, u)', req'[s].op.kind = "assemble"
    PROVE  AsmPhase(s, u)'
<1>1. OfUp(s, u) /\ req'[s] = req[s] /\ loc'[s] = loc[s] /\ ~Active(s)
  BY TurnFacts
<1>2. AsmPhase(s, u)  BY <1>1 DEF Turn, Exact
<1>3. PICK g : g = loc[s].gen  OBVIOUS
<1>4. Arrived /\ plan \in Plans /\ Active(r) /\ r \in Reqs /\ Up(r) = u  BY TurnFacts DEF Turn
<1>5. ASSUME Complete(s, u), ~Live(s, u) PROVE PutsRest(u, g) /\ ~Live(s, u)'
  <2>1. Settled(u, g)  BY <1>3, <1>5 DEF Complete
  <2>2. LocStep(r) /\ SessionsStep(r) /\ nextEtag \in Nat
    BY TurnFacts DEF Stands, WellFormed
  <2>3. HasSession(u) => sessions[u].gen # g  BY <1>3, <1>5 DEF Live
  <2>4. ~InGen(r, u, g)  BY <1>4, <2>1 DEF Settled
  <2>5. ~InGen(r, u, g)'
    <3>1. loc'[r].gen = loc[r].gen \/ (HasSession(u) /\ loc'[r].gen = sessions[u].gen)
      BY <1>4, <2>2 DEF LocStep
    <3>2. IsPut(r, u)' <=> IsPut(r, u)  BY <1>4, TurnFacts
    <3>3. CASE loc'[r].gen = loc[r].gen  BY <2>4, <3>2, <3>3 DEF InGen
    <3>4. CASE HasSession(u) /\ loc'[r].gen = sessions[u].gen  BY <2>3, <3>4 DEF InGen
    <3> QED BY <3>1, <3>3, <3>4
  <2>6. PutsRest(u, g)
    <3> SUFFICES ASSUME NEW t \in Reqs
                 PROVE  (InGen(t, u, g)' <=> InGen(t, u, g)) /\ (InGen(t, u, g) => req'[t] = req[t])
      BY DEF PutsRest
    <3>1. CASE t = r  BY <2>4, <2>5, <3>1
    <3>2. CASE t # r
      <4>1. req'[t] = req[t] /\ loc'[t] = loc[t] /\ (IsPut(t, u)' <=> IsPut(t, u))  BY <3>2, TurnFacts
      <4> QED BY <4>1 DEF InGen
    <3> QED BY <3>1, <3>2
  <2>7. ~Live(s, u)'
    <3> SUFFICES ASSUME HasSession(u)', loc'[s].gen = sessions'[u].gen PROVE FALSE
      BY DEF Live
    <3>1. \/ HasSession(u) /\ sessions'[u].gen = sessions[u].gen
          \/ sessions'[u].gen = nextEtag
      BY <1>4, <2>2 DEF SessionsStep, HasSession
    <3>2. loc'[s].gen = g /\ g \in 0..(nextEtag - 1)  BY <1>1, <1>3 DEF Turn, Gens
    <3> QED BY <2>2, <2>3, <3>1, <3>2
  <2> QED BY <2>6, <2>7
<1> QED BY <1>1, <1>2, <1>3, <1>4, <1>5, AsmAtRest
-----------------------------------------------------------------------------
(* Lists of steps of known kinds.                                          *)
LEMMA EndsTail ==
    ASSUME NEW t, IsSeq(t), t # <<>>, NEW K, Len(K) \in Nat, Ends(t, K)
    PROVE  /\ Len(Tail(t)) = Len(t) - 1 /\ Len(t) \in 1..Len(K) /\ Head(t).k = K[Len(K) - Len(t) + 1]
           /\ Ends(Tail(t), K) /\ (Len(t) = 1 <=> Tail(t) = <<>>)
           /\ Tail(t) # <<>> => Head(Tail(t)).k = K[Len(K) - Len(t) + 2] /\ Len(t) # 1
<1>1. /\ IsSeq(Tail(t)) /\ Len(Tail(t)) = Len(t) - 1 /\ Head(t) = t[1] /\ 1 \in 1..Len(t)
      /\ \A i \in 1..Len(Tail(t)) : i + 1 \in 1..Len(t) /\ Tail(t)[i] = t[i + 1]
  BY Rest
<1>2. Len(t) \in Nat /\ (Tail(t) = <<>> <=> Len(Tail(t)) = 0)  BY <1>1, SeqFacts
<1>3. Len(t) <= Len(K) /\ \A i \in 1..Len(t) : t[i].k = K[Len(K) - Len(t) + i]  BY DEF Ends
<1> DEFINE v == Tail(t)
<1> HIDE DEF v
<1>4. Len(v) = Len(t) - 1 /\ \A i \in 1..Len(v) : v[i].k = K[Len(K) - Len(v) + i]
  <2>1. Len(v) = Len(t) - 1  BY <1>1 DEF v
  <2>2. ASSUME NEW i \in 1..Len(v) PROVE v[i].k = K[Len(K) - Len(v) + i]
    <3>1. i + 1 \in 1..Len(t) /\ v[i] = t[i + 1]  BY <1>1 DEF v
    <3>2. t[i + 1].k = K[Len(K) - Len(t) + (i + 1)]  BY <1>3, <3>1
    <3>3. Len(K) - Len(t) + (i + 1) = Len(K) - Len(v) + i  BY <1>2, <2>1, <3>1
    <3> QED BY <3>1, <3>2, <3>3
  <2> QED BY <2>1, <2>2
<1>5. Ends(v, K)
  <2>1. Len(v) <= Len(K)  BY <1>2, <1>3, <1>4
  <2> QED BY <1>4, <2>1 DEF Ends
<1>6. v # <<>> => Head(v).k = K[Len(K) - Len(t) + 2] /\ Len(t) # 1
  <2> SUFFICES ASSUME v # <<>> PROVE Head(v).k = K[Len(K) - Len(t) + 2] /\ Len(t) # 1
    OBVIOUS
  <2>1. IsSeq(v)  BY <1>1 DEF v
  <2>2. Head(v) = v[1] /\ 1 \in 1..Len(v)  BY <2>1, Rest
  <2>3. v[1].k = K[Len(K) - Len(v) + 1]  BY <1>4, <2>2
  <2>4. Len(K) - Len(v) + 1 = Len(K) - Len(t) + 2 /\ Len(t) # 1  BY <1>2, <1>4, <2>2
  <2> QED BY <2>2, <2>3, <2>4
<1>7. Len(t) \in 1..Len(K) /\ Head(t).k = K[Len(K) - Len(t) + 1]  BY <1>1, <1>2, <1>3
<1>8. Len(t) = 1 <=> Tail(t) = <<>>  BY <1>1, <1>2
<1> QED BY <1>1, <1>5, <1>6, <1>7, <1>8 DEF v

LEMMA NothingEnds == ASSUME NEW K, Len(K) \in Nat PROVE Ends(<<>>, K)
<1>1. Len(<<>>) = 0  BY Tuples
<1> QED BY <1>1 DEF Ends

LEMMA LastEnds ==
    ASSUME NEW x, NEW K, Len(K) \in Nat, Len(K) # 0, x.k = K[Len(K)]
    PROVE  Ends(<<x>>, K)
<1>1. Len(<<x>>) = 1 /\ <<x>>[1] = x  BY Tuples
<1> DEFINE t == <<x>>
<1> HIDE DEF t
<1>2. Len(t) = 1 /\ t[1] = x  BY <1>1 DEF t
<1>3. Ends(t, K)  BY <1>2 DEF Ends
<1> QED BY <1>3 DEF t

LEMMA NothingAfter == ASSUME NEW a, IsSeq(a), NEW v, v = <<>> PROVE a \o v = a
BY ConcatEmptySeq, Zenon DEF IsSeq

(* A step that goes on, and one that ends the request.                     *)
LEMMA GoesOn ==
    ASSUME NEW r, NEW u, Turn(r, u), NEW more, IsSeq(more), NEW l, DOMAIN l = DOMAIN Idle, Advance(r, more, l)
    PROVE  req'[r].todo = more \o Tail(req[r].todo) /\ req'[r].resp = l.resp
<1>1. DOMAIN req = Reqs /\ r \in Reqs  BY TurnFacts DEF Turn
<1>2. PICK t : t = more \o Tail(req[r].todo)  OBVIOUS
<1>3. req' = [req EXCEPT ![r] = [l EXCEPT !.todo = t]]  BY <1>2 DEF Advance
<1>4. "todo" \in DOMAIN Idle /\ "resp" \in DOMAIN Idle  BY DEF Idle
<1>5. req'[r] = [l EXCEPT !.todo = t]  BY <1>1, <1>3
<1> QED BY <1>2, <1>4, <1>5

LEMMA GoesOnPlain ==
    ASSUME NEW r, NEW u, Turn(r, u), NEW l, DOMAIN l = DOMAIN Idle, Advance(r, <<>>, l)
    PROVE  req'[r].todo = Tail(req[r].todo) /\ req'[r].resp = l.resp
<1>1. IsSeq(<<>>)  BY Tuples
<1>2. req'[r].todo = <<>> \o Tail(req[r].todo) /\ req'[r].resp = l.resp  BY <1>1, GoesOn
<1>3. IsSeq(Tail(req[r].todo))  BY TurnFacts, Rest
<1>4. <<>> \o Tail(req[r].todo) = Tail(req[r].todo)  BY <1>3, ConcatEmptySeq, Zenon DEF IsSeq
<1> QED BY <1>2, <1>4

LEMMA GoesBy ==
    ASSUME NEW r, NEW u, Turn(r, u), Next1(r)
    PROVE  req'[r].todo = Tail(req[r].todo) /\ req'[r].resp = req[r].resp
<1>1. DOMAIN req[r] = DOMAIN Idle  BY TurnFacts
<1>2. Advance(r, <<>>, req[r])  BY DEF Next1
<1>3. PICK l : l = req[r]  OBVIOUS
<1>4. DOMAIN l = DOMAIN Idle /\ Advance(r, <<>>, l)  BY <1>1, <1>2, <1>3
<1> QED BY <1>3, <1>4, GoesOnPlain

LEMMA GivesUp ==
    ASSUME NEW r, NEW u, Turn(r, u), NEW st, Fail(r, st)
    PROVE  req'[r].todo = <<>> /\ req'[r].resp = st /\ ~Active(r)'
<1>1. WellFormed /\ r \in Reqs  BY TurnFacts DEF Turn
<1>2. req'[r].todo = <<>> /\ req'[r].resp = st  BY <1>1, TurningDown
<1> QED BY <1>2 DEF Active
-----------------------------------------------------------------------------
(* The steps of a PUT of a chunk.                                          *)
PutNames  == {"putchunk", "chunkquota", "chunkcreate", "chunkbody", "addchunk", "done"}
NotOfPuts == {"mkslot", "assemble", "total", "parts", "read", "asmquota", "target", "parent", "asmwrite", "asmrow",
              "asmentity", "rmchunks", "endsession", "abort", "slotinfo", "prop", "lazy"}

LEMMA PutActions ==
    ASSUME NEW r, NEW u, Turn(r, u), req[r].op.kind = "putchunk"
    PROVE  \/ PutChunkAdmit(r) \/ ChunkQuota(r) \/ ChunkCreate(r) \/ ChunkBody(r) \/ add_chunk(r)
           \/ Respond(r) /\ UNCHANGED <<uvars, loc>>
<1>1. WellFormed /\ r \in Reqs /\ AnyStep(r) /\ req[r].op.kind \in UploadOps  BY TurnFacts DEF Turn
<1>2. \A k \in NotOfPuts : ~At(r, k)
  <2> SUFFICES ASSUME NEW k \in NotOfPuts, At(r, k) PROVE FALSE
    OBVIOUS
  <2>1. Belongs(req[r].op, k)  BY <1>1, AtHead
  <2>2. k \in StepsOf("putchunk")  BY <1>1, <2>1 DEF Belongs
  <2> QED BY <2>2 DEF StepsOf, NotOfPuts
<1>3. CASE RequestStep(r) /\ UNCHANGED <<uvars, loc>>
  <2>1. propagate_change(r) \/ LazyDirRow(r) \/ Respond(r)  BY <1>1, <1>3, SharedByUploads
  <2> QED BY <1>2, <1>3, <2>1, Zenon DEF propagate_change, LazyDirRow, NotOfPuts
<1>4. CASE UploadStep(r)
  BY <1>2, <1>4, Zenon DEF NotOfPuts, UploadStep, handle_mkcol, AssembleSession, AssembleTotal, AssembleParts,
     AssembleRead, AssembleQuota, AssembleTarget, AssembleParent, AssembleWrite, AssembleRow, AssembleEntity,
     cleanup_chunks, remove_session, handle_delete, handle_propfind
<1>5. CASE BulkStep(r)
  BY <1>1, <1>5, BulkStepKeeps
<1> QED BY <1>1, <1>3, <1>4, <1>5 DEF AnyStep

(* The step k of a PUT, and what is left after it.                         *)
PutStage(r, u, k) ==
    /\ IsPut(r, u) /\ PutPhase(r, u) /\ (k # "done" => loc[r].gen = 0)
    /\ k \in {"putchunk", "addchunk", "done"} => Tail(req[r].todo) = <<>>
    /\ k \in {"chunkquota", "chunkcreate", "chunkbody"} =>
          Ends(Tail(req[r].todo), PutKinds) /\ Tail(req[r].todo) # <<>>
    /\ Tail(req[r].todo) # <<>> =>
          \/ k = "chunkquota"  /\ Head(Tail(req[r].todo)).k = "chunkcreate"
          \/ k = "chunkcreate" /\ Head(Tail(req[r].todo)).k = "chunkbody"
          \/ k = "chunkbody"   /\ Head(Tail(req[r].todo)).k = "addchunk"

LEMMA PutAt ==
    ASSUME NEW r, NEW u, Turn(r, u), req[r].op.kind = "putchunk", NEW k, At(r, k)
    PROVE  PutStage(r, u, k)
<1>1. IsPut(r, u) /\ PutPhase(r, u)  BY DEF Turn, Exact, IsPut
<1>2. PICK t : t = req[r].todo  OBVIOUS
<1>3. IsSeq(t) /\ t # <<>> /\ Head(t).k = k  BY <1>2, TurnFacts DEF At
<1>4. k # "done" => loc[r].gen = 0  BY <1>1 DEF PutPhase, At
<1>5. Ends(t, <<"putchunk">>) \/ Ends(t, PutKinds) \/ Ends(t, <<"done">>)  BY <1>1, <1>2 DEF PutPhase
<1>6. ASSUME NEW x, Ends(t, <<x>>) PROVE k = x /\ Tail(t) = <<>>
  <2>1. Len(<<x>>) = 1 /\ <<x>>[1] = x  OBVIOUS
  <2>2. Len(t) \in 1..Len(<<x>>) /\ Head(t).k = <<x>>[Len(<<x>>) - Len(t) + 1] /\ (Len(t) = 1 => Tail(t) = <<>>)
    BY <1>3, <1>6, <2>1, EndsTail
  <2> QED BY <1>3, <2>1, <2>2
<1>7. ASSUME Ends(t, PutKinds)
      PROVE  /\ Ends(Tail(t), PutKinds) /\ k \in {"chunkquota", "chunkcreate", "chunkbody", "addchunk"}
             /\ k = "addchunk" <=> Tail(t) = <<>>
             /\ Tail(t) # <<>> =>
                 \/ k = "chunkquota"  /\ Head(Tail(t)).k = "chunkcreate"
                 \/ k = "chunkcreate" /\ Head(Tail(t)).k = "chunkbody"
                 \/ k = "chunkbody"   /\ Head(Tail(t)).k = "addchunk"
  <2>1. PICK K : K = PutKinds  OBVIOUS
  <2>2. Len(K) = 4 /\ K[1] = "chunkquota" /\ K[2] = "chunkcreate" /\ K[3] = "chunkbody" /\ K[4] = "addchunk"
    BY <2>1 DEF PutKinds
  <2>3. Len(K) \in Nat /\ Ends(t, K)  BY <1>7, <2>1, <2>2
  <2>4. /\ Len(t) \in 1..4 /\ Head(t).k = K[4 - Len(t) + 1]
        /\ Ends(Tail(t), K) /\ (Len(t) = 1 => Tail(t) = <<>>)
        /\ Tail(t) # <<>> => Head(Tail(t)).k = K[4 - Len(t) + 2] /\ Len(t) # 1
        /\ Tail(t) = <<>> => Len(t) = 1
    <3>1. /\ Len(Tail(t)) = Len(t) - 1 /\ Len(t) \in 1..Len(K) /\ Head(t).k = K[Len(K) - Len(t) + 1]
          /\ Ends(Tail(t), K) /\ (Len(t) = 1 <=> Tail(t) = <<>>)
          /\ Tail(t) # <<>> => Head(Tail(t)).k = K[Len(K) - Len(t) + 2] /\ Len(t) # 1
      BY <1>3, <2>3, EndsTail
    <3> QED BY <2>2, <3>1
  <2>5. CASE Len(t) = 1  BY <1>3, <2>1, <2>2, <2>4, <2>5
  <2>6. CASE Len(t) = 2  BY <1>3, <2>1, <2>2, <2>4, <2>6
  <2>7. CASE Len(t) = 3  BY <1>3, <2>1, <2>2, <2>4, <2>7
  <2>8. CASE Len(t) = 4  BY <1>3, <2>1, <2>2, <2>4, <2>8
  <2>9. Len(t) = 1 \/ Len(t) = 2 \/ Len(t) = 3 \/ Len(t) = 4  BY <2>4
  <2> QED BY <2>5, <2>6, <2>7, <2>8, <2>9, Zenon
<1> QED BY <1>1, <1>2, <1>4, <1>5, <1>6, <1>7 DEF PutStage

(* What a PUT leaves of the slot unless it adds its chunk to it.           *)
LEMMA WrittenBefore ==
    ASSUME NEW r, NEW u, Turn(r, u), NEW n, Written(n, u)', n \in DOMAIN ChunkFiles(u),
           req[r].op.part = n /\ IsPut(r, u) => ~At(r, "chunkbody") /\ ~At(r, "addchunk")
    PROVE  Written(n, u)
<1> SUFFICES ASSUME NEW s \in Reqs, IsPut(s, u), req[s].op.part = n
             PROVE  ~At(s, "chunkbody") /\ ~At(s, "addchunk")
  BY DEF Written
<1>1. CASE s = r  BY <1>1
<1>2. CASE s # r
  <2>1. req'[s] = req[s] /\ IsPut(s, u)'  BY <1>2, TurnFacts
  <2> QED BY <2>1 DEF Written, At, Active
<1> QED BY <1>1, <1>2

LEMMA PutSlot ==
    ASSUME NEW r, NEW u, Turn(r, u), req[r].op.kind = "putchunk", loc'[r].gen = loc[r].gen, UNCHANGED sessions,
           loc[r].gen # 0 => Acked(r, "putchunk")' \/ Active(r)',
           \A n : Written(n, u)' => Written(n, u) /\ ChunkFiles(u)'[n].data = ChunkFiles(u)[n].data
    PROVE  Slot(u)'
<1>1. CASE HasSession(u)
  <2>1. PICK g : g = sessions[u].gen  OBVIOUS
  <2>2. g # 0  BY <1>1, <2>1 DEF Turn, Gens, HasSession
  <2>3. \A s \in Reqs : InGen(s, u, g)' <=> InGen(s, u, g)
    <3> TAKE s \in Reqs
    <3>1. IsPut(s, u)' <=> IsPut(s, u)  BY TurnFacts
    <3>2. loc'[s].gen = loc[s].gen  BY TurnFacts
    <3> QED BY <3>1, <3>2 DEF InGen
  <2>4. \A s \in Reqs : InGen(s, u, g) =>
             /\ req'[s].op = req[s].op
             /\ Acked(s, "putchunk") \/ Active(s) => Acked(s, "putchunk")' \/ Active(s)'
    <3> SUFFICES ASSUME NEW s \in Reqs, InGen(s, u, g)
                 PROVE  /\ req'[s].op = req[s].op
                        /\ Acked(s, "putchunk") \/ Active(s) => Acked(s, "putchunk")' \/ Active(s)'
      OBVIOUS
    <3>1. req'[s].op = req[s].op  BY TurnFacts
    <3>2. CASE s = r  BY <2>2, <3>1, <3>2 DEF InGen
    <3>3. CASE s # r
      <4>1. req'[s] = req[s]  BY <3>3, TurnFacts
      <4> QED BY <4>1 DEF Acked, Active
    <3> QED BY <3>2, <3>3
  <2>5. Arrived /\ plan \in Plans /\ Slot(u)  BY TurnFacts DEF Turn, Exact
  <2> QED BY <1>1, <2>1, <2>3, <2>4, <2>5, SlotKept
<1>2. CASE ~HasSession(u)
  <2>1. ~HasSession(u)'  BY <1>2 DEF HasSession
  <2> QED BY <2>1, NoSlot
<1> QED BY <1>1, <1>2

(* A step that changes neither the directory nor the slot.                 *)
LEMMA PutPasses ==
    ASSUME NEW r, NEW u, Turn(r, u), req[r].op.kind = "putchunk", UNCHANGED <<sessions, chunkdir, loc>>,
           ~At(r, "chunkbody"), ~At(r, "addchunk"), ~At(r, "chunkbody")', ~At(r, "addchunk")',
           loc[r].gen # 0 => Acked(r, "putchunk")' \/ Active(r)',
           Active(r)' /\ ~At(r, "done")' => loc[r].gen = 0,
           Ends(req'[r].todo, <<"putchunk">>) \/ Ends(req'[r].todo, PutKinds) \/ Ends(req'[r].todo, <<"done">>)
    PROVE  Slot(u)' /\ PutPhase(r, u)'
<1>1. ChunkFiles(u)' = ChunkFiles(u)  BY DEF ChunkFiles, HasDir
<1>2. \A n : Written(n, u)' => Written(n, u) /\ ChunkFiles(u)'[n].data = ChunkFiles(u)[n].data
  <2> SUFFICES ASSUME NEW n, Written(n, u)' PROVE Written(n, u) /\ ChunkFiles(u)'[n].data = ChunkFiles(u)[n].data
    OBVIOUS
  <2>1. n \in DOMAIN ChunkFiles(u)  BY <1>1 DEF Written
  <2>2. Written(n, u)  BY <2>1, WrittenBefore
  <2> QED BY <1>1, <2>2
<1>3. Slot(u)'  BY <1>2, PutSlot
<1>4. PutPhase(r, u)'  BY DEF PutPhase
<1> QED BY <1>3, <1>4

LEMMA PutAdmitted ==
    ASSUME NEW r, NEW u, Turn(r, u), req[r].op.kind = "putchunk", PutChunkAdmit(r)
    PROVE  Slot(u)' /\ PutPhase(r, u)'
<1> DEFINE more == <<Do("chunkquota"), Do("chunkcreate"), Do("chunkbody"), Do("addchunk")>>
<1>1. At(r, "putchunk") /\ UNCHANGED <<sessions, chunkdir, loc>>  BY DEF PutChunkAdmit, KeepUpload, uvars
<1>2. (\E st : Fail(r, st)) \/ Advance(r, more, req[r])  BY Zenon DEF PutChunkAdmit
<1>3. loc[r].gen = 0 /\ Tail(req[r].todo) = <<>>  BY <1>1, PutAt DEF PutStage
<1>4. ~At(r, "chunkbody") /\ ~At(r, "addchunk")  BY <1>1 DEF At
<1>5. CASE \E st : Fail(r, st)
  <2>1. req'[r].todo = <<>> /\ ~Active(r)'  BY <1>5, GivesUp
  <2>2. Ends(req'[r].todo, PutKinds)  BY <2>1, NothingEnds DEF PutKinds
  <2>3. \A k : ~At(r, k)'  BY <2>1 DEF At
  <2> QED BY <1>1, <1>3, <1>4, <2>1, <2>2, <2>3, PutPasses
<1>6. CASE Advance(r, more, req[r])
  <2>1. IsSeq(more)
    <3>1. more \in Seq(Range(more))  BY DEF Range
    <3> QED BY <3>1 DEF IsSeq
  <2>2. Ends(more, PutKinds) /\ Head(more).k = "chunkquota" /\ more # <<>>  BY DEF Ends, PutKinds, Do, Step
  <2> HIDE DEF more
  <2>3. PICK l : l = req[r]  OBVIOUS
  <2>4. DOMAIN l = DOMAIN Idle /\ Advance(r, more, l)  BY <1>6, <2>3, TurnFacts
  <2>5. req'[r].todo = more \o Tail(req[r].todo)  BY <2>1, <2>4, GoesOn
  <2>6. req'[r].todo = more  BY <1>3, <2>1, <2>5, NothingAfter
  <2>7. ~At(r, "chunkbody")' /\ ~At(r, "addchunk")'  BY <2>2, <2>6 DEF At
  <2>8. Ends(req'[r].todo, PutKinds)  BY <2>2, <2>6
  <2> QED BY <1>1, <1>3, <1>4, <2>7, <2>8, PutPasses
<1> QED BY <1>2, <1>5, <1>6

LEMMA PutQuotaChecked ==
    ASSUME NEW r, NEW u, Turn(r, u), req[r].op.kind = "putchunk", ChunkQuota(r)
    PROVE  Slot(u)' /\ PutPhase(r, u)'
<1>1. At(r, "chunkquota") /\ UNCHANGED <<sessions, chunkdir, loc>>  BY DEF ChunkQuota, KeepUpload, uvars
<1>2. (\E st : Fail(r, st)) \/ Next1(r)  BY Zenon DEF ChunkQuota
<1>7. PutStage(r, u, "chunkquota")  BY <1>1, PutAt
<1>3. /\ loc[r].gen = 0 /\ Ends(Tail(req[r].todo), PutKinds)
      /\ Tail(req[r].todo) # <<>> => Head(Tail(req[r].todo)).k = "chunkcreate"
  BY <1>7 DEF PutStage
<1>4. ~At(r, "chunkbody") /\ ~At(r, "addchunk")  BY <1>1 DEF At
<1>5. CASE \E st : Fail(r, st)
  <2>1. req'[r].todo = <<>> /\ ~Active(r)'  BY <1>5, GivesUp
  <2>2. Ends(req'[r].todo, PutKinds)  BY <2>1, NothingEnds DEF PutKinds
  <2>3. \A k : ~At(r, k)'  BY <2>1 DEF At
  <2> QED BY <1>1, <1>3, <1>4, <2>1, <2>2, <2>3, PutPasses
<1>6. CASE Next1(r)
  <2>1. req'[r].todo = Tail(req[r].todo)  BY <1>6, GoesBy
  <2>2. ~At(r, "chunkbody")' /\ ~At(r, "addchunk")'  BY <1>3, <2>1 DEF At, Active
  <2>3. Ends(req'[r].todo, PutKinds)  BY <1>3, <2>1
  <2> QED BY <1>1, <1>3, <1>4, <2>2, <2>3, PutPasses
<1> QED BY <1>2, <1>5, <1>6

LEMMA PutAnswered ==
    ASSUME NEW r, NEW u, Turn(r, u), req[r].op.kind = "putchunk", Respond(r), UNCHANGED <<uvars, loc>>
    PROVE  Slot(u)' /\ PutPhase(r, u)'
<1>1. At(r, "done") /\ UNCHANGED <<sessions, chunkdir, loc>>  BY DEF Respond, uvars
<1>2. PICK l : l = [req[r] EXCEPT !.resp = "ok"]  OBVIOUS
<1>3. Advance(r, <<>>, l)  BY <1>2 DEF Respond
<1>4. DOMAIN l = DOMAIN Idle /\ l.resp = "ok"
  <2>1. DOMAIN req[r] = DOMAIN Idle /\ "resp" \in DOMAIN Idle  BY TurnFacts DEF Idle
  <2> QED BY <1>2, <2>1
<1>5. Tail(req[r].todo) = <<>>  BY <1>1, PutAt DEF PutStage
<1>6. req'[r].todo = <<>> /\ req'[r].resp = "ok"  BY <1>3, <1>4, <1>5, GoesOnPlain
<1>7. Acked(r, "putchunk")'
  <2>1. r \in Reqs  BY DEF Turn
  <2>2. req'[r].op = req[r].op  BY <2>1, TurnFacts
  <2> QED BY <1>6, <2>2 DEF Acked
<1>8. ~At(r, "chunkbody") /\ ~At(r, "addchunk")  BY <1>1 DEF At
<1>9. ~Active(r)' /\ \A k : ~At(r, k)'  BY <1>6 DEF At, Active
<1>10. Ends(req'[r].todo, PutKinds)  BY <1>6, NothingEnds DEF PutKinds
<1> QED BY <1>1, <1>7, <1>8, <1>9, <1>10, PutPasses

LEMMA PutCreated ==
    ASSUME NEW r, NEW u, Turn(r, u), req[r].op.kind = "putchunk", ChunkCreate(r)
    PROVE  Slot(u)' /\ PutPhase(r, u)'
<1>1. At(r, "chunkcreate") /\ UNCHANGED sessions /\ Next1(r)  BY DEF ChunkCreate
<1>2. PutStage(r, u, "chunkcreate")  BY <1>1, PutAt
<1>3. /\ loc[r].gen = 0 /\ Ends(Tail(req[r].todo), PutKinds)
      /\ Tail(req[r].todo) # <<>> /\ Head(Tail(req[r].todo)).k = "chunkbody"
      /\ IsPut(r, u)
  BY <1>2 DEF PutStage
<1>4. r \in Reqs /\ Up(r) = u /\ DOMAIN loc = Reqs /\ DOMAIN loc[r] = DOMAIN NoLoc
  BY TurnFacts DEF Turn, Gens
<1>5. req'[r].todo = Tail(req[r].todo) /\ req'[r].op = req[r].op /\ IsPut(r, u)'
  BY <1>1, <1>3, <1>4, GoesBy, TurnFacts
<1>6. At(r, "chunkbody")' /\ Active(r)'  BY <1>3, <1>5 DEF At, Active
<1>7. ~At(r, "addchunk")'  BY <1>6 DEF At
<1>8. PICK n, old, ino : /\ n = req[r].op.part /\ old = ChunkFiles(u)
                         /\ ino = IF n \in DOMAIN old THEN old[n].ino ELSE r
  OBVIOUS
<1>9. PICK x : x = [ino |-> ino, data |-> <<>>]  OBVIOUS
<1>10. /\ chunkdir' = InsertRow(chunkdir, u, InsertRow(old, n, x))
       /\ loc' = [loc EXCEPT ![r].ino = ino]
  BY <1>4, <1>8, <1>9 DEF ChunkCreate
<1>11. ChunkFiles(u)' = InsertRow(old, n, x)  BY <1>10 DEF ChunkFiles, HasDir, InsertRow
<1>12. loc'[r].gen = 0 /\ loc'[r].ino = ino
  <2>1. DOMAIN NoLoc = {"gen", "ino", "data", "results", "status"}  BY DEF NoLoc
  <2> QED BY <1>3, <1>4, <1>10, <2>1
<1>13. \A m : Written(m, u)' => Written(m, u) /\ ChunkFiles(u)'[m].data = ChunkFiles(u)[m].data
  <2> SUFFICES ASSUME NEW m, Written(m, u)' PROVE Written(m, u) /\ ChunkFiles(u)'[m].data = ChunkFiles(u)[m].data
    OBVIOUS
  <2>1. m # n  BY <1>4, <1>5, <1>6, <1>8 DEF Written
  <2>2. m \in DOMAIN old /\ ChunkFiles(u)'[m] = old[m]  BY <1>11, <2>1 DEF Written, InsertRow
  <2>3. Written(m, u)  BY <1>8, <2>1, <2>2, WrittenBefore
  <2> QED BY <1>8, <2>2, <2>3
<1>14. Slot(u)'  BY <1>1, <1>3, <1>6, <1>12, <1>13, PutSlot
<1>15. n \in DOMAIN ChunkFiles(u)' /\ ChunkFiles(u)'[n] = x  BY <1>11 DEF InsertRow
<1>16. PutPhase(r, u)'
  <2>1. Ends(req'[r].todo, PutKinds)  BY <1>3, <1>5
  <2>2. req'[r].op.part = n /\ x = [ino |-> loc'[r].ino, data |-> <<>>]  BY <1>5, <1>8, <1>9, <1>12
  <2> QED BY <1>7, <1>12, <1>15, <2>1, <2>2 DEF PutPhase
<1> QED BY <1>14, <1>16

LEMMA SizesAreNumbers ==
    ASSUME NEW r, NEW u, Turn(r, u)
    PROVE  req[r].op.size \in Nat /\ Started(r) /\ r \in Reqs /\ r \in Nat
<1>1. r \in Reqs /\ req[r].op.kind \in UploadOps  BY TurnFacts DEF Turn
<1>2. Started(r)  BY <1>1 DEF Started, Kinds
<1> QED BY <1>1, <1>2, PlansAssumption DEF Turn, Arrived

LEMMA PutReceived ==
    ASSUME NEW r, NEW u, Turn(r, u), req[r].op.kind = "putchunk", ChunkBody(r)
    PROVE  Slot(u)' /\ PutPhase(r, u)'
<1>1. At(r, "chunkbody") /\ UNCHANGED <<sessions, loc>>  BY DEF ChunkBody
<1>2. PutStage(r, u, "chunkbody")  BY <1>1, PutAt
<1>3. /\ loc[r].gen = 0 /\ Ends(Tail(req[r].todo), PutKinds)
      /\ Tail(req[r].todo) # <<>> /\ Head(Tail(req[r].todo)).k = "addchunk"
      /\ IsPut(r, u) /\ PutPhase(r, u)
  BY <1>2 DEF PutStage
<1>4. r \in Reqs /\ Up(r) = u /\ ~req[r].op.bad
  BY TurnFacts DEF Turn, Undisturbed
<1>5. PICK n, old, z : n = req[r].op.part /\ old = ChunkFiles(u) /\ z = req[r].op.size
  OBVIOUS
<1>6. n \in DOMAIN old /\ old[n] = [ino |-> loc[r].ino, data |-> <<>>]
  BY <1>1, <1>3, <1>5 DEF PutPhase
<1>7. Next1(r) /\ chunkdir' = [chunkdir EXCEPT ![u][n].data = Overwritten(@, r, z)]
  BY <1>4, <1>5, <1>6 DEF ChunkBody
<1>8. u \in DOMAIN chunkdir /\ chunkdir[u] = old
  <2>1. DOMAIN <<>> = {}  BY Tuples, SeqFacts
  <2> QED BY <1>5, <1>6, <2>1 DEF ChunkFiles, HasDir
<1>9. Overwritten(<<>>, r, z) = Bytes(r)
  <2>1. z \in Nat  BY <1>5, SizesAreNumbers
  <2>2. Len(<<>>) = 0  BY Tuples
  <2>3. (IF z > Len(<<>>) THEN z ELSE Len(<<>>)) = z  BY <2>1, <2>2
  <2>4. Overwritten(<<>>, r, z) = [i \in 1..z |-> IF i <= z THEN r ELSE <<>>[i]]  BY <2>3 DEF Overwritten
  <2>5. \A i \in 1..z : i <= z  BY <2>1
  <2> QED BY <1>5, <2>4, <2>5 DEF Bytes
<1>10. PICK x : x = [old[n] EXCEPT !.data = Overwritten(@, r, z)]  OBVIOUS
<1>11. x.data = Bytes(r)
  <2>1. PICK b : b = Bytes(r)  OBVIOUS
  <2>2. old[n].data = <<>>  BY <1>6
  <2>3. x = [old[n] EXCEPT !.data = b]  BY <1>9, <1>10, <2>1, <2>2
  <2> QED BY <1>6, <2>1, <2>3
<1>12. PICK y : y = [old EXCEPT ![n] = x]  OBVIOUS
<1>13. chunkdir' = [chunkdir EXCEPT ![u] = y]  BY <1>7, <1>8, <1>10, <1>12
<1>14. ChunkFiles(u)' = y  BY <1>8, <1>13 DEF ChunkFiles, HasDir
<1>15. DOMAIN y = DOMAIN old /\ y[n] = x /\ \A m \in DOMAIN old : m # n => y[m] = old[m]
  BY <1>6, <1>12
<1>16. req'[r].todo = Tail(req[r].todo) /\ req'[r].op = req[r].op /\ IsPut(r, u)'
  BY <1>3, <1>4, <1>7, GoesBy, TurnFacts
<1>17. At(r, "addchunk")' /\ Active(r)'  BY <1>3, <1>16 DEF At, Active
<1>18. ~At(r, "chunkbody")'  BY <1>17 DEF At
<1>19. \A m : Written(m, u)' => Written(m, u) /\ ChunkFiles(u)'[m].data = ChunkFiles(u)[m].data
  <2> SUFFICES ASSUME NEW m, Written(m, u)' PROVE Written(m, u) /\ ChunkFiles(u)'[m].data = ChunkFiles(u)[m].data
    OBVIOUS
  <2>1. m # n  BY <1>4, <1>5, <1>16, <1>17 DEF Written
  <2>2. m \in DOMAIN old /\ ChunkFiles(u)'[m] = old[m]  BY <1>14, <1>15, <2>1 DEF Written
  <2>3. Written(m, u)  BY <1>5, <2>1, <2>2, WrittenBefore
  <2> QED BY <1>5, <2>2, <2>3
<1>20. Slot(u)'  BY <1>1, <1>3, <1>17, <1>19, PutSlot
<1>21. PutPhase(r, u)'
  <2>1. Ends(req'[r].todo, PutKinds)  BY <1>3, <1>16
  <2>2. req'[r].op.part = n /\ n \in DOMAIN ChunkFiles(u)'  BY <1>5, <1>6, <1>14, <1>15, <1>16
  <2>3. ChunkFiles(u)'[n].data = Bytes(r)'
    <3>1. Bytes(r)' = Bytes(r)  BY <1>16 DEF Bytes
    <3> QED BY <1>11, <1>14, <1>15, <3>1
  <2>4. loc'[r].gen = 0  BY <1>1, <1>3
  <2> QED BY <1>18, <2>1, <2>2, <2>3, <2>4 DEF PutPhase
<1> QED BY <1>20, <1>21

(* add_chunk: the session has one more part, and r is the last PUT of it.  *)
LEMMA PutJoins ==
    ASSUME NEW r, NEW u, Turn(r, u), req[r].op.kind = "putchunk", add_chunk(r), HasSession(u)
    PROVE  Slot(u)' /\ PutPhase(r, u)'
<1>1. At(r, "addchunk") /\ UNCHANGED chunkdir  BY DEF add_chunk
<1>2. PutStage(r, u, "addchunk")  BY <1>1, PutAt
<1>3. loc[r].gen = 0 /\ Tail(req[r].todo) = <<>> /\ IsPut(r, u) /\ PutPhase(r, u)  BY <1>2 DEF PutStage
<1>4. /\ r \in Reqs /\ Up(r) = u /\ DOMAIN loc = Reqs /\ DOMAIN loc[r] = DOMAIN NoLoc
      /\ WellFormed /\ SessionsFit /\ Arrived /\ plan \in Plans
  BY TurnFacts DEF Turn, Gens
<1>5. PICK n, g, c : /\ n = req[r].op.part /\ g = sessions[u].gen
                     /\ c = InsertRow(sessions[u].chunks, n, ContentLength(req[r].op))
  OBVIOUS
<1>6. g # 0  BY <1>5 DEF Turn, Gens, HasSession
<1>7. n \in 1..MaxPart
  <2>1. Belongs(req[r].op, "addchunk")  BY <1>1, <1>4, AtHead
  <2> QED BY <1>5, <2>1 DEF Belongs, ChunkSteps, UploadOps
<1>8. /\ sessions' = [sessions EXCEPT ![u].chunks = c] /\ loc' = [loc EXCEPT ![r].gen = g]
      /\ Advance(r, <<Do("done")>>, req[r])
  BY <1>4, <1>5 DEF add_chunk
<1>9. u \in DOMAIN sessions /\ DOMAIN sessions[u] = {"gen", "chunks"}
  BY <1>4 DEF SessionsFit, HasSession
<1>10. sessions'[u].gen = g /\ sessions'[u].chunks = c
  <2>1. sessions'[u] = [sessions[u] EXCEPT !.chunks = c]  BY <1>8, <1>9
  <2> QED BY <1>5, <1>9, <2>1
<1>11. loc'[r].gen = g
  <2>1. DOMAIN NoLoc = {"gen", "ino", "data", "results", "status"}  BY DEF NoLoc
  <2> QED BY <1>4, <1>8, <2>1
<1>12. req'[r].todo = <<Do("done")>>
  <2>1. PICK l : l = req[r]  OBVIOUS
  <2>2. DOMAIN l = DOMAIN Idle /\ Advance(r, <<Do("done")>>, l)  BY <1>8, <2>1, TurnFacts
  <2>3. req'[r].todo = <<Do("done")>> \o Tail(req[r].todo)  BY <2>2, GoesOn, Tuples
  <2> QED BY <1>3, <2>3, NothingAfter, Tuples
<1>13. At(r, "done")' /\ Active(r)'
  <2>1. Head(<<Do("done")>>).k = "done" /\ <<Do("done")>> # <<>>  BY DEF Do, Step
  <2> QED BY <1>12, <2>1 DEF At, Active
<1>14. /\ \A s \in Reqs : req'[s].op = req[s].op
       /\ \A s \in Reqs : s # r => req'[s] = req[s] /\ loc'[s] = loc[s]
       /\ \A s \in Reqs : IsPut(s, u)' <=> IsPut(s, u)
  BY TurnFacts
<1>15. ~InGen(r, u, g) /\ \A s \in Reqs : InGen(s, u, g)' <=> InGen(s, u, g) \/ s = r
  <2>1. ~InGen(r, u, g)  BY <1>3, <1>6 DEF InGen
  <2>2. InGen(r, u, g)'  BY <1>3, <1>4, <1>11, <1>14 DEF InGen
  <2>3. \A s \in Reqs : s # r => (InGen(s, u, g)' <=> InGen(s, u, g))  BY <1>14 DEF InGen
  <2> QED BY <2>1, <2>2, <2>3
<1>16. \A m : m # n => PutsOf(u, g, m)' = PutsOf(u, g, m)
  BY <1>4, <1>5, <1>14, <1>15 DEF PutsOf
<1>17. PutsOf(u, g, n)' = PutsOf(u, g, n) \cup {r}
  BY <1>4, <1>5, <1>14, <1>15 DEF PutsOf
<1>18. Sent(u, g)' = Sent(u, g) \cup {n}
  <2>1. \A m \in 1..MaxPart : PutsOf(u, g, m)' # {} <=> PutsOf(u, g, m) # {} \/ m = n
    BY <1>16, <1>17
  <2> QED BY <1>7, <2>1 DEF Sent
(* No PUT of the upload that arrived later has got this far.               *)
<1>19. \A s \in PutsOf(u, g, n) : s \in Nat /\ s <= r
  <2> SUFFICES ASSUME NEW s \in PutsOf(u, g, n), ~(s <= r) PROVE FALSE
    BY PlansAssumption DEF PutsOf
  <2>1. s \in Reqs /\ OfUp(s, u) /\ OfUp(r, u) /\ Active(r)
    BY <1>3, TurnFacts DEF PutsOf, InGen, IsPut
  <2>2. r < s  BY <1>4, <2>1, PlansAssumption
  <2>3. r \in over  BY <1>4, <2>1, <2>2 DEF Arrived
  <2>4. r \notin over  BY <1>4, <2>1 DEF Undisturbed, OfUp, Turn
  <2> QED BY <2>3, <2>4
<1>20. Max(PutsOf(u, g, n)') = r
  <2>1. PICK S : S = PutsOf(u, g, n) \cup {r}  OBVIOUS
  <2>2. r \in Nat  BY SizesAreNumbers
  <2>3. S \subseteq Nat /\ S # {} /\ r \in S /\ \A x \in S : x <= r  BY <1>19, <2>1, <2>2
  <2>4. Max(S) \in S /\ \A y \in S : y <= Max(S)  BY <2>2, <2>3, MaxOf
  <2>5. Max(S) \in Nat /\ Max(S) <= r /\ r <= Max(S)  BY <2>3, <2>4
  <2>6. Max(S) = r  BY <2>2, <2>5
  <2> QED BY <1>17, <2>1, <2>6
<1>21. LastOf(u, g, n)' = Bytes(r)
  <2>1. LastOf(u, g, n)' = [i \in 1..req'[r].op.size |-> r]  BY <1>20, Zenon DEF LastOf, Bytes
  <2> QED BY <1>4, <1>14, <2>1 DEF Bytes
<1>22. ASSUME NEW m \in Sent(u, g), m # n PROVE LastOf(u, g, m)' = LastOf(u, g, m)
  <2>1. PICK x : x = Max(PutsOf(u, g, m))  OBVIOUS
  <2>2. x \in PutsOf(u, g, m)  BY <1>4, <2>1, LastPut DEF Sent
  <2>3. req'[x].op = req[x].op  BY <1>14, <2>2 DEF PutsOf
  <2>4. Max(PutsOf(u, g, m)') = x  BY <1>16, <1>22, <2>1
  <2>5. LastOf(u, g, m)' = [i \in 1..req'[x].op.size |-> x]  BY <2>4, Zenon DEF LastOf, Bytes
  <2>6. LastOf(u, g, m) = [i \in 1..req[x].op.size |-> x]  BY <2>1 DEF LastOf, Bytes
  <2> QED BY <2>3, <2>5, <2>6
<1>23. /\ DOMAIN sessions[u].chunks = Sent(u, g)
       /\ \A s \in Reqs : InGen(s, u, g) => Acked(s, "putchunk") \/ Active(s)
       /\ \A m \in Sent(u, g) : Written(m, u) => ChunkFiles(u)[m].data = LastOf(u, g, m)
  BY <1>5 DEF Turn, Exact, Slot
<1>24. DOMAIN sessions'[u].chunks = Sent(u, g)'
  BY <1>5, <1>10, <1>18, <1>23 DEF InsertRow
<1>25. \A s \in Reqs : InGen(s, u, g)' => Acked(s, "putchunk")' \/ Active(s)'
  BY <1>13, <1>14, <1>15, <1>23 DEF Acked, Active
<1>26. ChunkFiles(u)' = ChunkFiles(u)  BY <1>1 DEF ChunkFiles, HasDir
<1>27. ASSUME NEW m \in Sent(u, g)', Written(m, u)' PROVE ChunkFiles(u)'[m].data = LastOf(u, g, m)'
  <2>1. CASE m = n
    <3>1. ChunkFiles(u)[n].data = Bytes(r)  BY <1>1, <1>3, <1>5 DEF PutPhase
    <3> QED BY <1>21, <1>26, <2>1, <3>1
  <2>2. CASE m # n
    <3>1. m \in Sent(u, g)  BY <1>18, <1>27, <2>2
    <3>2. m \in DOMAIN ChunkFiles(u)  BY <1>26, <1>27 DEF Written
    <3>3. Written(m, u)  BY <1>5, <1>27, <2>2, <3>2, WrittenBefore
    <3> QED BY <1>22, <1>23, <1>26, <2>2, <3>1, <3>3
  <2> QED BY <2>1, <2>2
<1>28. Slot(u)'
  <2>1. \A s \in Reqs : InGen(s, u, sessions[u].gen)' <=> InGen(s, u, g)'  BY <1>10 DEF InGen
  <2>2. \A m : PutsOf(u, sessions[u].gen, m)' = PutsOf(u, g, m)'  BY <2>1 DEF PutsOf
  <2>3. Sent(u, sessions[u].gen)' = Sent(u, g)' /\ \A m : LastOf(u, sessions[u].gen, m)' = LastOf(u, g, m)'
    BY <2>2 DEF Sent, LastOf
  <2> QED BY <1>24, <1>25, <1>27, <2>1, <2>3 DEF Slot
<1>29. PutPhase(r, u)'
  <2>1. PICK x, K : x = Do("done") /\ K = <<"done">>  OBVIOUS
  <2>2. x.k = "done" /\ Len(K) = 1 /\ K[1] = "done"  BY <2>1 DEF Do, Step
  <2>3. Len(K) \in Nat /\ Len(K) # 0 /\ x.k = K[Len(K)]  BY <2>2
  <2>6. Ends(<<x>>, K)  BY ONLY <2>3, LastEnds, Zenon
  <2>4. Ends(req'[r].todo, <<"done">>)  BY <1>12, <2>1, <2>6
  <2>5. ~At(r, "chunkbody")' /\ ~At(r, "addchunk")'  BY <1>13 DEF At
  <2> QED BY <1>13, <2>4, <2>5 DEF PutPhase
<1> QED BY <1>28, <1>29

LEMMA PutAdded ==
    ASSUME NEW r, NEW u, Turn(r, u), req[r].op.kind = "putchunk", add_chunk(r)
    PROVE  Slot(u)' /\ PutPhase(r, u)'
<1>1. CASE HasSession(u)  BY <1>1, PutJoins
<1>2. CASE ~HasSession(u)
  <2>1. Fail(r, "404") /\ UNCHANGED sessions
    <3>1. Up(r) = u  BY TurnFacts
    <3> QED BY <1>2, <3>1 DEF add_chunk
  <2>2. ~HasSession(u)'  BY <1>2, <2>1 DEF HasSession
  <2>3. req'[r].todo = <<>> /\ ~Active(r)'  BY <2>1, GivesUp
  <2>4. Ends(req'[r].todo, PutKinds)  BY <2>3, NothingEnds DEF PutKinds
  <2>5. \A k : ~At(r, k)'  BY <2>3 DEF At
  <2>6. PutPhase(r, u)'  BY <2>3, <2>4, <2>5 DEF PutPhase
  <2> QED BY <2>2, <2>6, NoSlot
<1> QED BY <1>1, <1>2

LEMMA PutTurn ==
    ASSUME NEW r, NEW u, Turn(r, u), req[r].op.kind = "putchunk"
    PROVE  Slot(u)' /\ PutPhase(r, u)'
BY PutActions, PutAdmitted, PutQuotaChecked, PutCreated, PutReceived, PutAdded, PutAnswered
-----------------------------------------------------------------------------
(* The slot under the other requests.                                      *)
PutOnly == {"putchunk", "chunkquota", "chunkcreate", "chunkbody", "addchunk"}

LEMMA OtherActions ==
    ASSUME NEW r, NEW u, Turn(r, u), req[r].op.kind # "putchunk"
    PROVE  \/ handle_mkcol(r) \/ remove_session(r)
           \/ UNCHANGED sessions /\ (UNCHANGED chunkdir \/ chunkdir' = remove_dir_all(u))
<1>1. WellFormed /\ r \in Reqs /\ AnyStep(r) /\ req[r].op.kind \in UploadOps /\ Up(r) = u
  BY TurnFacts DEF Turn
<1>2. \A k \in PutOnly : ~At(r, k)
  <2> SUFFICES ASSUME NEW k \in PutOnly, At(r, k) PROVE FALSE
    OBVIOUS
  <2>1. Belongs(req[r].op, k)  BY <1>1, AtHead
  <2>2. k \in StepsOf(req[r].op.kind)  BY <1>1, <2>1 DEF Belongs
  <2>3. CASE req[r].op.kind = "mkslot"  BY <2>2, <2>3 DEF StepsOf, PutOnly
  <2>4. CASE req[r].op.kind = "assemble"  BY <2>2, <2>4 DEF StepsOf, PutOnly
  <2>5. CASE req[r].op.kind = "abort"  BY <2>2, <2>5 DEF StepsOf, PutOnly
  <2>6. CASE req[r].op.kind = "slotinfo"  BY <2>2, <2>6 DEF StepsOf, PutOnly
  <2> QED BY <1>1, <2>3, <2>4, <2>5, <2>6 DEF UploadOps
<1>3. CASE RequestStep(r) /\ UNCHANGED <<uvars, loc>>  BY <1>3 DEF uvars
<1>4. CASE UploadStep(r)
  <2>1. ~PutChunkAdmit(r) /\ ~ChunkQuota(r) /\ ~ChunkCreate(r) /\ ~ChunkBody(r) /\ ~add_chunk(r)
    BY <1>2 DEF PutOnly, PutChunkAdmit, ChunkQuota, ChunkCreate, ChunkBody, add_chunk
  <2> QED BY <1>1, <1>4, <2>1, Zenon DEF UploadStep, AssembleSession, AssembleTotal, AssembleParts, AssembleRead,
        AssembleQuota, AssembleTarget, AssembleParent, AssembleWrite, AssembleRow, AssembleEntity, cleanup_chunks,
        handle_delete, handle_propfind, KeepUpload, uvars
<1>5. CASE BulkStep(r)
  BY <1>1, <1>5, BulkStepKeeps
<1> QED BY <1>1, <1>3, <1>4, <1>5 DEF AnyStep

(* create_session: nothing has been sent to the new session yet.           *)
LEMMA NewSlot ==
    ASSUME NEW r, NEW u, Turn(r, u), handle_mkcol(r)
    PROVE  Slot(u)'
<1>1. Up(r) = u /\ Gens /\ nextEtag \in Nat  BY TurnFacts DEF Turn, WellFormed
<1>2. PICK x : x = [gen |-> nextEtag, chunks |-> <<>>]  OBVIOUS
<1>3. sessions' = InsertRow(sessions, u, x) /\ UNCHANGED loc
  BY <1>1, <1>2 DEF handle_mkcol, create_session
<1>4. PICK g : g = nextEtag  OBVIOUS
<1>5. sessions'[u].gen = g /\ sessions'[u].chunks = <<>>  BY <1>2, <1>3, <1>4 DEF InsertRow
<1>6. \A s \in Reqs : ~InGen(s, u, g)'
  <2> SUFFICES ASSUME NEW s \in Reqs, loc'[s].gen = g PROVE FALSE
    BY DEF InGen
  <2>1. loc[s].gen \in 0..(g - 1) /\ g \in Nat  BY <1>1, <1>4 DEF Gens
  <2> QED BY <1>3, <2>1
<1>7. \A s \in Reqs : InGen(s, u, sessions[u].gen)' <=> InGen(s, u, g)'  BY <1>5 DEF InGen
<1>8. \A m : PutsOf(u, sessions[u].gen, m)' = {}  BY <1>6, <1>7 DEF PutsOf
<1>9. Sent(u, sessions[u].gen)' = {}  BY <1>8 DEF Sent
<1>10. DOMAIN sessions'[u].chunks = {}
  <2>1. DOMAIN <<>> = {}  BY Tuples, SeqFacts
  <2> QED BY <1>5, <2>1
<1> QED BY <1>6, <1>7, <1>9, <1>10 DEF Slot

LEMMA SlotStays ==
    ASSUME NEW r, NEW u, Turn(r, u), req[r].op.kind # "putchunk", UNCHANGED sessions, HasSession(u),
           UNCHANGED chunkdir \/ chunkdir' = remove_dir_all(u)
    PROVE  Slot(u)'
<1>1. Arrived /\ plan \in Plans /\ Slot(u)  BY TurnFacts DEF Turn, Exact
<1>2. PICK g : g = sessions[u].gen  OBVIOUS
<1>3. \A s \in Reqs : IsPut(s, u) => req'[s] = req[s] /\ loc'[s] = loc[s]
  BY TurnFacts DEF IsPut
<1>4. \A s \in Reqs : IsPut(s, u)' <=> IsPut(s, u)  BY TurnFacts
<1>5. \A s \in Reqs : InGen(s, u, g)' <=> InGen(s, u, g)  BY <1>3, <1>4 DEF InGen
<1>6. \A s \in Reqs : InGen(s, u, g) => req'[s] = req[s]  BY <1>3 DEF InGen
<1>7. \A s \in Reqs : InGen(s, u, g) =>
         /\ req'[s].op = req[s].op
         /\ Acked(s, "putchunk") \/ Active(s) => Acked(s, "putchunk")' \/ Active(s)'
  BY <1>6 DEF Acked, Active
<1>8. \A n : Written(n, u)' => Written(n, u) /\ ChunkFiles(u)'[n].data = ChunkFiles(u)[n].data
  <2> SUFFICES ASSUME NEW n, Written(n, u)' PROVE Written(n, u) /\ ChunkFiles(u)'[n].data = ChunkFiles(u)[n].data
    OBVIOUS
  <2>1. CASE UNCHANGED chunkdir
    <3>1. ChunkFiles(u)' = ChunkFiles(u)  BY <2>1 DEF ChunkFiles, HasDir
    <3>2. n \in DOMAIN ChunkFiles(u)  BY <3>1 DEF Written
    <3>3. Written(n, u)  BY <3>2, WrittenBefore DEF IsPut
    <3> QED BY <3>1, <3>3
  <2>2. CASE chunkdir' = remove_dir_all(u)
    <3>1. ChunkFiles(u)' = <<>>  BY <2>2 DEF ChunkFiles, HasDir, remove_dir_all, Restrict
    <3>2. DOMAIN <<>> = {}  BY Tuples, SeqFacts
    <3> QED BY <3>1, <3>2 DEF Written
  <2> QED BY <2>1, <2>2
<1> QED BY <1>1, <1>2, <1>5, <1>7, <1>8, SlotKept

LEMMA SlotTurn ==
    ASSUME NEW r, NEW u, Turn(r, u)
    PROVE  Slot(u)'
<1>1. CASE req[r].op.kind = "putchunk"  BY <1>1, PutTurn
<1>2. CASE req[r].op.kind # "putchunk"
  <2>1. CASE handle_mkcol(r)  BY <2>1, NewSlot
  <2>2. CASE remove_session(r)
    <3>1. sessions' = Restrict(sessions, DOMAIN sessions \ {u})  BY <2>2, TurnFacts DEF remove_session
    <3>2. ~HasSession(u)'  BY <3>1 DEF HasSession, Restrict
    <3> QED BY <3>2, NoSlot
  <2>3. CASE UNCHANGED sessions /\ (UNCHANGED chunkdir \/ chunkdir' = remove_dir_all(u))
    <3>1. CASE HasSession(u)  BY <1>2, <2>3, <3>1, SlotStays
    <3>2. CASE ~HasSession(u)
      <4>1. ~HasSession(u)'  BY <2>3, <3>2 DEF HasSession
      <4> QED BY <4>1, NoSlot
    <3> QED BY <3>1, <3>2
  <2> QED BY <1>2, <2>1, <2>2, <2>3, OtherActions
<1> QED BY <1>1, <1>2
-----------------------------------------------------------------------------
(* An assembly: what it stands at, and what is left to do.                 *)
CloseStage(t) ==
    LET k == Head(t).k IN
    /\ Ends(Tail(t), ReadKinds) \/ Ends(Tail(t), CloseKinds)
    /\ Tail(t) # <<>> /\ Head(Tail(t)).k = "done" => k = "endsession"
    /\ k \in {"asmrow", "done"} => Tail(t) = <<>>
    /\ k \notin {"assemble", "total", "parts", "read"}

LEMMA ClosingTail ==
    ASSUME NEW t, IsSeq(t), t # <<>>, Ends(t, ReadKinds) \/ Ends(t, CloseKinds)
    PROVE  CloseStage(t)
<1>1. CASE Ends(t, ReadKinds)
  <2>1. PICK K : K = ReadKinds  OBVIOUS
  <2>2. /\ Len(K) = 5 /\ K[1] = "asmquota" /\ K[2] = "target" /\ K[3] = "parent"
        /\ K[4] = "asmwrite" /\ K[5] = "asmrow"
    BY <2>1 DEF ReadKinds
  <2>3. Len(K) \in Nat /\ Ends(t, K)  BY <1>1, <2>1, <2>2
  <2>4. /\ Len(Tail(t)) = Len(t) - 1 /\ Len(t) \in 1..Len(K) /\ Head(t).k = K[Len(K) - Len(t) + 1]
        /\ Ends(Tail(t), K) /\ (Len(t) = 1 <=> Tail(t) = <<>>)
        /\ Tail(t) # <<>> => Head(Tail(t)).k = K[Len(K) - Len(t) + 2] /\ Len(t) # 1
    BY <2>3, EndsTail
  <2>5. CASE Len(t) = 1  BY <2>1, <2>2, <2>4, <2>5 DEF CloseStage
  <2>6. CASE Len(t) = 2  BY <2>1, <2>2, <2>4, <2>6 DEF CloseStage
  <2>7. CASE Len(t) = 3  BY <2>1, <2>2, <2>4, <2>7 DEF CloseStage
  <2>8. CASE Len(t) = 4  BY <2>1, <2>2, <2>4, <2>8 DEF CloseStage
  <2>9. CASE Len(t) = 5  BY <2>1, <2>2, <2>4, <2>9 DEF CloseStage
  <2>11. Len(t) \in 1..5  BY <2>2, <2>4
  <2>10. Len(t) = 1 \/ Len(t) = 2 \/ Len(t) = 3 \/ Len(t) = 4 \/ Len(t) = 5  BY <2>11
  <2> QED BY <2>5, <2>6, <2>7, <2>8, <2>9, <2>10, Zenon
<1>2. CASE Ends(t, CloseKinds)
  <2>1. PICK K : K = CloseKinds  OBVIOUS
  <2>2. /\ Len(K) = 7 /\ K[1] = "lazy" /\ K[2] = "prop" /\ K[3] = "prop" /\ K[4] = "asmentity"
        /\ K[5] = "rmchunks" /\ K[6] = "endsession" /\ K[7] = "done"
    BY <2>1 DEF CloseKinds
  <2>3. Len(K) \in Nat /\ Ends(t, K)  BY <1>2, <2>1, <2>2
  <2>4. /\ Len(Tail(t)) = Len(t) - 1 /\ Len(t) \in 1..Len(K) /\ Head(t).k = K[Len(K) - Len(t) + 1]
        /\ Ends(Tail(t), K) /\ (Len(t) = 1 <=> Tail(t) = <<>>)
        /\ Tail(t) # <<>> => Head(Tail(t)).k = K[Len(K) - Len(t) + 2] /\ Len(t) # 1
    BY <2>3, EndsTail
  <2>5. CASE Len(t) = 1  BY <2>1, <2>2, <2>4, <2>5 DEF CloseStage
  <2>6. CASE Len(t) = 2  BY <2>1, <2>2, <2>4, <2>6 DEF CloseStage
  <2>7. CASE Len(t) = 3  BY <2>1, <2>2, <2>4, <2>7 DEF CloseStage
  <2>8. CASE Len(t) = 4  BY <2>1, <2>2, <2>4, <2>8 DEF CloseStage
  <2>9. CASE Len(t) = 5  BY <2>1, <2>2, <2>4, <2>9 DEF CloseStage
  <2>10. CASE Len(t) = 6  BY <2>1, <2>2, <2>4, <2>10 DEF CloseStage
  <2>11. CASE Len(t) = 7  BY <2>1, <2>2, <2>4, <2>11 DEF CloseStage
  <2>13. Len(t) \in 1..7  BY <2>2, <2>4
  <2>12. \/ Len(t) = 1 \/ Len(t) = 2 \/ Len(t) = 3 \/ Len(t) = 4
         \/ Len(t) = 5 \/ Len(t) = 6 \/ Len(t) = 7
    BY <2>13
  <2> QED BY <2>5, <2>6, <2>7, <2>8, <2>9, <2>10, <2>11, <2>12, Zenon
<1> QED BY <1>1, <1>2

LEMMA SameLength == ASSUME NEW a \in Nat, NEW b \in Nat, 1..a = 1..b PROVE a = b
<1>1. CASE a < b
  <2>1. b \in 1..b /\ b \notin 1..a  BY <1>1
  <2> QED BY <2>1
<1>2. CASE b < a
  <2>1. a \in 1..a /\ a \notin 1..b  BY <1>2
  <2> QED BY <2>1
<1> QED BY <1>1, <1>2

(* The parts of a session are byte sequences.                              *)
LEMMA PartsFit ==
    ASSUME Arrived, plan \in Plans, NEW u, NEW g
    PROVE  /\ Parts(u, g) \in Seq(Seq(Nat)) /\ Len(Parts(u, g)) = Cardinality(Sent(u, g))
           /\ \A i \in 1..Cardinality(Sent(u, g)) : Parts(u, g)[i] = LastOf(u, g, Sorted(Sent(u, g))[i])
<1>1. PICK c, ids : c = Cardinality(Sent(u, g)) /\ ids = Sorted(Sent(u, g))  OBVIOUS
<1>2. c \in Nat /\ \A i \in 1..c : ids[i] \in Sent(u, g)  BY <1>1, SentFacts
<1>3. \A n \in Sent(u, g) : LastOf(u, g, n) \in Seq(Nat)
  <2> TAKE n \in Sent(u, g)
  <2>1. PICK m : m = Max(PutsOf(u, g, n))  OBVIOUS
  <2>2. m \in PutsOf(u, g, n)  BY <2>1, LastPut DEF Sent
  <2>3. m \in Reqs /\ Started(m)  BY <2>2 DEF PutsOf, InGen, IsPut, OfUp, Started, Kinds
  <2>4. m \in Nat /\ req[m].op.size \in Nat  BY <2>3, PlansAssumption DEF Arrived
  <2>5. PICK z : z = req[m].op.size  OBVIOUS
  <2>6. [i \in 1..z |-> m] \in Seq(Nat)
    <3>1. PICK f : f = [i \in 1..z |-> m]  OBVIOUS
    <3>2. f \in [1..z -> Nat] /\ z \in Nat  BY <2>4, <2>5, <3>1
    <3>3. f \in Seq(Nat)  BY ONLY <3>2, IntoSeq
    <3> QED BY <3>1, <3>3
  <2> QED BY <2>1, <2>5, <2>6 DEF LastOf, Bytes
<1>4. PICK L : L = [i \in 1..c |-> LastOf(u, g, ids[i])]  OBVIOUS
<1>5. L \in [1..c -> Seq(Nat)] /\ \A i \in 1..c : L[i] = LastOf(u, g, ids[i])
  BY <1>2, <1>3, <1>4
<1>6. L \in Seq(Seq(Nat))  BY ONLY <1>2, <1>5, IntoSeq
<1>7. Len(L) = c
  <2>1. Len(L) \in Nat /\ DOMAIN L = 1..Len(L)  BY <1>6, LenProperties
  <2>2. DOMAIN L = 1..c  BY <1>5
  <2>3. PICK a : a = Len(L)  OBVIOUS
  <2>4. a \in Nat /\ 1..a = 1..c  BY <2>1, <2>2, <2>3
  <2>5. a = c  BY ONLY <1>2, <2>4, SameLength
  <2> QED BY <2>3, <2>5
<1>8. Parts(u, g) = L  BY <1>1, <1>4 DEF Parts
<1> QED BY <1>1, <1>5, <1>6, <1>7, <1>8

(* What holds while an assembly runs.                                      *)
LEMMA AsmFacts ==
    ASSUME NEW r, NEW u, Turn(r, u), req[r].op.kind = "assemble"
    PROVE  /\ r \in Reqs /\ Up(r) = u /\ Arrived /\ plan \in Plans /\ AsmPhase(r, u) /\ req[r].resp # "ok"
           /\ \A g : PutsRest(u, g)
           /\ \A s \in Reqs : IsPut(s, u) => ~Active(s)
           /\ req'[r].op = req[r].op /\ DOMAIN loc = Reqs /\ DOMAIN loc[r] = DOMAIN NoLoc
<1>1. r \in Reqs /\ Up(r) = u /\ Arrived /\ plan \in Plans /\ Active(r) /\ OfUp(r, u)
  BY TurnFacts DEF Turn
<1>2. AsmPhase(r, u) /\ req[r].resp # "ok"
  <2>1. AsmPhase(r, u)  BY <1>1 DEF Turn, Exact
  <2> QED BY <1>1, <2>1 DEF AsmPhase
<1>3. \A s \in Reqs : IsPut(s, u) => ~Active(s) /\ req'[s] = req[s] /\ loc'[s] = loc[s]
  BY TurnFacts DEF IsPut
<1>4. \A s \in Reqs : IsPut(s, u)' <=> IsPut(s, u)  BY TurnFacts
<1>5. ASSUME NEW g PROVE PutsRest(u, g)
  BY <1>3, <1>4 DEF PutsRest, InGen
<1>6. req'[r].op = req[r].op /\ DOMAIN loc = Reqs /\ DOMAIN loc[r] = DOMAIN NoLoc
  BY <1>1, TurnFacts DEF Turn, Gens
<1> QED BY <1>1, <1>2, <1>3, <1>5, <1>6

(* All parts have been read: the file is complete.                         *)
LEMMA AllRead ==
    ASSUME NEW r, NEW u, Turn(r, u), req[r].op.kind = "assemble", Live(r, u),
           NEW L, L = Parts(u, loc[r].gen), L # <<>>, Prefix(L, Len(L), loc[r].data)
    PROVE  Complete(r, u)
<1>1. /\ Arrived /\ plan \in Plans /\ r \in Reqs /\ Slot(u) /\ Gens
      /\ \A s \in Reqs : IsPut(s, u) => ~Active(s)
  BY AsmFacts DEF Turn, Exact
<1>2. loc[r].gen # 0 /\ HasSession(u) /\ loc[r].gen = sessions[u].gen
  BY <1>1 DEF Live, Gens, HasSession
<1>3. Settled(u, loc[r].gen)
  BY <1>1, <1>2 DEF Settled, Slot, InGen
<1>4. L \in Seq(Seq(Nat))  BY <1>1, PartsFit
<1>5. loc[r].data = FlattenSeq(L)
  <2>1. PICK d : d = loc[r].data  OBVIOUS
  <2>2. Prefix(L, Len(L), d)  BY <2>1
  <2> QED BY <1>4, <2>1, <2>2, PrefixAll
<1> QED BY <1>2, <1>3, <1>5 DEF Complete

LEMMA ReadsHead ==
    ASSUME NEW r, NEW u, Turn(r, u), req[r].op.kind = "assemble", Reads(r, u)
    PROVE  \/ Closes(r, u) /\ At(r, "asmquota")
           \/ /\ At(r, "read")
              /\ \E j \in Nat : LET ids == Sorted(Sent(u, loc[r].gen)) IN
                    /\ Reading(req[r].todo, ids, j) /\ j < Len(ids)
                    /\ Prefix(Parts(u, loc[r].gen), j, loc[r].data)
<1>1. /\ Arrived /\ plan \in Plans /\ r \in Reqs
      /\ IsSeq(req[r].todo) /\ req[r].todo # <<>> /\ Active(r)
  BY AsmFacts, TurnFacts
<1>2. PICK t, g : t = req[r].todo /\ g = loc[r].gen  OBVIOUS
<1>3. PICK ids, L : ids = Sorted(Sent(u, g)) /\ L = Parts(u, g)  OBVIOUS
<1>4. PICK j \in Nat : Reading(t, ids, j) /\ Prefix(L, j, loc[r].data)  BY <1>2, <1>3 DEF Reads
<1>5. Len(ids) \in Nat /\ Len(ids) = Len(L)  BY <1>1, <1>3, SentFacts, PartsFit
<1>6. Head(t) = t[1] /\ Len(t) \in Nat  BY <1>1, <1>2, Rest, SeqFacts
<1>7. CASE j < Len(ids)
  <2>1. t[1].k = "read"  BY <1>4, <1>5, <1>7 DEF Reading
  <2>2. At(r, "read")  BY <1>1, <1>2, <1>6, <2>1 DEF At
  <2> QED BY <1>2, <1>3, <1>4, <1>7, <2>2
<1>8. CASE j = Len(ids)
  <2>1. Len(t) = 5 /\ \A i \in 1..5 : t[i].k = ReadKinds[i]
    <3>1. Len(t) = Len(ids) - j + 5 /\ \A i \in 1..5 : t[Len(ids) - j + i].k = ReadKinds[i]
      BY <1>4 DEF Reading
    <3>2. Len(ids) - j = 0  BY <1>5, <1>8
    <3>3. ASSUME NEW i \in 1..5 PROVE t[i].k = ReadKinds[i]
      <4>1. Len(ids) - j + i = i  BY <3>2
      <4> QED BY <3>1, <4>1
    <3> QED BY <3>1, <3>2, <3>3
  <2>2. Len(ReadKinds) = 5 /\ ReadKinds[1] = "asmquota"  BY DEF ReadKinds
  <2>3. Ends(t, ReadKinds)  BY <2>1, <2>2 DEF Ends
  <2>4. t[1].k = "asmquota"  BY <2>1, <2>2
  <2>5. At(r, "asmquota")  BY <1>1, <1>2, <1>6, <2>4 DEF At
  <2>6. ~At(r, "done")  BY <2>5 DEF At
  <2>7. Complete(r, u)
    <3>1. L # <<>>
      <4>1. ids # <<>>  BY <1>4 DEF Reading
      <4>2. IsSeq(ids)  BY <1>3, SentFacts
      <4>3. Len(ids) # 0  BY <4>1, <4>2, SeqFacts
      <4> QED BY <1>5, <4>3, Tuples
    <3>2. Live(r, u)  BY DEF Reads
    <3>3. Prefix(L, Len(L), loc[r].data)  BY <1>4, <1>5, <1>8
    <3>4. L = Parts(u, loc[r].gen)  BY <1>2, <1>3
    <3> QED BY <3>1, <3>2, <3>3, <3>4, AllRead
  <2> QED BY <1>2, <2>3, <2>5, <2>6, <2>7 DEF Closes
<1>9. j \in 0..Len(ids)  BY <1>4 DEF Reading
<1>10. j < Len(ids) \/ j = Len(ids)  BY <1>5, <1>9
<1> QED BY <1>7, <1>8, <1>10

(* The phase of an assembly follows from the step it stands at.            *)
LEMMA AsmAt ==
    ASSUME NEW r, NEW u, Turn(r, u), req[r].op.kind = "assemble", NEW k, At(r, k)
    PROVE  /\ k = "assemble" => Begins(r) /\ Tail(req[r].todo) = <<>>
           /\ k \in {"total", "parts"} => /\ Prepares(r, u) /\ Ends(Tail(req[r].todo), <<"total", "parts">>)
                                          /\ k = "parts" => Tail(req[r].todo) = <<>>
           /\ k = "read" => Reads(r, u) /\ ~Closes(r, u)
           /\ k \notin {"assemble", "total", "parts", "read"} => Closes(r, u) /\ CloseStage(req[r].todo)
<1>1. /\ Begins(r) \/ Prepares(r, u) \/ Reads(r, u) \/ Closes(r, u)
      /\ IsSeq(req[r].todo) /\ req[r].todo # <<>> /\ Active(r)
  BY AsmFacts, TurnFacts DEF AsmPhase
<1>2. PICK t : t = req[r].todo  OBVIOUS
<1>3. IsSeq(t) /\ t # <<>> /\ Head(t).k = k  BY <1>1, <1>2 DEF At
<1>4. ASSUME Begins(r) PROVE k = "assemble" /\ Tail(t) = <<>>
  <2>1. PICK K : K = <<"assemble">>  OBVIOUS
  <2>2. Len(K) = 1 /\ K[1] = "assemble"  BY <2>1
  <2>3. Len(K) \in Nat /\ Ends(t, K)  BY <1>2, <1>4, <2>1, <2>2 DEF Begins
  <2>4. Len(t) \in 1..Len(K) /\ Head(t).k = K[Len(K) - Len(t) + 1] /\ (Len(t) = 1 <=> Tail(t) = <<>>)
    BY <1>3, <2>3, EndsTail
  <2>5. Len(t) = 1  BY <2>2, <2>4
  <2>6. Head(t).k = K[1]  BY <2>2, <2>4, <2>5
  <2> QED BY <1>3, <2>2, <2>4, <2>5, <2>6
<1>5. ASSUME Prepares(r, u)
      PROVE  /\ k \in {"total", "parts"} /\ Ends(Tail(t), <<"total", "parts">>)
             /\ k = "parts" => Tail(t) = <<>>
  <2>1. PICK K : K = <<"total", "parts">>  OBVIOUS
  <2>2. Len(K) = 2 /\ K[1] = "total" /\ K[2] = "parts"  BY <2>1
  <2>3. Len(K) \in Nat /\ Ends(t, K)  BY <1>2, <1>5, <2>1, <2>2 DEF Prepares
  <2>4. /\ Len(t) \in 1..Len(K) /\ Head(t).k = K[Len(K) - Len(t) + 1] /\ (Len(t) = 1 <=> Tail(t) = <<>>)
        /\ Ends(Tail(t), K)
    BY <1>3, <2>3, EndsTail
  <2> QED BY <1>3, <2>1, <2>2, <2>4
<1>6. ASSUME Closes(r, u) PROVE CloseStage(t) /\ k \notin {"assemble", "total", "parts", "read"}
  <2>1. Ends(t, ReadKinds) \/ Ends(t, CloseKinds)  BY <1>2, <1>6 DEF Closes
  <2>2. CloseStage(t)  BY <1>3, <2>1, ClosingTail
  <2> QED BY <1>3, <2>2 DEF CloseStage
<1>7. ASSUME Reads(r, u) PROVE k = "read" \/ Closes(r, u)
  BY <1>7, ReadsHead DEF At
<1> QED BY <1>1, <1>2, <1>4, <1>5, <1>6, <1>7
-----------------------------------------------------------------------------
(* The steps of an assembly.                                               *)
Fails(r) == \E st : st # "ok" /\ Fail(r, st)
Passes(r) == \E l : DOMAIN l = DOMAIN Idle /\ l.resp = req[r].resp /\ Advance(r, <<>>, l)
PlainKinds == {"asmquota", "target", "parent", "asmwrite", "lazy", "prop", "prop", "asmentity", "rmchunks", "endsession"}
NotOfAsm == {"mkslot", "putchunk", "chunkquota", "chunkcreate", "chunkbody", "addchunk", "abort", "slotinfo"}

LEMMA PlainlyOn == ASSUME NEW r, DOMAIN req[r] = DOMAIN Idle, Next1(r) PROVE Passes(r)
<1>1. PICK l : l = req[r]  OBVIOUS
<1>2. Advance(r, <<>>, l) /\ DOMAIN l = DOMAIN Idle /\ l.resp = req[r].resp  BY <1>1 DEF Next1
<1> QED BY <1>2 DEF Passes

LEMMA RefusedWith == ASSUME NEW r, NEW st, st # "ok", Fail(r, st) PROVE Fails(r)
BY DEF Fails

LEMMA FoundRowKeeps ==
    ASSUME NEW r, DOMAIN req[r] = DOMAIN Idle, NEW p
    PROVE  DOMAIN FoundRow(r, p) = DOMAIN Idle /\ FoundRow(r, p).resp = req[r].resp
<1>1. "fid" \in DOMAIN Idle /\ "row" \in DOMAIN Idle /\ "resp" \in DOMAIN Idle  BY DEF Idle
<1>3. CASE Exists(fc, p)
  <2>1. PICK i : i = lookup_by_path(fc, p)  OBVIOUS
  <2>2. PICK x : x = [size |-> size[i], etag |-> fc[i].etag, dir |-> fc[i].dir,
                      mtime |-> fc[i].mtime, smtime |-> fc[i].smtime]
    OBVIOUS
  <2>3. FoundRow(r, p) = [req[r] EXCEPT !.fid = i, !.row = x]  BY <1>3, <2>1, <2>2 DEF FoundRow
  <2> QED BY <1>1, <2>3
<1>4. CASE ~Exists(fc, p)
  <2>1. PICK x : x = Idle.row  OBVIOUS
  <2>2. FoundRow(r, p) = [req[r] EXCEPT !.fid = 0, !.row = x]  BY <1>4, <2>1 DEF FoundRow
  <2> QED BY <1>1, <2>2
<1> QED BY <1>3, <1>4

AsmPlain(r, u) ==
    \E k \in PlainKinds :
        /\ At(r, k) /\ UNCHANGED loc /\ (Fails(r) \/ Passes(r))
        /\ k = "endsession" => ~HasSession(u)'

LEMMA AsmActions ==
    ASSUME NEW r, NEW u, Turn(r, u), req[r].op.kind = "assemble"
    PROVE  \/ AssembleSession(r) \/ AssembleTotal(r) \/ AssembleParts(r) \/ AssembleRead(r) \/ AssembleRow(r)
           \/ Respond(r) /\ UNCHANGED <<uvars, loc>>
           \/ AsmPlain(r, u)
<1>1. /\ WellFormed /\ r \in Reqs /\ AnyStep(r) /\ req[r].op.kind \in UploadOps /\ Up(r) = u
      /\ DOMAIN req[r] = DOMAIN Idle
  BY TurnFacts DEF Turn
<1>2. \A k \in NotOfAsm : ~At(r, k)
  <2> SUFFICES ASSUME NEW k \in NotOfAsm, At(r, k) PROVE FALSE
    OBVIOUS
  <2>1. Belongs(req[r].op, k)  BY <1>1, AtHead
  <2>2. k \in StepsOf("assemble")  BY <1>1, <2>1 DEF Belongs
  <2> QED BY <2>2 DEF StepsOf, NotOfAsm
<1>3. ASSUME NEW k \in PlainKinds, At(r, k), UNCHANGED loc, Next1(r), k # "endsession" PROVE AsmPlain(r, u)
  BY <1>1, <1>3, PlainlyOn DEF AsmPlain
<1>4. ASSUME NEW k \in PlainKinds, At(r, k), UNCHANGED loc, NEW l, DOMAIN l = DOMAIN Idle, l.resp = req[r].resp,
             Advance(r, <<>>, l), k # "endsession"
      PROVE  AsmPlain(r, u)
  <2>1. Passes(r)  BY <1>4 DEF Passes
  <2> QED BY <1>4, <2>1 DEF AsmPlain
<1>5. ASSUME NEW k \in PlainKinds, At(r, k), UNCHANGED loc, NEW st, st # "ok", Fail(r, st), k # "endsession"
      PROVE  AsmPlain(r, u)
  BY <1>5, RefusedWith DEF AsmPlain
<1>6. CASE RequestStep(r) /\ UNCHANGED <<uvars, loc>>
  <2>1. propagate_change(r) \/ LazyDirRow(r) \/ Respond(r)  BY <1>1, <1>6, SharedByUploads
  <2>2. CASE propagate_change(r)
    <3>1. At(r, "prop") /\ Next1(r)  BY <2>2 DEF propagate_change
    <3>2. "prop" \in PlainKinds /\ "prop" # "endsession"  BY DEF PlainKinds
    <3> QED BY <1>3, <1>6, <3>1, <3>2
  <2>3. CASE LazyDirRow(r)
    <3>1. At(r, "lazy") /\ Next1(r)  BY <2>3 DEF LazyDirRow
    <3>2. "lazy" \in PlainKinds /\ "lazy" # "endsession"  BY DEF PlainKinds
    <3> QED BY <1>3, <1>6, <3>1, <3>2
  <2> QED BY <1>6, <2>1, <2>2, <2>3
<1>7. CASE AssembleQuota(r)
  <2>1. /\ At(r, "asmquota") /\ UNCHANGED loc /\ (Next1(r) \/ Fail(r, "507"))
    BY <1>7 DEF AssembleQuota
  <2>2. "asmquota" \in PlainKinds /\ "asmquota" # "endsession" /\ "507" # "ok"  BY DEF PlainKinds
  <2> QED BY <1>3, <1>5, <2>1, <2>2
<1>8. CASE AssembleTarget(r)
  <2>1. PICK l : l = FoundRow(r, req[r].op.to)  OBVIOUS
  <2>2. At(r, "target") /\ UNCHANGED loc /\ Advance(r, <<>>, l)  BY <1>8, <2>1 DEF AssembleTarget
  <2>3. DOMAIN l = DOMAIN Idle /\ l.resp = req[r].resp  BY <1>1, <2>1, FoundRowKeeps
  <2>4. "target" \in PlainKinds /\ "target" # "endsession"  BY DEF PlainKinds
  <2> QED BY <1>4, <2>2, <2>3, <2>4
<1>9. CASE AssembleParent(r)
  <2>1. PICK par : par = ParentPath(req[r].op.to)  OBVIOUS
  <2>2. PICK l : l = [req[r] EXCEPT !.pid = lookup_by_path(fc, par)]  OBVIOUS
  <2>3. At(r, "parent") /\ UNCHANGED loc /\ (Advance(r, <<>>, l) \/ Fail(r, "500"))
    BY <1>9, <2>1, <2>2 DEF AssembleParent
  <2>4. DOMAIN l = DOMAIN Idle /\ l.resp = req[r].resp
    <3>1. "resp" \in DOMAIN Idle  BY DEF Idle
    <3> QED BY <1>1, <2>2, <3>1
  <2>5. "parent" \in PlainKinds /\ "parent" # "endsession" /\ "500" # "ok"  BY DEF PlainKinds
  <2> QED BY <1>4, <1>5, <2>3, <2>4, <2>5
<1>10. CASE AssembleWrite(r)
  <2>1. PICK m : m = IF req[r].op.mtime # 0 THEN req[r].op.mtime ELSE clock  OBVIOUS
  <2>2. PICK l : l = [req[r] EXCEPT !.um = m]  OBVIOUS
  <2>3. At(r, "asmwrite") /\ UNCHANGED loc /\ (Advance(r, <<>>, l) \/ Fail(r, "500") \/ Fail(r, "400"))
    BY <1>10, <2>1, <2>2 DEF AssembleWrite
  <2>4. DOMAIN l = DOMAIN Idle /\ l.resp = req[r].resp
    <3>1. "resp" \in DOMAIN Idle  BY DEF Idle
    <3> QED BY <1>1, <2>2, <3>1
  <2>5. "asmwrite" \in PlainKinds /\ "asmwrite" # "endsession" /\ "500" # "ok" /\ "400" # "ok"  BY DEF PlainKinds
  <2> QED BY <1>4, <1>5, <2>3, <2>4, <2>5
<1>11. CASE AssembleEntity(r)
  <2>1. At(r, "asmentity") /\ UNCHANGED loc /\ Next1(r)  BY <1>11 DEF AssembleEntity
  <2>2. "asmentity" \in PlainKinds /\ "asmentity" # "endsession"  BY DEF PlainKinds
  <2> QED BY <1>3, <2>1, <2>2
<1>12. CASE cleanup_chunks(r)
  <2>1. At(r, "rmchunks") /\ UNCHANGED loc /\ Next1(r)  BY <1>12 DEF cleanup_chunks
  <2>2. "rmchunks" \in PlainKinds /\ "rmchunks" # "endsession"  BY DEF PlainKinds
  <2> QED BY <1>3, <2>1, <2>2
<1>13. CASE remove_session(r)
  <2>1. /\ At(r, "endsession") /\ UNCHANGED loc /\ Next1(r)
        /\ sessions' = Restrict(sessions, DOMAIN sessions \ {u})
    BY <1>1, <1>13 DEF remove_session
  <2>2. ~HasSession(u)'  BY <2>1 DEF HasSession, Restrict
  <2>3. Passes(r)  BY <1>1, <2>1, PlainlyOn
  <2>4. "endsession" \in PlainKinds  BY DEF PlainKinds
  <2> QED BY <2>1, <2>2, <2>3, <2>4 DEF AsmPlain
<1>14. CASE UploadStep(r)
  <2>1. ~handle_mkcol(r) /\ ~PutChunkAdmit(r) /\ ~ChunkQuota(r) /\ ~ChunkCreate(r) /\ ~ChunkBody(r) /\ ~add_chunk(r)
        /\ ~handle_delete(r) /\ ~handle_propfind(r)
    BY <1>2 DEF NotOfAsm, handle_mkcol, PutChunkAdmit, ChunkQuota, ChunkCreate, ChunkBody, add_chunk,
                handle_delete, handle_propfind
  <2> QED BY <1>7, <1>8, <1>9, <1>10, <1>11, <1>12, <1>13, <1>14, <2>1 DEF UploadStep
<1>15. CASE BulkStep(r)
  BY <1>1, <1>15, BulkStepKeeps
<1> QED BY <1>1, <1>6, <1>14, <1>15 DEF AnyStep

(* A refused assembly.                                                     *)
LEMMA AsmRefused ==
    ASSUME NEW r, NEW u, Turn(r, u), req[r].op.kind = "assemble", Fails(r)
    PROVE  AsmPhase(r, u)'
<1>1. PICK st : st # "ok" /\ Fail(r, st)  BY DEF Fails
<1>2. req'[r].resp = st /\ ~Active(r)'  BY <1>1, GivesUp
<1> QED BY <1>1, <1>2 DEF AsmPhase, Acked

(* An assembly that has read everything goes on.                           *)
LEMMA AsmGoesOn ==
    ASSUME NEW r, NEW u, Turn(r, u), req[r].op.kind = "assemble", Complete(r, u), loc'[r] = loc[r],
           req'[r].resp # "ok", Ends(req'[r].todo, ReadKinds) \/ Ends(req'[r].todo, CloseKinds),
           At(r, "done")' => ~HasSession(u)'
    PROVE  AsmPhase(r, u)'
<1>1. PICK g : g = loc[r].gen  OBVIOUS
<1>2. Complete(r, u)'  BY <1>1, AsmFacts, CompleteKept
<1>3. Closes(r, u)'  BY <1>2 DEF Closes
<1>4. ~Acked(r, "assemble")'  BY DEF Acked
<1> QED BY <1>3, <1>4 DEF AsmPhase

LEMMA AsmPlainly ==
    ASSUME NEW r, NEW u, Turn(r, u), req[r].op.kind = "assemble", AsmPlain(r, u)
    PROVE  AsmPhase(r, u)'
<1>1. PICK k \in PlainKinds : /\ At(r, k) /\ UNCHANGED loc /\ (Fails(r) \/ Passes(r))
                              /\ k = "endsession" => ~HasSession(u)'
  BY DEF AsmPlain
<1>2. CASE Fails(r)  BY <1>2, AsmRefused
<1>3. CASE Passes(r)
  <2>1. PICK l : DOMAIN l = DOMAIN Idle /\ l.resp = req[r].resp /\ Advance(r, <<>>, l)  BY <1>3 DEF Passes
  <2>2. req'[r].todo = Tail(req[r].todo) /\ req'[r].resp = req[r].resp  BY <2>1, GoesOnPlain
  <2>3. k \notin {"assemble", "total", "parts", "read"}  BY DEF PlainKinds
  <2>4. Closes(r, u) /\ CloseStage(req[r].todo)  BY <1>1, <2>3, AsmAt
  <2>5. Head(req[r].todo).k = k  BY <1>1 DEF At
  <2>6. At(r, "done")' => k = "endsession"  BY <2>2, <2>4, <2>5 DEF CloseStage, At, Active
  <2>7. Ends(req'[r].todo, ReadKinds) \/ Ends(req'[r].todo, CloseKinds)  BY <2>2, <2>4 DEF CloseStage
  <2>8. Complete(r, u) /\ req'[r].resp # "ok"  BY <2>2, <2>4, AsmFacts DEF Closes
  <2> QED BY <1>1, <2>6, <2>7, <2>8, AsmGoesOn
<1> QED BY <1>1, <1>2, <1>3

LEMMA NotEmpty == ASSUME NEW s, IsSeq(s), Len(s) # 0 PROVE s # <<>>
<1> SUFFICES ASSUME s = <<>> PROVE FALSE
  OBVIOUS
<1>1. s \in Seq(Range(s))  BY DEF IsSeq
<1>2. Len(s) = 0  BY <1>1, SMT
<1> QED BY <1>2

LEMMA OneAfterOne ==
    ASSUME NEW x, NEW y
    PROVE  LET m == <<x>> \o <<y>> IN IsSeq(m) /\ m # <<>> /\ Len(m) = 2 /\ m[1] = x /\ m[2] = y
<1>1. PICK a, b : a = <<x>> /\ b = <<y>>  OBVIOUS
<1>2. IsSeq(a) /\ IsSeq(b) /\ Len(a) = 1 /\ Len(b) = 1 /\ a[1] = x /\ b[1] = y  BY <1>1, Tuples
<1>3. /\ IsSeq(a \o b) /\ Len(a \o b) = Len(a) + Len(b)
      /\ \A i \in 1..Len(a) : (a \o b)[i] = a[i]
      /\ \A i \in 1..Len(b) : (a \o b)[Len(a) + i] = b[i]
      /\ \A i \in 1..Len(a \o b) : \/ i \in 1..Len(a) /\ (a \o b)[i] = a[i]
                                   \/ i - Len(a) \in 1..Len(b) /\ (a \o b)[i] = b[i - Len(a)]
  BY ONLY <1>2, Joined
<1>4. PICK m : m = a \o b  OBVIOUS
<1>5. IsSeq(m) /\ Len(m) = 2 /\ m[1] = x /\ m[2] = y  BY <1>2, <1>3, <1>4
<1>6. m # <<>>  BY <1>5, SeqFacts
<1> QED BY <1>1, <1>4, <1>5, <1>6

LEMMA AsmOpened ==
    ASSUME NEW r, NEW u, Turn(r, u), req[r].op.kind = "assemble", AssembleSession(r)
    PROVE  AsmPhase(r, u)'
<1>1. /\ r \in Reqs /\ Up(r) = u /\ req[r].resp # "ok" /\ DOMAIN loc = Reqs /\ DOMAIN loc[r] = DOMAIN NoLoc
      /\ DOMAIN req[r] = DOMAIN Idle
  BY AsmFacts, TurnFacts
<1>2. At(r, "assemble") /\ UNCHANGED sessions  BY DEF AssembleSession, KeepUpload, uvars
<1>3. Begins(r) /\ Tail(req[r].todo) = <<>>  BY <1>2, AsmAt
<1>4. CASE ~HasSession(u)
  <2>1. Fail(r, "404")  BY <1>1, <1>4 DEF AssembleSession
  <2>2. PICK st : st = "404"  OBVIOUS
  <2>3. Fails(r)  BY <2>1, <2>2, RefusedWith
  <2> QED BY <2>3, AsmRefused
<1>5. CASE HasSession(u)
  <2>1. PICK g : g = sessions[u].gen  OBVIOUS
  <2>2. PICK more : more = (IF req[r].op.known THEN <<Do("total")>> ELSE <<>>) \o <<Do("parts")>>  OBVIOUS
  <2>3. PICK l : l = req[r]  OBVIOUS
  <2>4. loc' = [loc EXCEPT ![r].gen = g] /\ Advance(r, more, l)
    BY <1>1, <1>5, <2>1, <2>2, <2>3 DEF AssembleSession
  <2>6. PICK K : K = <<"total", "parts">>  OBVIOUS
  <2>7. Len(K) = 2 /\ K[1] = "total" /\ K[2] = "parts"  BY <2>6
  <2>8. Ends(more, K) /\ IsSeq(more) /\ more # <<>>
    <3>1. CASE req[r].op.known
      <4>1. PICK x, y : x = Do("total") /\ y = Do("parts")  OBVIOUS
      <4>2. more = <<x>> \o <<y>> /\ x.k = "total" /\ y.k = "parts"  BY <2>2, <3>1, <4>1 DEF Do, Step
      <4>3. IsSeq(more) /\ more # <<>> /\ Len(more) = 2 /\ more[1].k = "total" /\ more[2].k = "parts"
        BY <4>2, OneAfterOne
      <4>4. \A i \in 1..2 : more[i].k = K[2 - 2 + i]  BY <2>7, <4>3
      <4> QED BY <2>7, <4>3, <4>4 DEF Ends
    <3>2. CASE ~req[r].op.known
      <4>1. more = <<>> \o <<Do("parts")>>  BY <2>2, <3>2
      <4>2. <<>> \o <<Do("parts")>> = <<Do("parts")>>  OBVIOUS
      <4>3. more = <<Do("parts")>>  BY <4>1, <4>2
      <4>4. IsSeq(more) /\ Len(more) = 1 /\ more[1].k = "parts"  BY <4>3, Tuples DEF Do, Step
      <4>5. \A i \in 1..1 : more[i].k = K[2 - 1 + i]  BY <2>7, <4>4
      <4>6. more # <<>>  BY <4>4, NotEmpty
      <4> QED BY <2>7, <4>4, <4>5, <4>6 DEF Ends
    <3> QED BY <3>1, <3>2
  <2>9. req'[r].todo = more \o Tail(req[r].todo) /\ req'[r].resp = l.resp
    BY <1>1, <2>3, <2>4, <2>8, GoesOn
  <2>10. req'[r].todo = more  BY <1>3, <2>8, <2>9, NothingAfter
  <2>11. loc'[r].gen = g /\ loc'[r].data = loc[r].data
    <3>1. DOMAIN NoLoc = {"gen", "ino", "data", "results", "status"}  BY DEF NoLoc
    <3> QED BY <1>1, <2>4, <3>1
  <2>12. Live(r, u)'  BY <1>2, <1>5, <2>1, <2>11 DEF Live, HasSession
  <2>13. Prepares(r, u)'  BY <1>3, <2>6, <2>8, <2>10, <2>11, <2>12 DEF Prepares, Begins
  <2>14. req'[r].resp # "ok"  BY <1>1, <2>3, <2>9
  <2> QED BY <2>13, <2>14 DEF AsmPhase, Acked
<1> QED BY <1>4, <1>5

LEMMA LiveStays ==
    ASSUME NEW r, NEW u, Live(r, u), UNCHANGED sessions, loc'[r].gen = loc[r].gen
    PROVE  Live(r, u)'
BY DEF Live, HasSession

LEMMA AsmTotalled ==
    ASSUME NEW r, NEW u, Turn(r, u), req[r].op.kind = "assemble", AssembleTotal(r)
    PROVE  AsmPhase(r, u)'
<1>1. At(r, "total") /\ UNCHANGED <<sessions, loc>>  BY DEF AssembleTotal
<1>2. Prepares(r, u) /\ Ends(Tail(req[r].todo), <<"total", "parts">>)  BY <1>1, AsmAt
<1>3. Next1(r) \/ Fail(r, "400")  BY DEF AssembleTotal
<1>4. CASE Fail(r, "400")
  <2>1. PICK st : st = "400"  OBVIOUS
  <2>2. Fails(r)  BY <1>4, <2>1, RefusedWith
  <2> QED BY <2>2, AsmRefused
<1>5. CASE Next1(r)
  <2>1. req'[r].todo = Tail(req[r].todo) /\ req'[r].resp = req[r].resp  BY <1>5, GoesBy
  <2>2. Live(r, u)'  BY <1>1, <1>2, LiveStays DEF Prepares
  <2>3. Prepares(r, u)'  BY <1>1, <1>2, <2>1, <2>2 DEF Prepares
  <2>4. req'[r].resp # "ok"  BY <2>1, AsmFacts
  <2> QED BY <2>3, <2>4 DEF AsmPhase, Acked
<1> QED BY <1>3, <1>4, <1>5

(* To read part j + 1 next, of a live session.                             *)
LEMMA ReadsOn ==
    ASSUME NEW r, NEW u, Turn(r, u), req[r].op.kind = "assemble", Live(r, u)', NEW g, g = loc'[r].gen,
           NEW j \in Nat, Reading(req'[r].todo, Sorted(Sent(u, g)), j), Prefix(Parts(u, g), j, loc'[r].data),
           req'[r].resp # "ok"
    PROVE  AsmPhase(r, u)'
<1>1. PICK ids, L : ids = Sorted(Sent(u, g)) /\ L = Parts(u, g)  OBVIOUS
<1>2. Arrived /\ plan \in Plans /\ PutsRest(u, g)  BY AsmFacts
<1>3. Sent(u, g)' = Sent(u, g) /\ Parts(u, g)' = Parts(u, g)  BY <1>2, RestKeeps
<1>4. \A n : PutsOf(u, loc[r].gen, n)' = PutsOf(u, g, n)'  BY DEF PutsOf, InGen
<1>5. Sent(u, loc[r].gen)' = Sent(u, g)'  BY <1>4 DEF Sent
<1>6. Parts(u, loc[r].gen)' = Parts(u, g)'  BY <1>4, <1>5 DEF Parts, LastOf
<1>7. Sorted(Sent(u, loc[r].gen)') = ids /\ Parts(u, loc[r].gen)' = L  BY <1>1, <1>3, <1>5, <1>6
<1>8. Reading(req'[r].todo, ids, j) /\ Prefix(L, j, loc'[r].data)  BY <1>1
<1>9. Reads(r, u)'  BY <1>7, <1>8, Zenon DEF Reads
<1> QED BY <1>9 DEF AsmPhase, Acked

LEMMA AsmListed ==
    ASSUME NEW r, NEW u, Turn(r, u), req[r].op.kind = "assemble", AssembleParts(r)
    PROVE  AsmPhase(r, u)'
<1>1. At(r, "parts") /\ UNCHANGED <<sessions, loc>>  BY DEF AssembleParts, KeepUpload, uvars
<1>2. Prepares(r, u) /\ Tail(req[r].todo) = <<>>  BY <1>1, AsmAt
<1>3. /\ r \in Reqs /\ Up(r) = u /\ req[r].resp # "ok" /\ DOMAIN req[r] = DOMAIN Idle /\ Slot(u)
  BY AsmFacts, TurnFacts DEF Turn, Exact
<1>4. PICK g : g = loc[r].gen  OBVIOUS
<1>5. HasSession(u) /\ g = sessions[u].gen /\ loc[r].data = <<>>  BY <1>2, <1>4 DEF Prepares, Live
<1>6. DOMAIN sessions[u].chunks = Sent(u, g)  BY <1>3, <1>5 DEF Slot
<1>7. PICK ids : ids = Sorted(Sent(u, g))  OBVIOUS
<1>8. get_sorted_part_ids(u) = ids  BY <1>5, <1>6, <1>7 DEF get_sorted_part_ids
<1>9. IsSeq(ids)  BY <1>7, SentFacts
<1>10. PICK a : a = [i \in 1..Len(ids) |-> Step("read", Root, Root, ids[i], {})]  OBVIOUS
<1>11. (ids = <<>> /\ Fail(r, "400")) \/ (ids # <<>> /\ Advance(r, a \o AfterReads, req[r]))
  BY <1>3, <1>8, <1>10, Zenon DEF AssembleParts, AfterReads
<1>12. CASE Fail(r, "400")
  <2>1. PICK st : st = "400"  OBVIOUS
  <2>2. Fails(r)  BY <1>12, <2>1, RefusedWith
  <2> QED BY <2>2, AsmRefused
<1>13. CASE ids # <<>> /\ Advance(r, a \o AfterReads, req[r])
  <2>1. IsSeq(a) /\ Len(a) = Len(ids) /\ Len(ids) \in Nat
    <3>1. PICK op : op = req[r].op  OBVIOUS
    <3>2. op.kind = "assemble"  BY <3>1
    <3> QED BY <1>9, <1>10, <3>2, ReadsFit, SeqFacts
  <2>2. \A i \in 1..Len(ids) : a[i].k = "read" /\ a[i].n = ids[i]  BY <1>10 DEF Step
  <2>3. IsSeq(AfterReads)
    <3>1. PICK op : op = req[r].op  OBVIOUS
    <3>2. op.kind = "assemble"  BY <3>1
    <3> QED BY <3>2, AfterReadsFit
  <2>4. Len(AfterReads) = 5 /\ \A i \in 1..5 : AfterReads[i].k = ReadKinds[i]
    BY DEF AfterReads, ReadKinds, Do, Step
  <2>5. PICK t : t = a \o AfterReads  OBVIOUS
  <2>6. /\ IsSeq(t) /\ Len(t) = Len(ids) + 5
        /\ \A i \in 1..Len(ids) : t[i] = a[i]
        /\ \A i \in 1..5 : t[Len(ids) + i] = AfterReads[i]
    <3>1. PICK b : b = AfterReads  OBVIOUS
    <3>2. t = a \o b /\ IsSeq(b) /\ Len(b) = 5  BY <2>3, <2>4, <2>5, <3>1
    <3>3. /\ IsSeq(a \o b) /\ Len(a \o b) = Len(a) + Len(b)
          /\ \A i \in 1..Len(a) : (a \o b)[i] = a[i]
          /\ \A i \in 1..Len(b) : (a \o b)[Len(a) + i] = b[i]
          /\ \A i \in 1..Len(a \o b) : \/ i \in 1..Len(a) /\ (a \o b)[i] = a[i]
                                       \/ i - Len(a) \in 1..Len(b) /\ (a \o b)[i] = b[i - Len(a)]
      <4>1. IsSeq(a) /\ IsSeq(b)  BY <2>1, <3>2
      <4> QED BY ONLY <4>1, Joined
    <3> QED BY <2>1, <3>1, <3>2, <3>3
  <2>7. Reading(t, ids, 0)
    <3>1. Len(ids) - 0 = Len(ids) /\ 0 \in 0..Len(ids)  BY <2>1
    <3>2. \A i \in 1..(Len(ids) - 0) : t[i].k = "read" /\ t[i].n = ids[0 + i]  BY <2>1, <2>2, <2>6, <3>1
    <3>3. \A i \in 1..5 : t[Len(ids) - 0 + i].k = ReadKinds[i]  BY <2>4, <2>6, <3>1
    <3>4. Len(t) = Len(ids) - 0 + 5  BY <2>6, <3>1
    <3> QED BY <1>13, <3>1, <3>2, <3>3, <3>4 DEF Reading
  <2>8. PICK l : l = req[r]  OBVIOUS
  <2>9. DOMAIN l = DOMAIN Idle /\ Advance(r, t, l)  BY <1>3, <1>13, <2>5, <2>8
  <2>10. req'[r].todo = t \o Tail(req[r].todo) /\ req'[r].resp = l.resp  BY <2>6, <2>9, GoesOn
  <2>11. req'[r].todo = t  BY <1>2, <2>6, <2>10, NothingAfter
  <2>12. Live(r, u)'  BY <1>1, <1>2, LiveStays DEF Prepares
  <2>13. Prefix(Parts(u, g), 0, loc'[r].data)
    <3>1. PICK L : L = Parts(u, g)  OBVIOUS
    <3>2. Prefix(L, 0, <<>>)  BY PrefixNone
    <3>3. loc'[r].data = <<>>  BY <1>1, <1>5
    <3> QED BY <3>1, <3>2, <3>3
  <2>14. g = loc'[r].gen /\ req'[r].resp # "ok"  BY <1>1, <1>3, <1>4, <2>8, <2>10
  <2>15. Reading(req'[r].todo, Sorted(Sent(u, g)), 0)  BY <1>7, <2>7, <2>11
  <2> QED BY <2>12, <2>13, <2>14, <2>15, ReadsOn
<1> QED BY <1>11, <1>12, <1>13

(* AssembleRead: the next part, as its last PUT has written it.            *)
LEMMA AsmReads ==
    ASSUME NEW r, NEW u, Turn(r, u), req[r].op.kind = "assemble", AssembleRead(r)
    PROVE  AsmPhase(r, u)'
<1>1. At(r, "read") /\ UNCHANGED sessions  BY DEF AssembleRead, KeepUpload, uvars
<1>2. Reads(r, u) /\ ~Closes(r, u)  BY <1>1, AsmAt
<1>3. /\ r \in Reqs /\ Up(r) = u /\ req[r].resp # "ok" /\ DOMAIN req[r] = DOMAIN Idle /\ Slot(u)
      /\ DOMAIN loc = Reqs /\ DOMAIN loc[r] = DOMAIN NoLoc /\ Arrived /\ plan \in Plans
      /\ IsSeq(req[r].todo) /\ req[r].todo # <<>> /\ \A s \in Reqs : IsPut(s, u) => ~Active(s)
  BY AsmFacts, TurnFacts DEF Turn, Exact
<1>4. PICK t, g, d : t = req[r].todo /\ g = loc[r].gen /\ d = loc[r].data  OBVIOUS
<1>5. PICK ids, L : ids = Sorted(Sent(u, g)) /\ L = Parts(u, g)  OBVIOUS
<1>6. PICK j \in Nat : Reading(t, ids, j) /\ j < Len(ids) /\ Prefix(L, j, d)
  BY <1>2, <1>4, <1>5, ReadsHead
<1>7. HasSession(u) /\ g = sessions[u].gen  BY <1>2, <1>4 DEF Reads, Live
<1>8. Len(ids) \in Nat /\ Len(ids) = Cardinality(Sent(u, g))  BY <1>5, SentFacts
<1>9. j + 1 \in 1..Len(ids)  BY <1>6, <1>8
<1>10. Len(t) = Len(ids) - j + 5 /\ \A i \in 1..(Len(ids) - j) : t[i].k = "read" /\ t[i].n = ids[j + i]
  BY <1>6 DEF Reading
<1>11. /\ IsSeq(Tail(t)) /\ Len(Tail(t)) = Len(t) - 1 /\ Head(t) = t[1]
       /\ \A i \in 1..Len(Tail(t)) : i + 1 \in 1..Len(t) /\ Tail(t)[i] = t[i + 1]
  BY <1>3, <1>4, Rest
<1>12. Arg(r).n = ids[j + 1]
  <2>1. 1 \in 1..(Len(ids) - j)  BY <1>6, <1>8
  <2>2. t[1].n = ids[j + 1]  BY <1>10, <2>1
  <2> QED BY <1>4, <1>11, <2>2 DEF Arg
<1>13. PICK n, files : n = ids[j + 1] /\ files = ChunkFiles(u)  OBVIOUS
<1>14. n \in Sent(u, g) /\ L[j + 1] = LastOf(u, g, n)
  BY <1>3, <1>5, <1>8, <1>9, <1>13, SentFacts, PartsFit
<1>15. CASE n \notin DOMAIN files
  <2>1. Fail(r, "500")  BY <1>3, <1>12, <1>13, <1>15 DEF AssembleRead
  <2>2. PICK st : st = "500"  OBVIOUS
  <2>3. Fails(r)  BY <2>1, <2>2, RefusedWith
  <2> QED BY <2>3, AsmRefused
<1>16. CASE n \in DOMAIN files
  <2>1. PICK x : x = files[n].data  OBVIOUS
  <2>2. loc' = [loc EXCEPT ![r].data = @ \o x] /\ Next1(r)
    BY <1>3, <1>12, <1>13, <1>16, <2>1 DEF AssembleRead
  <2>3. x = L[j + 1]
    <3>1. Written(n, u)  BY <1>3, <1>13, <1>16 DEF Written, At
    <3>2. \A m \in Sent(u, g) : Written(m, u) => ChunkFiles(u)[m].data = LastOf(u, g, m)
      BY <1>3, <1>7 DEF Slot
    <3> QED BY <1>13, <1>14, <2>1, <3>1, <3>2
  <2>4. loc'[r].gen = g /\ loc'[r].data = d \o x
    <3>1. DOMAIN NoLoc = {"gen", "ino", "data", "results", "status"}  BY DEF NoLoc
    <3> QED BY <1>3, <1>4, <2>2, <3>1
  <2>5. Prefix(L, j + 1, d \o L[j + 1])  BY <1>6, PrefixMore
  <2>6. req'[r].todo = Tail(t) /\ req'[r].resp = req[r].resp  BY <1>4, <2>2, GoesBy
  <2>7. PICK v : v = Tail(t)  OBVIOUS
  <2>8. Reading(v, ids, j + 1)
    <3>1. Len(v) = Len(ids) - (j + 1) + 5 /\ j + 1 \in 0..Len(ids)
      BY <1>8, <1>9, <1>10, <1>11, <2>7
    <3>2. \A i \in 1..Len(v) : v[i] = t[i + 1]  BY <1>11, <2>7
    <3>3. ASSUME NEW i \in 1..(Len(ids) - (j + 1)) PROVE v[i].k = "read" /\ v[i].n = ids[j + 1 + i]
      <4>1. i \in 1..Len(v) /\ i + 1 \in 1..(Len(ids) - j) /\ j + (i + 1) = j + 1 + i
        BY <1>8, <1>9, <3>1
      <4>2. v[i] = t[i + 1] /\ t[i + 1].k = "read" /\ t[i + 1].n = ids[j + (i + 1)]
        BY <1>10, <3>2, <4>1
      <4> QED BY <4>1, <4>2
    <3>4. ASSUME NEW i \in 1..5 PROVE v[Len(ids) - (j + 1) + i].k = ReadKinds[i]
      <4>1. Len(ids) - (j + 1) + i \in 1..Len(v) /\ Len(ids) - (j + 1) + i + 1 = Len(ids) - j + i
        <5>1. PICK N, M : N = Len(ids) /\ M = Len(v)  OBVIOUS
        <5>2. N \in Nat /\ j \in 0..N /\ j # N /\ M = N - (j + 1) + 5  BY <1>8, <1>9, <3>1, <5>1
        <5>3. N - (j + 1) + i \in 1..M /\ N - (j + 1) + i + 1 = N - j + i
          <6>1. N - (j + 1) \in Nat  BY <3>1, <5>1, <5>2
          <6>2. PICK q \in Nat : q = N - (j + 1)  BY <6>1
          <6>3. q + i \in 1..(q + 5)  BY <6>2
          <6>4. j \in Int /\ i \in Int /\ N \in Int  BY <5>2
          <6> QED BY <5>2, <6>2, <6>3, <6>4
        <5> QED BY <5>1, <5>3
      <4>2. t[Len(ids) - j + i].k = ReadKinds[i]  BY <1>6 DEF Reading
      <4>3. PICK m : m = Len(ids) - (j + 1) + i  OBVIOUS
      <4>4. v[m] = t[m + 1] /\ m + 1 = Len(ids) - j + i  BY <3>2, <4>1, <4>3
      <4> QED BY <4>2, <4>3, <4>4
    <3>5. ids # <<>>  BY <1>6 DEF Reading
    <3> QED BY <3>1, <3>3, <3>4, <3>5 DEF Reading
  <2>9. Live(r, u)'
    <3>1. Live(r, u)  BY <1>2 DEF Reads
    <3> QED BY <1>1, <1>4, <2>4, <3>1, LiveStays
  <2>10. PICK i : i = j + 1 /\ i \in Nat  OBVIOUS
  <2>11. Reading(req'[r].todo, Sorted(Sent(u, g)), i)  BY <1>5, <2>6, <2>7, <2>8, <2>10
  <2>12. Prefix(Parts(u, g), i, loc'[r].data)
    <3>1. PICK e : e = d \o L[j + 1]  OBVIOUS
    <3>2. Prefix(L, i, e) /\ loc'[r].data = e  BY <2>3, <2>4, <2>5, <2>10, <3>1
    <3> QED BY <1>5, <3>2
  <2>13. req'[r].resp # "ok" /\ g = loc'[r].gen  BY <1>3, <2>4, <2>6
  <2> QED BY <2>9, <2>10, <2>11, <2>12, <2>13, ReadsOn
<1> QED BY <1>15, <1>16

LEMMA AsmStored ==
    ASSUME NEW r, NEW u, Turn(r, u), req[r].op.kind = "assemble", AssembleRow(r)
    PROVE  AsmPhase(r, u)'
<1>1. At(r, "asmrow") /\ UNCHANGED loc  BY DEF AssembleRow
<1>2. Closes(r, u) /\ CloseStage(req[r].todo)
  <2>1. PICK k : k = "asmrow"  OBVIOUS
  <2>2. At(r, k) /\ k \notin {"assemble", "total", "parts", "read"}  BY <1>1, <2>1
  <2> QED BY <2>2, AsmAt
<1>3. Tail(req[r].todo) = <<>>  BY <1>1, <1>2 DEF CloseStage, At
<1>4. req[r].resp # "ok" /\ DOMAIN req[r] = DOMAIN Idle /\ Complete(r, u)
  BY <1>2, AsmFacts, TurnFacts DEF Closes
<1>5. Fail(r, "500") \/ \E n, l : l.resp = req[r].resp /\ DOMAIN l = DOMAIN Idle /\ Advance(r, AfterAssembly(r, n), l)
  <2>1. PICK n, l : n = Len(loc[r].data) /\ l = req[r]  OBVIOUS
  <2>2. PICK i, q : i = nextId /\ q = [req[r] EXCEPT !.fid = i]  OBVIOUS
  <2>3. \/ Fail(r, "500") \/ Advance(r, AfterAssembly(r, n), l) \/ Advance(r, AfterAssembly(r, n), q)
    BY <2>1, <2>2, Zenon DEF AssembleRow
  <2>4. DOMAIN q = DOMAIN Idle /\ q.resp = req[r].resp
    <3>1. "resp" \in DOMAIN Idle  BY DEF Idle
    <3> QED BY <1>4, <2>2, <3>1
  <2> QED BY <1>4, <2>1, <2>3, <2>4
<1>6. CASE Fail(r, "500")
  <2>1. PICK st : st = "500"  OBVIOUS
  <2>2. Fails(r)  BY <1>6, <2>1, RefusedWith
  <2> QED BY <2>2, AsmRefused
<1>7. ASSUME NEW n, NEW l, l.resp = req[r].resp, DOMAIN l = DOMAIN Idle, Advance(r, AfterAssembly(r, n), l)
      PROVE  AsmPhase(r, u)'
  <2>1. PICK more : more = AfterAssembly(r, n)  OBVIOUS
  <2>2. /\ IsSeq(more) /\ Len(more) = 7
        /\ \A i \in 1..7 : more[i].k = CloseKinds[i]
    <3>1. /\ Len(AfterAssembly(r, n)) = 7
          /\ \A i \in 1..7 : AfterAssembly(r, n)[i].k = CloseKinds[i]
      BY DEF AfterAssembly, CloseKinds, Do, DoAt, Prop, Step
    <3>2. IsSeq(AfterAssembly(r, n))
      <4>1. r \in Reqs /\ WellFormed  BY TurnFacts DEF Turn
      <4>2. IsSeq(req[r].op.to)  BY <4>1 DEF WellFormed, RequestFits, OpFits
      <4> QED BY <4>2, AfterAssemblyFits DEF TodoFits
    <3> QED BY <2>1, <3>1, <3>2
  <2>3. req'[r].todo = more \o Tail(req[r].todo) /\ req'[r].resp = l.resp
    BY <1>7, <2>1, <2>2, GoesOn
  <2>4. req'[r].todo = more  BY <1>3, <2>2, <2>3, NothingAfter
  <2>5. Ends(more, CloseKinds)
    <3>1. PICK K : K = CloseKinds  OBVIOUS
    <3>2. Len(K) = 7  BY <3>1 DEF CloseKinds
    <3>3. ASSUME NEW i \in 1..7 PROVE more[i].k = K[Len(K) - Len(more) + i]
      <4>1. Len(K) - Len(more) + i = i  BY <2>2, <3>2
      <4> QED BY <2>2, <3>1, <4>1
    <3> QED BY <2>2, <3>1, <3>2, <3>3 DEF Ends
  <2>6. ~At(r, "done")'
    <3>1. more[1].k = "lazy" /\ Head(more) = more[1]
      <4>1. CloseKinds[1] = "lazy"  BY DEF CloseKinds
      <4>2. Len(more) # 0  BY <2>2
      <4>3. more # <<>>  BY <2>2, <4>2, NotEmpty
      <4>4. Head(more) = more[1]  BY <2>2, <4>3, Rest
      <4> QED BY <2>2, <4>1, <4>4
    <3> QED BY <2>4, <3>1 DEF At
  <2> QED BY <1>1, <1>4, <1>7, <2>3, <2>4, <2>5, <2>6, AsmGoesOn
<1> QED BY <1>5, <1>6, <1>7

(* The answer: nothing belongs to the assembled session any more.          *)
LEMMA AsmAnswered ==
    ASSUME NEW r, NEW u, Turn(r, u), req[r].op.kind = "assemble", Respond(r), UNCHANGED <<uvars, loc>>
    PROVE  AsmPhase(r, u)'
<1>1. At(r, "done") /\ UNCHANGED <<sessions, loc>>  BY DEF Respond, uvars
<1>2. Closes(r, u) /\ CloseStage(req[r].todo)
  <2>1. PICK k : k = "done"  OBVIOUS
  <2>2. At(r, k) /\ k \notin {"assemble", "total", "parts", "read"}  BY <1>1, <2>1
  <2> QED BY <2>2, AsmAt
<1>3. Tail(req[r].todo) = <<>> /\ ~HasSession(u)  BY <1>1, <1>2 DEF CloseStage, Closes, At
<1>4. PICK l : l = [req[r] EXCEPT !.resp = "ok"]  OBVIOUS
<1>5. Advance(r, <<>>, l) /\ DOMAIN l = DOMAIN Idle
  <2>1. DOMAIN req[r] = DOMAIN Idle  BY TurnFacts
  <2> QED BY <1>4, <2>1 DEF Respond
<1>6. req'[r].todo = <<>>  BY <1>3, <1>5, GoesOnPlain
<1>7. ~Active(r)'  BY <1>6 DEF Active
<1>8. ~HasSession(u)'  BY <1>1, <1>3 DEF HasSession
<1>9. PICK g : g = loc[r].gen  OBVIOUS
<1>10. Complete(r, u)'
  <2>1. Complete(r, u) /\ loc'[r] = loc[r]  BY <1>1, <1>2 DEF Closes
  <2> QED BY <1>9, <2>1, AsmFacts, CompleteKept
<1> QED BY <1>7, <1>8, <1>10 DEF AsmPhase, Live

LEMMA AsmTurn ==
    ASSUME NEW r, NEW u, Turn(r, u), req[r].op.kind = "assemble"
    PROVE  AsmPhase(r, u)'
BY AsmActions, AsmOpened, AsmTotalled, AsmListed, AsmReads, AsmStored, AsmAnswered, AsmPlainly

LEMMA OwnTurn ==
    ASSUME NEW r, NEW u, Turn(r, u)
    PROVE  Exact(u)'
<1>1. Slot(u)'  BY SlotTurn
<1>2. r \in Reqs /\ req'[r].op = req[r].op  BY TurnFacts DEF Turn
<1>3. ASSUME NEW s \in Reqs, IsPut(s, u)' PROVE PutPhase(s, u)'
  <2>1. CASE s = r
    <3>1. req[r].op.kind = "putchunk"  BY <1>2, <1>3, <2>1 DEF IsPut
    <3> QED BY <2>1, <3>1, PutTurn
  <2>2. CASE s # r  BY <1>3, <2>2, PutsOfOthers
  <2> QED BY <2>1, <2>2
<1>4. ASSUME NEW s \in Reqs, OfUp(s, u)', req'[s].op.kind = "assemble" PROVE AsmPhase(s, u)'
  <2>1. CASE s = r
    <3>1. req[r].op.kind = "assemble"  BY <1>2, <1>4, <2>1
    <3> QED BY <2>1, <3>1, AsmTurn
  <2>2. CASE s # r  BY <1>4, <2>2, EndedAsm
  <2> QED BY <2>1, <2>2
<1> QED BY <1>1, <1>3, <1>4 DEF Exact
-----------------------------------------------------------------------------
(* A request arrives.                                                      *)
LEMMA FirstEnds ==
    ASSUME NEW k, NEW K, K = <<k>>, NEW d, d = Do(k), NEW t, t = <<>> \/ t = <<d>>
    PROVE  Ends(t, K) /\ (t # <<>> => Head(t).k = k)
<1>1. Len(K) = 1 /\ K[1] = k /\ d.k = k  BY Tuples DEF Do, Step
<1>2. CASE t = <<>>
  <2>1. Ends(<<>>, K)  BY <1>1, NothingEnds
  <2> QED BY <1>2, <2>1
<1>3. CASE t = <<d>>
  <2>1. Ends(<<d>>, K)  BY <1>1, LastEnds
  <2>2. Head(<<d>>) = d  OBVIOUS
  <2>3. Ends(t, K)  BY <1>3, <2>1
  <2>4. Head(t) = d  BY <1>3, <2>2
  <2> QED BY <1>1, <2>3, <2>4
<1> QED BY <1>2, <1>3

LEMMA OthersArrive ==
    ASSUME OrphanInv, Arrived, Gens, NEW r \in 1..Len(plan), NEW op \in plan[r], StartUpload(r, op),
           NEW u, ~OfUp(r, u)', Exact(u)
    PROVE  Exact(u)'
<1>1. /\ r \in Reqs /\ \A s \in Reqs : s # r => req'[s] = req[s]
      /\ req[r] = Idle /\ UNCHANGED <<sessions, chunkdir, loc>> /\ plan \in Plans
  BY StartFacts DEF OrphanInv
<1>2. ~OfUp(r, u)  BY <1>1, IdleFits DEF OfUp
<1>3. Same(u)
  <2> SUFFICES ASSUME NEW s \in Reqs
               PROVE  /\ OfUp(s, u)' <=> OfUp(s, u)
                      /\ OfUp(s, u) => req'[s] = req[s] /\ loc'[s] = loc[s]
    BY DEF Same
  <2>1. CASE s = r  BY <1>2, <2>1
  <2>2. CASE s # r
    <3>1. req'[s] = req[s] /\ loc'[s] = loc[s]  BY <1>1, <2>2
    <3> QED BY <3>1 DEF OfUp, Up
  <2> QED BY <2>1, <2>2
<1>4. /\ HasSession(u)' <=> HasSession(u)
      /\ HasSession(u) => sessions'[u] = sessions[u]
      /\ ChunkFiles(u)' = ChunkFiles(u)
  BY <1>1 DEF HasSession, HasDir, ChunkFiles
<1> QED BY <1>1, <1>3, <1>4, ViewKept

(* One of upload u finds no other of it running.                           *)
LEMMA OwnArrives ==
    ASSUME OrphanInv, Arrived, Gens, NEW r \in 1..Len(plan), NEW op \in plan[r], StartUpload(r, op),
           NEW u, OfUp(r, u)', Exact(u), Undisturbed(u)'
    PROVE  Exact(u)'
<1>1. /\ r \in Reqs /\ \A s \in Reqs : s # r => req'[s] = req[s]
      /\ req[r] = Idle /\ req'[r].op = op /\ plan \in Plans
      /\ UNCHANGED <<sessions, chunkdir, loc>>
      /\ op.kind \in UploadOps => /\ req'[r].todo = <<>> \/ req'[r].todo = <<Do(op.kind)>>
                                  /\ req'[r].resp # "ok"
      /\ op.kind \in UploadOps /\ RunningOf(Reqs, op.up) # {} => {r} \cup RunningOf(Reqs, op.up) \subseteq over'
  BY StartFacts DEF OrphanInv
<1>2. op.kind \in UploadOps /\ op.up = u  BY <1>1 DEF OfUp, Up
<1>3. ~OfUp(r, u) /\ loc[r] = NoLoc
  <2>1. ~Started(r)  BY <1>1, IdleNotStarted DEF Started
  <2> QED BY <1>1, <2>1, IdleFits DEF OfUp, Gens
<1>4. loc[r].gen = 0 /\ loc[r].data = <<>>  BY <1>3 DEF NoLoc
<1>5. ASSUME NEW s \in Reqs, s # r
      PROVE  /\ req'[s] = req[s] /\ loc'[s] = loc[s]
             /\ (OfUp(s, u)' <=> OfUp(s, u)) /\ (IsPut(s, u)' <=> IsPut(s, u))
  BY <1>1, <1>5 DEF IsPut, OfUp, Up
<1>6. \A s \in Reqs : OfUp(s, u) => ~Active(s)
  <2> SUFFICES ASSUME NEW s \in Reqs, OfUp(s, u), Active(s) PROVE FALSE
    OBVIOUS
  <2>1. s \in RunningOf(Reqs, op.up)  BY <1>2 DEF RunningOf, OfUp
  <2>2. s \in over'  BY <1>1, <1>2, <2>1
  <2>3. OfUp(s, u)'  BY <1>3, <1>5
  <2> QED BY <2>2, <2>3 DEF Undisturbed, OfUp
<1>7. ASSUME NEW g, g # 0 PROVE PutsRest(u, g)
  <2> SUFFICES ASSUME NEW s \in Reqs
               PROVE  (InGen(s, u, g)' <=> InGen(s, u, g)) /\ (InGen(s, u, g) => req'[s] = req[s])
    BY DEF PutsRest
  <2>1. CASE s = r
    <3>1. loc'[r].gen = 0  BY <1>1, <1>4
    <3>2. ~InGen(r, u, g) /\ ~InGen(r, u, g)'  BY <1>4, <1>7, <3>1 DEF InGen
    <3> QED BY <2>1, <3>2
  <2>2. CASE s # r  BY <1>5, <2>2 DEF InGen
  <2> QED BY <2>1, <2>2
<1>8. /\ HasSession(u)' <=> HasSession(u)
      /\ HasSession(u) => sessions'[u] = sessions[u]
      /\ ChunkFiles(u)' = ChunkFiles(u)
  BY <1>1 DEF HasSession, HasDir, ChunkFiles
<1>9. PICK t, k, K, d : t = req'[r].todo /\ k = op.kind /\ K = <<k>> /\ d = Do(k)  OBVIOUS
<1>10. Ends(t, K) /\ (t # <<>> => Head(t).k = k)
  <2>1. t = <<>> \/ t = <<d>>  BY <1>1, <1>2, <1>9
  <2> QED BY <1>9, <2>1, FirstEnds
<1>11. \A j : At(r, j)' => j = op.kind  BY <1>9, <1>10 DEF At, Active
<1>12. Slot(u)'
  <2>1. CASE HasSession(u)
    <3>1. PICK g : g = sessions[u].gen  OBVIOUS
    <3>2. g # 0  BY <2>1, <3>1 DEF Gens, HasSession
    <3>3. PutsRest(u, g)  BY <1>7, <3>2
    <3>4. \A s \in Reqs : InGen(s, u, g)' <=> InGen(s, u, g)  BY <3>3 DEF PutsRest
    <3>5. \A s \in Reqs : InGen(s, u, g) =>
               /\ req'[s].op = req[s].op
               /\ Acked(s, "putchunk") \/ Active(s) => Acked(s, "putchunk")' \/ Active(s)'
      BY <3>3 DEF PutsRest, Acked, Active
    <3>6. \A n : Written(n, u)' => Written(n, u) /\ ChunkFiles(u)'[n].data = ChunkFiles(u)[n].data
      BY <1>6, <1>8 DEF Written, IsPut, At
    <3>7. Slot(u) /\ sessions'[u] = sessions[u]  BY <1>8, <2>1 DEF Exact
    <3> QED BY <1>1, <2>1, <3>1, <3>4, <3>5, <3>6, <3>7, SlotKept
  <2>2. CASE ~HasSession(u)  BY <1>8, <2>2, NoSlot
  <2> QED BY <2>1, <2>2
<1>13. ASSUME NEW s \in Reqs, IsPut(s, u)' PROVE PutPhase(s, u)'
  <2>1. CASE s = r
    <3>1. op.kind = "putchunk"  BY <1>1, <1>13, <2>1 DEF IsPut
    <3>2. Ends(req'[r].todo, <<"putchunk">>)  BY <1>9, <1>10, <3>1
    <3>3. ~At(r, "chunkbody")' /\ ~At(r, "addchunk")'  BY <1>11, <3>1
    <3>4. loc'[r].gen = 0  BY <1>1, <1>4
    <3> QED BY <2>1, <3>2, <3>3, <3>4 DEF PutPhase
  <2>2. CASE s # r
    <3>1. IsPut(s, u) /\ req'[s] = req[s] /\ loc'[s] = loc[s]  BY <1>5, <1>13, <2>2
    <3>2. ~Active(s) /\ PutPhase(s, u)  BY <1>6, <3>1 DEF IsPut, Exact
    <3> QED BY <3>1, <3>2, PutKept
  <2> QED BY <2>1, <2>2
<1>14. ASSUME NEW s \in Reqs, OfUp(s, u)', req'[s].op.kind = "assemble" PROVE AsmPhase(s, u)'
  <2>1. CASE s = r
    <3>1. op.kind = "assemble"  BY <1>1, <1>14, <2>1
    <3>2. Ends(req'[r].todo, <<"assemble">>)  BY <1>9, <1>10, <3>1
    <3>3. loc'[r].data = <<>>  BY <1>1, <1>4
    <3>4. req'[r].resp # "ok"  BY <1>1, <1>2
    <3> QED BY <2>1, <3>2, <3>3, <3>4 DEF AsmPhase, Begins, Acked
  <2>2. CASE s # r
    <3>1. OfUp(s, u) /\ req'[s] = req[s] /\ loc'[s] = loc[s]  BY <1>5, <1>14, <2>2
    <3>2. ~Active(s) /\ AsmPhase(s, u)  BY <1>6, <1>14, <3>1 DEF Exact
    <3>3. PICK g : g = loc[s].gen  OBVIOUS
    <3>4. ASSUME Complete(s, u), ~Live(s, u) PROVE PutsRest(u, g) /\ ~Live(s, u)'
      <4>1. g # 0  BY <3>3, <3>4 DEF Complete
      <4>2. ~Live(s, u)'  BY <1>8, <3>1, <3>4 DEF Live
      <4> QED BY <1>7, <4>1, <4>2
    <3> QED BY <1>1, <3>1, <3>2, <3>3, <3>4, AsmAtRest
  <2> QED BY <2>1, <2>2
<1> QED BY <1>12, <1>13, <1>14 DEF Exact

(* The server restarts: the sessions are gone, and so are the requests     *)
(* that ran.                                                               *)
LEMMA ExactRestarts ==
    ASSUME OrphanInv, Arrived, Gens, Restart, NEW u, Exact(u)
    PROVE  Exact(u)'
<1>1. /\ DOMAIN sessions' = {} /\ UNCHANGED <<chunkdir, loc>> /\ plan \in Plans
      /\ \A s \in Reqs : /\ req'[s].op = req[s].op /\ ~Active(s)'
                         /\ Active(s) => req'[s].resp = "lost"
                         /\ ~Active(s) => req'[s] = req[s]
  BY RestartFacts DEF OrphanInv
<1>2. ~HasSession(u)'  BY <1>1 DEF HasSession
<1>3. \A s \in Reqs : (OfUp(s, u)' <=> OfUp(s, u)) /\ (IsPut(s, u)' <=> IsPut(s, u))
  BY <1>1 DEF IsPut, OfUp, Up
<1>4. \A s \in Reqs : \A k : ~At(s, k)'  BY <1>1 DEF At
<1>5. ASSUME NEW s \in Reqs, IsPut(s, u)' PROVE PutPhase(s, u)'
  <2>1. PICK K : K = <<"putchunk">>  OBVIOUS
  <2>2. Len(K) = 1  BY <2>1
  <2>3. req'[s].todo = <<>>  BY <1>1 DEF Active
  <2>4. Ends(req'[s].todo, K)  BY <2>2, <2>3, NothingEnds
  <2>5. Ends(req'[s].todo, <<"putchunk">>)  BY <2>1, <2>4
  <2> QED BY <1>1, <1>4, <2>5 DEF PutPhase
<1>6. ASSUME NEW r \in Reqs, OfUp(r, u)', req'[r].op.kind = "assemble" PROVE AsmPhase(r, u)'
  <2>1. CASE Active(r)
    <3>1. ~Acked(r, "assemble")' /\ ~Active(r)'  BY <1>1, <2>1 DEF Acked
    <3> QED BY <3>1 DEF AsmPhase
  <2>2. CASE ~Active(r)
    <3>1. req'[r] = req[r] /\ loc'[r] = loc[r] /\ AsmPhase(r, u)  BY <1>1, <1>3, <1>6, <2>2 DEF Exact
    <3>2. PICK g : g = loc[r].gen  OBVIOUS
    <3>3. ASSUME Complete(r, u) PROVE PutsRest(u, g) /\ ~Live(r, u)'
      <4>1. \A s \in Reqs : InGen(s, u, g) => ~Active(s)  BY <3>2, <3>3 DEF Complete, Settled
      <4>2. \A s \in Reqs : InGen(s, u, g)' <=> InGen(s, u, g)  BY <1>1, <1>3 DEF InGen
      <4>3. PutsRest(u, g)  BY <1>1, <4>1, <4>2 DEF PutsRest
      <4> QED BY <1>2, <4>3 DEF Live
    <3> QED BY <1>1, <2>2, <3>1, <3>2, <3>3, AsmAtRest
  <2> QED BY <2>1, <2>2
<1>7. Slot(u)'  BY <1>2, NoSlot
<1> QED BY <1>5, <1>6, <1>7 DEF Exact
-----------------------------------------------------------------------------
LEMMA ExactInit == UploadInit => ExactInv
<1> SUFFICES ASSUME UploadInit PROVE ExactInv
  OBVIOUS
<1>1. /\ req = [r \in Reqs |-> Idle] /\ loc = [r \in Reqs |-> NoLoc] /\ sessions = <<>>
      /\ nextEtag = Cardinality(DOMAIN InitFc) + 1
  BY DEF UploadInit, Init
<1>2. OrphanInv  BY OrphanInit
<1>3. \A s \in Reqs : req[s] = Idle /\ loc[s] = NoLoc /\ ~Started(s) /\ ~Active(s)
  BY <1>1, IdleFits, IdleNotStarted DEF Started, Active
<1>4. Arrived  BY <1>3 DEF Arrived
<1>5. nextEtag \in Nat /\ nextEtag # 0
  <2>1. DOMAIN InitFc = 1..Len(InitFc) /\ Len(InitFc) \in Nat  BY StorageAssumption, LenProperties
  <2>2. IsFiniteSet(DOMAIN InitFc)
    <3> DEFINE n == Len(InitFc)
    <3> HIDE DEF n
    <3>1. IsFiniteSet(1..n)  BY <2>1, FS_Interval DEF n
    <3> QED BY <2>1, <3>1 DEF n
  <2>3. Cardinality(DOMAIN InitFc) \in Nat  BY <2>2, FS_CardinalityType
  <2> QED BY <1>1, <2>3
<1>6. DOMAIN sessions = {}
  <2>1. DOMAIN <<>> = {}  BY Tuples, SeqFacts
  <2> QED BY <1>1, <2>1
<1>7. NoLoc.gen = 0  BY DEF NoLoc
<1>8. Gens  BY <1>1, <1>3, <1>5, <1>6, <1>7 DEF Gens
<1>9. ASSUME NEW u PROVE Exact(u)
  <2>1. \A s \in Reqs : ~OfUp(s, u)  BY <1>3, IdleFits DEF OfUp
  <2>2. Slot(u)  BY <1>6 DEF Slot, HasSession
  <2> QED BY <2>1, <2>2 DEF Exact, IsPut
<1> QED BY <1>2, <1>4, <1>8, <1>9 DEF ExactInv

LEMMA ExactStep ==
    ASSUME ExactInv, NEW r \in Reqs, AnyStep(r)
    PROVE  ExactInv'
<1>1. OrphanInv /\ Arrived /\ Gens /\ WellFormed  BY DEF ExactInv, OrphanInv
<1>2. Stands(r)  BY <1>1, StepFacts
<1>3. OrphanInv'  BY <1>1, OrphanStep
<1>4. Arrived'  BY <1>1, <1>2, ArrivedStep
<1>5. Gens'  BY <1>1, <1>2, GensStep
<1>6. over' = over /\ \A s \in Reqs : req'[s].op = req[s].op  BY <1>2 DEF Stands, RunsAlone
<1>7. ASSUME NEW u, Undisturbed(u)' PROVE Exact(u)'
  <2>1. Undisturbed(u)
    <3>1. over \subseteq over'  BY <1>6
    <3> QED BY <1>6, <1>7, <3>1, DisturbedStays
  <2>2. Exact(u)  BY <2>1 DEF ExactInv
  <2>3. CASE OfUp(r, u)
    <3>1. Turn(r, u)  BY <1>1, <2>1, <2>2, <2>3 DEF Turn
    <3> QED BY <3>1, OwnTurn
  <2>4. CASE ~OfUp(r, u)  BY <1>1, <2>2, <2>4, OthersKeep
  <2> QED BY <2>3, <2>4
<1> QED BY <1>3, <1>4, <1>5, <1>7 DEF ExactInv

LEMMA ExactStart ==
    ASSUME ExactInv, NEW r \in 1..Len(plan), NEW op \in plan[r], StartUpload(r, op)
    PROVE  ExactInv'
<1>1. OrphanInv /\ Arrived /\ Gens  BY DEF ExactInv
<1>2. OrphanInv'  BY <1>1, OrphanStart
<1>3. Arrived'  BY <1>1, ArrivedStart
<1>4. Gens'  BY <1>1, GensStart
<1>5. /\ req[r] = Idle /\ \A s \in Reqs : s # r => req'[s] = req[s]
      /\ over \subseteq over'
  BY <1>1, StartFacts
<1>6. ASSUME NEW u, Undisturbed(u)' PROVE Exact(u)'
  <2>1. Undisturbed(u)
    <3>1. \A s \in Reqs : req[s].op.kind \in UploadOps => req'[s].op = req[s].op
      BY <1>5, IdleFits
    <3> QED BY <1>5, <1>6, <3>1, DisturbedStays
  <2>2. Exact(u)  BY <2>1 DEF ExactInv
  <2>3. CASE OfUp(r, u)'  BY <1>1, <1>6, <2>2, <2>3, OwnArrives
  <2>4. CASE ~OfUp(r, u)'  BY <1>1, <2>2, <2>4, OthersArrive
  <2> QED BY <2>3, <2>4
<1> QED BY <1>2, <1>3, <1>4, <1>6 DEF ExactInv

LEMMA ExactRestart == ASSUME ExactInv, Restart PROVE ExactInv'
<1>1. OrphanInv /\ Arrived /\ Gens  BY DEF ExactInv
<1>2. OrphanInv'  BY <1>1, OrphanRestart
<1>3. Arrived'  BY <1>1, ArrivedRestart
<1>4. Gens'  BY <1>1, GensRestart
<1>5. over' = over /\ \A s \in Reqs : req'[s].op = req[s].op  BY <1>1, RestartFacts
<1>6. ASSUME NEW u, Undisturbed(u)' PROVE Exact(u)'
  <2>1. Undisturbed(u)
    <3>1. over \subseteq over'  BY <1>5
    <3> QED BY <1>5, <1>6, <3>1, DisturbedStays
  <2>2. Exact(u)  BY <2>1 DEF ExactInv
  <2> QED BY <1>1, <2>2, ExactRestarts
<1> QED BY <1>2, <1>3, <1>4, <1>6 DEF ExactInv

LEMMA ExactStutter == ASSUME ExactInv, UNCHANGED allvars PROVE ExactInv'
<1>1. OrphanInv /\ Arrived /\ Gens /\ plan \in Plans  BY DEF ExactInv, OrphanInv
<1>2. OrphanInv'  BY <1>1, OrphanNext
<1>3. UNCHANGED <<req, loc, plan, over, sessions, chunkdir, nextEtag>>  BY DEF allvars, vars, uvars
<1>4. Arrived'  BY <1>1, <1>3 DEF Arrived, Started, Active, OfUp, Up
<1>5. Gens'  BY <1>1, <1>3 DEF Gens, Started, Up
<1>6. ASSUME NEW u, Undisturbed(u)' PROVE Exact(u)'
  <2>1. Undisturbed(u)  BY <1>3, <1>6 DEF Undisturbed, Up
  <2>2. Exact(u)  BY <2>1 DEF ExactInv
  <2>3. Same(u)  BY <1>3 DEF Same, OfUp, Up
  <2>4. /\ HasSession(u)' <=> HasSession(u)
        /\ HasSession(u) => sessions'[u] = sessions[u]
        /\ ChunkFiles(u)' = ChunkFiles(u)
    BY <1>3 DEF HasSession, HasDir, ChunkFiles
  <2> QED BY <1>1, <2>2, <2>3, <2>4, ViewKept
<1> QED BY <1>2, <1>4, <1>5, <1>6 DEF ExactInv

LEMMA ExactNext == ExactInv /\ [UploadNext]_allvars => ExactInv'
<1> SUFFICES ASSUME ExactInv, [UploadNext]_allvars PROVE ExactInv'
  OBVIOUS
<1>1. ASSUME NEW r \in Reqs, AnyStep(r) PROVE ExactInv'
  BY <1>1, ExactStep
<1>2. ASSUME NEW r \in 1..Len(plan), NEW op \in plan[r], StartUpload(r, op) PROVE ExactInv'
  BY <1>2, ExactStart
<1>3. ASSUME Restart PROVE ExactInv'
  BY <1>3, ExactRestart
<1>4. ASSUME UNCHANGED allvars PROVE ExactInv'
  BY <1>4, ExactStutter
<1> QED BY <1>1, <1>2, <1>3, <1>4 DEF UploadNext, UploadFinished

LEMMA ExactImplies == ExactInv => AssemblyExact
<1> SUFFICES ASSUME ExactInv, NEW r \in Reqs, Acked(r, "assemble"), Undisturbed(Up(r))
             PROVE  loc[r].data = FlattenSeq([i \in 1..Cardinality(PartNames(loc[r].gen)) |->
                         PartBytes(loc[r].gen, Sorted(PartNames(loc[r].gen))[i])])
  BY DEF AssemblyExact
<1>1. PICK u, g : u = Up(r) /\ g = loc[r].gen  OBVIOUS
<1>2. req[r].op.kind = "assemble" /\ req[r].resp = "ok" /\ OfUp(r, u)
  BY <1>1 DEF Acked, OfUp, UploadOps
<1>3. AsmPhase(r, u)  BY <1>1, <1>2 DEF ExactInv, Exact
<1>4. Complete(r, u)  BY <1>2, <1>3 DEF AsmPhase
<1>5. g # 0 /\ Settled(u, g) /\ loc[r].data = FlattenSeq(Parts(u, g))  BY <1>1, <1>4 DEF Complete
<1>6. ASSUME NEW n PROVE Puts(g, n) = PutsOf(u, g, n)
  <2>1. ASSUME NEW s \in Reqs, Acked(s, "putchunk"), loc[s].gen = g PROVE InGen(s, u, g)
    <3>1. Up(s) = u  BY <1>1, <1>5, <2>1 DEF ExactInv, Gens
    <3> QED BY <2>1, <3>1 DEF InGen, IsPut, OfUp, Acked, UploadOps
  <2>2. ASSUME NEW s \in Reqs, InGen(s, u, g) PROVE Acked(s, "putchunk") /\ loc[s].gen = g
    BY <1>5, <2>2 DEF Settled, InGen
  <2> QED BY <2>1, <2>2, Zenon DEF Puts, PutsOf
<1>7. PartNames(g) = Sent(u, g)  BY <1>6 DEF PartNames, Sent
<1>8. ASSUME NEW n PROVE PartBytes(g, n) = LastOf(u, g, n)
  BY <1>6 DEF PartBytes, LastOf, Bytes
<1>9. [i \in 1..Cardinality(PartNames(g)) |-> PartBytes(g, Sorted(PartNames(g))[i])] = Parts(u, g)
  <2>1. PICK c, ids : c = Cardinality(Sent(u, g)) /\ ids = Sorted(Sent(u, g))  OBVIOUS
  <2>2. \A i \in 1..c : PartBytes(g, ids[i]) = LastOf(u, g, ids[i])  BY <1>8
  <2>3. [i \in 1..c |-> PartBytes(g, ids[i])] = [i \in 1..c |-> LastOf(u, g, ids[i])]  BY <2>2, Zenon
  <2> QED BY <1>7, <2>1, <2>3, Zenon DEF Parts
<1> QED BY <1>1, <1>5, <1>9

(* An assembled file is exact: when the requests of an upload ran one      *)
(* after the other and no body broke off, the MOVE that is acknowledged    *)
(* has written the parts of its session in the order of their numbers,     *)
(* each with the bytes of the last acknowledged PUT of that part, whatever *)
(* an earlier session or one from before a restart has left in the         *)
(* directory: create_session, add_chunk, store_chunk and handle_move       *)
(* (upload.rs, upload_handler.rs), next to any other request.              *)
THEOREM AssembliesExact == UploadSpec => []AssemblyExact
<1>1. UploadInit => ExactInv  BY ExactInit
<1>2. ExactInv /\ [UploadNext]_allvars => ExactInv'  BY ExactNext
<1>3. ExactInv => AssemblyExact  BY ExactImplies
<1> QED BY <1>1, <1>2, <1>3, PTL DEF UploadSpec
=============================================================================
