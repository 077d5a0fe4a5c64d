-------------------------- MODULE PropertiesProofs --------------------------
(***************************************************************************)
(* The rows of oc_filecache go where the requests send them, and dead      *)
(* properties where their file goes, for every tree of files, every number *)
(* of clients and both databases, as long as no name holds a wildcard of   *)
(* LIKE.                                                                   *)
(***************************************************************************)
EXTENDS Properties, SequenceTheorems, WellFoundedInduction, TLAPS

(* Paths name by name: what lies below a path, ... *)
LEMMA UnderMeans ==
    ASSUME NEW p \in Seq(STRING), NEW q \in Seq(STRING)
    PROVE  Under(q, p) <=> Len(p) < Len(q) /\ \A i \in 1..Len(p) : q[i] = p[i]
<1>1. Len(p) \in Nat /\ Len(q) \in Nat
  BY LenProperties
<1>2. SubSeq(p, 1, Len(p)) = p
  BY SubSeqFull
<1>e. \A i \in 1..Len(q) : q[i] \in STRING
  BY ElementOfSeq
<1>3. ASSUME Len(p) <= Len(q)
      PROVE  /\ SubSeq(q, 1, Len(p)) \in Seq(STRING) /\ Len(SubSeq(q, 1, Len(p))) = Len(p)
             /\ \A i \in 1..Len(p) : SubSeq(q, 1, Len(p))[i] = q[i]
  <2>1. \A i \in 1..Len(p) : q[i] \in STRING
    BY <1>1, <1>3, <1>e
  <2>2. /\ SubSeq(q, 1, Len(p)) \in Seq(STRING)
        /\ Len(SubSeq(q, 1, Len(p))) = IF 1 <= Len(p) THEN Len(p) - 1 + 1 ELSE 0
        /\ \A i \in 1..(Len(p) - 1 + 1) : SubSeq(q, 1, Len(p))[i] = q[1 + i - 1]
    BY <1>1, <2>1, SubSeqProperties
  <2> QED
    BY <1>1, <2>2
<1>4. ASSUME Under(q, p) PROVE Len(p) < Len(q) /\ \A i \in 1..Len(p) : q[i] = p[i]
  <2>1. Len(p) <= Len(q) /\ SubSeq(q, 1, Len(p)) = p /\ p # q
    BY <1>2, <1>4 DEF Under, IsStrictPrefix, IsPrefix
  <2>2. \A i \in 1..Len(p) : q[i] = p[i]
    BY <1>3, <2>1
  <2>3. Len(p) # Len(q)
    BY <2>1, <2>2, SeqEqual
  <2> QED
    BY <1>1, <2>1, <2>2, <2>3
<1>5. ASSUME Len(p) < Len(q), \A i \in 1..Len(p) : q[i] = p[i] PROVE Under(q, p)
  <2>1. Len(p) <= Len(q) /\ p # q
    BY <1>1, <1>5
  <2>2. SubSeq(q, 1, Len(p)) = p
    BY <1>3, <1>5, <2>1, SeqEqual
  <2> QED
    BY <1>2, <2>1, <2>2 DEF Under, IsStrictPrefix, IsPrefix
<1> QED
  BY <1>4, <1>5

(* ... and where it goes with it. *)
LEMMA RebaseMeans ==
    ASSUME NEW from \in Seq(STRING), NEW to \in Seq(STRING), NEW q \in Seq(STRING), Len(from) <= Len(q)
    PROVE  /\ Rebase(q, from, to) \in Seq(STRING)
           /\ Len(Rebase(q, from, to)) = Len(to) + Len(q) - Len(from)
           /\ \A i \in 1..Len(to) : Rebase(q, from, to)[i] = to[i]
           /\ \A i \in (Len(from) + 1)..Len(q) : Rebase(q, from, to)[i - Len(from) + Len(to)] = q[i]
<1> DEFINE s == SubSeq(q, Len(from) + 1, Len(q))
<1>1. Len(from) \in Nat /\ Len(q) \in Nat /\ Len(to) \in Nat
  BY LenProperties
<1>2. \A i \in (Len(from) + 1)..Len(q) : q[i] \in STRING
  BY <1>1, ElementOfSeq
<1>3. /\ s \in Seq(STRING)
      /\ Len(s) = IF Len(from) + 1 <= Len(q) THEN Len(q) - (Len(from) + 1) + 1 ELSE 0
      /\ \A i \in 1..(Len(q) - (Len(from) + 1) + 1) : s[i] = q[Len(from) + 1 + i - 1]
  BY <1>1, <1>2, SubSeqProperties
<1>4. Len(s) = Len(q) - Len(from) /\ \A i \in 1..(Len(q) - Len(from)) : s[i] = q[Len(from) + i]
  BY <1>1, <1>3
<1>5. Rebase(q, from, to) = to \o s
  BY DEF Rebase
<1> HIDE DEF s
<1>6. /\ to \o s \in Seq(STRING) /\ Len(to \o s) = Len(to) + Len(s)
      /\ \A i \in 1..(Len(to) + Len(s)) : (to \o s)[i] = IF i <= Len(to) THEN to[i] ELSE s[i - Len(to)]
  BY <1>3, ConcatProperties
<1>7. ASSUME NEW i \in (Len(from) + 1)..Len(q) PROVE (to \o s)[i - Len(from) + Len(to)] = q[i]
  <2>1. /\ i - Len(from) + Len(to) \in 1..(Len(to) + Len(s)) /\ ~(i - Len(from) + Len(to) <= Len(to))
        /\ (i - Len(from) + Len(to)) - Len(to) = i - Len(from) /\ i - Len(from) \in 1..(Len(q) - Len(from))
        /\ Len(from) + (i - Len(from)) = i
    BY <1>1, <1>4
  <2>2. (to \o s)[i - Len(from) + Len(to)] = s[i - Len(from)]
    BY <1>6, <2>1
  <2> QED
    BY <1>4, <2>1, <2>2
<1>8. \A i \in 1..Len(to) : (to \o s)[i] = to[i]
  BY <1>1, <1>4, <1>6
<1> QED
  BY <1>1, <1>4, <1>5, <1>6, <1>7, <1>8

(* Below is an order in which the paths above one path are a chain. *)
LEMMA UnderOrder ==
    ASSUME NEW p \in Seq(STRING), NEW a \in Seq(STRING), NEW b \in Seq(STRING), Under(p, a)
    PROVE  /\ p # a /\ ~Under(a, p) /\ ~Under(a, a)
           /\ Under(a, b) => Under(p, b)
           /\ Under(p, b) => a = b \/ Under(a, b) \/ Under(b, a)
<1>1. Len(p) \in Nat /\ Len(a) \in Nat /\ Len(b) \in Nat
  BY LenProperties
<1>2. Len(a) < Len(p) /\ \A i \in 1..Len(a) : p[i] = a[i]
  BY UnderMeans
<1>3. p # a /\ ~Under(a, p) /\ ~Under(a, a)
  BY <1>1, <1>2, UnderMeans
<1>4. ASSUME Under(a, b) PROVE Under(p, b)
  <2>1. Len(b) < Len(a) /\ \A i \in 1..Len(b) : a[i] = b[i]
    BY <1>4, UnderMeans
  <2>2. Len(b) < Len(p) /\ \A i \in 1..Len(b) : p[i] = b[i]
    BY <1>1, <1>2, <2>1
  <2> QED
    BY <2>2, UnderMeans
<1>5. ASSUME Under(p, b) PROVE a = b \/ Under(a, b) \/ Under(b, a)
  <2>1. Len(b) < Len(p) /\ \A i \in 1..Len(b) : p[i] = b[i]
    BY <1>5, UnderMeans
  <2>2. CASE Len(a) = Len(b)
    <3>1. \A i \in 1..Len(a) : a[i] = b[i]
      BY <1>1, <1>2, <2>1, <2>2
    <3> QED
      BY <2>2, <3>1, SeqEqual
  <2>3. CASE Len(a) < Len(b)
    <3>1. \A i \in 1..Len(a) : b[i] = a[i]
      BY <1>1, <1>2, <2>1, <2>3
    <3> QED
      BY <2>3, <3>1, UnderMeans
  <2>4. CASE Len(b) < Len(a)
    <3>1. \A i \in 1..Len(b) : a[i] = b[i]
      BY <1>1, <1>2, <2>1, <2>4
    <3> QED
      BY <2>4, <3>1, UnderMeans
  <2> QED
    BY <1>1, <2>2, <2>3, <2>4
<1> QED
  BY <1>3, <1>4, <1>5

(* What the folder of a path is below, and the folder itself, are all that *)
(* the path is below.                                                      *)
LEMMA UnderFront ==
    ASSUME NEW p \in Seq(STRING), NEW q \in Seq(STRING), Len(q) > 0, Under(p, q)
    PROVE  /\ Len(p) > 1 /\ Front(p) \in Seq(STRING)
           /\ q = Front(p) \/ Under(Front(p), q)
<1>1. Len(p) \in Nat /\ Len(q) \in Nat
  BY LenProperties
<1>2. Len(q) < Len(p) /\ \A i \in 1..Len(q) : p[i] = q[i]
  BY UnderMeans
<1>3. Front(p) = SubSeq(p, 1, Len(p) - 1)
  BY DEF Front
<1> DEFINE f == SubSeq(p, 1, Len(p) - 1)
<1>4. \A i \in 1..(Len(p) - 1) : p[i] \in STRING
  BY <1>1, ElementOfSeq
<1>5. /\ f \in Seq(STRING)
      /\ Len(f) = IF 1 <= Len(p) - 1 THEN Len(p) - 1 - 1 + 1 ELSE 0
      /\ \A i \in 1..(Len(p) - 1 - 1 + 1) : f[i] = p[1 + i - 1]
  BY <1>1, <1>2, <1>4, SubSeqProperties
<1>6. Len(f) = Len(p) - 1 /\ \A i \in 1..(Len(p) - 1) : f[i] = p[i]
  BY <1>1, <1>2, <1>5
<1> HIDE DEF f
<1>7. \A i \in 1..Len(q) : f[i] = q[i]
  BY <1>1, <1>2, <1>6
<1>8. Len(q) = Len(f) => q = f
  BY <1>5, <1>7, SeqEqual
<1>9. Len(q) < Len(f) => Under(f, q)
  BY <1>5, <1>7, UnderMeans
<1> QED
  BY <1>1, <1>2, <1>3, <1>5, <1>6, <1>8, <1>9 DEF f

(* A folder's rows move with it one to one, and nothing else comes to lie  *)
(* below its new place.                                                    *)
LEMMA RebaseMoves ==
    ASSUME NEW from \in Seq(STRING), NEW to \in Seq(STRING), NEW x \in Seq(STRING), Under(x, from)
    PROVE  /\ Rebase(x, from, to) \in Seq(STRING) /\ Under(Rebase(x, from, to), to)
           /\ \A y \in Seq(STRING) :
                 Under(y, from) /\ Rebase(y, from, to) = Rebase(x, from, to) => y = x
           /\ \A q \in Seq(STRING) : Under(q, to) /\ Under(Rebase(x, from, to), q) =>
                 Under(Rebase(q, to, from), from) /\ Under(x, Rebase(q, to, from))
                 /\ Rebase(Rebase(q, to, from), from, to) = q
<1> DEFINE r == Rebase(x, from, to)
<1>1. Len(from) \in Nat /\ Len(to) \in Nat /\ Len(x) \in Nat
  BY LenProperties
<1>2. Len(from) < Len(x) /\ \A i \in 1..Len(from) : x[i] = from[i]
  BY UnderMeans
<1>l. Len(from) <= Len(x)
  BY <1>1, <1>2
<1>3. /\ r \in Seq(STRING) /\ Len(r) = Len(to) + Len(x) - Len(from)
      /\ \A i \in 1..Len(to) : r[i] = to[i]
      /\ \A i \in (Len(from) + 1)..Len(x) : r[i - Len(from) + Len(to)] = x[i]
  BY <1>l, RebaseMeans, ZenonT(60)
<1> HIDE DEF r
<1>m. Len(to) < Len(r)
  BY <1>1, <1>2, <1>3
<1>4. Under(r, to)
  BY <1>3, <1>m, UnderMeans, Zenon
<1>5. ASSUME NEW y \in Seq(STRING), Under(y, from), Rebase(y, from, to) = r PROVE y = x
  <2>1. Len(y) \in Nat
    BY LenProperties
  <2>2. Len(from) < Len(y) /\ \A i \in 1..Len(from) : y[i] = from[i]
    BY <1>5, UnderMeans
  <2>3. /\ Len(r) = Len(to) + Len(y) - Len(from)
        /\ \A i \in (Len(from) + 1)..Len(y) : r[i - Len(from) + Len(to)] = y[i]
    <3>1. Len(from) <= Len(y)
      BY <1>1, <2>1, <2>2
    <3>2. /\ Len(Rebase(y, from, to)) = Len(to) + Len(y) - Len(from)
          /\ \A i \in (Len(from) + 1)..Len(y) : Rebase(y, from, to)[i - Len(from) + Len(to)] = y[i]
      BY <3>1, RebaseMeans, ZenonT(60)
    <3> QED
      BY <1>5, <3>2
  <2>4. Len(y) = Len(x)
    BY <1>1, <1>3, <2>1, <2>3
  <2>5. \A i \in 1..Len(x) : y[i] = x[i]
    <3> SUFFICES ASSUME NEW i \in 1..Len(x) PROVE y[i] = x[i]
      OBVIOUS
    <3>1. i \in 1..Len(from) \/ i \in (Len(from) + 1)..Len(x)
      BY <1>1
    <3> QED
      BY <1>2, <1>3, <2>2, <2>3, <2>4, <3>1
  <2> QED
    BY <2>4, <2>5, SeqEqual
<1>6. ASSUME NEW q \in Seq(STRING), Under(q, to), Under(r, q)
      PROVE  /\ Under(Rebase(q, to, from), from) /\ Under(x, Rebase(q, to, from))
             /\ Rebase(Rebase(q, to, from), from, to) = q
  <2> DEFINE y == Rebase(q, to, from)
  <2>1. Len(q) \in Nat
    BY LenProperties
  <2>2. /\ Len(to) < Len(q) /\ \A i \in 1..Len(to) : q[i] = to[i]
        /\ Len(q) < Len(r) /\ \A i \in 1..Len(q) : r[i] = q[i]
    BY <1>3, <1>6, UnderMeans
  <2>3. /\ y \in Seq(STRING) /\ Len(y) = Len(from) + Len(q) - Len(to)
        /\ \A i \in 1..Len(from) : y[i] = from[i]
        /\ \A i \in (Len(to) + 1)..Len(q) : y[i - Len(to) + Len(from)] = q[i]
    <3>1. Len(to) <= Len(q)
      BY <1>1, <2>1, <2>2
    <3> QED
      BY <3>1, RebaseMeans, ZenonT(60)
  <2> HIDE DEF y
  <2>4. Under(y, from)
    <3>1. Len(from) < Len(y)
      BY <1>1, <2>1, <2>2, <2>3
    <3> QED
      BY <2>3, <3>1, UnderMeans, Zenon
  <2>5. \A i \in 1..Len(y) : x[i] = y[i]
    <3> SUFFICES ASSUME NEW i \in 1..Len(y) PROVE x[i] = y[i]
      OBVIOUS
    <3>1. CASE i \in 1..Len(from)
      BY <1>2, <2>3, <3>1
    <3>2. CASE i \in (Len(from) + 1)..Len(y)
      <4> DEFINE j == i - Len(from) + Len(to)
      <4>1. /\ j \in (Len(to) + 1)..Len(q) /\ j \in 1..Len(q) /\ j - Len(to) + Len(from) = i
            /\ i \in (Len(from) + 1)..Len(x)
        BY <1>1, <1>3, <2>1, <2>2, <2>3, <3>2
      <4>2. y[i] = q[j] /\ r[j] = q[j] /\ r[j] = x[i]
        BY <1>3, <2>2, <2>3, <4>1
      <4> QED
        BY <4>2
    <3> QED
      BY <1>1, <2>1, <2>3, <3>1, <3>2
  <2>6. Len(y) < Len(x)
    BY <1>1, <1>3, <2>1, <2>2, <2>3
  <2>7. Under(x, y)
    BY <2>3, <2>5, <2>6, UnderMeans
  <2> DEFINE z == Rebase(y, from, to)
  <2>8. Len(from) <= Len(y) /\ Len(y) \in Nat /\ y \in Seq(STRING)
    BY <1>1, <2>1, <2>2, <2>3
  <2>9. /\ z \in Seq(STRING) /\ Len(z) = Len(to) + Len(y) - Len(from)
        /\ \A i \in 1..Len(to) : z[i] = to[i]
        /\ \A i \in (Len(from) + 1)..Len(y) : z[i - Len(from) + Len(to)] = y[i]
    <3>1. ASSUME NEW w \in Seq(STRING), Len(from) <= Len(w)
          PROVE  /\ Rebase(w, from, to) \in Seq(STRING)
                 /\ Len(Rebase(w, from, to)) = Len(to) + Len(w) - Len(from)
                 /\ \A i \in 1..Len(to) : Rebase(w, from, to)[i] = to[i]
                 /\ \A i \in (Len(from) + 1)..Len(w) :
                       Rebase(w, from, to)[i - Len(from) + Len(to)] = w[i]
      BY <3>1, RebaseMeans, ZenonT(60)
    <3> QED
      BY <2>8, <3>1, ZenonT(60)
  <2> HIDE DEF z
  <2>10. \A i \in 1..Len(q) : z[i] = q[i]
    <3> SUFFICES ASSUME NEW i \in 1..Len(q) PROVE z[i] = q[i]
      OBVIOUS
    <3>1. CASE i \in 1..Len(to)
      BY <2>2, <2>9, <3>1
    <3>2. CASE i \in (Len(to) + 1)..Len(q)
      <4> DEFINE j == i - Len(to) + Len(from)
      <4>1. j \in (Len(from) + 1)..Len(y) /\ j - Len(from) + Len(to) = i
        BY <1>1, <2>1, <2>2, <2>3, <3>2
      <4>2. y[j] = q[i] /\ z[i] = y[j]
        BY <2>3, <2>9, <3>2, <4>1
      <4> QED
        BY <4>2
    <3> QED
      BY <1>1, <2>1, <3>1, <3>2
  <2>11. Len(z) = Len(q)
    BY <1>1, <2>1, <2>3, <2>9
  <2>12. z = q
    BY <2>9, <2>10, <2>11, SeqEqual
  <2> QED
    BY <2>4, <2>7, <2>12 DEF y, z
<1> QED
  BY <1>3, <1>4, <1>5, <1>6 DEF r

(* A folder goes to the place it is moved to. *)
LEMMA RebaseSelf ==
    ASSUME NEW from \in Seq(STRING), NEW to \in Seq(STRING)
    PROVE  Rebase(from, from, to) = to
<1>1. Len(from) \in Nat /\ Len(to) \in Nat /\ Len(from) <= Len(from)
  BY LenProperties
<1>2. /\ Rebase(from, from, to) \in Seq(STRING)
      /\ Len(Rebase(from, from, to)) = Len(to) + Len(from) - Len(from)
      /\ \A i \in 1..Len(to) : Rebase(from, from, to)[i] = to[i]
  BY <1>1, RebaseMeans
<1>3. Len(Rebase(from, from, to)) = Len(to)
  BY <1>1, <1>2
<1> QED
  BY <1>2, <1>3, SeqEqual

(* Without wildcards in the names, LIKE finds what lies below a folder. *)
LEMMA LikeMeans ==
    ASSUME Wild = {}, NEW p \in Seq(STRING), NEW q \in Seq(STRING)
    PROVE  LikeUnder(q, p) <=> Under(q, p)
<1>1. Len(p) \in Nat /\ Len(q) \in Nat
  BY LenProperties
<1> QED
  BY <1>1, UnderMeans DEF LikeUnder
-----------------------------------------------------------------------------
(***************************************************************************)
(* The inductive invariant.  A request is where its kind may be, and only  *)
(* one structural request runs.                                            *)
(***************************************************************************)
Fields == {"op", "pc", "i", "fid", "known", "add", "del", "list", "answers",
           "fid0", "fav0", "clash", "failed"}
Patching == {"instr", "insert", "favorite", "tags", "update"}
Moving   == {"move", "ownprops", "rekey", "bulk", "rest", "loop"}
Deleting == {"delete", "hardprops", "harddir", "hardrows"}

Request(me) ==
    /\ DOMAIN me = Fields
    /\ me.pc = "idle" => me.op.kind = "none"
    /\ me.pc # "idle" => me.op \in Ops
    /\ me.pc \in Patching => me.op.kind = "proppatch"
    /\ me.pc = "put" => me.op.kind = "put"
    /\ me.pc = "trash" => me.op.kind = "trash"
    /\ me.pc \in Deleting => me.op.kind = "delete"
    /\ me.pc \in Moving => me.op.kind = "move"
    /\ me.pc \in {"rekey", "bulk", "rest", "loop", "harddir", "hardrows"} => me.op.path \in Dirs
    /\ me.pc = "hardprops" => me.op.path \notin Dirs

Typed ==
    /\ node \in [Paths -> Nat] /\ failures \in Nat
    /\ want \in [DOMAIN want -> Paths \cup {Gone}] /\ DOMAIN want \subseteq Nat \ {0}
    /\ \E m \in DOMAIN want \cup {0} : \A f \in DOMAIN want : f <= m
    /\ DOMAIN rq = Clients /\ \A c \in Clients : Request(rq[c])

Solo == \A c, d \in Clients : Structural(c) /\ Structural(d) => c = d

(* The rows are where the requests want them, and form a tree. *)
Follows ==
    /\ \A f \in DOMAIN want : want[f] # Gone => node[want[f]] = f
    /\ \A p \in Paths : node[p] # 0 => node[p] \in DOMAIN want /\ want[node[p]] = p
Tree == \A p, q \in Paths : node[p] # 0 /\ Under(p, q) => node[q] # 0

Free(p) == node[p] = 0 /\ \A q \in Paths : Under(p, q) => node[q] # 0

(* A MOVE between its first statement and rekey_subtree_paths: the folder  *)
(* is at its new place, and what lies in it still at the old one.          *)
Half(from, to) ==
    /\ node[from] = 0 /\ node[to] # 0
    /\ \A p \in Paths : Under(p, to) => node[p] = 0
    /\ \A p \in Paths : node[p] # 0 =>
          /\ node[p] \in DOMAIN want
          /\ want[node[p]] = IF Under(p, from) THEN Rebase(p, from, to) ELSE p
    /\ \A f \in DOMAIN want : want[f] # Gone =>
          IF Under(want[f], to) THEN \E p \in Paths : Under(p, from) /\ node[p] = f
          ELSE node[want[f]] = f
    /\ \A p, q \in Paths : node[p] # 0 /\ Under(p, q) /\ q # from => node[q] # 0

HalfMoved(me) == me.pc \in {"ownprops", "rekey"}

(* What was so when the request started is still so when it runs. *)
Ready(me) ==
    /\ me.pc = "put" => Free(me.op.path)
    /\ me.pc = "move" => node[me.op.path] # 0 /\ Free(me.op.to)

Tables ==
    /\ \A c \in Clients : Ready(rq[c]) /\ (HalfMoved(rq[c]) => Half(rq[c].op.path, rq[c].op.to))
    /\ (\A c \in Clients : ~HalfMoved(rq[c])) => Follows /\ Tree

Inv == Typed /\ Solo /\ (failures = 0 => Tables)

StructuralKinds == {"move", "trash", "delete", "put"}
Rows(n, w) == node' = n /\ want' = w

(* Go moves one request; of the others at most the clash mark changes. *)
LEMMA GoDoes ==
    ASSUME Typed, NEW c \in Clients, NEW me, NEW wrote, Request(me), Go(c, me, wrote)
    PROVE  /\ DOMAIN rq' = Clients /\ rq'[c] = me /\ \A x \in Clients : Request(rq'[x])
           /\ \A x \in Clients \ {c} : rq'[x].pc = rq[x].pc /\ rq'[x].op = rq[x].op
<1>1. DOMAIN rq' = Clients /\ rq'[c] = me
  BY DEF Go
<1>2. ASSUME NEW x \in Clients \ {c}
      PROVE  rq'[x].pc = rq[x].pc /\ rq'[x].op = rq[x].op /\ DOMAIN rq'[x] = Fields
  <2>1. Request(rq[x])
    BY DEF Typed
  <2>2. rq'[x] = [rq[x] EXCEPT !.clash = TRUE] \/ rq'[x] = rq[x]
    BY DEF Go
  <2> QED
    BY <2>1, <2>2 DEF Request, Fields
<1>3. ASSUME NEW x \in Clients \ {c} PROVE Request(rq'[x])
  <2>1. Request(rq[x])
    BY DEF Typed
  <2> QED
    BY <1>2, <2>1 DEF Request
<1> QED
  BY <1>1, <1>2, <1>3

(* A request that goes on, or is no longer structural, leaves others room. *)
LEMMA SoloKept ==
    ASSUME Typed, Solo, NEW c \in Clients, NEW me, NEW wrote, Request(me), Go(c, me, wrote),
           me.op = rq[c].op \/ me.op.kind \notin StructuralKinds
    PROVE  Solo'
<1>1. rq'[c] = me /\ \A x \in Clients \ {c} : rq'[x].op = rq[x].op
  BY GoDoes
<1> QED
  BY <1>1 DEF Solo, Structural, StructuralKinds

(* Only a structural request is anywhere but in a PROPPATCH or done. *)
LEMMA StructuralStates ==
    ASSUME NEW me, Request(me), me.pc \in {"put", "trash"} \cup Moving \cup Deleting
    PROVE  me.op.kind \in StructuralKinds
BY DEF Request, StructuralKinds, Moving, Deleting

(* A step that leaves the rows alone. *)
LEMMA KeepsRows ==
    ASSUME Inv, NEW c \in Clients, NEW me, NEW wrote, Request(me), Go(c, me, wrote),
           Rows(node, want), failures' \in Nat, failures' = 0 => failures = 0,
           me.op = rq[c].op \/ me.op.kind \notin StructuralKinds,
           me.pc \notin {"put", "move"},
           HalfMoved(me) <=> HalfMoved(rq[c]), HalfMoved(me) => me.op = rq[c].op
    PROVE  Inv'
<1>1. /\ DOMAIN rq' = Clients /\ rq'[c] = me /\ \A x \in Clients : Request(rq'[x])
      /\ \A x \in Clients \ {c} : rq'[x].pc = rq[x].pc /\ rq'[x].op = rq[x].op
  BY GoDoes DEF Inv
<1>2. Solo'
  BY SoloKept DEF Inv
<1>3. Typed'
  BY <1>1 DEF Inv, Typed, Rows
<1>4. ASSUME Tables PROVE Tables'
  <2>1. node' = node /\ want' = want
    BY DEF Rows
  <2>2. ASSUME NEW x \in Clients PROVE Ready(rq[x])'
    BY <1>1, <1>4, <2>1 DEF Tables, Ready, Free
  <2>3. ASSUME NEW x \in Clients, HalfMoved(rq[x])' PROVE Half(rq[x].op.path, rq[x].op.to)'
    <3>1. HalfMoved(rq[x]) /\ rq'[x].op = rq[x].op
      BY <1>1, <2>3 DEF HalfMoved
    <3>2. Half(rq[x].op.path, rq[x].op.to)
      BY <1>4, <3>1 DEF Tables
    <3> QED
      BY <2>1, <3>1, <3>2 DEF Half
  <2>4. ASSUME NEW x \in Clients, HalfMoved(rq[x]) PROVE HalfMoved(rq[x])'
    BY <1>1, <2>4 DEF HalfMoved
  <2>5. (\A x \in Clients : ~HalfMoved(rq[x]))' => Follows' /\ Tree'
    BY <1>4, <2>1, <2>4 DEF Tables, Follows, Tree
  <2> QED
    BY <2>2, <2>3, <2>5 DEF Tables
<1> QED
  BY <1>2, <1>3, <1>4 DEF Inv

(* A step of the structural request after which the rows are in order. *)
LEMMA Settles ==
    ASSUME Inv, NEW c \in Clients, NEW me, NEW wrote, Request(me), Go(c, me, wrote),
           me.op = rq[c].op, Structural(c), me.pc \notin {"put", "move"}, ~HalfMoved(me),
           node' \in [Paths -> Nat], failures' \in Nat,
           want' \in [DOMAIN want' -> Paths \cup {Gone}], DOMAIN want' \subseteq Nat \ {0},
           \E m \in DOMAIN want' \cup {0} : \A f \in DOMAIN want' : f <= m,
           failures' = 0 => Follows' /\ Tree'
    PROVE  Inv'
<1>1. /\ DOMAIN rq' = Clients /\ rq'[c] = me /\ \A x \in Clients : Request(rq'[x])
      /\ \A x \in Clients \ {c} : rq'[x].pc = rq[x].pc /\ rq'[x].op = rq[x].op
  BY GoDoes DEF Inv
<1>2. Solo'
  BY SoloKept DEF Inv
<1>3. Typed'
  BY <1>1 DEF Typed
<1>4. ASSUME NEW x \in Clients PROVE Ready(rq[x])' /\ ~HalfMoved(rq[x])'
  <2>1. CASE x = c
    BY <1>1, <2>1 DEF Ready, HalfMoved
  <2>2. CASE x # c
    <3>1. Request(rq[x])
      BY DEF Inv, Typed
    <3>2. ~Structural(x)
      BY <2>2 DEF Inv, Solo
    <3>3. rq[x].pc \notin {"put", "move", "ownprops", "rekey"}
      BY <3>1, <3>2, StructuralStates DEF Structural, StructuralKinds, Moving
    <3> QED
      BY <1>1, <2>2, <3>3 DEF Ready, HalfMoved
  <2> QED
    BY <2>1, <2>2
<1>5. failures' = 0 => Tables'
  BY <1>4 DEF Tables
<1> QED
  BY <1>2, <1>3, <1>5 DEF Inv

(* Nothing lies below what is not a folder. *)
LEMMA NothingBelowFiles ==
    ASSUME NEW p \in Paths, NEW q \in Paths, Under(q, p)
    PROVE  p \in Dirs
<1>1. p \in Seq(STRING) /\ q \in Seq(STRING) /\ p # <<>>
  BY PathsAssumption DEF Gone
<1>2. Len(p) \in Nat /\ Len(q) \in Nat /\ Len(p) # 0
  BY <1>1, LenProperties, EmptySeq
<1>3. Len(p) < Len(q)
  BY <1>1, UnderMeans
<1>4. p = SubSeq(q, 1, Len(p))
  BY <1>1, SubSeqFull DEF Under, IsStrictPrefix, IsPrefix
<1>5. Len(p) \in 1..(Len(q) - 1)
  BY <1>2, <1>3
<1> QED
  BY <1>4, <1>5, PathsAssumption, Zenon

(* A place that is free and in an existing folder is in existing folders   *)
(* all the way up.                                                         *)
LEMMA FreePlaces ==
    ASSUME Tree, NEW p \in Paths, node[p] = 0, Len(p) > 1 => node[Front(p)] # 0
    PROVE  Free(p)
<1> SUFFICES ASSUME NEW q \in Paths, Under(p, q) PROVE node[q] # 0
  BY DEF Free
<1>1. p \in Seq(STRING) /\ q \in Seq(STRING) /\ q # <<>>
  BY PathsAssumption DEF Gone
<1>2. Len(q) > 0 /\ Len(p) \in Nat
  <2>1. Len(q) \in Nat /\ Len(q) # 0 /\ Len(p) \in Nat
    BY <1>1, LenProperties, EmptySeq
  <2> QED
    BY <2>1
<1>3. Len(p) > 1 /\ (q = Front(p) \/ Under(Front(p), q))
  BY <1>1, <1>2, UnderFront
<1>4. Front(p) \in Paths
  <2>1. Front(p) = SubSeq(p, 1, Len(p) - 1)
    BY DEF Front
  <2>2. Len(p) - 1 \in 1..(Len(p) - 1)
    BY <1>2, <1>3
  <2> QED
    BY <2>1, <2>2, PathsAssumption
<1> QED
  BY <1>3, <1>4 DEF Tree

(* PUT of a new file. *)
LEMMA PutFollows ==
    ASSUME Typed, Follows, Tree, NEW p \in Paths, Free(p), NEW n \in Nat \ {0}, n \notin DOMAIN want,
           node' = [node EXCEPT ![p] = n],
           want' = [f \in DOMAIN want \cup {n} |-> IF f = n THEN p ELSE want[f]]
    PROVE  Follows' /\ Tree'
<1>1. node \in [Paths -> Nat] /\ p # Gone
  BY PathsAssumption DEF Typed
<1>2. node'[p] = n /\ \A q \in Paths \ {p} : node'[q] = node[q]
  BY <1>1
<1>3. want'[n] = p /\ \A f \in DOMAIN want : want'[f] = want[f] /\ want[f] \in Paths \cup {Gone}
  BY DEF Typed
<1>4. Follows'
  <2>1. ASSUME NEW f \in DOMAIN want', want'[f] # Gone PROVE node'[want'[f]] = f
    BY <1>2, <1>3, <2>1 DEF Follows, Free, Typed
  <2>2. ASSUME NEW q \in Paths, node'[q] # 0 PROVE node'[q] \in DOMAIN want' /\ want'[node'[q]] = q
    BY <1>2, <1>3, <2>2 DEF Follows
  <2> QED
    BY <2>1, <2>2 DEF Follows
<1>5. Tree'
  BY <1>2 DEF Tree, Free
<1> QED
  BY <1>4, <1>5

(* DELETE, into the trash or for good. *)
LEMMA RemoveFollows ==
    ASSUME Typed, Follows, Tree, NEW p \in Paths,
           node' = [q \in Paths |-> IF q = p \/ Under(q, p) THEN 0 ELSE node[q]], Unwant(p)
    PROVE  Follows' /\ Tree'
<1>1. /\ node \in [Paths -> Nat]
      /\ \A q \in Paths : node'[q] = IF q = p \/ Under(q, p) THEN 0 ELSE node[q]
  BY DEF Typed
<1>2. /\ DOMAIN want' = DOMAIN want
      /\ \A f \in DOMAIN want : /\ want[f] \in Paths \cup {Gone}
                                /\ want'[f] = IF want[f] # Gone /\ (want[f] = p \/ Under(want[f], p))
                                              THEN Gone ELSE want[f]
  BY DEF Unwant, Wanted, Typed
<1>3. Follows'
  <2>1. ASSUME NEW f \in DOMAIN want', want'[f] # Gone PROVE node'[want'[f]] = f
    BY <1>1, <1>2, <2>1 DEF Follows
  <2>2. ASSUME NEW q \in Paths, node'[q] # 0 PROVE node'[q] \in DOMAIN want' /\ want'[node'[q]] = q
    BY <1>1, <1>2, <2>2 DEF Follows
  <2> QED
    BY <2>1, <2>2 DEF Follows
<1>4. Tree'
  <2> SUFFICES ASSUME NEW x \in Paths, NEW q \in Paths, node'[x] # 0, Under(x, q) PROVE node'[q] # 0
    BY DEF Tree
  <2>1. node[x] # 0 /\ ~Under(x, p) /\ x # p
    BY <1>1
  <2>2. node[q] # 0
    BY <2>1 DEF Tree
  <2>3. x \in Seq(STRING) /\ q \in Seq(STRING) /\ p \in Seq(STRING)
    BY PathsAssumption
  <2>4. q # p /\ ~Under(q, p)
    BY <2>1, <2>3, UnderOrder
  <2> QED
    BY <1>1, <2>2, <2>4
<1> QED
  BY <1>3, <1>4

(* The first statement of a MOVE. *)
LEMMA MoveStarts ==
    ASSUME Typed, Follows, Tree, NEW from \in Paths, NEW to \in Paths, ~Under(to, from),
           \A p \in Paths : Under(p, from) => Rebase(p, from, to) \in Paths,
           node[from] # 0, Free(to),
           node' = [node EXCEPT ![from] = 0, ![to] = node[from]],
           want' = [f \in DOMAIN want |->
                      IF want[f] = from \/ Under(want[f], from) THEN Rebase(want[f], from, to) ELSE want[f]]
    PROVE  /\ Half(from, to)' /\ node' \in [Paths -> Nat]
           /\ DOMAIN want' = DOMAIN want /\ want' \in [DOMAIN want -> Paths \cup {Gone}]
<1>0. from \in Seq(STRING) /\ to \in Seq(STRING) /\ Gone \notin Paths /\ Paths \subseteq Seq(STRING)
  BY PathsAssumption
<1>1. node \in [Paths -> Nat] /\ from # to /\ node[to] = 0
  BY DEF Typed, Free
<1>2. /\ node' \in [Paths -> Nat] /\ node'[from] = 0 /\ node'[to] = node[from]
      /\ \A q \in Paths \ {from, to} : node'[q] = node[q]
  BY <1>1
<1>3. Rebase(from, from, to) = to
  BY <1>0, RebaseSelf
<1>g. ~Under(Gone, from)
  <2>1. Gone \in Seq(STRING) /\ Len(Gone) = 0 /\ Len(from) \in Nat
    BY <1>0, EmptySeq, LenProperties DEF Gone
  <2>2. ~(Len(from) < Len(Gone))
    BY <2>1
  <2> QED
    BY <1>0, <2>1, <2>2, UnderMeans, Zenon
<1>4. ASSUME NEW f \in DOMAIN want
      PROVE  /\ want[f] = from => want'[f] = to
             /\ want[f] # Gone /\ Under(want[f], from) => want'[f] = Rebase(want[f], from, to)
             /\ want[f] # from /\ ~Under(want[f], from) => want'[f] = want[f]
             /\ want[f] \in Paths \cup {Gone} /\ want'[f] \in Paths \cup {Gone}
             /\ want'[f] # Gone => want[f] # Gone
  <2>1. want[f] \in Paths \cup {Gone}
    BY DEF Typed
  <2>2. CASE want[f] = from
    <3>1. want'[f] = Rebase(from, from, to)
      BY <2>2
    <3> QED
      BY <1>0, <1>3, <2>1, <2>2, <3>1
  <2>3. CASE want[f] # from /\ Under(want[f], from)
    <3>1. want'[f] = Rebase(want[f], from, to) /\ want[f] # Gone /\ want[f] \in Paths
      BY <1>g, <2>1, <2>3
    <3>2. Rebase(want[f], from, to) \in Paths
      BY <2>3, <3>1
    <3> QED
      BY <2>3, <3>1, <3>2
  <2>4. CASE want[f] # from /\ ~Under(want[f], from)
    <3>1. want'[f] = want[f]
      BY <2>4
    <3> QED
      BY <2>1, <2>4, <3>1
  <2> QED
    BY <2>2, <2>3, <2>4
<1>5. ASSUME NEW p \in Paths, Under(p, to) PROVE node[p] = 0 /\ p # to /\ ~Under(p, from) /\ p # from
  <2>1. node[p] = 0
    BY <1>1, <1>5 DEF Tree
  <2>2. p # to
    BY <1>0, <1>5, UnderOrder
  <2>3. p # from
    BY <2>1
  <2>4. ASSUME Under(p, from) PROVE FALSE
    <3>1. Under(from, to)
      BY <1>0, <1>1, <1>5, <2>4, UnderOrder
    <3> QED
      BY <1>1, <3>1 DEF Tree
  <2> QED
    BY <2>1, <2>2, <2>3, <2>4
<1>6. ASSUME NEW p \in Paths, Under(p, to) PROVE node'[p] = 0
  BY <1>2, <1>5, <1>6
<1>7. ASSUME NEW p \in Paths, node'[p] # 0
      PROVE  /\ node'[p] \in DOMAIN want
             /\ want'[node'[p]] = IF Under(p, from) THEN Rebase(p, from, to) ELSE p
  <2>1. CASE p = to
    <3>1. node'[p] = node[from] /\ node[from] \in DOMAIN want /\ want[node[from]] = from
      BY <1>2, <2>1 DEF Follows
    <3> QED
      BY <1>4, <2>1, <3>1
  <2>2. CASE p # to
    <3>1. p # from /\ node'[p] = node[p] /\ node[p] \in DOMAIN want /\ want[node[p]] = p /\ p # Gone
      BY <1>0, <1>2, <1>7, <2>2 DEF Follows
    <3> QED
      BY <1>4, <3>1
  <2> QED
    BY <2>1, <2>2
<1>8. ASSUME NEW f \in DOMAIN want, want'[f] # Gone
      PROVE  IF Under(want'[f], to) THEN \E p \in Paths : Under(p, from) /\ node'[p] = f
             ELSE node'[want'[f]] = f
  <2>1. want[f] \in Paths /\ node[want[f]] = f
    BY <1>4, <1>8 DEF Follows
  <2>n. f # 0
    BY DEF Typed
  <2>2. CASE want[f] = from
    <3>1. ~Under(to, to)
      BY <1>0, UnderMeans, LenProperties
    <3> QED
      BY <1>2, <1>4, <2>1, <2>2, <3>1
  <2>3. CASE Under(want[f], from)
    <3>1. want[f] # from /\ want[f] # to
      BY <1>0, <2>1, <2>3, UnderOrder
    <3>2. node'[want[f]] = f
      BY <1>2, <2>1, <3>1
    <3>3. Under(want'[f], to)
      BY <1>0, <1>4, <2>1, <2>3, RebaseMoves
    <3> QED
      BY <2>1, <2>3, <3>2, <3>3
  <2>4. CASE want[f] # from /\ ~Under(want[f], from)
    <3>1. want'[f] = want[f] /\ want[f] # to /\ node'[want[f]] = f
      BY <1>1, <1>2, <1>4, <2>1, <2>4, <2>n
    <3>2. ~Under(want[f], to)
      BY <1>5, <2>1, <2>n
    <3> QED
      BY <3>1, <3>2
  <2> QED
    BY <2>2, <2>3, <2>4
<1>9. ASSUME NEW p \in Paths, NEW q \in Paths, node'[p] # 0, Under(p, q), q # from PROVE node'[q] # 0
  <2>1. CASE p = to
    <3>1. node[q] # 0 /\ q # to
      BY <1>0, <1>9, <2>1, UnderOrder DEF Free
    <3> QED
      BY <1>2, <1>9, <3>1
  <2>2. CASE p # to
    <3>1. node[p] # 0
      BY <1>2, <1>9, <2>2
    <3>2. node[q] # 0
      BY <1>9, <3>1 DEF Tree
    <3>3. q # to
      BY <1>1, <3>2
    <3> QED
      BY <1>2, <1>9, <3>2, <3>3
  <2> QED
    BY <2>1, <2>2
<1>10. DOMAIN want' = DOMAIN want /\ want' \in [DOMAIN want -> Paths \cup {Gone}]
  BY <1>4
<1> QED
  BY <1>2, <1>6, <1>7, <1>8, <1>9, <1>10 DEF Half

(* Of a file nothing else is to be moved. *)
LEMMA HalfFile ==
    ASSUME NEW from \in Paths, NEW to \in Paths, from \notin Dirs, Half(from, to), Typed
    PROVE  Follows /\ Tree
<1>1. \A p \in Paths : ~Under(p, from)
  BY NothingBelowFiles
<1> QED
  BY <1>1 DEF Half, Follows, Tree, Typed

(* rekey_subtree_paths: without wildcards it can move all that lies in the *)
(* folder, and does, on both databases.                                    *)
LEMMA RekeyFinishes ==
    ASSUME Wild = {}, Typed, NEW from \in Paths, NEW to \in Paths, Half(from, to), ~Under(to, from),
           \A p \in Paths : Under(p, from) => Rebase(p, from, to) \in Paths,
           NEW S \in Rekeyable(from, to)
    PROVE  S = {p \in Paths : node[p] # 0 /\ Under(p, from)}
<1> DEFINE cand == {p \in Paths : node[p] # 0 /\ Under(p, from)}
           Ok(T) == \A p, q \in T : /\ Rebase(p, from, to) = Rebase(q, from, to) => p = q
                                    /\ Rebase(p, from, to) \in T \/ node[Rebase(p, from, to)] = 0
<1>0. from \in Seq(STRING) /\ to \in Seq(STRING) /\ Paths \subseteq Seq(STRING)
  BY PathsAssumption
<1>1. cand = {p \in Paths : node[p] # 0 /\ LikeUnder(p, from)}
  BY <1>0, LikeMeans
<1>2. ASSUME NEW p \in cand, NEW q \in cand
      PROVE  /\ Rebase(p, from, to) = Rebase(q, from, to) => p = q
             /\ node[Rebase(p, from, to)] = 0
  <2>1. Under(Rebase(p, from, to), to) /\ Rebase(p, from, to) \in Paths
    BY <1>0, RebaseMoves
  <2>2. Rebase(p, from, to) = Rebase(q, from, to) => p = q
    BY <1>0, RebaseMoves
  <2> QED
    BY <2>1, <2>2 DEF Half
<1>3. \A T \in SUBSET cand : Ok(T)
  BY <1>2
<1>4. S \in IF backend = "pg" THEN {IF Ok(cand) THEN cand ELSE {}}
            ELSE {T \in SUBSET cand : Ok(T) /\ (T = cand \/ \E p \in cand \ T : ~Ok(T \cup {p}))}
  BY <1>1, Zenon DEF Rekeyable
<1> HIDE DEF cand, Ok
<1>5. CASE backend = "pg"
  BY <1>3, <1>4, <1>5 DEF cand
<1>6. CASE backend # "pg"
  <2>1. S \in SUBSET cand /\ (S = cand \/ \E p \in cand \ S : ~Ok(S \cup {p}))
    BY <1>4, <1>6
  <2>2. \A p \in cand \ S : Ok(S \cup {p})
    BY <1>3, <2>1
  <2> QED
    BY <2>1, <2>2 DEF cand
<1> QED
  BY <1>5, <1>6

AfterRekey(S, from, to) ==
    [p \in Paths |->
        LET q == CHOOSE x \in S : Rebase(x, from, to) = p IN
        IF \E x \in S : Rebase(x, from, to) = p THEN node[q]
        ELSE IF p \in S THEN 0 ELSE node[p]]

(* After it the rows are in order again. *)
LEMMA RekeyFollows ==
    ASSUME Typed, NEW from \in Paths, NEW to \in Paths, Half(from, to), ~Under(to, from),
           \A p \in Paths : Under(p, from) => Rebase(p, from, to) \in Paths,
           NEW S, S = {p \in Paths : node[p] # 0 /\ Under(p, from)},
           node' = AfterRekey(S, from, to), UNCHANGED want
    PROVE  Follows' /\ Tree' /\ node' \in [Paths -> Nat]
<1> USE DEF AfterRekey
<1>0. from \in Seq(STRING) /\ to \in Seq(STRING) /\ Paths \subseteq Seq(STRING) /\ Gone \notin Paths
  BY PathsAssumption
<1>t. node \in [Paths -> Nat] /\ \A f \in DOMAIN want : f # 0 /\ want[f] \in Paths \cup {Gone}
  BY DEF Typed
<1>1. ASSUME NEW x \in S
      PROVE  /\ Rebase(x, from, to) \in Paths /\ Under(Rebase(x, from, to), to)
             /\ \A y \in S : Rebase(y, from, to) = Rebase(x, from, to) => y = x
  BY <1>0, RebaseMoves
<1>2. ASSUME NEW x \in S PROVE node'[Rebase(x, from, to)] = node[x]
  <2> DEFINE p == Rebase(x, from, to)
             q == CHOOSE y \in S : Rebase(y, from, to) = p
  <2>1. p \in Paths
    BY <1>1
  <2>2. q \in S /\ Rebase(q, from, to) = p
    OBVIOUS
  <2>3. q = x
    BY <1>1, <2>2
  <2> QED
    BY <2>1, <2>3
<1>3. ASSUME NEW p \in Paths, ~Under(p, to)
      PROVE  node'[p] = IF Under(p, from) THEN 0 ELSE node[p]
  <2>1. ~\E x \in S : Rebase(x, from, to) = p
    BY <1>1, <1>3
  <2>2. node'[p] = IF p \in S THEN 0 ELSE node[p]
    BY <2>1
  <2> QED
    BY <2>2
<1>4. ASSUME NEW p \in Paths, node'[p] # 0, Under(p, to)
      PROVE  \E x \in S : p = Rebase(x, from, to) /\ node'[p] = node[x]
  <2>1. CASE \E x \in S : Rebase(x, from, to) = p
    BY <1>2, <2>1
  <2>2. CASE ~\E x \in S : Rebase(x, from, to) = p
    <3>1. node'[p] = IF p \in S THEN 0 ELSE node[p]
      BY <2>2
    <3> QED
      BY <1>4, <3>1 DEF Half
  <2> QED
    BY <2>1, <2>2
<1>5. node' \in [Paths -> Nat]
  <2>1. \A p \in Paths : node'[p] \in Nat
    <3> SUFFICES ASSUME NEW p \in Paths PROVE node'[p] \in Nat
      OBVIOUS
    <3>1. CASE node'[p] = 0
      BY <3>1
    <3>2. CASE node'[p] # 0 /\ Under(p, to)
      BY <1>4, <1>t, <3>2
    <3>3. CASE ~Under(p, to)
      BY <1>3, <1>t, <3>3
    <3> QED
      BY <3>1, <3>2, <3>3
  <2> QED
    BY <2>1
<1>6. ASSUME NEW p \in Paths, node'[p] # 0 PROVE node'[p] \in DOMAIN want /\ want[node'[p]] = p
  <2>1. CASE Under(p, to)
    BY <1>4, <1>6, <2>1 DEF Half
  <2>2. CASE ~Under(p, to)
    <3>1. ~Under(p, from) /\ node'[p] = node[p]
      BY <1>3, <1>6, <2>2
    <3> QED
      BY <1>6, <3>1 DEF Half
  <2> QED
    BY <2>1, <2>2
<1>7. ASSUME NEW f \in DOMAIN want, want[f] # Gone PROVE node'[want[f]] = f
  <2>0. f # 0 /\ want[f] \in Paths
    BY <1>7, <1>t
  <2>1. CASE Under(want[f], to)
    <3>1. PICK p \in Paths : Under(p, from) /\ node[p] = f
      BY <1>7, <2>1 DEF Half
    <3>2. want[f] = Rebase(p, from, to) /\ p \in S
      BY <2>0, <3>1 DEF Half
    <3>3. node'[Rebase(p, from, to)] = node[p]
      BY <1>2, <3>2, ZenonT(30)
    <3> QED
      BY <3>1, <3>2, <3>3, ZenonT(30)
  <2>2. CASE ~Under(want[f], to)
    <3>1. node[want[f]] = f
      BY <1>7, <2>2 DEF Half
    <3>2. ~Under(want[f], from)
      <4>1. ASSUME Under(want[f], from) PROVE FALSE
        <5>1. want[f] = Rebase(want[f], from, to) /\ want[f] \in S
          BY <2>0, <3>1, <4>1 DEF Half
        <5> QED
          BY <1>1, <2>2, <5>1
      <4> QED
        BY <4>1
    <3> QED
      BY <1>3, <2>0, <2>2, <3>1, <3>2
  <2> QED
    BY <2>1, <2>2
<1>8. ASSUME NEW p \in Paths, NEW q \in Paths, node'[p] # 0, Under(p, q) PROVE node'[q] # 0
  <2>q. p \in Seq(STRING) /\ q \in Seq(STRING)
    BY <1>0
  <2>to. node'[to] # 0
    <3>1. ~Under(to, to)
      BY <1>0, UnderMeans, LenProperties
    <3> QED
      BY <1>3, <3>1 DEF Half
  <2>1. CASE Under(p, to)
    <3>1. PICK x \in S : p = Rebase(x, from, to)
      BY <1>4, <1>8, <2>1
    <3>2. q = to \/ Under(q, to) \/ Under(to, q)
      BY <1>0, <1>8, <2>1, <2>q, UnderOrder
    <3>3. CASE Under(q, to)
      <4> DEFINE y == Rebase(q, to, from)
      <4>1. x \in Seq(STRING) /\ Under(x, from)
        BY <1>0
      <4>2. Under(y, from) /\ Under(x, y) /\ Rebase(y, from, to) = q
        BY <1>0, <1>8, <2>q, <3>1, <3>3, <4>1, RebaseMoves
      <4>3. y \in Paths
        <5>1. Len(to) <= Len(q)
          BY <1>0, <2>q, <3>3, UnderMeans, LenProperties
        <5>2. y \in Seq(STRING) /\ x \in Paths
          BY <1>0, <2>q, <5>1, RebaseMeans
        <5> HIDE DEF y
        <5>3. y # <<>> /\ Len(y) \in Nat /\ Len(x) \in Nat /\ Len(y) < Len(x)
          <6>1. Len(from) < Len(y) /\ Len(y) < Len(x)
            BY <1>0, <4>1, <4>2, <5>2, UnderMeans
          <6>2. Len(from) \in Nat /\ Len(y) \in Nat /\ Len(x) \in Nat
            BY <1>0, <4>1, <5>2, LenProperties
          <6> QED
            BY <5>2, <6>1, <6>2, EmptySeq
        <5>4. y = SubSeq(x, 1, Len(y)) /\ Len(y) \in 1..(Len(x) - 1)
          <6>1. y = SubSeq(x, 1, Len(y))
            BY <4>2, <5>2, SubSeqFull DEF Under, IsStrictPrefix, IsPrefix
          <6>2. Len(y) # 0
            BY <5>2, <5>3, EmptySeq
          <6> QED
            BY <5>3, <6>1, <6>2
        <5> QED
          BY <5>2, <5>4, PathsAssumption
      <4> HIDE DEF y
      <4>4. y # from
        BY <1>0, <4>2, <4>3, UnderOrder
      <4>5. node[y] # 0
        BY <4>1, <4>2, <4>3, <4>4 DEF Half
      <4>6. y \in S
        BY <4>2, <4>3, <4>5
      <4> QED
        BY <1>2, <4>2, <4>5, <4>6
    <3>4. CASE Under(to, q)
      <4>1. q # from
        BY <3>4
      <4>2. node[q] # 0
        BY <3>4, <4>1 DEF Half
      <4>3. ~Under(q, from)
        BY <1>0, <2>q, <3>4, UnderOrder
      <4>4. ~Under(q, to)
        BY <1>0, <2>q, <3>4, UnderOrder
      <4> QED
        BY <1>3, <4>2, <4>3, <4>4
    <3> QED
      BY <2>to, <3>2, <3>3, <3>4
  <2>2. CASE ~Under(p, to)
    <3>1. node[p] # 0 /\ ~Under(p, from)
      BY <1>3, <1>8, <2>2
    <3>2. q # from /\ ~Under(q, from) /\ ~Under(q, to)
      BY <1>0, <1>8, <2>2, <2>q, <3>1, UnderOrder
    <3>3. node[q] # 0
      BY <1>8, <3>1, <3>2 DEF Half
    <3> QED
      BY <1>3, <3>2, <3>3
  <2> QED
    BY <2>1, <2>2
<1> QED
  BY <1>5, <1>6, <1>7, <1>8 DEF Follows, Tree
-----------------------------------------------------------------------------
(***************************************************************************)
(* The steps.                                                              *)
(***************************************************************************)
Counts == failures' \in Nat /\ (failures' = 0 => failures = 0)
GoesOn(me, c) == DOMAIN me = Fields /\ me.op = rq[c].op

(* A failed statement is never forgotten. *)
LEMMA FailuresCount ==
    ASSUME Typed, failures' = failures \/ failures' = failures + 1
    PROVE  Counts
BY DEF Typed, Counts

(* Answering an instruction leads to the next one or to the end. *)
LEMMA AnsweredDoes ==
    ASSUME NEW c, NEW me, GoesOn(me, c), NEW status
    PROVE  GoesOn(Answered(me, status), c) /\ Answered(me, status).pc \in {"done", "instr"}
BY DEF Answered, Fields, GoesOn

(* What a PROPPATCH does to its request and to the rows: nothing. *)
PatchGoes(c) ==
    /\ rq[c].pc \in Patching
    /\ \E me, wrote : Go(c, me, wrote) /\ GoesOn(me, c) /\ me.pc \in Patching \cup {"done"}

(* Every statement of a PROPPATCH goes so. *)
LEMMA PatchMoves ==
    ASSUME Typed, NEW c \in Clients, Patch(c)
    PROVE  PatchGoes(c) /\ Rows(node, want) /\ Counts
<1>0. GoesOn(rq[c], c)
  BY DEF Typed, Request, GoesOn
<1>1. ASSUME NEW me, GoesOn(me, c), NEW status, NEW wrote, Go(c, Answered(me, status), wrote),
             rq[c].pc \in Patching
      PROVE  PatchGoes(c)
  <2>1. GoesOn(Answered(me, status), c) /\ Answered(me, status).pc \in {"done", "instr"}
    BY <1>1, AnsweredDoes
  <2> QED
    BY <1>1, <2>1 DEF PatchGoes, Patching
<1>2. GoesOn([rq[c] EXCEPT !.failed = TRUE], c)
  BY <1>0 DEF GoesOn, Fields
<1>3. CASE PatchForbidden(c)
  <2>1. rq[c].pc \in Patching /\ Go(c, Answered(rq[c], "403"), FALSE) /\ Rows(node, want) /\ failures' = failures
    BY <1>3 DEF PatchForbidden, At, Rows, Patching, tables
  <2> QED
    BY <1>0, <1>1, <2>1, FailuresCount
<1>4. CASE PatchBadValue(c)
  <2>1. rq[c].pc \in Patching /\ Go(c, Answered(rq[c], "400"), FALSE) /\ Rows(node, want) /\ failures' = failures
    BY <1>4 DEF PatchBadValue, At, Rows, Patching, tables
  <2> QED
    BY <1>0, <1>1, <2>1, FailuresCount
<1>5. CASE PatchColumn(c)
  <2>1. /\ rq[c].pc \in Patching /\ Rows(node, want)
        /\ \E s : \/ Go(c, Answered(rq[c], s), TRUE) /\ failures' = failures
                  \/ Go(c, Answered([rq[c] EXCEPT !.failed = TRUE], s), FALSE) /\ failures' = failures + 1
    BY <1>5, Zenon DEF PatchColumn, At, Rows, Patching, MayFail, Succeeds
  <2> QED
    BY <1>0, <1>1, <1>2, <2>1, FailuresCount
<1>6. CASE UpsertDelete(c)
  <2> DEFINE me == [rq[c] EXCEPT !.pc = "insert"]
  <2>1. /\ rq[c].pc \in Patching /\ Rows(node, want)
        /\ \/ Go(c, me, TRUE) /\ failures' = failures
           \/ Go(c, Answered([rq[c] EXCEPT !.failed = TRUE], "200"), FALSE) /\ failures' = failures + 1
    BY <1>6 DEF UpsertDelete, At, Rows, Patching, MayFail, Succeeds
  <2>2. GoesOn(me, c) /\ me.pc \in Patching
    BY <1>0 DEF GoesOn, Fields, Patching
  <2> HIDE DEF me
  <2>3. Go(c, me, TRUE) => PatchGoes(c)
    BY <2>1, <2>2 DEF PatchGoes
  <2> QED
    BY <1>1, <1>2, <2>1, <2>3, FailuresCount
<1>7. CASE UpsertInsert(c)
  <2>1. /\ rq[c].pc \in Patching /\ Rows(node, want)
        /\ \/ Go(c, Answered(rq[c], "200"), TRUE) /\ failures' = failures
           \/ Go(c, Answered([rq[c] EXCEPT !.failed = TRUE], "200"), FALSE) /\ failures' = failures + 1
    BY <1>7, Zenon DEF UpsertInsert, Rows, Patching, MayFail, Succeeds
  <2> QED
    BY <1>0, <1>1, <1>2, <2>1, FailuresCount
<1>8. CASE delete_custom_property(c)
  <2>1. /\ rq[c].pc \in Patching /\ Rows(node, want)
        /\ \/ Go(c, Answered(rq[c], "200"), TRUE) /\ failures' = failures
           \/ Go(c, Answered([rq[c] EXCEPT !.failed = TRUE], "200"), FALSE) /\ failures' = failures + 1
    BY <1>8 DEF delete_custom_property, At, Rows, Patching, MayFail, Succeeds
  <2> QED
    BY <1>0, <1>1, <1>2, <2>1, FailuresCount
<1>9. CASE TagLookup(c)
  <2> DEFINE me == [rq[c] EXCEPT !.fid = node[rq[c].op.path], !.pc = Instr(c).prop]
  <2>1. /\ rq[c].pc \in Patching /\ Rows(node, want) /\ Instr(c).prop \in {"favorite", "tags"}
        /\ failures' = failures
        /\ Go(c, Answered(rq[c], TagStatus(c)), FALSE) \/ Go(c, me, FALSE)
    BY <1>9 DEF TagLookup, At, Rows, Patching, tables
  <2>2. GoesOn(me, c) /\ me.pc \in Patching
    BY <1>0, <2>1 DEF GoesOn, Fields, Patching
  <2> HIDE DEF me
  <2>3. Go(c, me, FALSE) => PatchGoes(c)
    BY <2>1, <2>2 DEF PatchGoes
  <2> QED
    BY <1>0, <1>1, <2>1, <2>3, FailuresCount
<1>10. CASE set_favorite(c)
  <2> DEFINE me == [rq[c] EXCEPT !.known = {}]
             you == [rq[c] EXCEPT !.known = {}, !.failed = TRUE]
  <2>1. /\ rq[c].pc \in Patching /\ Rows(node, want)
        /\ \/ Go(c, Answered(me, TagStatus(c)), TRUE) /\ failures' = failures
           \/ Go(c, Answered(you, TagStatus(c)), FALSE) /\ failures' = failures + 1
    BY <1>10 DEF set_favorite, Rows, Patching, MayFail, Succeeds
  <2>2. GoesOn(me, c) /\ GoesOn(you, c)
    BY <1>0 DEF GoesOn, Fields
  <2> HIDE DEF me, you
  <2> QED
    BY <1>1, <2>1, <2>2, FailuresCount
<1>11. CASE UpdateTags(c)
  <2> DEFINE now == get_tag_info(c)
             asked == Requested(c, now)
             me == [rq[c] EXCEPT !.pc = "update", !.known = {now},
                                 !.add = (asked \ now) \ {TAG_FAVORITE},
                                 !.del = (now \ asked) \ {TAG_FAVORITE}]
  <2>1. rq[c].pc \in Patching /\ Rows(node, want) /\ failures' = failures
    BY <1>11 DEF UpdateTags, Rows, Patching, tables
  <2>2. Go(c, me, FALSE)
    BY <1>11, Zenon DEF UpdateTags
  <2>3. GoesOn(me, c) /\ me.pc \in Patching
    BY <1>0 DEF GoesOn, Fields, Patching
  <2> HIDE DEF me
  <2> QED
    BY <2>1, <2>2, <2>3, FailuresCount DEF PatchGoes
<1>12. CASE UpdateTag(c)
  <2>1. PICK t \in rq[c].add \cup rq[c].del :
          LET me == [rq[c] EXCEPT !.add = @ \ {t}, !.del = IF rq[c].add = {} THEN @ \ {t} ELSE @] IN
          \/ Go(c, me, TRUE) /\ failures' = failures
          \/ Go(c, [me EXCEPT !.failed = TRUE], FALSE) /\ failures' = failures + 1
    BY <1>12, Zenon DEF UpdateTag, MayFail, Succeeds
  <2> DEFINE me == [rq[c] EXCEPT !.add = @ \ {t}, !.del = IF rq[c].add = {} THEN @ \ {t} ELSE @]
             you == [me EXCEPT !.failed = TRUE]
  <2>2. rq[c].pc \in Patching /\ Rows(node, want) /\ rq[c].pc = "update"
    BY <1>12 DEF UpdateTag, Rows, Patching
  <2>3. GoesOn(me, c) /\ me.pc = "update"
    BY <1>0, <2>2 DEF GoesOn, Fields
  <2>4. (Go(c, me, TRUE) /\ failures' = failures) \/ (Go(c, you, FALSE) /\ failures' = failures + 1)
    BY <2>1
  <2> HIDE DEF me
  <2>5. GoesOn(you, c) /\ you.pc = "update"
    BY <2>3 DEF GoesOn, Fields
  <2> HIDE DEF you
  <2>6. PatchGoes(c)
    BY <2>2, <2>3, <2>4, <2>5 DEF PatchGoes, Patching
  <2> QED
    BY <2>2, <2>4, <2>6, FailuresCount
<1>13. CASE UpdateTagsDone(c)
  <2> DEFINE me == [rq[c] EXCEPT !.known = {}]
  <2>1. /\ rq[c].pc \in Patching /\ Rows(node, want) /\ failures' = failures
        /\ Go(c, Answered(me, TagStatus(c)), FALSE)
    BY <1>13 DEF UpdateTagsDone, Rows, Patching, tables
  <2>2. GoesOn(me, c)
    BY <1>0 DEF GoesOn, Fields
  <2> HIDE DEF me
  <2> QED
    BY <1>1, <2>1, <2>2, FailuresCount
<1> QED
  BY <1>3, <1>4, <1>5, <1>6, <1>7, <1>8, <1>9, <1>10, <1>11, <1>12, <1>13 DEF Patch

(* A PROPPATCH keeps the invariant. *)
LEMMA PatchKeeps ==
    ASSUME Inv, NEW c \in Clients, Patch(c)
    PROVE  Inv'
<1>0. Request(rq[c])
  BY DEF Inv, Typed
<1>1. PatchGoes(c) /\ Rows(node, want) /\ Counts
  BY PatchMoves DEF Inv
<1>2. PICK me, wrote : Go(c, me, wrote) /\ GoesOn(me, c) /\ me.pc \in Patching \cup {"done"}
  BY <1>1 DEF PatchGoes
<1>3. rq[c].op \in Ops /\ rq[c].op.kind = "proppatch" /\ rq[c].pc \in Patching
  BY <1>0, <1>1 DEF PatchGoes, Request, Patching
<1>4. Request(me)
  BY <1>2, <1>3 DEF Request, GoesOn, Patching, Moving, Deleting
<1>5. me.pc \notin {"put", "move"} /\ ~HalfMoved(me) /\ ~HalfMoved(rq[c]) /\ me.op = rq[c].op
  BY <1>2, <1>3 DEF HalfMoved, Patching, GoesOn
<1> QED
  BY <1>1, <1>2, <1>4, <1>5, KeepsRows DEF Counts

(* So does a statement of a structural request that leaves the rows alone. *)
LEMMA OtherStatement ==
    ASSUME Inv, NEW c \in Clients, NEW s, NEW me, NEW wrote, Go(c, me, wrote), GoesOn(me, c), me.pc = s,
           Request(me), s \notin {"put", "move", "ownprops"},
           s = "rekey" => rq[c].pc = "ownprops", s # "rekey" => rq[c].pc \notin {"ownprops", "rekey"},
           Rows(node, want), failures' = failures
    PROVE  Inv'
<1>1. HalfMoved(me) <=> HalfMoved(rq[c])
  BY DEF HalfMoved
<1>2. Counts
  BY FailuresCount DEF Inv
<1> QED
  BY <1>1, <1>2, KeepsRows DEF Counts, GoesOn

(* The next state of the same request. *)
LEMMA NextState ==
    ASSUME NEW c \in Clients, Typed, NEW s,
           rq[c].pc # "idle", s # "idle",
           s \in Patching => rq[c].op.kind = "proppatch",
           s \in {"put", "trash"} => rq[c].op.kind = s,
           s \in Deleting => rq[c].op.kind = "delete", s \in Moving => rq[c].op.kind = "move",
           s \in {"rekey", "bulk", "rest", "loop", "harddir", "hardrows"} => rq[c].op.path \in Dirs,
           s = "hardprops" => rq[c].op.path \notin Dirs
    PROVE  /\ GoesOn([rq[c] EXCEPT !.pc = s], c) /\ [rq[c] EXCEPT !.pc = s].pc = s
           /\ Request([rq[c] EXCEPT !.pc = s])
<1>1. Request(rq[c])
  BY DEF Typed
<1> DEFINE me == [rq[c] EXCEPT !.pc = s]
<1>2. GoesOn(me, c) /\ me.pc = s
  BY <1>1 DEF GoesOn, Request, Fields
<1> HIDE DEF me
<1>3. Request(me)
  BY <1>1, <1>2 DEF Request, GoesOn
<1> QED
  BY <1>2, <1>3 DEF me

(* A structural request that has not begun to move anything finds the rows *)
(* in order.                                                               *)
LEMMA InOrder ==
    ASSUME Inv, failures = 0, NEW c \in Clients, Structural(c), ~HalfMoved(rq[c])
    PROVE  Follows /\ Tree /\ Ready(rq[c])
<1>1. ASSUME NEW x \in Clients PROVE ~HalfMoved(rq[x])
  <2>1. Request(rq[x])
    BY DEF Inv, Typed
  <2>2. HalfMoved(rq[x]) => Structural(x)
    BY <2>1, StructuralStates DEF HalfMoved, Moving, Structural, StructuralKinds
  <2> QED
    BY <2>2 DEF Inv, Solo
<1> QED
  BY <1>1 DEF Inv, Tables

(* The operation of a running request. *)
LEMMA OpsOf ==
    ASSUME Typed, NEW c \in Clients, rq[c].pc # "idle"
    PROVE  /\ rq[c].op \in Ops /\ rq[c].op.path \in Paths
           /\ rq[c].op.kind = "move" =>
                /\ rq[c].op.to \in Paths /\ ~Under(rq[c].op.to, rq[c].op.path)
                /\ \A p \in Paths : Under(p, rq[c].op.path) =>
                      Rebase(p, rq[c].op.path, rq[c].op.to) \in Paths
<1>1. rq[c].op \in Ops
  BY DEF Typed, Request
<1> QED
  BY <1>1, OpsAssumption

(* A new file has an id of its own. *)
LEMMA NextIdIsNew ==
    ASSUME Typed
    PROVE  NextId \in Nat \ {0} /\ \A f \in DOMAIN want : f < NextId
<1> DEFINE S == DOMAIN want \cup {0}
<1>1. S \subseteq Nat
  BY DEF Typed
<1>2. PICK m \in S : \A f \in S : m >= f
  <2>1. PICK m \in S : \A f \in DOMAIN want : f <= m
    BY DEF Typed
  <2>2. \A f \in S : m >= f
    BY <1>1, <2>1
  <2> QED
    BY <2>2
<1>3. Max(S) \in S /\ \A f \in S : Max(S) >= f
  BY <1>2, Zenon DEF Max
<1>4. NextId = 1 + Max(S)
  BY DEF NextId
<1> HIDE DEF S
<1>5. Max(S) \in Nat
  BY <1>1, <1>3
<1>6. \A f \in S : f < 1 + Max(S)
  BY <1>1, <1>3, <1>5
<1>7. NextId \in Nat \ {0}
  BY <1>4, <1>5
<1>8. \A f \in DOMAIN want : f \in S
  BY DEF S
<1> QED
  BY <1>4, <1>6, <1>7, <1>8

(* A new file keeps the invariant: its id is new and its place is free. *)
LEMMA PutKeeps ==
    ASSUME Inv, NEW c \in Clients, PutNew(c)
    PROVE  Inv'
<1> DEFINE me == [rq[c] EXCEPT !.pc = "done"]
<1>1. /\ rq[c].pc = "put" /\ Go(c, me, TRUE) /\ failures' = failures
      /\ node' = [node EXCEPT ![rq[c].op.path] = NextId]
      /\ want' = [f \in DOMAIN want \cup {NextId} |-> IF f = NextId THEN rq[c].op.path ELSE want[f]]
  BY DEF PutNew
<1>2. Typed /\ rq[c].op.kind = "put" /\ Structural(c) /\ ~HalfMoved(rq[c])
  BY <1>1 DEF Inv, Typed, Request, Structural, HalfMoved
<1>3. GoesOn(me, c) /\ me.pc = "done" /\ Request(me)
  BY <1>1, <1>2, NextState DEF Patching, Deleting, Moving
<1>4. rq[c].op.path \in Paths
  BY <1>1, <1>2, OpsOf
<1>5. NextId \in Nat \ {0} /\ \A f \in DOMAIN want : f < NextId
  BY <1>2, NextIdIsNew
<1>6. NextId \notin DOMAIN want
  BY <1>2, <1>5 DEF Typed
<1> HIDE DEF me
<1>7. /\ node' \in [Paths -> Nat] /\ failures' \in Nat
      /\ DOMAIN want' = DOMAIN want \cup {NextId} /\ DOMAIN want' \subseteq Nat \ {0}
  BY <1>1, <1>2, <1>4, <1>5 DEF Typed
<1>8. want' \in [DOMAIN want' -> Paths \cup {Gone}]
  BY <1>1, <1>2, <1>4, <1>7 DEF Typed
<1>9. \A f \in DOMAIN want' : f <= NextId
  BY <1>2, <1>5, <1>7 DEF Typed
<1>10. ASSUME failures' = 0 PROVE Follows' /\ Tree'
  <2>1. Follows /\ Tree /\ Free(rq[c].op.path)
    BY <1>1, <1>2, <1>10, InOrder DEF Ready
  <2> QED
    BY <1>1, <1>2, <1>4, <1>5, <1>6, <2>1, PutFollows
<1>11. me.pc \notin {"put", "move"} /\ ~HalfMoved(me) /\ me.op = rq[c].op
  BY <1>3 DEF HalfMoved, GoesOn
<1>12. \E m \in DOMAIN want' \cup {0} : \A f \in DOMAIN want' : f <= m
  BY <1>7, <1>9
<1> QED
  BY <1>1, <1>2, <1>3, <1>7, <1>8, <1>10, <1>11, <1>12, Settles

(* What a MOVE wants is a path. *)
LEMMA RebasedWants ==
    ASSUME Typed, NEW from \in Paths, NEW to \in Paths,
           \A p \in Paths : Under(p, from) => Rebase(p, from, to) \in Paths,
           NEW f \in DOMAIN want
    PROVE  (IF want[f] = from \/ Under(want[f], from) THEN Rebase(want[f], from, to) ELSE want[f])
             \in Paths \cup {Gone}
<1>0. from \in Seq(STRING) /\ to \in Seq(STRING)
  BY PathsAssumption
<1>1. want[f] \in Paths \cup {Gone}
  BY DEF Typed
<1>2. Rebase(from, from, to) = to
  BY <1>0, RebaseSelf
<1>3. ~Under(Gone, from)
  <2>1. Gone \in Seq(STRING) /\ Len(Gone) = 0 /\ Len(from) \in Nat
    BY <1>0, EmptySeq, LenProperties DEF Gone
  <2>2. ~(Len(from) < Len(Gone))
    BY <2>1
  <2> QED
    BY <1>0, <2>1, <2>2, UnderMeans, Zenon
<1>4. CASE want[f] = from
  BY <1>2, <1>4
<1>5. CASE want[f] # from
  BY <1>1, <1>3, <1>5
<1> QED
  BY <1>4, <1>5

(* The first statement of a MOVE leads to the half-moved tree. *)
LEMMA MoveRowKeeps ==
    ASSUME Inv, NEW c \in Clients, MoveRow(c)
    PROVE  Inv'
<1> DEFINE me == [rq[c] EXCEPT !.pc = "ownprops"]
<1>0. PICK from, to : from = rq[c].op.path /\ to = rq[c].op.to
  OBVIOUS
<1>1. /\ rq[c].pc = "move" /\ Go(c, me, TRUE) /\ failures' = failures
      /\ node' = [node EXCEPT ![from] = 0, ![to] = node[from]]
      /\ want' = [f \in DOMAIN want |->
                    IF want[f] = from \/ Under(want[f], from) THEN Rebase(want[f], from, to) ELSE want[f]]
  BY <1>0 DEF MoveRow
<1>2. Typed /\ rq[c].op.kind = "move" /\ Structural(c) /\ ~HalfMoved(rq[c])
  BY <1>1 DEF Inv, Typed, Request, Structural, HalfMoved, Moving
<1>3. GoesOn(me, c) /\ me.pc = "ownprops" /\ Request(me)
  BY <1>1, <1>2, NextState DEF Patching, Deleting, Moving
<1>4. /\ from \in Paths /\ to \in Paths /\ ~Under(to, from)
      /\ \A p \in Paths : Under(p, from) => Rebase(p, from, to) \in Paths
  BY <1>0, <1>1, <1>2, OpsOf
<1> HIDE DEF me
<1>5. /\ DOMAIN rq' = Clients /\ rq'[c] = me /\ \A x \in Clients : Request(rq'[x])
      /\ \A x \in Clients \ {c} : rq'[x].pc = rq[x].pc /\ rq'[x].op = rq[x].op
  BY <1>1, <1>2, <1>3, GoDoes
<1>6. Solo'
  BY <1>1, <1>2, <1>3, SoloKept DEF Inv, GoesOn
<1>7. Typed'
  <2>1. node' \in [Paths -> Nat] /\ failures' \in Nat
    BY <1>1, <1>2, <1>4 DEF Typed
  <2>2. DOMAIN want' = DOMAIN want /\ want' \in [DOMAIN want -> Paths \cup {Gone}]
    BY <1>1, <1>2, <1>4, RebasedWants
  <2> QED
    BY <1>2, <1>5, <2>1, <2>2 DEF Typed
<1>8. ASSUME failures' = 0 PROVE Tables'
  <2>1. Follows /\ Tree /\ node[from] # 0 /\ Free(to)
    BY <1>0, <1>1, <1>2, <1>8, InOrder DEF Ready
  <2>2. Half(from, to)'
    BY <1>1, <1>2, <1>4, <2>1, MoveStarts
  <2>3. HalfMoved(rq[c])' /\ rq'[c].op = rq[c].op /\ Ready(rq[c])'
    BY <1>3, <1>5 DEF HalfMoved, GoesOn, Ready
  <2>4. ASSUME NEW x \in Clients \ {c} PROVE Ready(rq[x])' /\ ~HalfMoved(rq[x])'
    <3>1. Request(rq[x]) /\ ~Structural(x)
      BY <1>2 DEF Inv, Typed, Solo
    <3>2. rq[x].pc \notin {"put", "move", "ownprops", "rekey"}
      BY <3>1, StructuralStates DEF Structural, StructuralKinds, Moving
    <3> QED
      BY <1>5, <3>2 DEF Ready, HalfMoved
  <2>5. Half(rq[c].op.path, rq[c].op.to)'
    BY <1>0, <2>2, <2>3 DEF Half
  <2> QED
    BY <2>3, <2>4, <2>5 DEF Tables
<1> QED
  BY <1>6, <1>7, <1>8 DEF Inv

(* The tables as they were. *)
LEMMA SameTables ==
    ASSUME Typed, Rows(node, want)
    PROVE  /\ node' \in [Paths -> Nat] /\ want' \in [DOMAIN want' -> Paths \cup {Gone}]
           /\ DOMAIN want' \subseteq Nat \ {0}
           /\ \E m \in DOMAIN want' \cup {0} : \A f \in DOMAIN want' : f <= m
           /\ Follows /\ Tree => Follows' /\ Tree'
BY DEF Typed, Rows, Follows, Tree

(* Then the node's own properties; a file is moved with that. *)
LEMMA OwnPropsKeep ==
    ASSUME Inv, NEW c \in Clients, MoveOwnProps(c)
    PROVE  Inv'
<1> DEFINE s == IF rq[c].op.path \in Dirs THEN "rekey" ELSE "done"
           me == [rq[c] EXCEPT !.pc = s]
<1>1. /\ rq[c].pc = "ownprops" /\ Go(c, me, TRUE) /\ failures' = failures /\ Rows(node, want)
  BY DEF MoveOwnProps, Rows
<1>2. Typed /\ rq[c].op.kind = "move" /\ Structural(c)
  BY <1>1 DEF Inv, Typed, Request, Structural, Moving
<1>3. GoesOn(me, c) /\ me.pc = s /\ Request(me)
  BY <1>1, <1>2, NextState DEF Patching, Deleting, Moving
<1>4. rq[c].op.path \in Paths /\ rq[c].op.to \in Paths
  BY <1>1, <1>2, OpsOf
<1> HIDE DEF me
<1>5. CASE rq[c].op.path \in Dirs
  BY <1>1, <1>3, <1>5, OtherStatement
<1>6. CASE rq[c].op.path \notin Dirs
  <2>1. failures = 0 => Follows /\ Tree
    <3>1. failures = 0 => Half(rq[c].op.path, rq[c].op.to)
      BY <1>1 DEF Inv, Tables, HalfMoved
    <3> QED
      BY <1>2, <1>4, <1>6, <3>1, HalfFile
  <2>2. me.pc \notin {"put", "move"} /\ ~HalfMoved(me) /\ me.op = rq[c].op
    BY <1>3, <1>6 DEF HalfMoved, GoesOn
  <2>3. failures' \in Nat
    BY <1>1, <1>2 DEF Typed
  <2> QED
    BY <1>1, <1>2, <1>3, <2>1, <2>2, <2>3, SameTables, Settles
<1> QED
  BY <1>5, <1>6

(* rekey_subtree_paths puts the half-moved tree in order. *)
LEMMA RekeyKeeps ==
    ASSUME Wild = {}, Inv, NEW c \in Clients, rekey_subtree_paths(c)
    PROVE  Inv'
<1> DEFINE s == IF backend = "pg" THEN "bulk" ELSE "rest"
           me == [rq[c] EXCEPT !.pc = s]
           from == rq[c].op.path
           to == rq[c].op.to
<1>1. rq[c].pc = "rekey" /\ Go(c, me, TRUE) /\ UNCHANGED want
  BY DEF rekey_subtree_paths
<1>2. Typed /\ rq[c].op.kind = "move" /\ Structural(c) /\ rq[c].op.path \in Dirs
  BY <1>1 DEF Inv, Typed, Request, Structural, Moving
<1>3. GoesOn(me, c) /\ me.pc = s /\ Request(me)
  BY <1>1, <1>2, NextState DEF Patching, Deleting, Moving
<1>4. /\ from \in Paths /\ to \in Paths /\ ~Under(to, from)
      /\ \A p \in Paths : Under(p, from) => Rebase(p, from, to) \in Paths
  BY <1>1, <1>2, OpsOf
<1>5. me.pc \notin {"put", "move"} /\ ~HalfMoved(me) /\ me.op = rq[c].op
  BY <1>3 DEF HalfMoved, GoesOn
<1> HIDE DEF me
<1>6. /\ want' \in [DOMAIN want' -> Paths \cup {Gone}] /\ DOMAIN want' \subseteq Nat \ {0}
      /\ \E m \in DOMAIN want' \cup {0} : \A f \in DOMAIN want' : f <= m
  BY <1>1, <1>2 DEF Typed
<1>7. CASE MayFail(c) /\ UNCHANGED <<node, stranded>>
  <2>1. node' \in [Paths -> Nat] /\ failures' \in Nat /\ failures' # 0
    BY <1>2, <1>7 DEF MayFail, Typed
  <2> QED
    BY <1>1, <1>2, <1>3, <1>5, <1>6, <2>1, Settles
<1>8. CASE \E S \in Rekeyable(from, to) :
             node' = AfterRekey(S, from, to) /\ Succeeds
  <2>1. PICK S \in Rekeyable(from, to) :
             node' = AfterRekey(S, from, to) /\ Succeeds
    BY <1>8
  <2>2. failures' = failures /\ failures' \in Nat
    BY <1>2, <2>1 DEF Succeeds, Typed
  <2>3. S \subseteq Paths
    BY DEF Rekeyable
  <2>4. node' \in [Paths -> Nat]
    <3>1. \A p \in Paths : node[p] \in Nat
      BY <1>2 DEF Typed
    <3>2. ASSUME NEW p \in Paths PROVE node'[p] \in Nat
      <4>1. CASE \E x \in S : Rebase(x, from, to) = p
        <5> DEFINE q == CHOOSE x \in S : Rebase(x, from, to) = p
        <5>1. q \in S
          BY <4>1
        <5>2. node'[p] = node[q]
          BY <2>1, <4>1 DEF AfterRekey
        <5> HIDE DEF q
        <5> QED
          BY <2>3, <3>1, <5>1, <5>2
      <4>2. CASE ~\E x \in S : Rebase(x, from, to) = p
        BY <2>1, <3>1, <4>2 DEF AfterRekey
      <4> QED
        BY <4>1, <4>2
    <3>3. node' = [p \in Paths |-> node'[p]]
      BY <2>1 DEF AfterRekey
    <3> QED
      BY <3>2, <3>3
  <2>5. ASSUME failures' = 0 PROVE Follows' /\ Tree'
    <3>1. Half(from, to)
      BY <1>1, <2>2, <2>5 DEF Inv, Tables, HalfMoved
    <3>2. S = {p \in Paths : node[p] # 0 /\ Under(p, from)}
      BY <1>2, <1>4, <3>1, RekeyFinishes
    <3> QED
      BY <1>1, <1>2, <1>4, <2>1, <3>1, <3>2, RekeyFollows
  <2> QED
    BY <1>1, <1>2, <1>3, <1>5, <1>6, <2>2, <2>4, <2>5, Settles
<1> QED
  BY <1>7, <1>8 DEF rekey_subtree_paths, AfterRekey

(* The statements of a MOVE that follow are about properties only. *)
LEMMA PropsFollowKeep ==
    ASSUME Inv, NEW c \in Clients, UpdatePropsBulk(c) \/ PropsRestSelect(c) \/ PropsRestUpdate(c)
    PROVE  Inv'
<1>0. Typed /\ Request(rq[c]) /\ GoesOn(rq[c], c)
  BY DEF Inv, Typed, Request, GoesOn
<1>1. ASSUME NEW me, NEW wrote, Go(c, me, wrote), GoesOn(me, c), me.pc \in {"rest", "loop", "done"},
             rq[c].pc \in {"bulk", "rest", "loop"}, Rows(node, want), failures' = failures
      PROVE  Inv'
  <2>1. rq[c].op.kind = "move" /\ rq[c].op.path \in Dirs /\ rq[c].op \in Ops
    BY <1>0, <1>1 DEF Request, Moving
  <2>2. Request(me)
    BY <1>1, <2>1 DEF Request, GoesOn, Patching, Moving, Deleting
  <2> QED
    BY <1>1, <2>2, OtherStatement
<1>2. CASE UpdatePropsBulk(c)
  <2> DEFINE me == [rq[c] EXCEPT !.pc = "rest"]
  <2>1. rq[c].pc = "bulk" /\ Go(c, me, TRUE) /\ Rows(node, want) /\ failures' = failures
    BY <1>2 DEF UpdatePropsBulk, Rows
  <2>2. GoesOn(me, c) /\ me.pc = "rest"
    BY <1>0 DEF GoesOn, Fields
  <2> HIDE DEF me
  <2> QED
    BY <1>1, <2>1, <2>2
<1>3. CASE PropsRestSelect(c)
  <2>1. rq[c].pc = "rest" /\ Rows(node, want) /\ failures' = failures
    BY <1>3 DEF PropsRestSelect, Rows, tables
  <2>2. PICK S : Go(c, [rq[c] EXCEPT !.pc = "loop", !.list = S], FALSE)
    BY <1>3, Zenon DEF PropsRestSelect
  <2> DEFINE me == [rq[c] EXCEPT !.pc = "loop", !.list = S]
  <2>3. GoesOn(me, c) /\ me.pc = "loop"
    BY <1>0 DEF GoesOn, Fields
  <2>4. Go(c, me, FALSE)
    BY <2>2
  <2> HIDE DEF me
  <2> QED
    BY <1>1, <2>1, <2>3, <2>4
<1>4. CASE PropsRestUpdate(c)
  <2>1. rq[c].pc = "loop" /\ Rows(node, want) /\ failures' = failures
    BY <1>4 DEF PropsRestUpdate, Rows
  <2>2. CASE Go(c, [rq[c] EXCEPT !.pc = "done"], FALSE)
    <3> DEFINE me == [rq[c] EXCEPT !.pc = "done"]
    <3>1. GoesOn(me, c) /\ me.pc = "done" /\ Go(c, me, FALSE)
      BY <1>0, <2>2 DEF GoesOn, Fields
    <3> HIDE DEF me
    <3> QED
      BY <1>1, <2>1, <3>1
  <2>3. CASE \E p \in rq[c].list : Go(c, [rq[c] EXCEPT !.list = @ \ {p}], TRUE)
    <3>1. PICK p : Go(c, [rq[c] EXCEPT !.list = @ \ {p}], TRUE)
      BY <2>3
    <3> DEFINE me == [rq[c] EXCEPT !.list = @ \ {p}]
    <3>2. GoesOn(me, c) /\ me.pc = "loop"
      BY <1>0, <2>1 DEF GoesOn, Fields
    <3>3. Go(c, me, TRUE)
      BY <3>1
    <3> HIDE DEF me
    <3> QED
      BY <1>1, <2>1, <3>2, <3>3
  <2> QED
    BY <1>4, <2>2, <2>3 DEF PropsRestUpdate
<1> QED
  BY <1>2, <1>3, <1>4

(* What a DELETE takes out of the table. *)
LEMMA RemovedMeans ==
    ASSUME Wild = {}, NEW p \in Paths, NEW q \in Paths
    PROVE  q \in Removed(p) <=> q = p \/ Under(q, p)
<1>1. p \in Seq(STRING) /\ q \in Seq(STRING)
  BY PathsAssumption
<1>2. LikeUnder(q, p) <=> Under(q, p)
  BY <1>1, LikeMeans
<1>3. Under(q, p) => p \in Dirs
  BY NothingBelowFiles
<1> QED
  BY <1>2, <1>3 DEF Removed

(* A DELETE takes out a subtree whole and the tree stays in order. *)
LEMMA RemovalKeeps ==
    ASSUME Inv, NEW c \in Clients, NEW s \in {"done", "hardprops"}, NEW me, me = [rq[c] EXCEPT !.pc = s],
           Go(c, me, TRUE), rq[c].pc \in {"trash", "delete", "hardrows"},
           s = "hardprops" => rq[c].pc = "delete" /\ rq[c].op.path \notin Dirs,
           node' = [q \in Paths |-> IF q = rq[c].op.path \/ Under(q, rq[c].op.path) THEN 0 ELSE node[q]],
           Unwant(rq[c].op.path), failures' = failures
    PROVE  Inv'
<1>1. /\ Typed /\ Structural(c) /\ ~HalfMoved(rq[c]) /\ rq[c].pc # "idle"
      /\ rq[c].pc = "delete" => rq[c].op.kind = "delete"
  BY DEF Inv, Typed, Request, Structural, HalfMoved, Deleting
<1>2. GoesOn(me, c) /\ me.pc = s /\ Request(me)
  BY <1>1, NextState DEF Patching, Deleting, Moving
<1>3. rq[c].op.path \in Paths
  BY <1>1, OpsOf
<1>4. node' \in [Paths -> Nat] /\ failures' \in Nat
  BY <1>1 DEF Typed
<1>5. DOMAIN want' = DOMAIN want /\ want' \in [DOMAIN want -> Paths \cup {Gone}]
  BY <1>1 DEF Unwant, Typed
<1>6. /\ want' \in [DOMAIN want' -> Paths \cup {Gone}] /\ DOMAIN want' \subseteq Nat \ {0}
      /\ \E m \in DOMAIN want' \cup {0} : \A f \in DOMAIN want' : f <= m
  BY <1>1, <1>5 DEF Typed
<1>7. ASSUME failures' = 0 PROVE Follows' /\ Tree'
  <2>1. Follows /\ Tree
    BY <1>1, <1>7, InOrder
  <2> QED
    BY <1>1, <1>3, <2>1, RemoveFollows
<1>8. me.pc \notin {"put", "move"} /\ ~HalfMoved(me) /\ me.op = rq[c].op
  BY <1>2 DEF HalfMoved, GoesOn
<1> QED
  BY <1>1, <1>2, <1>4, <1>6, <1>7, <1>8, Settles

(* Each statement of a DELETE, to the trash or for good. *)
LEMMA DeleteKeeps ==
    ASSUME Wild = {}, Inv, NEW c \in Clients, Delete(c)
    PROVE  Inv'
<1> DEFINE p == rq[c].op.path
           To(s) == [rq[c] EXCEPT !.pc = s]
<1>0. Typed /\ Request(rq[c])
  BY DEF Inv, Typed
<1>p. rq[c].pc # "idle" => p \in Paths
  BY <1>0, OpsOf
<1>r. p \in Paths => [q \in Paths |-> IF q \in Removed(p) THEN 0 ELSE node[q]]
                     = [q \in Paths |-> IF q = p \/ Under(q, p) THEN 0 ELSE node[q]]
  BY RemovedMeans
<1>1. CASE TrashRows(c)
  <2>1. /\ rq[c].pc = "trash" /\ Unwant(p) /\ Go(c, To("done"), TRUE) /\ failures' = failures
        /\ node' = [q \in Paths |-> IF q \in Removed(p) THEN 0 ELSE node[q]]
    BY <1>1 DEF TrashRows
  <2>2. node' = [q \in Paths |-> IF q = p \/ Under(q, p) THEN 0 ELSE node[q]]
    BY <1>p, <1>r, <2>1
  <2> QED
    BY <2>1, <2>2, RemovalKeeps
<1>2. CASE HardDirRows(c)
  <2>1. /\ rq[c].pc = "hardrows" /\ Unwant(p) /\ Go(c, To("done"), TRUE) /\ failures' = failures
        /\ node' = [q \in Paths |-> IF q \in Removed(p) THEN 0 ELSE node[q]]
    BY <1>2 DEF HardDirRows
  <2>2. node' = [q \in Paths |-> IF q = p \/ Under(q, p) THEN 0 ELSE node[q]]
    BY <1>p, <1>r, <2>1
  <2> QED
    BY <2>1, <2>2, RemovalKeeps
<1>3. CASE HardFileRow(c)
  <2>1. /\ rq[c].pc = "delete" /\ p \notin Dirs /\ Unwant(p) /\ Go(c, To("hardprops"), TRUE)
        /\ failures' = failures /\ node' = [node EXCEPT ![p] = 0]
    BY <1>3 DEF HardFileRow
  <2>2. \A q \in Paths : ~Under(q, p)
    BY <1>p, <2>1, NothingBelowFiles
  <2>3. node' = [q \in Paths |-> IF q = p \/ Under(q, p) THEN 0 ELSE node[q]]
    BY <1>0, <1>p, <2>1, <2>2 DEF Typed
  <2> QED
    BY <2>1, <2>3, RemovalKeeps
<1>4. ASSUME NEW s \in {"done", "harddir", "hardrows"}, Go(c, To(s), TRUE), Rows(node, want),
             rq[c].pc \in Deleting, s # "done" => p \in Dirs, failures' = failures
      PROVE  Inv'
  <2>1. rq[c].op.kind = "delete" /\ rq[c].pc # "idle" /\ rq[c].pc \notin {"ownprops", "rekey"}
    BY <1>0, <1>4 DEF Request, Deleting
  <2>2. GoesOn(To(s), c) /\ To(s).pc = s /\ Request(To(s))
    BY <1>0, <1>4, <2>1, NextState DEF Patching, Deleting, Moving
  <2> HIDE DEF To
  <2> QED
    BY <1>4, <2>1, <2>2, OtherStatement
<1>5. CASE HardFileProps(c)
  BY <1>4, <1>5 DEF HardFileProps, Rows, Deleting
<1>6. CASE HardDirBulk(c)
  BY <1>4, <1>6 DEF HardDirBulk, Rows, Deleting
<1>7. CASE HardDirProps(c)
  <2>1. p \in Dirs
    BY <1>0, <1>7 DEF HardDirProps, Request
  <2> QED
    BY <1>4, <1>7, <2>1 DEF HardDirProps, Rows, Deleting
<1> QED
  BY <1>1, <1>2, <1>3, <1>5, <1>6, <1>7 DEF Delete

(* A structural request starts alone, on a tree in order, and its target   *)
(* is free with every folder above it in place.                            *)
LEMMA StartKeeps ==
    ASSUME Inv, NEW c \in Clients, NEW op \in Ops, Start(c, op)
    PROVE  Inv'
<1> DEFINE s == IF op.kind = "proppatch" THEN "instr" ELSE op.kind
           me == [Idle EXCEPT !.op = op, !.pc = s, !.fid0 = node[op.path],
                              !.fav0 = TAG_FAVORITE \in TagsOf(node[op.path])]
<1>1. /\ rq[c].pc = "idle" /\ Admissible(op) /\ (op.kind # "proppatch" => ~Busy)
      /\ Go(c, me, FALSE) /\ Rows(node, want) /\ failures' = failures
  BY DEF Start, Rows, tables
<1>2. DOMAIN me = Fields /\ me.op = op /\ me.pc = s
  BY DEF Idle, Fields
<1> HIDE DEF me
<1>3. /\ op.kind \in {"proppatch", "put", "move", "trash", "delete"} /\ op.path \in Paths
      /\ op.kind = "move" => op.to \in Paths
  BY OpsAssumption
<1>4. Request(me)
  BY <1>2, <1>3 DEF Request, Patching, Moving, Deleting
<1>5. ~HalfMoved(me) /\ ~HalfMoved(rq[c]) /\ Typed /\ Solo /\ failures \in Nat
  BY <1>1, <1>2, <1>3 DEF HalfMoved, Inv, Typed
<1>6. CASE op.kind = "proppatch"
  BY <1>1, <1>2, <1>4, <1>5, <1>6, KeepsRows DEF StructuralKinds
<1>7. CASE op.kind # "proppatch"
  <2>1. /\ DOMAIN rq' = Clients /\ rq'[c] = me /\ \A x \in Clients : Request(rq'[x])
        /\ \A x \in Clients \ {c} : rq'[x].pc = rq[x].pc /\ rq'[x].op = rq[x].op
    BY <1>1, <1>4, <1>5, GoDoes
  <2>2. \A x \in Clients : ~Structural(x)
    BY <1>1, <1>7 DEF Busy
  <2>3. ASSUME NEW x \in Clients \ {c}
        PROVE  ~HalfMoved(rq[x]) /\ ~HalfMoved(rq[x])' /\ Ready(rq[x])' /\ ~Structural(x)'
    <3>1. Request(rq[x])
      BY <1>5 DEF Typed
    <3>2. rq[x].pc \notin {"put", "move", "ownprops", "rekey"}
      BY <2>2, <3>1, StructuralStates DEF Structural, StructuralKinds, Moving
    <3>3. ~Structural(x)'
      BY <2>1, <2>2 DEF Structural
    <3> QED
      BY <2>1, <3>2, <3>3 DEF Ready, HalfMoved
  <2>4. Solo'
    BY <2>3 DEF Solo
  <2>5. Typed'
    BY <1>1, <1>5, <2>1 DEF Typed, Rows
  <2>6. ASSUME failures' = 0 PROVE Tables'
    <3>1. Follows /\ Tree
      BY <1>1, <1>5, <2>3, <2>6 DEF Inv, Tables
    <3>2. Follows' /\ Tree'
      BY <1>1, <3>1 DEF Follows, Tree, Rows
    <3>3. ASSUME op.kind = "put" PROVE Ready(me)
      <4>1. node[op.path] = 0 /\ (Len(op.path) > 1 => node[Front(op.path)] # 0)
        BY <1>1, <3>3 DEF Admissible
      <4>2. Free(op.path)
        BY <1>3, <3>1, <4>1, FreePlaces
      <4>3. Ready(me)
        BY <1>2, <3>3, <4>2 DEF Ready
      <4> QED
        BY <4>3
    <3>4. ASSUME op.kind = "move" PROVE Ready(me)
      <4>1. node[op.path] # 0 /\ node[op.to] = 0 /\ (Len(op.to) > 1 => node[Front(op.to)] # 0)
        BY <1>1, <3>4 DEF Admissible
      <4>2. Free(op.to)
        BY <1>3, <3>1, <3>4, <4>1, FreePlaces
      <4>3. Ready(me)
        BY <1>2, <3>4, <4>1, <4>2 DEF Ready
      <4> QED
        BY <4>3
    <3>5. Ready(me)
      BY <1>2, <1>3, <3>3, <3>4 DEF Ready
    <3>6. Ready(rq[c])' /\ ~HalfMoved(rq[c])'
      BY <1>1, <1>5, <2>1, <3>5 DEF Ready, Free, Rows, HalfMoved
    <3> QED
      BY <2>3, <3>2, <3>6 DEF Tables
  <2> QED
    BY <2>4, <2>5, <2>6 DEF Inv
<1> QED
  BY <1>6, <1>7

(* A request that ends leaves its client idle. *)
LEMMA FinishKeeps ==
    ASSUME Inv, NEW c \in Clients, Finish(c)
    PROVE  Inv'
<1>1. rq[c].pc = "done" /\ Go(c, Idle, FALSE) /\ Rows(node, want) /\ failures' = failures
  BY DEF Finish, Rows, tables
<1>2. Request(Idle) /\ Idle.pc = "idle" /\ Idle.op.kind = "none"
  BY DEF Idle, Request, Fields, Patching, Moving, Deleting
<1>3. ~HalfMoved(Idle) /\ ~HalfMoved(rq[c]) /\ failures \in Nat
  BY <1>1, <1>2 DEF HalfMoved, Inv, Typed
<1> QED
  BY <1>1, <1>2, <1>3, KeepsRows DEF StructuralKinds

(* Before the first request the table is the tree the files were put in. *)
LEMMA Begins ==
    ASSUME Init
    PROVE  Inv
<1> DEFINE F == {InitNode[p] : p \in Paths} \ {0}
           At0(f) == CHOOSE p \in Paths : InitNode[p] = f
<1>1. /\ node = InitNode /\ failures = 0 /\ want = [f \in F |-> At0(f)]
      /\ rq = [c \in Clients |-> Idle]
  BY DEF Init
<1>2. InitNode \in [Paths -> Nat]
  BY InitAssumption
<1>3. ASSUME NEW f \in F PROVE At0(f) \in Paths /\ InitNode[At0(f)] = f
  OBVIOUS
<1>4. ASSUME NEW p \in Paths, InitNode[p] # 0 PROVE InitNode[p] \in F /\ At0(InitNode[p]) = p
  <2>1. InitNode[p] \in F
    BY <1>4
  <2>2. At0(InitNode[p]) \in Paths /\ InitNode[At0(InitNode[p])] = InitNode[p]
    BY <1>3, <2>1
  <2> QED
    BY <1>4, <2>1, <2>2, InitAssumption, Zenon
<1>5. F \subseteq Nat \ {0}
  BY <1>2
<1>6. \E m \in F \cup {0} : \A f \in F : f <= m
  <2>1. PICK q \in Paths : \A p \in Paths : InitNode[p] <= InitNode[q]
    BY InitAssumption
  <2>2. InitNode[q] \in F \cup {0} /\ \A f \in F : f <= InitNode[q]
    BY <2>1
  <2> QED
    BY <2>2
<1> HIDE DEF F, At0
<1>7. Request(Idle) /\ Idle.pc = "idle" /\ Idle.op.kind = "none"
  BY DEF Idle, Request, Fields, Patching, Moving, Deleting
<1>8. Typed
  <2>1. DOMAIN want = F /\ want \in [F -> Paths \cup {Gone}]
    BY <1>1, <1>3
  <2>2. DOMAIN rq = Clients /\ \A c \in Clients : Request(rq[c])
    BY <1>1, <1>7
  <2> QED
    BY <1>1, <1>2, <1>5, <1>6, <2>1, <2>2 DEF Typed
<1>9. Solo
  BY <1>1, <1>7 DEF Solo, Structural
<1>10. Follows
  <2>1. \A f \in DOMAIN want : node[want[f]] = f
    BY <1>1, <1>3
  <2>2. \A p \in Paths : node[p] # 0 => node[p] \in DOMAIN want /\ want[node[p]] = p
    BY <1>1, <1>4
  <2> QED
    BY <2>1, <2>2 DEF Follows
<1>11. Tree
  BY <1>1, InitAssumption DEF Tree
<1>12. \A c \in Clients : Ready(rq[c]) /\ ~HalfMoved(rq[c])
  BY <1>1, <1>7 DEF Ready, HalfMoved
<1> QED
  BY <1>8, <1>9, <1>10, <1>11, <1>12 DEF Inv, Tables

(* Between structural requests no tree is half moved. *)
LEMMA InvImplies ==
    ASSUME Inv
    PROVE  RowsFollowRequests
<1> SUFFICES ASSUME ~Busy, failures = 0 PROVE Follows
  BY DEF RowsFollowRequests, Follows
<1>1. ASSUME NEW c \in Clients PROVE ~HalfMoved(rq[c])
  <2>1. Request(rq[c]) /\ ~Structural(c)
    BY DEF Inv, Typed, Busy
  <2> QED
    BY <2>1, StructuralStates DEF HalfMoved, Moving, Structural, StructuralKinds
<1> QED
  BY <1>1 DEF Inv, Tables

(* Every statement of every request keeps the rows where they belong. *)
LEMMA InvStep ==
    ASSUME Wild = {}, Inv, [Next]_vars
    PROVE  Inv'
<1>1. CASE UNCHANGED vars
  <2>1. Typed' /\ Solo'
    BY <1>1 DEF Inv, vars, Typed, Request, Solo, Structural
  <2>2. Tables => Tables'
    BY <1>1 DEF vars, Tables, Ready, Free, HalfMoved, Half, Follows, Tree
  <2> QED
    BY <1>1, <2>1, <2>2 DEF Inv, vars
<1>2. ASSUME NEW c \in Clients, Move(c) PROVE Inv'
  BY <1>2, PutKeeps, MoveRowKeeps, OwnPropsKeep, RekeyKeeps, PropsFollowKeep DEF Move
<1> QED
  BY <1>1, <1>2, StartKeeps, PatchKeeps, DeleteKeeps, FinishKeeps DEF Next

(***************************************************************************)
(* Whatever PROPPATCHes run beside it, after every MOVE, DELETE or upload  *)
(* whose statements worked each row of oc_filecache has the path the       *)
(* requests gave its file, and no row is left of a deleted one (rekey.rs,  *)
(* row/core.rs) -- if no name holds a `_` or `%`.  With one it fails, as   *)
(* the run Wildcards shows.                                                *)
(***************************************************************************)
THEOREM RowsFollow ==
    ASSUME Wild = {}
    PROVE  Spec => []RowsFollowRequests
<1>1. Init => Inv
  BY Begins
<1>2. Inv /\ [Next]_vars => Inv'
  BY InvStep
<1>3. Inv => RowsFollowRequests
  BY InvImplies
<1> QED
  BY <1>1, <1>2, <1>3, PTL DEF Spec

(***************************************************************************)
(* Dead properties.  A row is one of a path, and a file deleted for good   *)
(* is wanted nowhere.                                                      *)
(***************************************************************************)
RowFields == {"id", "key", "name", "value", "of"}
Row(r) ==
    /\ DOMAIN r = RowFields /\ r.id \in Nat
    /\ r.key.path \in Paths /\ r.key = format_property_path(r.key.path)

Stored ==
    /\ backend \in {"pg", "sqlite"}
    /\ \A r \in rows : Row(r)
    /\ \E m \in Nat : \A r \in rows : r.id <= m
    /\ \A f \in purged : f \in DOMAIN want /\ want[f] = Gone

(* r is a row of the file that is at p, and nothing stranded it. *)
Belongs(r, p) == r.of # 0 /\ node[p] = r.of /\ r.id \notin stranded

(* The properties a MOVE still has to bring along: the node's own, and on  *)
(* Postgres those of the short paths below it.                             *)
Lags(me, k, p) ==
    \/ me.pc = "ownprops" /\ p = me.op.to /\ k = me.op.path
    \/ me.pc = "bulk" /\ Under(k, me.op.path) /\ p = Rebase(k, me.op.path, me.op.to)
       /\ k \notin LongPaths /\ p \notin LongPaths

(* Every row that nothing stranded is under the path of its file, or a     *)
(* MOVE is about to bring it there.                                        *)
Placed ==
    \A r \in rows : \A p \in Paths : Belongs(r, p) =>
        r.key.path = p \/ \E c \in Clients : Lags(rq[c], r.key.path, p)

(* Of a file deleted for good no row is left but those about to go. *)
Cleans ==
    \A r \in rows : r.of \in purged =>
        \/ r.id \in stranded
        \/ \E c \in Clients : rq[c].pc = "hardprops" /\ r.key.path = rq[c].op.path

(* What a MOVE leaves behind at the old place, and which rows a DELETE of  *)
(* a folder has not reached yet: on Postgres the long paths are last.      *)
Within(q, p) == q = p \/ Under(q, p)
Reached(me) ==
    /\ me.pc \in {"ownprops", "rekey", "bulk", "rest", "loop"} => ~Under(me.op.path, me.op.to)
    /\ me.pc \in {"bulk", "rest", "loop"} => \A p \in Paths : Under(p, me.op.path) => node[p] = 0
    /\ me.pc = "loop" => me.list = {}
    /\ me.pc = "harddir" /\ backend = "pg" =>
          \A r \in rows : \A q \in Paths :
              Belongs(r, q) /\ Within(q, me.op.path) => q # me.op.path /\ q \in LongPaths
    /\ me.pc = "hardrows" =>
          \A r \in rows : \A q \in Paths : Belongs(r, q) => ~Within(q, me.op.path)

(* No row is of a file that never existed. *)
Known == \A r \in rows : r.of \in DOMAIN want \cup {0}

Kept == Known /\ Placed /\ Cleans /\ \A c \in Clients : Reached(rq[c])

(* The inductive invariant of PropsFollow. *)
PropsInv == Inv /\ (failures = 0 => Stored /\ Kept)

(* The states in which a request still has rows of oc_properties to change. *)
Special == {"ownprops", "rekey", "bulk", "rest", "loop", "hardprops", "harddir", "hardrows"}

(* A key tells the path. *)
LEMMA KeyTells ==
    ASSUME NEW p, NEW q
    PROVE  /\ format_property_path(p).path = p
           /\ format_property_path(p).hashed <=> p \in LongPaths
           /\ format_property_path(p) = format_property_path(q) => p = q
<1>1. \A x : format_property_path(x).path = x
  BY DEF format_property_path
<1> QED
  BY <1>1 DEF format_property_path

(* A non-empty set of numbers has a least element. *)
LEMMA LeastOf ==
    ASSUME NEW T, T \subseteq Nat, T # {}
    PROVE  \E x \in T : \A y \in T : x <= y
<1> DEFINE R == OpToRel(<, Nat)
<1>1. IsWellFoundedOn(R, Nat)
  BY NatLessThanWellFounded
<1>2. \A x, y \in Nat : y < x => <<y, x>> \in R
  BY DEF R, OpToRel
<1> HIDE DEF R
<1>3. PICK x \in T : \A y \in T : ~(<<y, x>> \in R)
  BY <1>1, WFMin
<1>4. \A y \in T : ~(y < x)
  BY <1>2, <1>3
<1> QED
  BY <1>3, <1>4

(* A bounded one has a greatest. *)
LEMMA GreatestOf ==
    ASSUME NEW S, S \subseteq Nat, S # {}, NEW b \in Nat, \A x \in S : x <= b
    PROVE  Max(S) \in S /\ \A x \in S : x <= Max(S)
<1> DEFINE B == {m \in Nat : \A x \in S : x <= m}
<1>1. PICK m \in B : \A y \in B : m <= y
  <2>1. B \subseteq Nat /\ B # {}
    OBVIOUS
  <2> HIDE DEF B
  <2> QED
    BY <2>1, LeastOf
<1>2. m \in S
  <2>1. ASSUME m \notin S PROVE FALSE
    <3>1. PICK x \in S : TRUE
      OBVIOUS
    <3>2. \A y \in S : y \in Nat /\ y <= m /\ y # m
      BY <2>1
    <3>3. m \in Nat /\ x \in Nat /\ x < m
      BY <3>1, <3>2
    <3>4. m - 1 \in Nat
      BY <3>3
    <3>5. \A y \in S : y <= m - 1
      BY <3>2, <3>3
    <3>6. m - 1 \in B
      BY <3>4, <3>5
    <3> QED
      BY <1>1, <3>3, <3>6
  <2> QED
    BY <2>1
<1>3. \A x \in S : m >= x
  OBVIOUS
<1> HIDE DEF B
<1>4. Max(S) \in S /\ \A x \in S : Max(S) >= x
  BY <1>2, <1>3, Zenon DEF Max
<1>5. \A x \in S : Max(S) \in Nat /\ x \in Nat
  BY <1>4
<1> QED
  BY <1>4, <1>5

(* The next row gets a new id. *)
LEMMA NextRowIsNew ==
    ASSUME Stored
    PROVE  NextRow \in Nat /\ \A r \in rows : r.id < NextRow
<1>1. CASE rows = {}
  BY <1>1 DEF NextRow
<1>2. CASE rows # {}
  <2> DEFINE S == {r.id : r \in rows}
  <2>1. S \subseteq Nat /\ S # {} /\ \A r \in rows : r.id \in S
    BY <1>2 DEF Stored, Row
  <2>2. PICK b \in Nat : \A x \in S : x <= b
    BY DEF Stored
  <2>3. NextRow = 1 + Max(S)
    BY <1>2 DEF NextRow, S
  <2> HIDE DEF S
  <2>4. Max(S) \in S /\ \A x \in S : x <= Max(S)
    BY <2>1, <2>2, GreatestOf
  <2>5. Max(S) \in Nat /\ \A x \in S : x \in Nat
    BY <2>1, <2>4
  <2>6. \A x \in S : x < 1 + Max(S)
    BY <2>4, <2>5
  <2>7. \A r \in rows : r.id < NextRow
    BY <2>1, <2>3, <2>6, Zenon
  <2>8. NextRow \in Nat
    BY <2>3, <2>5
  <2> QED
    BY <2>7, <2>8
<1> QED
  BY <1>1, <1>2

(* Rows that stay, or only get another path. *)
Repathing(r, x) ==
    /\ DOMAIN r = RowFields /\ r.id = x.id /\ r.of = x.of
    /\ r.key = x.key \/ \E p \in Paths : r.key = format_property_path(p)

(* Rows stay rows when some go and some get another path. *)
LEMMA StoredKept ==
    ASSUME Stored, backend' = backend,
           \A r \in rows' : r \in rows \/ \E x \in rows : Repathing(r, x),
           \A f \in purged' : f \in DOMAIN want' /\ want'[f] = Gone
    PROVE  Stored'
<1>1. ASSUME NEW r \in rows' PROVE Row(r)' /\ \E x \in rows : r.id = x.id
  <2>1. CASE r \in rows
    BY <2>1 DEF Stored, Row
  <2>2. CASE \E x \in rows : Repathing(r, x)
    <3>1. PICK x \in rows : Repathing(r, x)
      BY <2>2
    <3>2. Row(x)
      BY DEF Stored
    <3>3. r.key.path \in Paths /\ r.key = format_property_path(r.key.path)
      BY <3>1, <3>2, KeyTells DEF Row, Repathing
    <3> QED
      BY <3>1, <3>2, <3>3 DEF Row, Repathing
  <2> QED
    BY <2>1, <2>2
<1>2. PICK m \in Nat : \A r \in rows : r.id <= m
  BY DEF Stored
<1>3. \A r \in rows' : r.id <= m
  BY <1>1, <1>2
<1> QED
  BY <1>1, <1>2, <1>3 DEF Stored

(* While a structural request runs no other one is half done. *)
LEMMA OthersRest ==
    ASSUME Inv, NEW c \in Clients, Structural(c), NEW x \in Clients \ {c}
    PROVE  rq[x].pc \notin Special
<1>1. Request(rq[x]) /\ ~Structural(x)
  BY DEF Inv, Typed, Solo
<1> QED
  BY <1>1, StructuralStates DEF Structural, StructuralKinds, Special, Moving, Deleting

(* While a structural request runs, what is missing is its own doing. *)
LEMMA StandsAlone ==
    ASSUME Inv, Kept, NEW c \in Clients, Structural(c)
    PROVE  /\ \A r \in rows : \A p \in Paths : Belongs(r, p) =>
                 r.key.path = p \/ Lags(rq[c], r.key.path, p)
           /\ \A r \in rows : r.of \in purged =>
                 r.id \in stranded \/ (rq[c].pc = "hardprops" /\ r.key.path = rq[c].op.path)
           /\ Reached(rq[c])
<1>1. \A x \in Clients \ {c} : rq[x].pc \notin Special
  BY OthersRest
<1>2. ASSUME NEW x \in Clients, NEW k, NEW p, Lags(rq[x], k, p) PROVE x = c
  BY <1>1, <1>2 DEF Lags, Special
<1>3. ASSUME NEW x \in Clients, rq[x].pc = "hardprops" PROVE x = c
  BY <1>1, <1>3 DEF Special
<1>4. \A r \in rows : \A p \in Paths : Belongs(r, p) =>
         r.key.path = p \/ Lags(rq[c], r.key.path, p)
  BY <1>2 DEF Kept, Placed
<1>5. \A r \in rows : r.of \in purged =>
         r.id \in stranded \/ (rq[c].pc = "hardprops" /\ r.key.path = rq[c].op.path)
  BY <1>3 DEF Kept, Cleans
<1>6. Reached(rq[c])
  BY DEF Kept
<1> QED
  BY <1>4, <1>5, <1>6

(* A step of a structural request has only its own loose ends to answer for. *)
LEMMA StructuralStep ==
    ASSUME Inv, NEW c \in Clients, Structural(c), NEW me, NEW wrote, Request(me), Go(c, me, wrote),
           \A r \in rows' : r.of \in DOMAIN want' \cup {0},
           \A r \in rows' : \A p \in Paths : Belongs(r, p)' =>
              r.key.path = p \/ Lags(me, r.key.path, p),
           \A r \in rows' : r.of \in purged' =>
              r.id \in stranded' \/ (me.pc = "hardprops" /\ r.key.path = me.op.path),
           Reached(me)'
    PROVE  Kept'
<1>1. rq'[c] = me /\ \A x \in Clients \ {c} : rq'[x].pc = rq[x].pc
  BY GoDoes DEF Inv
<1>2. \A x \in Clients \ {c} : rq'[x].pc \notin Special
  BY <1>1, OthersRest
<1>3. Placed'
  BY <1>1 DEF Placed
<1>4. Cleans'
  BY <1>1 DEF Cleans
<1>5. ASSUME NEW x \in Clients PROVE Reached(rq[x])'
  <2>1. CASE x = c
    BY <1>1, <2>1 DEF Reached
  <2>2. CASE x # c
    <3>1. rq'[x].pc \notin Special
      BY <1>2, <2>2
    <3> QED
      BY <3>1 DEF Reached, Special
  <2> QED
    BY <2>1, <2>2
<1> QED
  BY <1>3, <1>4, <1>5 DEF Kept, Known

(* Go leaves the other requests where they are. *)
LEMMA OthersStay ==
    ASSUME Typed, NEW c \in Clients, NEW me, NEW wrote, Go(c, me, wrote), NEW x \in Clients \ {c}
    PROVE  rq'[x].pc = rq[x].pc /\ rq'[x].op = rq[x].op /\ rq'[x].list = rq[x].list
<1>1. DOMAIN rq[x] = Fields
  BY DEF Typed, Request
<1>2. rq'[x] = [rq[x] EXCEPT !.clash = TRUE] \/ rq'[x] = rq[x]
  BY DEF Go
<1> QED
  BY <1>1, <1>2 DEF Fields

(* A step that moves no file and is of nobody half done: rows go, or one   *)
(* comes in its place, under no folder that is being deleted.              *)
InPlace(r) ==
    /\ r.of \notin purged /\ r.of \in DOMAIN want \cup {0}
    /\ \A p \in Paths : Belongs(r, p)' =>
          /\ r.key.path = p
          /\ \A x \in Clients : rq[x].pc \in {"harddir", "hardrows"} => ~Within(p, rq[x].op.path)

(* A step that moves no file and keeps or adds rows in their place. *)
LEMMA Bystander ==
    ASSUME Inv, Kept, NEW c \in Clients, NEW me, NEW wrote, Request(me), Go(c, me, wrote),
           rq[c].pc \notin Special, me.pc \notin Special,
           node' = node, want' = want, backend' = backend, purged' = purged,
           \A r \in rows' : (r \in rows /\ (r.id \in stranded => r.id \in stranded')) \/ InPlace(r)
    PROVE  Kept'
<1>1. rq'[c] = me
  BY GoDoes DEF Inv
<1>2. \A x \in Clients \ {c} : rq'[x].pc = rq[x].pc /\ rq'[x].op = rq[x].op /\ rq'[x].list = rq[x].list
  BY OthersStay DEF Inv
<1>3. \A x \in Clients : rq[x].pc \in Special => x # c
  OBVIOUS
<1>4. ASSUME NEW r \in rows', NEW p \in Paths, Belongs(r, p)'
      PROVE  InPlace(r) \/ (r \in rows /\ Belongs(r, p))
  BY <1>4 DEF Belongs
<1>5. Placed'
  <2> SUFFICES ASSUME NEW r \in rows', NEW p \in Paths, Belongs(r, p)'
               PROVE  r.key.path = p \/ \E x \in Clients : Lags(rq[x], r.key.path, p)'
    BY DEF Placed
  <2>1. CASE InPlace(r)
    BY <2>1 DEF InPlace
  <2>2. CASE r \in rows /\ Belongs(r, p)
    <3>1. CASE r.key.path = p
      BY <3>1
    <3>2. CASE r.key.path # p
      <4>1. PICK x \in Clients : Lags(rq[x], r.key.path, p)
        BY <2>2, <3>2 DEF Kept, Placed
      <4>2. x # c
        BY <1>3, <4>1 DEF Lags, Special
      <4>3. Lags(rq[x], r.key.path, p)'
        BY <1>2, <4>1, <4>2 DEF Lags
      <4> QED
        BY <4>3
    <3> QED
      BY <3>1, <3>2
  <2> QED
    BY <1>4, <2>1, <2>2
<1>6. Cleans'
  <2> SUFFICES ASSUME NEW r \in rows', r.of \in purged'
               PROVE  \/ r.id \in stranded'
                      \/ \E x \in Clients : rq'[x].pc = "hardprops" /\ r.key.path = rq'[x].op.path
    BY DEF Cleans
  <2>1. r \in rows /\ (r.id \in stranded => r.id \in stranded')
    BY DEF InPlace
  <2>2. CASE r.id \in stranded
    BY <2>1, <2>2
  <2>3. CASE r.id \notin stranded
    <3>1. PICK x \in Clients : rq[x].pc = "hardprops" /\ r.key.path = rq[x].op.path
      BY <2>1, <2>3 DEF Kept, Cleans
    <3>2. x # c
      BY <3>1 DEF Special
    <3> QED
      BY <1>2, <3>1, <3>2
  <2> QED
    BY <2>2, <2>3
<1>7. ASSUME NEW x \in Clients PROVE Reached(rq[x])'
  <2>1. CASE x = c
    BY <1>1, <2>1 DEF Reached, Special
  <2>2. CASE x # c
    <3>1. rq'[x].pc = rq[x].pc /\ rq'[x].op = rq[x].op /\ rq'[x].list = rq[x].list /\ Reached(rq[x])
      BY <1>2, <2>2 DEF Kept
    <3>2. ASSUME rq[x].pc = "harddir", backend = "pg", NEW r \in rows', NEW q \in Paths,
                 Belongs(r, q)', Within(q, rq[x].op.path)
          PROVE  q # rq[x].op.path /\ q \in LongPaths
      BY <1>4, <3>1, <3>2 DEF Reached, InPlace
    <3>3. ASSUME rq[x].pc = "hardrows", NEW r \in rows', NEW q \in Paths, Belongs(r, q)'
          PROVE  ~Within(q, rq[x].op.path)
      BY <1>4, <3>1, <3>3 DEF Reached, InPlace
    <3> QED
      BY <3>1, <3>2, <3>3 DEF Reached
  <2> QED
    BY <2>1, <2>2
<1> QED
  BY <1>5, <1>6, <1>7 DEF Kept, Known, InPlace

(* A file has one row, and one with a row is wanted somewhere. *)
LEMMA OnePlace ==
    ASSUME Inv, failures = 0, NEW p \in Paths, node[p] # 0
    PROVE  /\ node[p] \in DOMAIN want /\ want[node[p]] # Gone
           /\ \A q \in Paths : node[q] = node[p] => q = p
<1>0. Gone \notin Paths /\ Paths \subseteq Seq(STRING) /\ Typed /\ Tables
  BY PathsAssumption DEF Inv
<1>1. CASE \A c \in Clients : ~HalfMoved(rq[c])
  BY <1>0, <1>1 DEF Tables, Follows
<1>2. CASE \E c \in Clients : HalfMoved(rq[c])
  <2>1. PICK c \in Clients : HalfMoved(rq[c])
    BY <1>2
  <2>2. PICK from, to : from = rq[c].op.path /\ to = rq[c].op.to
    OBVIOUS
  <2>3. rq[c].pc # "idle" /\ rq[c].op.kind = "move"
    BY <1>0, <2>1 DEF HalfMoved, Typed, Request, Moving
  <2>4. /\ from \in Paths /\ to \in Paths
        /\ \A x \in Paths : Under(x, from) => Rebase(x, from, to) \in Paths
    BY <1>0, <2>2, <2>3, OpsOf
  <2>5. Half(from, to)
    BY <1>0, <2>1, <2>2 DEF Tables
  <2>6. /\ node[p] \in DOMAIN want
        /\ want[node[p]] = IF Under(p, from) THEN Rebase(p, from, to) ELSE p
    BY <2>5 DEF Half
  <2>7. ASSUME NEW q \in Paths, node[q] = node[p] PROVE q = p
    <3>1. want[node[p]] = IF Under(q, from) THEN Rebase(q, from, to) ELSE q
      BY <2>5, <2>7 DEF Half
    <3>2. ASSUME NEW x \in Paths, Under(x, from) PROVE Under(Rebase(x, from, to), to)
      BY <1>0, <2>4, <3>2, RebaseMoves
    <3>3. ~Under(p, to) /\ ~Under(q, to)
      BY <2>5, <2>7 DEF Half
    <3>4. Under(p, from) <=> Under(q, from)
      BY <2>6, <3>1, <3>2, <3>3
    <3>5. CASE Under(p, from)
      <4>1. Rebase(p, from, to) = Rebase(q, from, to) /\ Under(p, from) /\ Under(q, from)
        BY <2>6, <3>1, <3>4, <3>5
      <4>2. p \in Seq(STRING) /\ q \in Seq(STRING) /\ from \in Seq(STRING) /\ to \in Seq(STRING)
        BY <1>0, <2>4
      <4> QED
        BY <4>1, <4>2, RebaseMoves
    <3>6. CASE ~Under(p, from)
      BY <2>6, <3>1, <3>4, <3>6
    <3> QED
      BY <3>5, <3>6
  <2> QED
    BY <1>0, <2>4, <2>6, <2>7
<1> QED
  BY <1>1, <1>2

(* The rows a PROPPATCH leaves: fewer, or one more. *)
Inserts(c) ==
    \E r : /\ rows' = rows \cup {r}
           /\ DOMAIN r = RowFields /\ r.id = NextRow
           /\ r.key = format_property_path(rq[c].op.path) /\ r.of = node[rq[c].op.path]
           /\ stranded' = IF Condemned(rq[c].op.path) THEN stranded \cup {NextRow}
                          ELSE stranded \ {NextRow}

(* A PROPPATCH only takes rows away, or inserts one under its path. *)
LEMMA PatchRows ==
    ASSUME NEW c \in Clients, Patch(c)
    PROVE  /\ backend' = backend /\ purged' = purged
           /\ (rows' \subseteq rows /\ stranded' = stranded) \/ Inserts(c)
<1>1. CASE UpsertInsert(c)
  <2>1. backend' = backend /\ purged' = purged
    BY <1>1 DEF UpsertInsert
  <2>2. CASE UNCHANGED <<rows, stranded>>
    BY <2>1, <2>2
  <2>3. CASE /\ rows' = rows \cup {[id |-> NextRow, key |-> Key(c), name |-> Instr(c).name,
                                    value |-> Instr(c).value, of |-> node[rq[c].op.path]]}
             /\ stranded' = IF Condemned(rq[c].op.path) THEN stranded \cup {NextRow}
                            ELSE stranded \ {NextRow}
    <3> DEFINE r == [id |-> NextRow, key |-> Key(c), name |-> Instr(c).name,
                     value |-> Instr(c).value, of |-> node[rq[c].op.path]]
    <3>1. /\ DOMAIN r = RowFields /\ r.id = NextRow /\ r.of = node[rq[c].op.path]
          /\ r.key = format_property_path(rq[c].op.path)
      BY DEF RowFields, Key
    <3>2. rows' = rows \cup {r}
      BY <2>3
    <3> HIDE DEF r
    <3> QED
      BY <2>1, <2>3, <3>1, <3>2 DEF Inserts
  <2> QED
    BY <1>1, <2>2, <2>3, Zenon DEF UpsertInsert
<1>2. CASE UpsertDelete(c)
  BY <1>2 DEF UpsertDelete
<1>3. CASE delete_custom_property(c)
  BY <1>3 DEF delete_custom_property
<1>4. CASE PatchForbidden(c) \/ PatchBadValue(c) \/ TagLookup(c) \/ UpdateTags(c) \/ UpdateTagsDone(c)
  BY <1>4 DEF PatchForbidden, PatchBadValue, TagLookup, UpdateTags, UpdateTagsDone, tables
<1>5. CASE PatchColumn(c) \/ set_favorite(c) \/ UpdateTag(c)
  BY <1>5 DEF PatchColumn, set_favorite, UpdateTag
<1> QED
  BY <1>1, <1>2, <1>3, <1>4, <1>5 DEF Patch

(* What a step starts from, and what it has to keep, while nothing failed. *)
AllWell   == Inv /\ failures = 0 /\ Stored /\ Kept
PropsKept == failures' = 0 => Stored' /\ Kept'

(* Hence it disturbs no property of another file. *)
LEMMA PatchProps ==
    ASSUME AllWell, NEW c \in Clients, Patch(c)
    PROVE  PropsKept
<1>0. Inv /\ Typed /\ Stored /\ Request(rq[c])
  BY DEF AllWell, Inv, Typed
<1>1. PatchGoes(c) /\ node' = node /\ want' = want /\ (failures' = 0 => failures = 0)
  BY <1>0, PatchMoves DEF Counts, Rows
<1>2. PICK me, wrote : Go(c, me, wrote) /\ GoesOn(me, c) /\ me.pc \in Patching \cup {"done"}
  BY <1>1 DEF PatchGoes
<1>3. rq[c].op \in Ops /\ rq[c].op.kind = "proppatch" /\ rq[c].pc \in Patching
  BY <1>0, <1>1 DEF PatchGoes, Request, Patching
<1>4. Request(me)
  BY <1>2, <1>3 DEF Request, GoesOn, Patching, Moving, Deleting
<1>5. rq[c].pc \notin Special /\ me.pc \notin Special
  BY <1>2, <1>3 DEF Special, Patching
<1>6. PICK p : p = rq[c].op.path
  OBVIOUS
<1>7. p \in Paths
  BY <1>3, <1>6, OpsAssumption
<1>8. backend' = backend /\ purged' = purged
  BY PatchRows
<1>9. CASE rows' \subseteq rows /\ stranded' = stranded
  <2>1. Stored'
    BY <1>0, <1>1, <1>8, <1>9, StoredKept DEF Stored
  <2>2. failures' = 0 => Kept'
    BY <1>0, <1>1, <1>2, <1>4, <1>5, <1>8, <1>9, Bystander DEF AllWell
  <2> QED
    BY <2>1, <2>2 DEF PropsKept
<1>10. CASE Inserts(c)
  <2>1. PICK r : /\ rows' = rows \cup {r}
                 /\ DOMAIN r = RowFields /\ r.id = NextRow
                 /\ r.key = format_property_path(p) /\ r.of = node[p]
                 /\ stranded' = IF Condemned(p) THEN stranded \cup {NextRow} ELSE stranded \ {NextRow}
    BY <1>6, <1>10 DEF Inserts
  <2>2. NextRow \in Nat /\ \A x \in rows : x.id < NextRow
    BY <1>0, NextRowIsNew
  <2>3. \A x \in rows : x.id # NextRow
    BY <1>0, <2>2 DEF Stored, Row
  <2>4. r.key.path = p
    BY <2>1, KeyTells
  <2>5. Stored'
    <3>1. ASSUME NEW x \in rows' PROVE Row(x)'
      BY <1>0, <1>7, <2>1, <2>2, <2>4, <3>1 DEF Stored, Row
    <3>2. PICK m \in Nat : \A x \in rows : x.id <= m
      BY <1>0 DEF Stored
    <3>3. PICK k \in Nat : m <= k /\ NextRow <= k
      <4>1. m <= m + NextRow /\ NextRow <= m + NextRow /\ m + NextRow \in Nat
        BY <2>2
      <4> QED
        BY <4>1
    <3>4. \A x \in rows' : x.id <= k
      BY <1>0, <2>1, <2>2, <3>2, <3>3 DEF Stored, Row
    <3> QED
      BY <1>0, <1>1, <1>8, <3>1, <3>4 DEF Stored
  <2>6. ASSUME failures' = 0 PROVE Kept'
    <3>1. failures = 0 /\ Kept
      BY <1>1, <2>6 DEF AllWell
    <3>2. \A x \in rows : x.id \in stranded => x.id \in stranded'
      BY <2>1, <2>3
    <3>3. InPlace(r)
      <4>1. r.of \in DOMAIN want \cup {0} /\ r.of \notin purged
        <5>1. CASE node[p] = 0
          BY <1>0, <2>1, <5>1 DEF Stored, Typed
        <5>2. CASE node[p] # 0
          BY <1>0, <1>7, <2>1, <3>1, <5>2, OnePlace DEF Stored
        <5> QED
          BY <5>1, <5>2
      <4>2. ASSUME NEW q \in Paths, Belongs(r, q)' PROVE q = p /\ ~Condemned(p)
        <5>1. node[p] # 0 /\ node[q] = node[p] /\ NextRow \notin stranded'
          BY <1>1, <2>1, <4>2 DEF Belongs
        <5>2. q = p
          BY <1>0, <1>7, <3>1, <5>1, OnePlace
        <5> QED
          BY <2>1, <5>1, <5>2
      <4>3. \A x \in Clients : rq[x].pc \in {"harddir", "hardrows"} => ~Within(p, rq[x].op.path) \/ Condemned(p)
        BY DEF Condemned, Within
      <4> QED
        BY <2>4, <4>1, <4>2, <4>3 DEF InPlace
    <3>4. \A x \in rows' : (x \in rows /\ (x.id \in stranded => x.id \in stranded')) \/ InPlace(x)
      BY <2>1, <3>2, <3>3
    <3> QED
      BY <1>0, <1>1, <1>2, <1>4, <1>5, <1>8, <3>1, <3>4, Bystander
  <2> QED
    BY <2>5, <2>6 DEF PropsKept
<1> QED
  BY <1>9, <1>10, PatchRows

(* A request comes or goes: nothing is half done with that. *)
LEMMA StartProps ==
    ASSUME AllWell, NEW c \in Clients, NEW op \in Ops, Start(c, op)
    PROVE  PropsKept
<1> DEFINE s == IF op.kind = "proppatch" THEN "instr" ELSE op.kind
           me == [Idle EXCEPT !.op = op, !.pc = s, !.fid0 = node[op.path],
                              !.fav0 = TAG_FAVORITE \in TagsOf(node[op.path])]
<1>1. /\ rq[c].pc = "idle" /\ Go(c, me, FALSE) /\ failures' = failures
      /\ UNCHANGED <<backend, node, rows, want, stranded, purged>>
  BY DEF Start, tables
<1>2. DOMAIN me = Fields /\ me.op = op /\ me.pc = s
  BY DEF Idle, Fields
<1> HIDE DEF me
<1>3. op.kind \in {"proppatch", "put", "move", "trash", "delete"}
  BY OpsAssumption
<1>4. Request(me)
  BY <1>2, <1>3 DEF Request, Patching, Moving, Deleting
<1>5. rq[c].pc \notin Special /\ me.pc \notin Special
  BY <1>1, <1>2, <1>3 DEF Special
<1>6. Stored'
  BY <1>1, StoredKept DEF AllWell, Stored
<1>7. failures' = 0 => Kept'
  BY <1>1, <1>4, <1>5, Bystander DEF AllWell
<1> QED
  BY <1>6, <1>7 DEF PropsKept

(* Answering changes no table. *)
LEMMA FinishProps ==
    ASSUME AllWell, NEW c \in Clients, Finish(c)
    PROVE  PropsKept
<1>1. /\ rq[c].pc = "done" /\ Go(c, Idle, FALSE) /\ failures' = failures
      /\ UNCHANGED <<backend, node, rows, want, stranded, purged>>
  BY DEF Finish, tables
<1>2. Request(Idle) /\ Idle.pc \notin Special /\ rq[c].pc \notin Special
  BY <1>1 DEF Idle, Request, Fields, Patching, Moving, Deleting, Special
<1>3. Stored'
  BY <1>1, StoredKept DEF AllWell, Stored
<1>4. failures' = 0 => Kept'
  BY <1>1, <1>2, Bystander DEF AllWell
<1> QED
  BY <1>3, <1>4 DEF PropsKept

(* A new file finds no rows of its own. *)
LEMMA PutProps ==
    ASSUME AllWell, NEW c \in Clients, PutNew(c)
    PROVE  PropsKept
<1>0. Inv /\ Typed /\ Stored
  BY DEF AllWell, Inv
<1>1. PICK me : me = [rq[c] EXCEPT !.pc = "done"]
  OBVIOUS
<1>2. /\ rq[c].pc = "put" /\ Go(c, me, TRUE) /\ failures' = failures
      /\ node' = [node EXCEPT ![rq[c].op.path] = NextId]
      /\ want' = [f \in DOMAIN want \cup {NextId} |-> IF f = NextId THEN rq[c].op.path ELSE want[f]]
      /\ UNCHANGED <<backend, rows, stranded, purged>>
  BY <1>1 DEF PutNew
<1>3. rq[c].op.kind = "put" /\ Structural(c)
  BY <1>0, <1>2 DEF Typed, Request, Structural
<1>4. me.pc = "done" /\ Request(me)
  BY <1>0, <1>1, <1>2, <1>3, NextState DEF Patching, Deleting, Moving
<1>5. rq[c].op.path \in Paths /\ NextId \in Nat \ {0} /\ NextId \notin DOMAIN want
  <2>1. NextId \in Nat \ {0} /\ \A f \in DOMAIN want : f < NextId
    BY <1>0, NextIdIsNew
  <2> QED
    BY <1>0, <1>2, <2>1, OpsOf DEF Typed
<1>6. Stored'
  <2>1. \A f \in purged' : f \in DOMAIN want' /\ want'[f] = Gone
    BY <1>0, <1>2, <1>5 DEF Stored
  <2> QED
    BY <1>0, <1>2, <2>1, StoredKept
<1>7. ASSUME failures' = 0 PROVE Kept'
  <2>1. Kept
    BY <1>2, <1>7 DEF AllWell
  <2>2. \A r \in rows' : r.of \in DOMAIN want' \cup {0}
    BY <1>2, <2>1 DEF Kept, Known
  <2>3. ASSUME NEW r \in rows', NEW p \in Paths, Belongs(r, p)' PROVE r.key.path = p
    <3>1. r.of # NextId /\ r.of # 0
      BY <1>2, <1>5, <2>1, <2>3 DEF Kept, Known, Belongs
    <3>2. Belongs(r, p)
      BY <1>0, <1>2, <1>5, <2>3, <3>1 DEF Belongs, Typed
    <3> QED
      BY <1>0, <1>2, <1>3, <2>1, <3>2, StandsAlone DEF Lags
  <2>4. \A r \in rows' : r.of \in purged' => r.id \in stranded'
    BY <1>0, <1>2, <1>3, <2>1, StandsAlone
  <2>5. Reached(me)'
    BY <1>4 DEF Reached
  <2> QED
    BY <1>0, <1>2, <1>3, <1>4, <2>2, <2>3, <2>4, <2>5, StructuralStep
<1> QED
  BY <1>6, <1>7 DEF PropsKept

(* The node's own row moves; its properties do not yet. *)
LEMMA MoveRowProps ==
    ASSUME AllWell, NEW c \in Clients, MoveRow(c)
    PROVE  PropsKept
<1>0. Inv /\ Typed /\ Stored /\ Gone \notin Paths
  BY PathsAssumption DEF AllWell, Inv
<1>1. PICK me, from, to : /\ me = [rq[c] EXCEPT !.pc = "ownprops"]
                          /\ from = rq[c].op.path /\ to = rq[c].op.to
  OBVIOUS
<1>2. /\ rq[c].pc = "move" /\ Go(c, me, TRUE) /\ failures' = failures
      /\ node' = [node EXCEPT ![from] = 0, ![to] = node[from]]
      /\ want' = [f \in DOMAIN want |->
                    IF want[f] = from \/ Under(want[f], from) THEN Rebase(want[f], from, to) ELSE want[f]]
      /\ UNCHANGED <<backend, rows, stranded, purged>>
  BY <1>1 DEF MoveRow
<1>3. rq[c].op.kind = "move" /\ Structural(c) /\ ~HalfMoved(rq[c])
  BY <1>0, <1>2 DEF Typed, Request, Structural, Moving, HalfMoved
<1>4. me.pc = "ownprops" /\ Request(me) /\ me.op = rq[c].op
  BY <1>0, <1>1, <1>2, <1>3, NextState DEF Patching, Deleting, Moving, GoesOn
<1>5. from \in Paths /\ to \in Paths
  BY <1>0, <1>1, <1>2, <1>3, OpsOf
<1>6. Stored'
  <2>1. ~Under(Gone, from)
    <3>1. from \in Seq(STRING) /\ Gone \in Seq(STRING) /\ Len(Gone) = 0 /\ Len(from) \in Nat
      BY <1>5, PathsAssumption, EmptySeq, LenProperties DEF Gone
    <3>2. ~(Len(from) < Len(Gone))
      BY <3>1
    <3> QED
      BY <3>1, <3>2, UnderMeans, Zenon
  <2>2. \A f \in purged' : f \in DOMAIN want' /\ want'[f] = Gone
    BY <1>0, <1>2, <1>5, <2>1 DEF Stored
  <2> QED
    BY <1>0, <1>2, <2>2, StoredKept
<1>7. ASSUME failures' = 0 PROVE Kept'
  <2>1. Kept /\ Tree /\ node[from] # 0 /\ Free(to)
    BY <1>0, <1>1, <1>2, <1>3, <1>7, InOrder DEF AllWell, Ready
  <2>2. \A r \in rows' : r.of \in DOMAIN want' \cup {0}
    BY <1>2, <2>1 DEF Kept, Known
  <2>3. ASSUME NEW r \in rows, NEW p \in Paths, Belongs(r, p) PROVE r.key.path = p
    BY <1>0, <1>2, <1>3, <2>1, <2>3, StandsAlone DEF Lags
  <2>4. ASSUME NEW r \in rows', NEW p \in Paths, Belongs(r, p)'
        PROVE  r.key.path = p \/ Lags(me, r.key.path, p)
    <3>1. CASE p = to
      <4>1. Belongs(r, from)
        BY <1>0, <1>2, <1>5, <2>4, <3>1 DEF Belongs, Typed
      <4> QED
        BY <1>1, <1>2, <1>4, <1>5, <2>3, <3>1, <4>1 DEF Lags
    <3>2. CASE p # to
      <4>1. Belongs(r, p)
        BY <1>0, <1>2, <1>5, <2>4, <3>2 DEF Belongs, Typed
      <4> QED
        BY <1>2, <2>3, <4>1
    <3> QED
      BY <3>1, <3>2
  <2>5. \A r \in rows' : r.of \in purged' => r.id \in stranded'
    BY <1>0, <1>2, <1>3, <2>1, StandsAlone
  <2>6. Reached(me)'
    <3>1. ~Under(from, to)
      BY <1>5, <2>1 DEF Tree, Free
    <3> QED
      BY <1>1, <1>4, <3>1 DEF Reached
  <2> QED
    BY <1>0, <1>2, <1>3, <1>4, <2>2, <2>4, <2>5, <2>6, StructuralStep
<1> QED
  BY <1>6, <1>7 DEF PropsKept

(* What an UPDATE of the rows of one path does. *)
LEMMA RepathedDoes ==
    ASSUME Stored, NEW from \in Paths, NEW to \in Paths, NEW r \in Repathed(from, to)
    PROVE  \E x \in rows : /\ Repathing(r, x)
                           /\ r.key.path = IF x.key.path = from THEN to ELSE x.key.path
<1>1. PICK x \in rows :
         r = IF x.key = format_property_path(from) THEN [x EXCEPT !.key = format_property_path(to)] ELSE x
  BY DEF Repathed
<1>2. Row(x)
  BY DEF Stored
<1>3. x.key = format_property_path(from) <=> x.key.path = from
  BY <1>2, KeyTells DEF Row
<1>4. CASE x.key.path = from
  <2>1. r = [x EXCEPT !.key = format_property_path(to)]
    BY <1>1, <1>3, <1>4
  <2>2. DOMAIN r = RowFields /\ r.id = x.id /\ r.of = x.of /\ r.key = format_property_path(to)
    BY <1>2, <2>1 DEF Row, RowFields
  <2> QED
    BY <1>4, <2>2, KeyTells DEF Repathing
<1>5. CASE x.key.path # from
  BY <1>1, <1>2, <1>3, <1>5 DEF Repathing, Row
<1> QED
  BY <1>4, <1>5

(* They follow. *)
LEMMA OwnPropsFollow ==
    ASSUME AllWell, NEW c \in Clients, MoveOwnProps(c)
    PROVE  PropsKept
<1>0. Inv /\ Typed /\ Stored
  BY DEF AllWell, Inv
<1>1. PICK me, from, to : /\ me = [rq[c] EXCEPT !.pc = IF rq[c].op.path \in Dirs THEN "rekey" ELSE "done"]
                          /\ from = rq[c].op.path /\ to = rq[c].op.to
  OBVIOUS
<1>2. /\ rq[c].pc = "ownprops" /\ Go(c, me, TRUE) /\ failures' = failures
      /\ rows' = Repathed(from, to)
      /\ UNCHANGED <<backend, node, want, stranded, purged>>
  BY <1>1 DEF MoveOwnProps
<1>3. rq[c].op.kind = "move" /\ Structural(c)
  BY <1>0, <1>2 DEF Typed, Request, Structural, Moving
<1>4. me.pc \in {"rekey", "done"} /\ Request(me) /\ me.op = rq[c].op
  BY <1>0, <1>1, <1>2, <1>3, NextState DEF Patching, Deleting, Moving, GoesOn
<1>5. from \in Paths /\ to \in Paths
  BY <1>0, <1>1, <1>2, <1>3, OpsOf
<1>6. \A r \in rows' : \E x \in rows : /\ Repathing(r, x)
                                       /\ r.key.path = IF x.key.path = from THEN to ELSE x.key.path
  BY <1>0, <1>2, <1>5, RepathedDoes
<1>7. Stored'
  BY <1>0, <1>2, <1>6, StoredKept DEF Stored
<1>8. ASSUME failures' = 0 PROVE Kept'
  <2>1. Kept /\ Half(from, to)
    BY <1>1, <1>2, <1>8 DEF AllWell, Inv, Tables, HalfMoved
  <2>2. \A r \in rows' : r.of \in DOMAIN want' \cup {0}
    BY <1>2, <1>6, <2>1 DEF Kept, Known, Repathing
  <2>3. ASSUME NEW r \in rows', NEW p \in Paths, Belongs(r, p)' PROVE r.key.path = p
    <3>1. PICK x \in rows : /\ Repathing(r, x)
                            /\ r.key.path = IF x.key.path = from THEN to ELSE x.key.path
      BY <1>6
    <3>2. Belongs(x, p)
      BY <1>2, <2>3, <3>1 DEF Belongs, Repathing
    <3>3. x.key.path = p \/ (p = to /\ x.key.path = from)
      BY <1>0, <1>1, <1>2, <1>3, <2>1, <3>2, StandsAlone DEF Lags
    <3>4. p # from
      BY <2>1, <3>2 DEF Half, Belongs
    <3> QED
      BY <3>1, <3>3, <3>4
  <2>4. \A r \in rows' : r.of \in purged' => r.id \in stranded'
    <3>1. \A x \in rows : x.of \in purged => x.id \in stranded
      BY <1>0, <1>2, <1>3, <2>1, StandsAlone
    <3> QED
      BY <1>2, <1>6, <3>1 DEF Repathing
  <2>5. Reached(me)'
    <3>1. Reached(rq[c])
      BY <2>1 DEF Kept
    <3> QED
      BY <1>2, <1>4, <3>1 DEF Reached
  <2> QED
    BY <1>0, <1>2, <1>3, <1>4, <2>2, <2>3, <2>4, <2>5, StructuralStep
<1> QED
  BY <1>7, <1>8 DEF PropsKept

(* Where the rows of oc_filecache come from that rekey_subtree_paths       *)
(* leaves.                                                                 *)
LEMMA RekeyedFrom ==
    ASSUME NEW from, NEW to, NEW S, S = {p \in Paths : node[p] # 0 /\ Under(p, from)},
           node' = AfterRekey(S, from, to), NEW p \in Paths, node'[p] # 0
    PROVE  \/ \E x \in S : p = Rebase(x, from, to) /\ node'[p] = node[x]
           \/ node'[p] = node[p] /\ ~Under(p, from)
<1>1. CASE \E x \in S : Rebase(x, from, to) = p
  <2> DEFINE q == CHOOSE x \in S : Rebase(x, from, to) = p
  <2>1. q \in S /\ Rebase(q, from, to) = p
    BY <1>1
  <2>2. node'[p] = node[q]
    BY <1>1 DEF AfterRekey
  <2> QED
    BY <2>1, <2>2
<1>2. CASE ~\E x \in S : Rebase(x, from, to) = p
  BY <1>2 DEF AfterRekey
<1> QED
  BY <1>1, <1>2

(* It leaves properties behind at the old paths: on Postgres those of the  *)
(* short paths wait for the next statement, the others are stranded.       *)
LEMMA RekeyProps ==
    ASSUME Wild = {}, AllWell, NEW c \in Clients, rekey_subtree_paths(c)
    PROVE  PropsKept
<1>0. Inv /\ Typed /\ Stored /\ Paths \subseteq Seq(STRING)
  BY PathsAssumption DEF AllWell, Inv
<1>1. PICK s, me, from, to : /\ s = (IF backend = "pg" THEN "bulk" ELSE "rest")
                             /\ me = [rq[c] EXCEPT !.pc = s]
                             /\ from = rq[c].op.path /\ to = rq[c].op.to
  OBVIOUS
<1>2. /\ rq[c].pc = "rekey" /\ Go(c, me, TRUE)
      /\ UNCHANGED <<backend, rows, want, purged>>
  BY <1>1 DEF rekey_subtree_paths
<1>3. rq[c].op.kind = "move" /\ Structural(c) /\ rq[c].op.path \in Dirs
  BY <1>0, <1>2 DEF Typed, Request, Structural, Moving
<1>4. me.pc = s /\ Request(me) /\ me.op = rq[c].op
  <2>1. s \in {"bulk", "rest"}
    BY <1>1
  <2> QED
    BY <1>0, <1>1, <1>2, <1>3, <2>1, NextState DEF Patching, Deleting, Moving, GoesOn
<1>5. /\ from \in Paths /\ to \in Paths /\ ~Under(to, from)
      /\ \A p \in Paths : Under(p, from) => Rebase(p, from, to) \in Paths
  BY <1>0, <1>1, <1>2, <1>3, OpsOf
<1>6. Stored'
  BY <1>0, <1>2, StoredKept DEF Stored
<1>7. ASSUME failures' = 0 PROVE Kept'
  <2>1. PICK S \in Rekeyable(from, to) :
           /\ node' = AfterRekey(S, from, to)
           /\ stranded' = stranded \cup {r.id : r \in {x \in rows :
                  \E p \in S : x.of = node[p] /\ Strands(p, Rebase(p, from, to))}}
           /\ failures' = failures
    <3>1. ~MayFail(c)
      BY <1>0, <1>7 DEF MayFail, Typed
    <3> QED
      BY <1>1, <3>1 DEF rekey_subtree_paths, AfterRekey, Succeeds
  <2>2. Kept /\ Half(from, to) /\ ~Under(from, to)
    BY <1>1, <1>2, <1>7, <2>1 DEF AllWell, Inv, Tables, HalfMoved, Kept, Reached
  <2>3. S = {p \in Paths : node[p] # 0 /\ Under(p, from)}
    BY <1>0, <1>5, <2>2, RekeyFinishes
  <2>4. ASSUME NEW p \in Paths, node'[p] # 0
        PROVE  \/ \E x \in S : p = Rebase(x, from, to) /\ node'[p] = node[x]
               \/ node'[p] = node[p] /\ ~Under(p, from)
    BY <2>1, <2>3, <2>4, RekeyedFrom
  <2>5. \A r \in rows' : r.of \in DOMAIN want' \cup {0}
    BY <1>2, <2>2 DEF Kept, Known
  <2>6. ASSUME NEW r \in rows, NEW p \in Paths, Belongs(r, p) PROVE r.key.path = p
    BY <1>0, <1>2, <1>3, <2>2, <2>6, StandsAlone DEF Lags
  <2>7. ASSUME NEW r \in rows', NEW p \in Paths, Belongs(r, p)'
        PROVE  r.key.path = p \/ Lags(me, r.key.path, p)
    <3>1. r \in rows /\ r.of # 0 /\ node'[p] = r.of /\ r.id \notin stranded /\ r.id \notin stranded'
      BY <1>2, <2>1, <2>7 DEF Belongs
    <3>2. CASE node'[p] = node[p]
      BY <2>6, <3>1, <3>2 DEF Belongs
    <3>3. CASE \E x \in S : p = Rebase(x, from, to) /\ node'[p] = node[x]
      <4>1. PICK x \in S : p = Rebase(x, from, to) /\ node'[p] = node[x]
        BY <3>3
      <4>2. x \in Paths /\ Under(x, from)
        BY <2>3
      <4>3. r.key.path = x
        BY <2>6, <3>1, <4>1, <4>2 DEF Belongs
      <4>4. ~Strands(x, p)
        BY <2>1, <3>1, <4>1
      <4>5. backend = "pg" /\ x \notin LongPaths /\ p \notin LongPaths
        BY <1>0, <4>4 DEF Strands, Stored
      <4> QED
        BY <1>1, <1>4, <4>1, <4>2, <4>3, <4>5 DEF Lags
    <3> QED
      BY <2>4, <3>1, <3>2, <3>3
  <2>8. \A r \in rows' : r.of \in purged' => r.id \in stranded'
    BY <1>0, <1>2, <1>3, <2>1, <2>2, StandsAlone
  <2>9. ASSUME NEW p \in Paths, Under(p, from) PROVE node'[p] = 0
    <3>1. ASSUME node'[p] # 0 PROVE FALSE
      <4>1. PICK x \in S : p = Rebase(x, from, to)
        BY <2>4, <2>9, <3>1
      <4>2. x \in Paths /\ Under(x, from)
        BY <2>3
      <4>3. Under(p, to)
        BY <1>0, <1>5, <4>1, <4>2, RebaseMoves
      <4>4. from # to
        BY <2>2 DEF Half
      <4>5. from = to \/ Under(from, to) \/ Under(to, from)
        BY <1>0, <1>5, <2>9, <4>3, UnderOrder
      <4> QED
        BY <1>5, <2>2, <4>4, <4>5
    <3> QED
      BY <3>1
  <2>10. Reached(me)'
    BY <1>1, <1>4, <2>2, <2>9 DEF Reached
  <2> QED
    BY <1>0, <1>2, <1>3, <1>4, <2>5, <2>7, <2>8, <2>10, StructuralStep
<1> QED
  BY <1>6, <1>7 DEF PropsKept

(* Between short paths only the path of a key changes. *)
LEMMA ShortKeys ==
    ASSUME NEW q, NEW k, q \notin LongPaths, k \notin LongPaths
    PROVE  [format_property_path(q) EXCEPT !.path = k] = format_property_path(k)
<1>1. (q \in LongPaths) = FALSE /\ (k \in LongPaths) = FALSE
  OBVIOUS
<1>2. ASSUME NEW b PROVE [[hashed |-> b, path |-> q] EXCEPT !.path = k] = [hashed |-> b, path |-> k]
  OBVIOUS
<1> QED
  BY <1>1, <1>2, Zenon DEF format_property_path

(* Postgres: the properties of the short paths follow.                     *)
LEMMA BulkFollow ==
    ASSUME Wild = {}, AllWell, NEW c \in Clients, UpdatePropsBulk(c)
    PROVE  PropsKept
<1>0. Inv /\ Typed /\ Stored /\ Paths \subseteq Seq(STRING)
  BY PathsAssumption DEF AllWell, Inv
<1>1. PICK me, from, to : /\ me = [rq[c] EXCEPT !.pc = "rest"]
                          /\ from = rq[c].op.path /\ to = rq[c].op.to
  OBVIOUS
<1> DEFINE Fits(x) == /\ ~x.key.hashed /\ LikeUnder(x.key.path, from)
                      /\ Rebase(x.key.path, from, to) \notin LongPaths
<1>2. /\ rq[c].pc = "bulk" /\ Go(c, me, TRUE) /\ failures' = failures
      /\ rows' = {IF Fits(x) THEN [x EXCEPT !.key.path = Rebase(x.key.path, from, to)] ELSE x : x \in rows}
      /\ UNCHANGED <<backend, node, want, stranded, purged>>
  BY <1>1 DEF UpdatePropsBulk
<1>3. rq[c].op.kind = "move" /\ Structural(c) /\ rq[c].op.path \in Dirs
  BY <1>0, <1>2 DEF Typed, Request, Structural, Moving
<1>4. me.pc = "rest" /\ Request(me) /\ me.op = rq[c].op
  BY <1>0, <1>1, <1>2, <1>3, NextState DEF Patching, Deleting, Moving, GoesOn
<1>5. /\ from \in Paths /\ to \in Paths
      /\ \A p \in Paths : Under(p, from) => Rebase(p, from, to) \in Paths
  BY <1>0, <1>1, <1>2, <1>3, OpsOf
<1> DEFINE Short(k) == /\ Under(k, from) /\ k \notin LongPaths
                       /\ Rebase(k, from, to) \notin LongPaths
<1>6. ASSUME NEW r \in rows'
      PROVE  \E x \in rows : /\ Repathing(r, x)
                             /\ r.key.path = IF Short(x.key.path) THEN Rebase(x.key.path, from, to) ELSE x.key.path
  <2>1. PICK x \in rows :
           r = IF Fits(x) THEN [x EXCEPT !.key.path = Rebase(x.key.path, from, to)] ELSE x
    BY <1>2
  <2>2. Row(x)
    BY <1>0 DEF Stored
  <2>3. Fits(x) <=> Short(x.key.path)
    <3>1. LikeUnder(x.key.path, from) <=> Under(x.key.path, from)
      BY <1>0, <1>5, <2>2, LikeMeans DEF Row
    <3>2. x.key.hashed <=> x.key.path \in LongPaths
      BY <2>2, KeyTells DEF Row
    <3> QED
      BY <3>1, <3>2
  <2> HIDE DEF Fits
  <2>4. CASE Short(x.key.path)
    <3> DEFINE k == Rebase(x.key.path, from, to)
    <3>1. r = [x EXCEPT !.key.path = k]
      BY <2>1, <2>3, <2>4
    <3>3. k \in Paths /\ k \notin LongPaths
      BY <1>5, <2>2, <2>4 DEF Row
    <3> HIDE DEF k
    <3>4. DOMAIN r = RowFields /\ r.id = x.id /\ r.of = x.of /\ r.key = [x.key EXCEPT !.path = k]
      BY <2>2, <3>1 DEF Row, RowFields
    <3>6. r.key = format_property_path(k)
      BY <2>2, <2>4, <3>3, <3>4, ShortKeys DEF Row
    <3> QED
      BY <2>4, <3>3, <3>4, <3>6, KeyTells DEF Repathing, k
  <2>5. CASE ~Short(x.key.path)
    BY <2>1, <2>2, <2>3, <2>5 DEF Repathing, Row
  <2> QED
    BY <2>4, <2>5
<1> HIDE DEF Fits
<1>7. Stored'
  BY <1>0, <1>2, <1>6, StoredKept DEF Stored
<1>8. ASSUME failures' = 0 PROVE Kept'
  <2>1. Kept /\ Reached(rq[c])
    BY <1>2, <1>8 DEF AllWell, Kept
  <2>2. \A r \in rows' : r.of \in DOMAIN want' \cup {0}
    BY <1>2, <1>6, <2>1 DEF Kept, Known, Repathing
  <2>3. ASSUME NEW r \in rows', NEW p \in Paths, Belongs(r, p)' PROVE r.key.path = p
    <3>1. PICK x \in rows : /\ Repathing(r, x)
                            /\ r.key.path = IF Short(x.key.path) THEN Rebase(x.key.path, from, to) ELSE x.key.path
      BY <1>6
    <3>2. Belongs(x, p)
      BY <1>2, <2>3, <3>1 DEF Belongs, Repathing
    <3>3. x.key.path = p \/ Lags(rq[c], x.key.path, p)
      BY <1>0, <1>3, <2>1, <3>2, StandsAlone
    <3>4. CASE Lags(rq[c], x.key.path, p)
      BY <1>1, <1>2, <3>1, <3>4 DEF Lags
    <3>5. CASE x.key.path = p
      <4>1. ~Under(p, from)
        BY <1>1, <1>2, <2>1, <3>2 DEF Reached, Belongs
      <4> QED
        BY <3>1, <3>5, <4>1
    <3> QED
      BY <3>3, <3>4, <3>5
  <2>4. \A r \in rows' : r.of \in purged' => r.id \in stranded'
    <3>1. \A x \in rows : x.of \in purged => x.id \in stranded
      BY <1>0, <1>2, <1>3, <2>1, StandsAlone
    <3> QED
      BY <1>2, <1>6, <3>1 DEF Repathing
  <2>5. Reached(me)'
    BY <1>2, <1>4, <2>1 DEF Reached
  <2> QED
    BY <1>0, <1>2, <1>3, <1>4, <2>2, <2>3, <2>4, <2>5, StructuralStep
<1> QED
  BY <1>7, <1>8 DEF PropsKept

(* The remaining statements look below the old path, where nothing is.     *)
LEMMA RestProps ==
    ASSUME Wild = {}, AllWell, NEW c \in Clients, PropsRestSelect(c) \/ PropsRestUpdate(c)
    PROVE  PropsKept
<1>0. Inv /\ Typed /\ Stored /\ Paths \subseteq Seq(STRING) /\ Request(rq[c])
  BY PathsAssumption DEF AllWell, Inv, Typed
<1>1. /\ rq[c].pc \in {"rest", "loop"} /\ failures' = failures
      /\ UNCHANGED <<backend, node, want, stranded, purged>>
  BY DEF PropsRestSelect, PropsRestUpdate, tables
<1>2. rq[c].op.kind = "move" /\ Structural(c) /\ rq[c].op.path \in Dirs /\ rq[c].op \in Ops
  BY <1>0, <1>1 DEF Request, Structural, Moving
<1>3. PICK from, to : from = rq[c].op.path /\ to = rq[c].op.to
  OBVIOUS
<1>4. /\ from \in Paths /\ to \in Paths
      /\ \A p \in Paths : Under(p, from) => Rebase(p, from, to) \in Paths
  BY <1>0, <1>1, <1>2, <1>3, OpsOf
<1>5. ASSUME NEW me, NEW wrote, Go(c, me, wrote), DOMAIN me = Fields, me.op = rq[c].op,
             me.pc = "done" \/ (me.pc = "loop" /\ me.list = {}), rows' = rows, failures' = 0
      PROVE  Kept'
  <2>1. Kept /\ Reached(rq[c])
    BY <1>1, <1>5 DEF AllWell, Kept
  <2>2. Request(me)
    BY <1>2, <1>5 DEF Request, Patching, Moving, Deleting
  <2>3. \A r \in rows' : r.of \in DOMAIN want' \cup {0}
    BY <1>1, <1>5, <2>1 DEF Kept, Known
  <2>4. ASSUME NEW r \in rows', NEW p \in Paths, Belongs(r, p)' PROVE r.key.path = p
    <3>1. Belongs(r, p)
      BY <1>1, <2>4 DEF Belongs
    <3> QED
      BY <1>0, <1>1, <1>2, <1>5, <2>1, <3>1, StandsAlone DEF Lags
  <2>5. \A r \in rows' : r.of \in purged' => r.id \in stranded'
    BY <1>0, <1>1, <1>2, <1>5, <2>1, StandsAlone
  <2>6. Reached(me)'
    BY <1>1, <1>5, <2>1 DEF Reached
  <2> QED
    BY <1>0, <1>2, <1>5, <2>2, <2>3, <2>4, <2>5, <2>6, StructuralStep
<1>6. CASE PropsRestSelect(c)
  <2> DEFINE L == {p \in Paths : /\ node[p] # 0 /\ LikeUnder(p, from)
                                 /\ backend = "pg" => \/ p \in LongPaths
                                                      \/ Rebase(p, from, to) \in LongPaths}
  <2>1. rows' = rows /\ Go(c, [rq[c] EXCEPT !.pc = "loop", !.list = L], FALSE) /\ rq[c].pc = "rest"
    BY <1>3, <1>6 DEF PropsRestSelect, tables
  <2>2. Stored'
    BY <1>0, <1>1, <2>1, StoredKept DEF Stored
  <2>3. ASSUME failures' = 0 PROVE Kept'
    <3>1. Reached(rq[c])
      BY <1>1, <2>3 DEF AllWell, Kept
    <3>2. L = {}
      BY <1>0, <1>3, <1>4, <2>1, <3>1, LikeMeans DEF Reached
    <3> HIDE DEF L
    <3>3. PICK me : me = [rq[c] EXCEPT !.pc = "loop", !.list = L]
      OBVIOUS
    <3>4. DOMAIN me = Fields /\ me.op = rq[c].op /\ me.pc = "loop" /\ me.list = {}
      BY <1>0, <3>2, <3>3 DEF Request, Fields
    <3> QED
      BY <1>5, <2>1, <2>3, <3>3, <3>4
  <2> QED
    BY <2>2, <2>3 DEF PropsKept
<1>7. CASE PropsRestUpdate(c)
  <2>0. rq[c].pc = "loop"
    BY <1>7 DEF PropsRestUpdate
  <2>2. ASSUME failures' = 0 PROVE Stored' /\ Kept'
    <3>1. rq[c].list = {}
      BY <1>1, <2>0, <2>2 DEF AllWell, Kept, Reached
    <3>2. rows' = rows /\ Go(c, [rq[c] EXCEPT !.pc = "done"], FALSE)
      BY <1>7, <3>1 DEF PropsRestUpdate
    <3>3. PICK me : me = [rq[c] EXCEPT !.pc = "done"]
      OBVIOUS
    <3>4. DOMAIN me = Fields /\ me.op = rq[c].op /\ me.pc = "done"
      BY <1>0, <3>3 DEF Request, Fields
    <3>5. Stored'
      BY <1>0, <1>1, <3>2, StoredKept DEF Stored
    <3> QED
      BY <1>5, <2>2, <3>2, <3>3, <3>4, <3>5
  <2> QED
    BY <2>2 DEF PropsKept
<1> QED
  BY <1>6, <1>7

(* DELETE into the trash leaves the properties alone, and so does the row  *)
(* of a file that is deleted for good.                                     *)
LEMMA WantedAt ==
    ASSUME Typed, Follows, NEW p \in Paths, NEW f \in Wanted(p)
    PROVE  f # 0 /\ \E q \in Paths : Within(q, p) /\ node[q] = f
<1>1. f \in DOMAIN want /\ want[f] # Gone /\ Within(want[f], p)
  BY DEF Wanted, Within
<1>2. want[f] \in Paths /\ node[want[f]] = f /\ f # 0
  BY <1>1 DEF Typed, Follows
<1> QED
  BY <1>1, <1>2

(* The statements of a DELETE that take rows of oc_filecache out. *)
LEMMA RemovalProps ==
    ASSUME Wild = {}, AllWell, NEW c \in Clients, TrashRows(c) \/ HardFileRow(c) \/ HardDirRows(c)
    PROVE  PropsKept
<1>0. Inv /\ Typed /\ Stored /\ Kept /\ failures = 0
  BY DEF AllWell, Inv
<1>1. PICK s, p : /\ p = rq[c].op.path
                  /\ s = IF rq[c].pc = "delete" THEN "hardprops" ELSE "done"
  OBVIOUS
<1>2. PICK me : me = [rq[c] EXCEPT !.pc = s]
  OBVIOUS
<1>3. /\ rq[c].pc \in {"trash", "delete", "hardrows"} /\ Go(c, me, TRUE) /\ Unwant(p)
      /\ rq[c].pc = "delete" => p \notin Dirs
      /\ \A q \in Paths : node'[q] \in {0, node[q]}
      /\ purged' = IF rq[c].pc = "trash" THEN purged ELSE purged \cup Wanted(p)
      /\ failures' = failures /\ UNCHANGED <<backend, rows, stranded>>
  <2>1. CASE TrashRows(c)
    BY <1>1, <1>2, <2>1 DEF TrashRows
  <2>2. CASE HardDirRows(c)
    BY <1>1, <1>2, <2>2 DEF HardDirRows
  <2>3. CASE HardFileRow(c)
    BY <1>0, <1>1, <1>2, <2>3 DEF HardFileRow, Typed
  <2> QED
    BY <2>1, <2>2, <2>3
<1>4. /\ Structural(c) /\ ~HalfMoved(rq[c]) /\ rq[c].pc # "idle"
      /\ rq[c].pc = "delete" => rq[c].op.kind = "delete"
  BY <1>0, <1>3 DEF Typed, Request, Structural, HalfMoved, Deleting
<1>5. me.pc = s /\ Request(me) /\ me.op = rq[c].op
  BY <1>0, <1>1, <1>2, <1>3, <1>4, NextState DEF Patching, Deleting, Moving, GoesOn
<1>6. p \in Paths
  BY <1>0, <1>1, <1>4, OpsOf
<1>7. Follows
  BY <1>0, <1>4, InOrder
<1>8. DOMAIN want' = DOMAIN want /\ \A f \in DOMAIN want : want'[f] = IF f \in Wanted(p) THEN Gone ELSE want[f]
  BY <1>3 DEF Unwant
<1>9. Stored'
  <2>1. \A f \in purged' : f \in DOMAIN want' /\ want'[f] = Gone
    BY <1>0, <1>3, <1>8 DEF Stored, Wanted
  <2> QED
    BY <1>0, <1>3, <2>1, StoredKept
<1>10. ASSUME NEW r \in rows, NEW q \in Paths, Belongs(r, q) PROVE r.key.path = q
  BY <1>0, <1>3, <1>4, <1>10, StandsAlone DEF Lags
<1>11. \A r \in rows : r.of \in purged => r.id \in stranded
  BY <1>0, <1>3, <1>4, StandsAlone
<1>12. \A r \in rows' : r.of \in DOMAIN want' \cup {0}
  BY <1>0, <1>3, <1>8 DEF Kept, Known
<1>13. \A r \in rows' : \A q \in Paths : Belongs(r, q)' => r.key.path = q
  BY <1>3, <1>10 DEF Belongs
<1>14. ASSUME NEW r \in rows', r.of \in purged', r.id \notin stranded'
       PROVE  me.pc = "hardprops" /\ r.key.path = me.op.path
  <2>1. r \in rows /\ r.id \notin stranded /\ r.of \in Wanted(p) /\ rq[c].pc # "trash"
    BY <1>3, <1>11, <1>14
  <2>2. PICK q \in Paths : Within(q, p) /\ Belongs(r, q)
    BY <1>0, <1>6, <1>7, <2>1, WantedAt DEF Belongs
  <2>3. rq[c].pc # "hardrows"
    BY <1>0, <1>1, <2>1, <2>2 DEF Kept, Reached
  <2>4. q = p
    BY <1>3, <1>6, <2>1, <2>2, <2>3, NothingBelowFiles DEF Within
  <2> QED
    BY <1>1, <1>3, <1>5, <1>10, <2>1, <2>2, <2>3, <2>4
<1>15. Reached(me)'
  BY <1>1, <1>3, <1>5 DEF Reached
<1>16. Kept'
  BY <1>0, <1>3, <1>4, <1>5, <1>12, <1>13, <1>14, <1>15, StructuralStep
<1> QED
  BY <1>9, <1>16 DEF PropsKept

(* The statements of a DELETE that only take rows of oc_properties out.    *)
LEMMA PurgeStep ==
    ASSUME AllWell, NEW c \in Clients, NEW s \in {"done", "harddir", "hardrows"},
           NEW me, me = [rq[c] EXCEPT !.pc = s], Go(c, me, TRUE),
           rq[c].pc \in {"delete", "hardprops", "harddir"}, s # "done" => rq[c].op.path \in Dirs,
           UNCHANGED <<backend, node, want, stranded, purged>>, rows' \subseteq rows,
           \A r \in rows' : rq[c].pc = "hardprops" => r.key.path # rq[c].op.path,
           \A r \in rows : \A q \in Paths :
              Belongs(r, q) /\ r.key.path = q /\ Within(q, rq[c].op.path) /\ r \in rows' =>
                 /\ s = "harddir" /\ backend = "pg" => q # rq[c].op.path /\ q \in LongPaths
                 /\ s # "hardrows"
    PROVE  Stored' /\ Kept'
<1>0. Inv /\ Typed /\ Stored /\ Kept /\ failures = 0
  BY DEF AllWell, Inv
<1>1. rq[c].op.kind = "delete" /\ Structural(c)
  BY <1>0 DEF Typed, Request, Structural, Deleting
<1>2. me.pc = s /\ Request(me) /\ me.op = rq[c].op
  BY <1>0, <1>1, NextState DEF Patching, Deleting, Moving, GoesOn
<1>3. Stored'
  BY <1>0, StoredKept DEF Stored
<1>4. ASSUME NEW r \in rows', NEW q \in Paths, Belongs(r, q)' PROVE Belongs(r, q) /\ r.key.path = q
  <2>1. Belongs(r, q)
    BY <1>4 DEF Belongs
  <2> QED
    BY <1>0, <1>1, <2>1, StandsAlone DEF Lags
<1>5. \A r \in rows' : r.of \in purged' => r.id \in stranded'
  BY <1>0, <1>1, StandsAlone
<1>6. \A r \in rows' : r.of \in DOMAIN want' \cup {0}
  BY <1>0 DEF Kept, Known
<1>7. Reached(me)'
  BY <1>2, <1>4 DEF Reached
<1> QED
  BY <1>0, <1>1, <1>2, <1>3, <1>4, <1>5, <1>6, <1>7, StructuralStep

(* Those that only take rows of oc_properties out keep all others in place. *)
LEMMA PurgeProps ==
    ASSUME Wild = {}, AllWell, NEW c \in Clients, HardFileProps(c) \/ HardDirBulk(c) \/ HardDirProps(c)
    PROVE  PropsKept
<1>0. Inv /\ Typed /\ Stored /\ Kept /\ Request(rq[c]) /\ Paths \subseteq Seq(STRING)
  BY PathsAssumption DEF AllWell, Inv, Typed
<1>1. PICK p : p = rq[c].op.path
  OBVIOUS
<1>2. p \in Paths
  <2>1. rq[c].pc # "idle"
    BY DEF HardFileProps, HardDirBulk, HardDirProps
  <2> QED
    BY <1>0, <1>1, <2>1, OpsOf
<1>3. \A q \in Paths : LikeUnder(q, p) <=> Under(q, p)
  BY <1>0, <1>2, LikeMeans
<1>k. ASSUME NEW r \in rows
      PROVE  /\ r.key = format_property_path(r.key.path) /\ r.key.path \in Paths
             /\ \A q : r.key = format_property_path(q) <=> r.key.path = q
             /\ r.key.hashed <=> r.key.path \in LongPaths
  <2>1. Row(r)
    BY <1>0 DEF Stored
  <2> QED
    BY <2>1, KeyTells DEF Row
<1>4. CASE HardFileProps(c)
  <2>1. PICK me : me = [rq[c] EXCEPT !.pc = "done"]
    OBVIOUS
  <2>2. /\ rq[c].pc = "hardprops" /\ Go(c, me, TRUE)
        /\ rows' = {r \in rows : r.key # format_property_path(p)}
        /\ UNCHANGED <<backend, node, want, stranded, purged>>
    BY <1>1, <1>4, <2>1 DEF HardFileProps
  <2>3. rows' \subseteq rows /\ \A r \in rows' : r.key.path # p
    BY <1>k, <2>2
  <2> QED
    BY <1>1, <2>1, <2>2, <2>3, PurgeStep DEF PropsKept
<1>5. CASE HardDirBulk(c)
  <2>1. PICK me : me = [rq[c] EXCEPT !.pc = "harddir"]
    OBVIOUS
  <2>2. /\ rq[c].pc = "delete" /\ p \in Dirs /\ Go(c, me, TRUE)
        /\ rows' = IF backend = "sqlite" THEN rows
                   ELSE {r \in rows : /\ r.key # format_property_path(p)
                                      /\ r.key.hashed \/ ~LikeUnder(r.key.path, p)}
        /\ UNCHANGED <<backend, node, want, stranded, purged>>
    BY <1>1, <1>5, <2>1 DEF HardDirBulk
  <2>3. rows' \subseteq rows
    BY <2>2
  <2>4. ASSUME NEW r \in rows', backend = "pg", Within(r.key.path, p)
        PROVE  r.key.path # p /\ r.key.path \in LongPaths
    BY <1>3, <1>k, <2>2, <2>4 DEF Within
  <2> QED
    BY <1>1, <2>1, <2>2, <2>3, <2>4, PurgeStep DEF PropsKept
<1>6. CASE HardDirProps(c)
  <2>1. PICK me : me = [rq[c] EXCEPT !.pc = "hardrows"]
    OBVIOUS
  <2> DEFINE listed == {q \in Paths : /\ node[q] # 0
                                      /\ IF backend = "pg" THEN LikeUnder(q, p) /\ q \in LongPaths
                                         ELSE q = p \/ LikeUnder(q, p)}
  <2>2. /\ rq[c].pc = "harddir" /\ Go(c, me, TRUE)
        /\ rows' = {r \in rows : r.key \notin {format_property_path(q) : q \in listed}}
        /\ UNCHANGED <<backend, node, want, stranded, purged>>
    BY <1>1, <1>6, <2>1 DEF HardDirProps
  <2>3. rows' \subseteq rows /\ p \in Dirs
    BY <1>0, <1>1, <2>2 DEF Request
  <2>4. ASSUME NEW r \in rows', NEW q \in Paths, Belongs(r, q), r.key.path = q, Within(q, p)
        PROVE  FALSE
    <3>1. node[q] # 0 /\ r \in rows
      BY <2>3, <2>4 DEF Belongs
    <3>2. backend = "pg" => q # p /\ q \in LongPaths
      BY <1>0, <1>1, <2>2, <2>4, <3>1 DEF Kept, Reached
    <3>3. q \in listed
      BY <1>3, <2>4, <3>1, <3>2 DEF Within
    <3> QED
      BY <1>k, <2>2, <2>4, <3>1, <3>3
  <2> HIDE DEF listed
  <2> QED
    BY <1>1, <2>1, <2>2, <2>3, <2>4, PurgeStep DEF PropsKept
<1> QED
  BY <1>4, <1>5, <1>6

(* At first there are no properties. *)
LEMMA PropsBegin ==
    ASSUME Init
    PROVE  PropsInv
<1>1. Stored
  BY DEF Init, Stored
<1>2. Idle.pc = "idle"
  BY DEF Idle
<1>3. Kept
  BY <1>2 DEF Init, Kept, Known, Placed, Cleans, Reached
<1> QED
  BY <1>1, <1>3, Begins DEF PropsInv

(* A failure is never forgotten. *)
LEMMA FailuresGrow ==
    ASSUME Typed, [Next]_vars, failures' = 0
    PROVE  failures = 0
<1>1. ASSUME NEW c \in Clients, Patch(c) PROVE failures = 0
  BY <1>1, PatchMoves DEF Counts
<1>2. ASSUME NEW c \in Clients, Move(c) PROVE failures = 0
  <2>1. failures' = failures \/ MayFail(c)
    BY <1>2 DEF Move, PutNew, MoveRow, MoveOwnProps, rekey_subtree_paths, UpdatePropsBulk,
                PropsRestSelect, PropsRestUpdate, Succeeds
  <2> QED
    BY <2>1 DEF MayFail, Typed
<1>3. ASSUME NEW c \in Clients, Delete(c) PROVE failures = 0
  BY <1>3 DEF Delete, TrashRows, HardFileRow, HardFileProps, HardDirBulk, HardDirProps, HardDirRows
<1>4. ASSUME NEW c \in Clients, NEW op, Start(c, op) PROVE failures = 0
  BY <1>4 DEF Start
<1>5. ASSUME NEW c \in Clients, Finish(c) PROVE failures = 0
  BY <1>5 DEF Finish
<1> QED
  BY <1>1, <1>2, <1>3, <1>4, <1>5 DEF Next, vars

(* Between structural requests nothing is left to bring along. *)
LEMMA PropsInvImplies ==
    ASSUME PropsInv
    PROVE  PropsSharePath
<1> SUFFICES ASSUME ~Busy, failures = 0 PROVE PropsSharePath
  BY DEF PropsSharePath, PropsFollowFiles, HardDeleteCleans
<1>1. ASSUME NEW c \in Clients PROVE rq[c].pc \notin Special
  <2>1. Request(rq[c]) /\ ~Structural(c)
    BY DEF PropsInv, Inv, Typed, Busy
  <2> QED
    BY <2>1, StructuralStates DEF Special, Moving, Deleting, Structural, StructuralKinds
<1>2. Kept /\ Stored
  BY DEF PropsInv
<1>3. PropsFollowFiles
  <2> SUFFICES ASSUME NEW r \in rows, NEW p \in Paths, Belongs(r, p)
               PROVE  r.key = format_property_path(p)
    BY DEF PropsFollowFiles, Belongs
  <2>1. r.key.path = p
    BY <1>1, <1>2 DEF Kept, Placed, Lags, Special
  <2> QED
    BY <1>2, <2>1 DEF Stored, Row
<1>4. HardDeleteCleans
  BY <1>1, <1>2 DEF HardDeleteCleans, Kept, Cleans, Special
<1> QED
  BY <1>3, <1>4 DEF PropsSharePath

(***************************************************************************)
(* After every MOVE and DELETE whose statements worked, whatever           *)
(* PROPPATCHes ran beside it, each dead property of a file is found under  *)
(* the path the file has now, and none is left of a file deleted for good  *)
(* (update_custom_properties_path and _subtree, delete_custom_properties   *)
(* _for_path and _for_dir in row/properties.rs) -- but for those `Strands` *)
(* and a DELETE under way leave behind, and if no name holds a `_` or `%`. *)
(***************************************************************************)
THEOREM PropsFollow ==
    ASSUME Wild = {}
    PROVE  Spec => []PropsSharePath
<1>1. Init => PropsInv
  BY PropsBegin
<1>2. PropsInv /\ [Next]_vars => PropsInv'
  <2> SUFFICES ASSUME PropsInv, [Next]_vars PROVE Inv' /\ PropsKept
    BY DEF PropsInv, PropsKept
  <2>1. Inv /\ Inv'
    BY InvStep DEF PropsInv
  <2>2. SUFFICES ASSUME failures' = 0 PROVE PropsKept
    BY <2>1 DEF PropsKept
  <2>3. AllWell
    BY <2>1, <2>2, FailuresGrow DEF PropsInv, AllWell, Inv
  <2>4. CASE UNCHANGED vars
    <3>1. Stored'
      BY <2>3, <2>4, StoredKept DEF AllWell, Stored, vars
    <3>2. Known' /\ Placed' /\ Cleans' /\ \A c \in Clients : Reached(rq[c])'
      BY <2>3, <2>4 DEF AllWell, Kept, Known, Placed, Belongs, Lags, Cleans, Reached, vars
    <3> QED
      BY <3>1, <3>2 DEF Kept, PropsKept
  <2>5. ASSUME NEW c \in Clients, Move(c) PROVE PropsKept
    BY <2>3, <2>5, PutProps, MoveRowProps, OwnPropsFollow, RekeyProps, BulkFollow, RestProps DEF Move
  <2>6. ASSUME NEW c \in Clients, Delete(c) PROVE PropsKept
    BY <2>3, <2>6, RemovalProps, PurgeProps DEF Delete
  <2> QED
    BY <2>3, <2>4, <2>5, <2>6, StartProps, PatchProps, FinishProps DEF Next
<1>3. PropsInv => PropsSharePath
  BY PropsInvImplies
<1> QED
  BY <1>1, <1>2, <1>3, PTL DEF Spec
=============================================================================
