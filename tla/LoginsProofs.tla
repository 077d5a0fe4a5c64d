---------------------------- MODULE LoginsProofs ----------------------------
(***************************************************************************)
(* What the caches of nc-auth let through, who a request runs as, and what *)
(* the throttle misses, for any requests, tokens, users, plans and TTLs.   *)
(***************************************************************************)
EXTENDS Logins, FiniteSetTheorems, TLAPS

Uids     == Users \cup {NoUser} \cup {k.session : k \in Kinds}
States   == {"idle", "session", "throttle", "long", "sleep", "lookup", "store", "password",
             "state", "admin", "record", "done"}
RequestT ==
    [pc : States, kind : Kinds \cup {Fresh.kind}, since : Nat, wake : Nat, short : Nat, act : Nat,
     asked : Int, blind : BOOLEAN, tok : Tokens \cup {NoTok}, type : Int, seen : Int, uid : Uids,
     admin : BOOLEAN, tfa : BOOLEAN, state : Int, status : Nat]

(* The types of the state. *)
Typed ==
    /\ clock \in Nat /\ plan \in Plans
    /\ revoked \in [Tokens -> Int] /\ activity \in [Tokens -> Nat]
    /\ twofa \in [Users -> Int] /\ demoted \in [Users -> Int]
    /\ attempts \in Seq([subnet : Subnets, at : Nat])
    /\ counts \in [Subnets -> [short : Nat, long : Nat, at : Int]]
    /\ tokens \in [Tokens -> [at : Int, act : Nat]]
    /\ states \in [Users -> [tfa : BOOLEAN, admin : BOOLEAN, at : Int]]
    /\ tasks \subseteq Tokens
    /\ rq \in [Reqs -> RequestT]
    /\ \A r \in Reqs : /\ rq[r].pc # "idle" => rq[r].kind \in Kinds
                       /\ At(r, "store") => Kind(r).secret \in Tokens
                       /\ At(r, "state") \/ At(r, "admin") => rq[r].uid \in Users
-----------------------------------------------------------------------------
(* How a step moves request r: its state is s and the other requests stay. *)
Moved(r, s) ==
    /\ rq' \in [Reqs -> RequestT]
    /\ \A q \in Reqs : q # r => rq'[q] = rq[q]
    /\ rq'[r].pc = s /\ rq'[r].kind = rq[r].kind
    /\ rq'[r].since = IF InDb(s) THEN clock ELSE 0

KeepsThrottle(r) ==
    rq'[r].asked = rq[r].asked /\ rq'[r].wake = rq[r].wake /\ rq'[r].blind = rq[r].blind
KeepsUser(r) ==
    /\ rq'[r].tok = rq[r].tok /\ rq'[r].type = rq[r].type /\ rq'[r].seen = rq[r].seen
    /\ rq'[r].uid = rq[r].uid
KeepsGrant(r) == rq'[r].state = rq[r].state /\ rq'[r].admin = rq[r].admin

ForgetsThrottle(r) == rq'[r].asked = Never
ForgetsUser(r) == rq'[r].tok = NoTok /\ rq'[r].uid = NoUser
ForgetsGrant(r) == rq'[r].state = Never

(* Shapes of a move: the answer that ends the request, a step that keeps   *)
(* everything, the end of the throttle, the token's user, the last gate.   *)
Quits(r)   == Moved(r, "done") /\ ForgetsThrottle(r) /\ ForgetsUser(r) /\ ForgetsGrant(r)
Goes(r, s) == Moved(r, s) /\ KeepsThrottle(r) /\ KeepsUser(r) /\ KeepsGrant(r)
Lets(r, short, long) ==
    /\ short <= MaxAttempts /\ KeepsUser(r) /\ KeepsGrant(r) /\ rq'[r].asked = clock
    /\ \/ Moved(r, "lookup") /\ long = 0
       \/ Moved(r, "sleep") /\ (rq'[r].wake = 0 => clock = 0)
IsOf(r, t, seen) ==
    /\ Moved(r, "state") /\ KeepsThrottle(r) /\ KeepsGrant(r)
    /\ rq'[r].tok = t /\ rq'[r].uid = TokenRow[t].uid /\ rq'[r].seen = seen
Gated(r, tfa, admin) ==
    \/ Quits(r)
    \/ /\ Moved(r, "done") /\ ForgetsThrottle(r) /\ KeepsUser(r) /\ (rq[r].type = 1 \/ ~tfa)
       /\ rq'[r].admin = admin /\ rq'[r].state = clock

(* What Put stores of a well-typed request. *)
LEMMA PutStores ==
    ASSUME NEW r \in Reqs, NEW x \in RequestT, Typed, Put(r, x), x.kind = rq[r].kind
    PROVE  /\ Moved(r, x.pc)
           /\ rq'[r].wake = x.wake /\ rq'[r].short = x.short /\ rq'[r].act = x.act
           /\ rq'[r].asked = x.asked /\ rq'[r].blind = x.blind /\ rq'[r].tok = x.tok
           /\ rq'[r].type = x.type /\ rq'[r].seen = x.seen /\ rq'[r].uid = x.uid
           /\ rq'[r].admin = x.admin /\ rq'[r].tfa = x.tfa /\ rq'[r].state = x.state
<1> DEFINE y == [x EXCEPT !.since = IF InDb(x.pc) THEN clock ELSE 0]
<1>1. clock \in Nat /\ rq \in [Reqs -> RequestT] /\ rq' = [rq EXCEPT ![r] = y]
  BY DEF Typed, Put
<1>2. y \in RequestT
  BY <1>1 DEF RequestT
<1>3. /\ y.pc = x.pc /\ y.kind = x.kind /\ y.since = IF InDb(x.pc) THEN clock ELSE 0
      /\ y.wake = x.wake /\ y.short = x.short /\ y.act = x.act
      /\ y.asked = x.asked /\ y.blind = x.blind /\ y.tok = x.tok
      /\ y.type = x.type /\ y.seen = x.seen /\ y.uid = x.uid
      /\ y.admin = x.admin /\ y.tfa = x.tfa /\ y.state = x.state
  BY DEF RequestT
<1> HIDE DEF y
<1>4. rq' \in [Reqs -> RequestT] /\ rq'[r] = y /\ \A q \in Reqs : q # r => rq'[q] = rq[q]
  BY <1>1, <1>2
<1> QED BY <1>3, <1>4 DEF Moved

(* A fresh request is well typed. *)
LEMMA FreshTyped == Fresh \in RequestT
BY LoginAssumption DEF Fresh, RequestT, Uids, States, Never

(* The ways a request moves on: to another step (Goto), ... *)
LEMMA GotoMoves ==
    ASSUME NEW r \in Reqs, NEW s \in States, Typed, Goto(r, s)
    PROVE  Goes(r, s)
<1> DEFINE x == [rq[r] EXCEPT !.pc = s]
<1>1. rq[r] \in RequestT /\ clock \in Nat /\ clock \in Int
  BY DEF Typed
<1>2. x \in RequestT
  BY <1>1, FreshTyped DEF RequestT, States
<1>3. /\ x.pc = s /\ x.kind = rq[r].kind /\ x.asked = rq[r].asked
      /\ x.wake = rq[r].wake /\ x.blind = rq[r].blind /\ x.tok = rq[r].tok
      /\ x.type = rq[r].type /\ x.seen = rq[r].seen /\ x.uid = rq[r].uid
      /\ x.state = rq[r].state /\ x.admin = rq[r].admin /\ x.tfa = rq[r].tfa
      /\ x.act = rq[r].act
  BY <1>1, FreshTyped DEF RequestT
<1>4. Put(r, x)
  BY DEF Goto
<1> HIDE DEF x
<1> QED BY <1>2, <1>3, <1>4, PutStores DEF KeepsThrottle, KeepsUser, KeepsGrant,
          ForgetsThrottle, ForgetsUser, ForgetsGrant, Goes, Quits, IsOf

(* ... to its answer without an identity (Answer), *)
LEMMA AnswerMoves ==
    ASSUME NEW r \in Reqs, NEW status \in Nat, Typed, Answer(r, status)
    PROVE  Quits(r)
<1> DEFINE x == [Fresh EXCEPT !.pc = "done", !.kind = rq[r].kind, !.status = status]
<1>1. rq[r] \in RequestT /\ clock \in Nat /\ clock \in Int
  BY DEF Typed
<1>2. x \in RequestT
  BY <1>1, FreshTyped DEF RequestT, States
<1>3. /\ x.pc = "done" /\ x.kind = rq[r].kind /\ x.asked = Never
      /\ x.tok = NoTok /\ x.uid = NoUser /\ x.state = Never
  BY <1>1, FreshTyped DEF RequestT, Fresh
<1>4. Put(r, x)
  BY DEF Answer, Kind
<1> HIDE DEF x
<1> QED BY <1>2, <1>3, <1>4, PutStores DEF KeepsThrottle, KeepsUser, KeepsGrant,
          ForgetsThrottle, ForgetsUser, ForgetsGrant, Goes, Quits, IsOf

(* with the user of the session (Accept), *)
LEMMA AcceptMoves ==
    ASSUME NEW r \in Reqs, NEW u \in Uids, NEW a \in BOOLEAN, Typed, Accept(r, u, a)
    PROVE  /\ Moved(r, "done") /\ ForgetsThrottle(r) /\ ForgetsGrant(r)
           /\ rq'[r].tok = NoTok /\ rq'[r].uid = u
<1> DEFINE x == [Fresh EXCEPT !.pc = "done", !.kind = rq[r].kind, !.status = 200, !.uid = u, !.admin = a]
<1>1. rq[r] \in RequestT /\ clock \in Nat /\ clock \in Int
  BY DEF Typed
<1>2. x \in RequestT
  <2> DEFINE y == [Fresh EXCEPT !.pc = "done", !.kind = rq[r].kind, !.status = 200]
             z == [y EXCEPT !.uid = u]
  <2>1. y \in RequestT
    <3> DEFINE v == [Fresh EXCEPT !.pc = "done", !.kind = rq[r].kind]
    <3>1. 200 \in Nat
      OBVIOUS
    <3>2. v \in RequestT
      BY <1>1, FreshTyped DEF RequestT, States
    <3>3. y = [v EXCEPT !.status = 200]
      OBVIOUS
    <3> HIDE DEF v, y
    <3>4. [v EXCEPT !.status = 200] \in RequestT
      BY <3>1, <3>2 DEF RequestT
    <3> QED BY <3>3, <3>4
  <2>2. x = [z EXCEPT !.admin = a]
    OBVIOUS
  <2> HIDE DEF y
  <2>3. z \in RequestT
    BY <2>1 DEF RequestT
  <2> HIDE DEF z, x
  <2> QED BY <2>2, <2>3 DEF RequestT
<1>3. /\ x.pc = "done" /\ x.kind = rq[r].kind /\ x.asked = Never
      /\ x.tok = NoTok /\ x.uid = u /\ x.state = Never
  BY <1>1, FreshTyped DEF RequestT, Fresh
<1>4. Put(r, x)
  BY DEF Accept, Kind
<1> HIDE DEF x
<1> QED BY <1>2, <1>3, <1>4, PutStores DEF KeepsThrottle, KeepsUser, KeepsGrant,
          ForgetsThrottle, ForgetsUser, ForgetsGrant, Goes, Quits, IsOf

(* through the throttle, at once or after a delay, *)
LEMMA UnthrottledMoves ==
    ASSUME NEW r \in Reqs, NEW blind \in BOOLEAN, Typed, Unthrottled(r, blind)
    PROVE  /\ Moved(r, "lookup") /\ KeepsUser(r) /\ KeepsGrant(r)
           /\ rq'[r].asked = clock /\ rq'[r].blind = blind
<1> DEFINE x == [rq[r] EXCEPT !.pc = "lookup", !.asked = clock, !.blind = blind]
<1>1. rq[r] \in RequestT /\ clock \in Nat /\ clock \in Int
  BY DEF Typed
<1>2. x \in RequestT
  BY <1>1, FreshTyped DEF RequestT, States
<1>3. /\ x.pc = "lookup" /\ x.asked = clock /\ x.blind = blind
      /\ x.kind = rq[r].kind /\ x.tok = rq[r].tok /\ x.type = rq[r].type
      /\ x.seen = rq[r].seen /\ x.uid = rq[r].uid /\ x.state = rq[r].state
      /\ x.admin = rq[r].admin
  BY <1>1, FreshTyped DEF RequestT
<1>4. Put(r, x)
  BY DEF Unthrottled
<1> HIDE DEF x
<1> QED BY <1>2, <1>3, <1>4, PutStores DEF KeepsThrottle, KeepsUser, KeepsGrant,
          ForgetsThrottle, ForgetsUser, ForgetsGrant, Goes, Quits, IsOf

(* after a delay (Throttled), *)
LEMMA SleepMoves ==
    ASSUME NEW r \in Reqs, NEW d \in Nat, Typed, 
           Put(r, [rq[r] EXCEPT !.pc = "sleep", !.asked = clock, !.wake = clock + d])
    PROVE  /\ Moved(r, "sleep") /\ KeepsUser(r) /\ KeepsGrant(r)
           /\ rq'[r].asked = clock /\ rq'[r].wake = clock + d
<1> DEFINE x == [rq[r] EXCEPT !.pc = "sleep", !.asked = clock, !.wake = clock + d]
<1>1. rq[r] \in RequestT /\ clock \in Nat /\ clock \in Int
  BY DEF Typed
<1>2. x \in RequestT
  <2>1. clock + d \in Nat
    BY <1>1
  <2> QED BY <1>1, <2>1 DEF RequestT, States
<1>3. /\ x.pc = "sleep" /\ x.asked = clock /\ x.wake = clock + d
      /\ x.kind = rq[r].kind /\ x.blind = rq[r].blind /\ x.tok = rq[r].tok
      /\ x.type = rq[r].type /\ x.seen = rq[r].seen /\ x.uid = rq[r].uid
      /\ x.state = rq[r].state /\ x.admin = rq[r].admin
  BY <1>1, FreshTyped DEF RequestT
<1>4. Put(r, x)
  OBVIOUS
<1> HIDE DEF x
<1> QED BY <1>2, <1>3, <1>4, PutStores DEF KeepsThrottle, KeepsUser, KeepsGrant,
          ForgetsThrottle, ForgetsUser, ForgetsGrant, Goes, Quits, IsOf

(* to the second COUNT (check_throttle), *)
LEMMA LongMoves ==
    ASSUME NEW r \in Reqs, NEW n \in Nat, Typed, 
           Put(r, [rq[r] EXCEPT !.pc = "long", !.short = n])
    PROVE  /\ Moved(r, "long") /\ KeepsThrottle(r) /\ KeepsUser(r) /\ KeepsGrant(r)
           /\ rq'[r].short = n
<1> DEFINE x == [rq[r] EXCEPT !.pc = "long", !.short = n]
<1>1. rq[r] \in RequestT /\ clock \in Nat /\ clock \in Int
  BY DEF Typed
<1>2. x \in RequestT
  BY <1>1, FreshTyped DEF RequestT, States
<1>3. /\ x.pc = "long" /\ x.short = n /\ x.kind = rq[r].kind
      /\ x.asked = rq[r].asked /\ x.wake = rq[r].wake /\ x.blind = rq[r].blind
      /\ x.tok = rq[r].tok /\ x.type = rq[r].type /\ x.seen = rq[r].seen
      /\ x.uid = rq[r].uid /\ x.state = rq[r].state /\ x.admin = rq[r].admin
  BY <1>1, FreshTyped DEF RequestT
<1>4. Put(r, x)
  OBVIOUS
<1> HIDE DEF x
<1> QED BY <1>2, <1>3, <1>4, PutStores DEF KeepsThrottle, KeepsUser, KeepsGrant,
          ForgetsThrottle, ForgetsUser, ForgetsGrant, Goes, Quits, IsOf

(* from the token or the password to the user, *)
LEMMA StoreMoves ==
    ASSUME NEW r \in Reqs, NEW act \in Nat, Typed, 
           Put(r, [rq[r] EXCEPT !.pc = "store", !.act = act, !.seen = clock])
    PROVE  /\ Moved(r, "store") /\ KeepsThrottle(r) /\ KeepsGrant(r)
           /\ rq'[r].tok = rq[r].tok /\ rq'[r].uid = rq[r].uid /\ rq'[r].seen = clock
<1> DEFINE x == [rq[r] EXCEPT !.pc = "store", !.act = act, !.seen = clock]
<1>1. rq[r] \in RequestT /\ clock \in Nat /\ clock \in Int
  BY DEF Typed
<1>2. x \in RequestT
  BY <1>1, FreshTyped DEF RequestT, States
<1>3. /\ x.pc = "store" /\ x.seen = clock /\ x.kind = rq[r].kind
      /\ x.asked = rq[r].asked /\ x.wake = rq[r].wake /\ x.blind = rq[r].blind
      /\ x.tok = rq[r].tok /\ x.uid = rq[r].uid /\ x.state = rq[r].state
      /\ x.admin = rq[r].admin
  BY <1>1, FreshTyped DEF RequestT
<1>4. Put(r, x)
  OBVIOUS
<1> HIDE DEF x
<1> QED BY <1>2, <1>3, <1>4, PutStores DEF KeepsThrottle, KeepsUser, KeepsGrant,
          ForgetsThrottle, ForgetsUser, ForgetsGrant, Goes, Quits, IsOf

(* with the owner of the token (Identified), *)
LEMMA IdentifiedMoves ==
    ASSUME NEW r \in Reqs, NEW t \in Tokens, NEW seen \in Int, Typed, Identified(r, t, seen)
    PROVE  IsOf(r, t, seen)
<1> DEFINE x == [rq[r] EXCEPT !.pc = "state", !.tok = t, !.uid = TokenRow[t].uid,
                              !.type = TokenRow[t].type, !.seen = seen]
<1>1. rq[r] \in RequestT /\ clock \in Nat /\ clock \in Int
  BY DEF Typed
<1>2. x \in RequestT
  <2>1. TokenRow[t].uid \in Uids /\ TokenRow[t].type \in Int
    BY TokenAssumption DEF Uids
  <2> QED BY <1>1, <2>1 DEF RequestT, States
<1>3. /\ x.pc = "state" /\ x.tok = t /\ x.uid = TokenRow[t].uid
      /\ x.seen = seen /\ x.kind = rq[r].kind /\ x.asked = rq[r].asked
      /\ x.wake = rq[r].wake /\ x.blind = rq[r].blind /\ x.state = rq[r].state
      /\ x.admin = rq[r].admin
  BY <1>1, FreshTyped DEF RequestT
<1>4. Put(r, x)
  BY DEF Identified
<1> HIDE DEF x
<1> QED BY <1>2, <1>3, <1>4, PutStores DEF KeepsThrottle, KeepsUser, KeepsGrant,
          ForgetsThrottle, ForgetsUser, ForgetsGrant, Goes, Quits, IsOf

(* with the user of the password (PlainPassword), *)
LEMMA PasswordMoves ==
    ASSUME NEW r \in Reqs, NEW u \in Users, Typed, 
           Put(r, [rq[r] EXCEPT !.pc = "state", !.uid = u, !.type = 0, !.seen = clock])
    PROVE  /\ Moved(r, "state") /\ KeepsThrottle(r) /\ KeepsGrant(r)
           /\ rq'[r].tok = rq[r].tok /\ rq'[r].uid = u /\ rq'[r].seen = clock
<1> DEFINE x == [rq[r] EXCEPT !.pc = "state", !.uid = u, !.type = 0, !.seen = clock]
<1>1. rq[r] \in RequestT /\ clock \in Nat /\ clock \in Int
  BY DEF Typed
<1>2. x \in RequestT
  <2>1. u \in Uids /\ 0 \in Int
    BY DEF Uids
  <2> QED BY <1>1, <2>1 DEF RequestT, States
<1>3. /\ x.pc = "state" /\ x.uid = u /\ x.seen = clock
      /\ x.kind = rq[r].kind /\ x.asked = rq[r].asked /\ x.wake = rq[r].wake
      /\ x.blind = rq[r].blind /\ x.tok = rq[r].tok /\ x.state = rq[r].state
      /\ x.admin = rq[r].admin
  BY <1>1, FreshTyped DEF RequestT
<1>4. Put(r, x)
  OBVIOUS
<1> HIDE DEF x
<1> QED BY <1>2, <1>3, <1>4, PutStores DEF KeepsThrottle, KeepsUser, KeepsGrant,
          ForgetsThrottle, ForgetsUser, ForgetsGrant, Goes, Quits, IsOf

(* and through the two gates. *)
LEMMA AdminMoves ==
    ASSUME NEW r \in Reqs, NEW tfa \in BOOLEAN, Typed, 
           Put(r, [rq[r] EXCEPT !.pc = "admin", !.tfa = tfa])
    PROVE  /\ Moved(r, "admin") /\ KeepsThrottle(r) /\ KeepsUser(r) /\ KeepsGrant(r)
           /\ rq'[r].tfa = tfa
<1> DEFINE x == [rq[r] EXCEPT !.pc = "admin", !.tfa = tfa]
<1>1. rq[r] \in RequestT /\ clock \in Nat /\ clock \in Int
  BY DEF Typed
<1>2. x \in RequestT
  BY <1>1, FreshTyped DEF RequestT, States
<1>3. /\ x.pc = "admin" /\ x.tfa = tfa /\ x.kind = rq[r].kind
      /\ x.asked = rq[r].asked /\ x.wake = rq[r].wake /\ x.blind = rq[r].blind
      /\ x.tok = rq[r].tok /\ x.type = rq[r].type /\ x.seen = rq[r].seen
      /\ x.uid = rq[r].uid /\ x.state = rq[r].state /\ x.admin = rq[r].admin
  BY <1>1, FreshTyped DEF RequestT
<1>4. Put(r, x)
  OBVIOUS
<1> HIDE DEF x
<1> QED BY <1>2, <1>3, <1>4, PutStores DEF KeepsThrottle, KeepsUser, KeepsGrant,
          ForgetsThrottle, ForgetsUser, ForgetsGrant, Goes, Quits, IsOf

(* past the second-factor gate, *)
LEMMA PassMoves ==
    ASSUME NEW r \in Reqs, NEW tfa \in BOOLEAN, NEW admin \in BOOLEAN, Typed, 
           Gate(r, tfa, admin), ~(rq[r].type # 1 /\ tfa)
    PROVE  /\ Moved(r, "done") /\ ForgetsThrottle(r) /\ KeepsUser(r)
           /\ rq'[r].admin = admin /\ rq'[r].state = clock
<1> DEFINE x == [Fresh EXCEPT !.pc = "done", !.kind = rq[r].kind, !.status = 200, !.uid = rq[r].uid,
                   !.tok = rq[r].tok, !.type = rq[r].type, !.seen = rq[r].seen,
                   !.admin = admin, !.state = clock]
<1>1. rq[r] \in RequestT /\ clock \in Nat /\ clock \in Int
  BY DEF Typed
<1>2. x \in RequestT
  <2> DEFINE y == [Fresh EXCEPT !.pc = "done", !.kind = rq[r].kind, !.status = 200]
             z == [y EXCEPT !.uid = rq[r].uid, !.tok = rq[r].tok]
             w == [z EXCEPT !.type = rq[r].type, !.seen = rq[r].seen]
  <2>1. x = [w EXCEPT !.admin = admin, !.state = clock]
    OBVIOUS
  <2>4. y \in RequestT
    <3> DEFINE v == [Fresh EXCEPT !.pc = "done", !.kind = rq[r].kind]
    <3>1. 200 \in Nat
      OBVIOUS
    <3>2. v \in RequestT
      BY <1>1, FreshTyped DEF RequestT, States
    <3>3. y = [v EXCEPT !.status = 200]
      OBVIOUS
    <3> HIDE DEF v, y
    <3>4. [v EXCEPT !.status = 200] \in RequestT
      BY <3>1, <3>2 DEF RequestT
    <3> QED BY <3>3, <3>4
  <2> HIDE DEF y
  <2>2. z \in RequestT
    BY <1>1, <2>4 DEF RequestT
  <2> HIDE DEF z
  <2>3. w \in RequestT
    BY <1>1, <2>2 DEF RequestT
  <2> HIDE DEF w, x
  <2> QED BY <1>1, <2>1, <2>3 DEF RequestT
<1>3. /\ x.pc = "done" /\ x.asked = Never /\ x.admin = admin
      /\ x.state = clock /\ x.kind = rq[r].kind /\ x.tok = rq[r].tok
      /\ x.type = rq[r].type /\ x.seen = rq[r].seen /\ x.uid = rq[r].uid
  BY <1>1, FreshTyped DEF RequestT, Fresh
<1>4. Put(r, x)
  BY DEF Gate, Kind
<1> HIDE DEF x
<1> QED BY <1>2, <1>3, <1>4, PutStores DEF KeepsThrottle, KeepsUser, KeepsGrant,
          ForgetsThrottle, ForgetsUser, ForgetsGrant, Goes, Quits, IsOf

(* or stopped by it (Gate). *)
LEMMA GateMoves ==
    ASSUME NEW r \in Reqs, NEW tfa \in BOOLEAN, NEW admin \in BOOLEAN, Typed, Gate(r, tfa, admin)
    PROVE  Gated(r, tfa, admin)
<1>1. CASE rq[r].type # 1 /\ tfa
  <2>1. Answer(r, 401)
    BY <1>1 DEF Gate
  <2> QED BY <2>1, AnswerMoves DEF Gated
<1>2. CASE ~(rq[r].type # 1 /\ tfa)
  BY <1>2, PassMoves DEF Gated
<1> QED BY <1>1, <1>2

(* A new request, and the next one of a connection. *)
LEMMA ArriveMoves ==
    ASSUME NEW r \in Reqs, NEW k \in Kinds, Typed, Arrive(r, k)
    PROVE  /\ rq' \in [Reqs -> RequestT] /\ \A q \in Reqs : q # r => rq'[q] = rq[q]
           /\ rq'[r].pc \in {"done", "session", "throttle"} /\ rq'[r].kind = k
           /\ rq'[r].pc = "session" => k.auth # "bearer"
           /\ ForgetsThrottle(r) /\ ForgetsUser(r) /\ ForgetsGrant(r)
<1> DEFINE X(s, n) == [[Fresh EXCEPT !.kind = k] EXCEPT !.pc = s, !.status = n]
<1>1. PICK s \in {"done", "session", "throttle"}, n \in Nat :
         rq' = [rq EXCEPT ![r] = X(s, n)] /\ (s = "session" => k.auth # "bearer")
  <2>1. Early(k) \in Nat
    BY DEF Early, maintenance_check
  <2>2. CASE Early(k) # 0
    BY <2>1, <2>2 DEF Arrive
  <2>3. CASE Early(k) = 0 /\ (k.auth = "none" \/ session_first(k))
    <3>1. k.auth # "bearer"
      BY <2>3 DEF session_first
    <3>2. \/ rq' = [rq EXCEPT ![r] = X("done", 200)] \/ rq' = [rq EXCEPT ![r] = X("done", 412)]
          \/ rq' = [rq EXCEPT ![r] = X("session", 0)]
      BY <2>3 DEF Arrive
    <3> HIDE DEF X
    <3> QED BY <3>1, <3>2
  <2>4. CASE Early(k) = 0 /\ ~(k.auth = "none" \/ session_first(k))
    <3>1. \/ rq' = [rq EXCEPT ![r] = X("done", 200)] \/ rq' = [rq EXCEPT ![r] = X("done", 412)]
          \/ rq' = [rq EXCEPT ![r] = X("throttle", 0)]
      BY <2>4 DEF Arrive
    <3> HIDE DEF X
    <3> QED BY <3>1
  <2> QED BY <2>2, <2>3, <2>4
<1> DEFINE x == X(s, n)
<1>2. x \in RequestT
  BY FreshTyped DEF RequestT, States
<1>3. /\ x.pc = s /\ x.kind = k /\ x.asked = Never
      /\ x.tok = NoTok /\ x.uid = NoUser /\ x.state = Never
  BY DEF Fresh
<1> HIDE DEF x
<1>4. rq' = [rq EXCEPT ![r] = x] /\ rq \in [Reqs -> RequestT]
  BY <1>1 DEF x, Typed
<1> HIDE DEF X
<1>5. rq' \in [Reqs -> RequestT] /\ rq'[r] = x /\ \A q \in Reqs : q # r => rq'[q] = rq[q]
  BY <1>2, <1>4
<1> QED BY <1>1, <1>3, <1>5 DEF ForgetsThrottle, ForgetsUser, ForgetsGrant

(* The next request of a connection is a fresh one. *)
LEMMA NextRequestMoves ==
    ASSUME NEW r \in Reqs, Typed, NextRequest(r)
    PROVE  /\ rq' \in [Reqs -> RequestT] /\ \A q \in Reqs : q # r => rq'[q] = rq[q]
           /\ rq'[r].pc = "idle" /\ ForgetsThrottle(r) /\ ForgetsUser(r) /\ ForgetsGrant(r)
<1>1. rq' = [rq EXCEPT ![r] = Fresh] /\ rq \in [Reqs -> RequestT]
  BY DEF NextRequest, Typed
<1>2. rq' \in [Reqs -> RequestT] /\ rq'[r] = Fresh /\ \A q \in Reqs : q # r => rq'[q] = rq[q]
  BY <1>1, FreshTyped
<1>3. /\ Fresh.pc = "idle" /\ Fresh.asked = Never /\ Fresh.tok = NoTok /\ Fresh.uid = NoUser
      /\ Fresh.state = Never
  BY DEF Fresh
<1> QED BY <1>2, <1>3 DEF ForgetsThrottle, ForgetsUser, ForgetsGrant
-----------------------------------------------------------------------------
(* A set of recorded attempts is finite, and a smaller one has no more. *)
LEMMA AttemptSets ==
    ASSUME Typed, NEW B \in SUBSET DOMAIN attempts, NEW A \in SUBSET B
    PROVE  /\ IsFiniteSet(A) /\ Cardinality(A) \in Nat /\ Cardinality(A) <= Cardinality(B)
           /\ Cardinality(B) \in Nat /\ (Cardinality(B) = 0 => B = {})
<1>1. DOMAIN attempts = 1..Len(attempts) /\ Len(attempts) \in Nat
  BY DEF Typed
<1>2. IsFiniteSet(DOMAIN attempts)
  BY <1>1, FS_Interval
<1>3. IsFiniteSet(B)
  BY <1>2, FS_Subset
<1>4. IsFiniteSet(A) /\ Cardinality(A) <= Cardinality(B)
  BY <1>3, FS_Subset
<1>5. Cardinality(A) \in Nat /\ Cardinality(B) \in Nat
  BY <1>3, <1>4, FS_CardinalityType
<1>6. Cardinality(B) = 0 => B = {}
  BY <1>3, FS_EmptySet
<1> QED BY <1>4, <1>5, <1>6

(* A COUNT is a number. *)
LEMMA SinceNat ==
    ASSUME Typed, NEW s, NEW t
    PROVE  Since(s, t) \in Nat
<1> DEFINE B == {i \in DOMAIN attempts : attempts[i].subnet = s /\ attempts[i].at >= t}
<1>1. B \in SUBSET DOMAIN attempts
  OBVIOUS
<1> HIDE DEF B
<1>2. Cardinality(B) \in Nat
  BY <1>1, AttemptSets
<1> QED BY <1>2 DEF Since, B

(* delay_ms is a number of milliseconds. *)
LEMMA DelayNat ==
    ASSUME NEW n \in Nat
    PROVE  delay_ms(n) \in Nat
<1> DEFINE m == Min({n, MaxShift})
<1>1. m \in {n, MaxShift} /\ m <= MaxShift
  <2>1. \E x \in {n, MaxShift} : \A y \in {n, MaxShift} : x <= y
    <3>1. n <= MaxShift \/ MaxShift <= n
      BY LoginAssumption
    <3> QED BY <3>1, LoginAssumption
  <2> QED BY <2>1 DEF Min
<1>2. m \in 0..MaxShift
  BY <1>1, LoginAssumption
<1> HIDE DEF m
<1>3. BaseDelay * 2 ^ m \in Nat
  BY <1>2, DelayAssumption
<1> DEFINE d == BaseDelay * 2 ^ m
<1>4. Min({d, MaxDelay}) \in {d, MaxDelay}
  <2> HIDE DEF d
  <2>1. d \in Nat
    BY <1>3 DEF d
  <2> QED BY <2>1, LoginAssumption DEF Min
<1> QED BY <1>3, <1>4, LoginAssumption DEF delay_ms, m

(* Throttled: rejected, let through, or delayed. *)
LEMMA ThrottledMoves ==
    ASSUME NEW r \in Reqs, NEW short \in Nat, NEW long \in Nat, Typed, Throttled(r, short, long)
    PROVE  Quits(r) \/ Lets(r, short, long)
<1>1. CASE short > MaxAttempts
  <2>1. Answer(r, 429)
    BY <1>1 DEF Throttled
  <2> QED BY <2>1, AnswerMoves
<1>2. CASE ~(short > MaxAttempts) /\ long = 0
  <2>1. Unthrottled(r, FALSE)
    BY <1>2 DEF Throttled
  <2>2. Moved(r, "lookup") /\ KeepsUser(r) /\ KeepsGrant(r) /\ rq'[r].asked = clock
    BY <2>1, UnthrottledMoves
  <2> QED BY <1>2, <2>2, LoginAssumption DEF Lets
<1>3. CASE ~(short > MaxAttempts) /\ long # 0
  <2>1. Put(r, [rq[r] EXCEPT !.pc = "sleep", !.asked = clock, !.wake = clock + delay_ms(long)])
    BY <1>3 DEF Throttled
  <2>2. delay_ms(long) \in Nat
    BY DelayNat
  <2>3. /\ Moved(r, "sleep") /\ KeepsUser(r) /\ KeepsGrant(r)
        /\ rq'[r].asked = clock /\ rq'[r].wake = clock + delay_ms(long)
    BY <2>1, <2>2, SleepMoves
  <2>4. clock \in Nat
    BY DEF Typed
  <2> QED BY <1>3, <2>2, <2>3, <2>4, LoginAssumption DEF Lets
<1> QED BY <1>1, <1>2, <1>3
-----------------------------------------------------------------------------
(* What each step of auth_check does to its request. *)
LEMMA SessionDoes ==
    ASSUME NEW r \in Reqs, Typed, SessionStep(r)
    PROVE  \/ Quits(r) \/ Goes(r, "throttle")
           \/ /\ Moved(r, "done") /\ ForgetsThrottle(r) /\ ForgetsGrant(r) /\ rq'[r].tok = NoTok
              /\ rq'[r].uid = rq[r].kind.session
              /\ ~is_dav_path(rq[r].kind.path) \/ dav_session_guard(rq[r].kind)
<1>1. PICK u \in session_auth(Kind(r)) :
         \/ /\ u # NoUser
            /\ ~is_dav_path(Kind(r).path) \/ dav_session_guard(Kind(r))
            /\ \E a \in is_admin_user(u) : Accept(r, u, a)
         \/ Answer(r, 401) \/ Answer(r, 200) \/ Goto(r, "throttle")
  BY DEF SessionStep, Anonymous
<1>2. u \in Uids /\ (u # NoUser => u = rq[r].kind.session)
  BY DEF SessionStep, At, session_auth, Uids, Kind, Typed
<1>3. \A a \in is_admin_user(u) : a \in BOOLEAN
  BY DEF is_admin_user
<1>4. ASSUME u # NoUser, NEW a \in is_admin_user(u), Accept(r, u, a)
      PROVE  /\ Moved(r, "done") /\ ForgetsThrottle(r) /\ ForgetsGrant(r) /\ rq'[r].tok = NoTok
             /\ rq'[r].uid = rq[r].kind.session
  BY <1>2, <1>3, <1>4, AcceptMoves
<1>5. CASE Answer(r, 401) \/ Answer(r, 200) \/ Goto(r, "throttle")
  BY <1>5, AnswerMoves, GotoMoves DEF States
<1> QED BY <1>1, <1>4, <1>5 DEF Kind

(* check_throttle rejects, knows nothing, trusts fresh counts or counts. *)
LEMMA CheckThrottleDoes ==
    ASSUME NEW r \in Reqs, Typed, check_throttle(r)
    PROVE  LET s == rq[r].kind.subnet IN
           /\ s \in Subnets
           /\ \/ Quits(r)
              \/ Moved(r, "lookup") /\ KeepsUser(r) /\ KeepsGrant(r) /\ rq'[r].blind = TRUE
              \/ FreshCount(counts[s]) /\ Lets(r, counts[s].short, counts[s].long)
              \/ /\ Goes(r, "long") /\ rq'[r].short = Since(s, clock - ShortWindow)
                 /\ rq'[r].short <= MaxAttempts
<1> DEFINE s == rq[r].kind.subnet
           c == counts[s]
           n == Since(s, clock - ShortWindow)
<1>1. s \in Subnets /\ n \in Nat /\ c.short \in Nat /\ c.long \in Nat
  BY SinceNat DEF check_throttle, Typed, Subnets, At
<1>2. \/ Unthrottled(r, TRUE) \/ Answer(r, 429)
      \/ FreshCount(c) /\ Throttled(r, c.short, c.long)
      \/ ~(n > MaxAttempts) /\ Put(r, [rq[r] EXCEPT !.pc = "long", !.short = n])
  BY DEF check_throttle, Kind
<1> HIDE DEF n, c, s
<1>3. CASE Unthrottled(r, TRUE)
  <2>1. Moved(r, "lookup") /\ KeepsUser(r) /\ KeepsGrant(r) /\ rq'[r].blind = TRUE
    BY <1>3, UnthrottledMoves
  <2> QED BY <1>1, <2>1 DEF s, c, n
<1>4. CASE Answer(r, 429)
  <2>1. Quits(r)
    BY <1>4, AnswerMoves
  <2> QED BY <1>1, <2>1 DEF s, c, n
<1>5. CASE FreshCount(c) /\ Throttled(r, c.short, c.long)
  <2>1. Quits(r) \/ Lets(r, c.short, c.long)
    BY <1>1, <1>5, ThrottledMoves
  <2> QED BY <1>1, <1>5, <2>1 DEF s, c, n
<1>6. CASE ~(n > MaxAttempts) /\ Put(r, [rq[r] EXCEPT !.pc = "long", !.short = n])
  <2>1. /\ Moved(r, "long") /\ KeepsThrottle(r) /\ KeepsUser(r) /\ KeepsGrant(r)
        /\ rq'[r].short = n
    BY <1>1, <1>6, LongMoves
  <2>2. n <= MaxAttempts
    BY <1>1, <1>6, LoginAssumption
  <2> QED BY <1>1, <2>1, <2>2 DEF s, c, n, Goes
<1> QED BY <1>2, <1>3, <1>4, <1>5, <1>6

(* The second COUNT fails, or both counts are stored and judged. *)
LEMMA CountLongDoes ==
    ASSUME NEW r \in Reqs, Typed, CountLong(r)
    PROVE  LET s == rq[r].kind.subnet
               n == Since(s, rq[r].since - LongWindow) IN
           /\ s \in Subnets /\ n \in Nat
           /\ \/ /\ Moved(r, "lookup") /\ KeepsUser(r) /\ KeepsGrant(r) /\ rq'[r].blind = TRUE
                 /\ counts' = counts
              \/ /\ counts' = [counts EXCEPT ![s] = [short |-> rq[r].short, long |-> n, at |-> clock]]
                 /\ Quits(r) \/ Lets(r, rq[r].short, n)
<1> DEFINE s == rq[r].kind.subnet
           n == Since(s, rq[r].since - LongWindow)
           c == [counts EXCEPT ![s] = [short |-> rq[r].short, long |-> n, at |-> clock]]
<1>1. s \in Subnets /\ n \in Nat /\ rq[r].short \in Nat
  BY SinceNat DEF CountLong, Typed, RequestT, Subnets, At
<1>2. \/ Unthrottled(r, TRUE) /\ counts' = counts
      \/ counts' = c /\ Throttled(r, rq[r].short, n)
  BY DEF CountLong, Kind
<1> HIDE DEF n, s, c
<1>3. CASE Unthrottled(r, TRUE) /\ counts' = counts
  <2>1. Moved(r, "lookup") /\ KeepsUser(r) /\ KeepsGrant(r) /\ rq'[r].blind = TRUE
    BY <1>3, UnthrottledMoves
  <2> QED BY <1>1, <1>3, <2>1 DEF s, c, n
<1>4. CASE counts' = c /\ Throttled(r, rq[r].short, n)
  <2>1. Quits(r) \/ Lets(r, rq[r].short, n)
    BY <1>1, <1>4, ThrottledMoves
  <2> QED BY <1>1, <1>4, <2>1 DEF s, c, n
<1> QED BY <1>2, <1>3, <1>4

(* The delay is over. *)
LEMMA WakeUpDoes ==
    ASSUME NEW r \in Reqs, Typed, WakeUp(r)
    PROVE  Goes(r, "lookup")
BY GotoMoves DEF WakeUp, States

(* A recorded attempt ends the request. *)
LEMMA RecordDoes ==
    ASSUME NEW r \in Reqs, Typed, record_attempt(r)
    PROVE  Quits(r)
BY AnswerMoves DEF record_attempt

(* lookup_bearer finds the token in the cache, in the database or nowhere. *)
LEMMA BearerDoes ==
    ASSUME NEW r \in Reqs, Typed, lookup_bearer(r)
    PROVE  LET t == rq[r].kind.secret IN
           \/ t \in Tokens /\ FreshToken(t) /\ IsOf(r, t, clock)
           \/ /\ Live(t) /\ Moved(r, "store") /\ KeepsThrottle(r) /\ KeepsGrant(r)
              /\ rq'[r].tok = rq[r].tok /\ rq'[r].uid = rq[r].uid /\ rq'[r].seen = clock
           \/ Goes(r, "record")
<1> DEFINE t == rq[r].kind.secret
<1>1. \/ t \in Tokens /\ FreshToken(t) /\ Identified(r, t, clock)
      \/ Live(t) /\ Put(r, [rq[r] EXCEPT !.pc = "store", !.act = activity[t], !.seen = clock])
      \/ Goto(r, "record")
  BY DEF lookup_bearer, Refuse, Kind
<1>2. clock \in Int /\ (t \in Tokens => activity[t] \in Nat)
  BY DEF Typed
<1> HIDE DEF t
<1>3. CASE t \in Tokens /\ FreshToken(t) /\ Identified(r, t, clock)
  <2>1. IsOf(r, t, clock)
    BY <1>2, <1>3, IdentifiedMoves
  <2> QED BY <1>3, <2>1 DEF t
<1>4. CASE Live(t) /\ Put(r, [rq[r] EXCEPT !.pc = "store", !.act = activity[t], !.seen = clock])
  <2>1. t \in Tokens
    BY <1>4 DEF Live
  <2>2. /\ Moved(r, "store") /\ KeepsThrottle(r) /\ KeepsGrant(r)
        /\ rq'[r].tok = rq[r].tok /\ rq'[r].uid = rq[r].uid /\ rq'[r].seen = clock
    BY <1>2, <1>4, <2>1, StoreMoves
  <2> QED BY <1>4, <2>2 DEF t
<1>5. CASE Goto(r, "record")
  BY <1>5, GotoMoves DEF States
<1> QED BY <1>1, <1>3, <1>4, <1>5

(* The row of the token is cached and its owner is the user. *)
LEMMA StoreTokenDoes ==
    ASSUME NEW r \in Reqs, Typed, StoreToken(r)
    PROVE  rq[r].kind.secret \in Tokens /\ IsOf(r, rq[r].kind.secret, rq[r].seen)
<1>1. /\ Identified(r, rq[r].kind.secret, rq[r].seen) /\ rq[r].seen \in Int
      /\ rq[r].kind.secret \in Tokens
  BY DEF StoreToken, Typed, RequestT, Kind
<1> QED BY <1>1, IdentifiedMoves

(* The Basic password is an app token, or goes on as a password. *)
LEMMA AppTokenDoes ==
    ASSUME NEW r \in Reqs, Typed, try_app_token(r)
    PROVE  LET t == rq[r].kind.secret IN
           \/ Quits(r)
           \/ rq[r].kind.auth = "basic" /\ Live(t) /\ IsOf(r, t, clock)
           \/ rq[r].kind.auth = "basic" /\ Goes(r, "password")
<1> DEFINE t == rq[r].kind.secret
<1>1. \/ Answer(r, 401)
      \/ rq[r].kind.auth = "basic" /\ Live(t) /\ Identified(r, t, clock)
      \/ rq[r].kind.auth = "basic" /\ Goto(r, "password")
  BY DEF try_app_token, Kind
<1> HIDE DEF t
<1>2. CASE Answer(r, 401)
  BY <1>2, AnswerMoves
<1>3. CASE rq[r].kind.auth = "basic" /\ Live(t) /\ Identified(r, t, clock)
  <2>1. t \in Tokens /\ clock \in Int
    BY <1>3 DEF Live, Typed
  <2>2. IsOf(r, t, clock)
    BY <1>3, <2>1, IdentifiedMoves
  <2> QED BY <1>3, <2>2 DEF t
<1>4. CASE rq[r].kind.auth = "basic" /\ Goto(r, "password")
  BY <1>4, GotoMoves DEF States
<1> QED BY <1>1, <1>2, <1>3, <1>4

(* The password is the user's, or the attempt is recorded. *)
LEMMA PasswordDoes ==
    ASSUME NEW r \in Reqs, Typed, PlainPassword(r)
    PROVE  LET u == rq[r].kind.login IN
           \/ /\ u \in Users /\ Password[u] = rq[r].kind.secret
              /\ Moved(r, "state") /\ KeepsThrottle(r) /\ KeepsGrant(r)
              /\ rq'[r].tok = rq[r].tok /\ rq'[r].uid = u
           \/ Goes(r, "record")
<1> DEFINE u == rq[r].kind.login
<1>1. \/ /\ u \in Users /\ Password[u] = rq[r].kind.secret
         /\ Put(r, [rq[r] EXCEPT !.pc = "state", !.uid = u, !.type = 0, !.seen = clock])
      \/ Goto(r, "record")
  BY DEF PlainPassword, Refuse, Kind
<1>2. ASSUME u \in Users, Put(r, [rq[r] EXCEPT !.pc = "state", !.uid = u, !.type = 0, !.seen = clock])
      PROVE  /\ Moved(r, "state") /\ KeepsThrottle(r) /\ KeepsGrant(r)
             /\ rq'[r].tok = rq[r].tok /\ rq'[r].uid = u
  BY <1>2, PasswordMoves
<1>3. CASE Goto(r, "record")
  BY <1>3, GotoMoves DEF States
<1> HIDE DEF u
<1> QED BY <1>1, <1>2, <1>3 DEF u

(* cached_user_state has a fresh state, or queries the second factor. *)
LEMMA CachedStateDoes ==
    ASSUME NEW r \in Reqs, Typed, cached_user_state(r)
    PROVE  LET u == rq[r].uid IN
           /\ u \in Users
           /\ \/ FreshState(u) /\ Gated(r, states[u].tfa, states[u].admin)
              \/ Quits(r)
              \/ Goes(r, "admin") /\ rq'[r].tfa = requires_2fa(u)
<1> DEFINE u == rq[r].uid
<1>1. u \in Users
  BY DEF cached_user_state, Typed
<1>2. \/ FreshState(u) /\ Gate(r, states[u].tfa, states[u].admin)
      \/ Answer(r, 500)
      \/ Put(r, [rq[r] EXCEPT !.pc = "admin", !.tfa = requires_2fa(u)])
  BY DEF cached_user_state
<1>3. states[u].tfa \in BOOLEAN /\ states[u].admin \in BOOLEAN /\ requires_2fa(u) \in BOOLEAN
  BY <1>1 DEF Typed, requires_2fa
<1> HIDE DEF u
<1>4. CASE FreshState(u) /\ Gate(r, states[u].tfa, states[u].admin)
  <2>1. Gated(r, states[u].tfa, states[u].admin)
    BY <1>3, <1>4, GateMoves
  <2> QED BY <1>1, <1>4, <2>1 DEF u
<1>5. CASE Answer(r, 500)
  <2>1. Quits(r)
    BY <1>5, AnswerMoves
  <2> QED BY <1>1, <2>1 DEF u
<1>6. CASE Put(r, [rq[r] EXCEPT !.pc = "admin", !.tfa = requires_2fa(u)])
  <2>1. /\ Moved(r, "admin") /\ KeepsThrottle(r) /\ KeepsUser(r) /\ KeepsGrant(r)
        /\ rq'[r].tfa = requires_2fa(u)
    BY <1>3, <1>6, AdminMoves
  <2> QED BY <1>1, <2>1 DEF u, Goes
<1> QED BY <1>2, <1>4, <1>5, <1>6

(* The admin query completes the state, which is cached. *)
LEMMA StoreStateDoes ==
    ASSUME NEW r \in Reqs, Typed, StoreState(r)
    PROVE  LET u == rq[r].uid IN
           /\ u \in Users
           /\ \E a \in BOOLEAN :
                 /\ states' = [states EXCEPT ![u] = [tfa |-> rq[r].tfa, admin |-> a, at |-> clock]]
                 /\ Gated(r, rq[r].tfa, a) /\ (a => demoted[u] = Never)
<1> DEFINE u == rq[r].uid
<1>1. u \in Users
  BY DEF StoreState, Typed
<1>2. PICK a \in is_admin_user(u) :
         /\ states' = [states EXCEPT ![u] = [tfa |-> rq[r].tfa, admin |-> a, at |-> clock]]
         /\ Gate(r, rq[r].tfa, a)
  BY DEF StoreState
<1>3. a \in BOOLEAN /\ (a => demoted[u] = Never)
  BY DEF is_admin_user
<1>4. rq[r].tfa \in BOOLEAN
  BY DEF Typed, RequestT
<1> HIDE DEF u
<1>5. Gated(r, rq[r].tfa, a)
  BY <1>2, <1>3, <1>4, GateMoves
<1> QED BY <1>1, <1>2, <1>3, <1>5 DEF u

(* Every step of a request moves it to a step, never back to idle, and     *)
(* keeps what the types say of the step.                                   *)
MovedOn(r) ==
    /\ rq' \in [Reqs -> RequestT] /\ \A q \in Reqs : q # r => rq'[q] = rq[q]
    /\ rq'[r].pc # "idle" /\ rq'[r].kind = rq[r].kind
    /\ rq'[r].since = IF InDb(rq'[r].pc) THEN clock ELSE 0
    /\ rq'[r].pc = "store" => rq[r].kind.secret \in Tokens
    /\ rq'[r].pc \in {"state", "admin"} => rq'[r].uid \in Users

(* Most moves say nothing of token or user. *)
LEMMA SimpleMoves ==
    ASSUME NEW r, NEW s \in {"throttle", "long", "sleep", "lookup", "password", "record", "done"},
           Moved(r, s)
    PROVE  MovedOn(r)
BY DEF Moved, MovedOn, InDb

(* MovedOn holds of every step of auth_check. *)
LEMMA StepMoves ==
    ASSUME NEW r \in Reqs, Typed, Step(r)
    PROVE  rq[r].pc # "idle" /\ MovedOn(r)
<1>0. rq[r].pc # "idle"
  BY DEF Step, SessionStep, check_throttle, CountLong, WakeUp, record_attempt, lookup_bearer,
         StoreToken, try_app_token, PlainPassword, cached_user_state, StoreState, At
<1> SUFFICES MovedOn(r)
  BY <1>0
<1>1. CASE SessionStep(r) \/ WakeUp(r) \/ record_attempt(r)
  <2>1. Moved(r, "done") \/ Moved(r, "throttle") \/ Moved(r, "lookup")
    BY <1>1, SessionDoes, WakeUpDoes, RecordDoes DEF Quits, Goes
  <2> QED BY <2>1, SimpleMoves
<1>2. CASE check_throttle(r) \/ CountLong(r)
  <2>1. Moved(r, "done") \/ Moved(r, "lookup") \/ Moved(r, "sleep") \/ Moved(r, "long")
    BY <1>2, CheckThrottleDoes, CountLongDoes DEF Quits, Goes, Lets
  <2> QED BY <2>1, SimpleMoves
<1>3. ASSUME NEW t \in Tokens, NEW seen, IsOf(r, t, seen) PROVE MovedOn(r)
  BY <1>3, TokenAssumption DEF IsOf, Moved, MovedOn
<1>4. CASE lookup_bearer(r)
  <2>1. \/ \E t \in Tokens : IsOf(r, t, clock)
        \/ Moved(r, "store") /\ rq[r].kind.secret \in Tokens
        \/ Moved(r, "record")
    BY <1>4, BearerDoes DEF Goes, Live
  <2>2. CASE Moved(r, "store") /\ rq[r].kind.secret \in Tokens
    BY <2>2 DEF Moved, MovedOn
  <2> QED BY <1>3, <2>1, <2>2, SimpleMoves
<1>5. CASE StoreToken(r)
  BY <1>3, <1>5, StoreTokenDoes
<1>6. CASE try_app_token(r)
  <2>1. (\E t \in Tokens : IsOf(r, t, clock)) \/ Moved(r, "done") \/ Moved(r, "password")
    BY <1>6, AppTokenDoes DEF Quits, Goes, Live
  <2> QED BY <1>3, <2>1, SimpleMoves
<1>7. CASE PlainPassword(r)
  <2>1. (Moved(r, "state") /\ rq'[r].uid \in Users) \/ Moved(r, "record")
    BY <1>7, PasswordDoes DEF Goes
  <2>2. CASE Moved(r, "state") /\ rq'[r].uid \in Users
    BY <2>2 DEF Moved, MovedOn
  <2> QED BY <2>1, <2>2, SimpleMoves
<1>8. CASE cached_user_state(r)
  <2>1. Moved(r, "done") \/ (Moved(r, "admin") /\ rq'[r].uid \in Users)
    BY <1>8, CachedStateDoes DEF Goes, Gated, Quits, KeepsUser
  <2>2. CASE Moved(r, "admin") /\ rq'[r].uid \in Users
    BY <2>2 DEF Moved, MovedOn
  <2> QED BY <2>1, <2>2, SimpleMoves
<1>9. CASE StoreState(r)
  <2>1. Moved(r, "done")
    BY <1>9, StoreStateDoes DEF Gated, Quits
  <2> QED BY <2>1, SimpleMoves
<1> QED BY <1>1, <1>2, <1>4, <1>5, <1>6, <1>7, <1>8, <1>9 DEF Step

(* Append keeps the type of a sequence. *)
LEMMA AppendTyped ==
    ASSUME NEW S, NEW s \in Seq(S), NEW e \in S
    PROVE  Append(s, e) \in Seq(S)
OBVIOUS

(* The state keeps its types, a request in the middle of a bearer lookup   *)
(* has a token, and one that is past its credentials a user of oc_users    *)
(* (auth_check of auth.rs).                                                *)
THEOREM TypeCorrect == Spec => []Typed
<1>1. Init => Typed
  <2> SUFFICES ASSUME Init PROVE Typed
    OBVIOUS
  <2>1. Fresh.pc = "idle"
    BY DEF Fresh
  <2>2. rq \in [Reqs -> RequestT] /\ \A r \in Reqs : rq[r].pc = "idle"
    BY <2>1, FreshTyped DEF Init
  <2> QED BY <2>2 DEF Init, Typed, At, Never, NoCount, NoToken, NoState
<1>2. Typed /\ [Next]_vars => Typed'
  <2> SUFFICES ASSUME Typed, [Next]_vars PROVE Typed'
    OBVIOUS
  <2>1. ASSUME NEW r \in Reqs, NEW k \in plan.kinds, Arrive(r, k) PROVE Typed'
    <3>1. k \in Kinds
      BY DEF Typed, Kinds
    <3>2. /\ rq' \in [Reqs -> RequestT] /\ \A q \in Reqs : q # r => rq'[q] = rq[q]
          /\ rq'[r].pc \in {"done", "session", "throttle"} /\ rq'[r].kind = k
      BY <2>1, <3>1, ArriveMoves
    <3> QED BY <2>1, <3>1, <3>2 DEF Arrive, Typed, db, At, Kind
  <2>2. ASSUME NEW r \in Reqs, NextRequest(r) PROVE Typed'
    <3>1. /\ rq' \in [Reqs -> RequestT] /\ \A q \in Reqs : q # r => rq'[q] = rq[q]
          /\ rq'[r].pc = "idle"
      BY <2>2, NextRequestMoves
    <3> QED BY <2>2, <3>1 DEF NextRequest, Typed, db, At, Kind
  <2>3. ASSUME NEW r \in Reqs, Step(r) PROVE Typed'
    <3>1. rq[r].pc # "idle" /\ MovedOn(r)
      BY <2>3, StepMoves
    <3>2. /\ rq' \in [Reqs -> RequestT]
          /\ \A q \in Reqs : /\ rq'[q].pc # "idle" => rq'[q].kind \in Kinds
                             /\ rq'[q].pc = "store" => rq'[q].kind.secret \in Tokens
                             /\ rq'[q].pc \in {"state", "admin"} => rq'[q].uid \in Users
      BY <3>1 DEF MovedOn, Typed, At, Kind
    <3>3. Kind(r) \in Kinds /\ Kind(r).subnet \in Subnets /\ rq[r] \in RequestT
      BY <3>1 DEF Typed, Kind, Subnets
    <3>4. clock' = clock /\ UNCHANGED <<revoked, activity, twofa, demoted, plan>>
      BY <2>3 DEF Step, SessionStep, check_throttle, CountLong, WakeUp, record_attempt,
                  lookup_bearer, StoreToken, try_app_token, PlainPassword, cached_user_state,
                  StoreState, db
    <3>5. attempts' \in Seq([subnet : Subnets, at : Nat])
      <4>1. CASE record_attempt(r)
        <5> DEFINE a == [subnet |-> Kind(r).subnet, at |-> clock]
        <5>1. a \in [subnet : Subnets, at : Nat]
          BY <3>3 DEF Typed
        <5>2. attempts' = Append(attempts, a) \/ attempts' = attempts
          BY <4>1 DEF record_attempt
        <5> HIDE DEF a
        <5>3. attempts \in Seq([subnet : Subnets, at : Nat])
          BY DEF Typed
        <5> QED BY <5>1, <5>2, <5>3, AppendTyped
      <4>2. CASE ~record_attempt(r)
        BY <2>3, <4>2 DEF Step, SessionStep, check_throttle, CountLong, WakeUp, lookup_bearer,
                  StoreToken, try_app_token, PlainPassword, cached_user_state, StoreState, Typed
      <4> QED BY <4>1, <4>2
    <3>6. counts' \in [Subnets -> [short : Nat, long : Nat, at : Int]]
      <4>1. CASE CountLong(r)
        <5> DEFINE n == Since(Kind(r).subnet, rq[r].since - LongWindow)
        <5>1. \/ UNCHANGED counts
              \/ counts' = [counts EXCEPT ![Kind(r).subnet] =
                              [short |-> rq[r].short, long |-> n, at |-> clock]]
          BY <4>1 DEF CountLong
        <5>2. n \in Nat
          BY SinceNat
        <5> HIDE DEF n
        <5>3. rq[r].short \in Nat /\ clock \in Int
          BY <3>3 DEF RequestT, Typed
        <5> DEFINE c == [short |-> rq[r].short, long |-> n, at |-> clock]
        <5>4. c \in [short : Nat, long : Nat, at : Int]
          BY <5>2, <5>3
        <5>5. counts' = counts \/ counts' = [counts EXCEPT ![Kind(r).subnet] = c]
          BY <5>1
        <5> HIDE DEF c
        <5> QED BY <5>4, <5>5 DEF Typed
      <4>2. CASE ~CountLong(r)
        BY <2>3, <4>2 DEF Step, SessionStep, check_throttle, record_attempt, WakeUp, lookup_bearer,
                  StoreToken, try_app_token, PlainPassword, cached_user_state, StoreState, Typed
      <4> QED BY <4>1, <4>2
    <3>7. tokens' \in [Tokens -> [at : Int, act : Nat]] /\ tasks' \subseteq Tokens
      <4>1. CASE StoreToken(r)
        <5>1. rq[r].act \in Nat /\ clock \in Int /\ Kind(r).secret \in Tokens
          BY <3>3, <4>1 DEF RequestT, Typed, StoreToken
        <5>2. /\ tokens' = [tokens EXCEPT ![Kind(r).secret] = [at |-> clock, act |-> rq[r].act]]
              /\ tasks' = tasks \/ tasks' = tasks \cup {Kind(r).secret}
          BY <4>1 DEF StoreToken, Spawn
        <5> QED BY <5>1, <5>2 DEF Typed
      <4>2. CASE lookup_bearer(r)
        BY <4>2 DEF lookup_bearer, Spawn, Typed
      <4>3. CASE ~StoreToken(r) /\ ~lookup_bearer(r)
        BY <2>3, <4>3 DEF Step, SessionStep, check_throttle, CountLong, record_attempt, WakeUp,
                  try_app_token, PlainPassword, cached_user_state, StoreState, Typed
      <4> QED BY <4>1, <4>2, <4>3
    <3>8. states' \in [Users -> [tfa : BOOLEAN, admin : BOOLEAN, at : Int]]
      <4>1. CASE StoreState(r)
        <5>1. PICK a \in is_admin_user(rq[r].uid) :
                 states' = [states EXCEPT ![rq[r].uid] = [tfa |-> rq[r].tfa, admin |-> a, at |-> clock]]
          BY <4>1 DEF StoreState
        <5>2. a \in BOOLEAN
          BY DEF is_admin_user
        <5>3. rq[r].tfa \in BOOLEAN /\ clock \in Int
          BY <3>3 DEF RequestT, Typed
        <5> QED BY <5>1, <5>2, <5>3 DEF Typed
      <4>2. CASE ~StoreState(r)
        BY <2>3, <4>2 DEF Step, SessionStep, check_throttle, CountLong, record_attempt, WakeUp,
                  lookup_bearer, StoreToken, try_app_token, PlainPassword, cached_user_state, Typed
      <4> QED BY <4>1, <4>2
    <3>9. \A q \in Reqs : /\ rq'[q].pc # "idle" => rq'[q].kind \in Kinds
                          /\ At(q, "store")' => Kind(q)'.secret \in Tokens
                          /\ At(q, "state")' \/ At(q, "admin")' => rq'[q].uid \in Users
      BY <3>2 DEF At, Kind
    <3>10. /\ clock' \in Nat /\ plan' \in Plans
           /\ revoked' \in [Tokens -> Int] /\ activity' \in [Tokens -> Nat]
           /\ twofa' \in [Users -> Int] /\ demoted' \in [Users -> Int]
      BY <3>4 DEF Typed
    <3> QED BY <3>2, <3>5, <3>6, <3>7, <3>8, <3>9, <3>10 DEF Typed
  <2>4. ASSUME NEW t \in Tokens, update_last_activity(t) PROVE Typed'
    BY <2>4 DEF update_last_activity, Typed, db, At, Kind
  <2>5. CASE PhpChange
    <3>1. /\ revoked' \in [Tokens -> Int] /\ twofa' \in [Users -> Int] /\ demoted' \in [Users -> Int]
      <4>1. /\ revoked \in [Tokens -> Int] /\ twofa \in [Users -> Int] /\ demoted \in [Users -> Int]
            /\ clock \in Int
        BY DEF Typed
      <4>2. PICK c \in plan.changes :
               \/ revoked' = [revoked EXCEPT ![c.of] = clock] /\ UNCHANGED <<twofa, demoted>>
               \/ twofa' = [twofa EXCEPT ![c.of] = clock] /\ UNCHANGED <<revoked, demoted>>
               \/ demoted' = [demoted EXCEPT ![c.of] = clock] /\ UNCHANGED <<revoked, twofa>>
        BY <2>5, Zenon DEF PhpChange
      <4> QED BY <4>1, <4>2
    <3>2. UNCHANGED <<plan, activity, attempts, counts, tokens, states, tasks, rq, clock>>
      BY <2>5 DEF PhpChange
    <3> QED BY <3>1, <3>2 DEF Typed, At, Kind
  <2>6. CASE Tick
    BY <2>6 DEF Tick, Typed, db, At, Kind
  <2>7. CASE UNCHANGED vars
    BY <2>7 DEF vars, Typed, At, Kind
  <2> QED BY <2>1, <2>2, <2>3, <2>4, <2>5, <2>6, <2>7 DEF Next
<1> QED BY <1>1, <1>2, PTL DEF Spec
-----------------------------------------------------------------------------
(***************************************************************************)
(* Who a request runs as.  The identity is proven as soon as there is one, *)
(* which needs the credentials that lead to each lookup.                   *)
(***************************************************************************)
IdentityInv ==
    \A r \in Reqs :
        /\ rq[r].uid # NoUser => Proven(rq[r].kind, rq[r].uid)
        /\ At(r, "session") => rq[r].kind.auth # "bearer"
        /\ At(r, "store") => rq[r].kind.auth = "bearer"
        /\ At(r, "password") => rq[r].kind.auth = "basic"

(* A move keeps IdentityInv when its new identity is proven. *)
LEMMA IdentityMoves ==
    ASSUME IdentityInv, NEW r \in Reqs, NEW s, Moved(r, s), s # "session",
           s = "store" => rq[r].kind.auth = "bearer",
           s = "password" => rq[r].kind.auth = "basic",
           rq'[r].uid # NoUser => Proven(rq[r].kind, rq'[r].uid)
    PROVE  IdentityInv'
<1> SUFFICES ASSUME NEW q \in Reqs
             PROVE  /\ rq'[q].uid # NoUser => Proven(rq'[q].kind, rq'[q].uid)
                    /\ At(q, "session")' => rq'[q].kind.auth # "bearer"
                    /\ At(q, "store")' => rq'[q].kind.auth = "bearer"
                    /\ At(q, "password")' => rq'[q].kind.auth = "basic"
  BY DEF IdentityInv, Proven
<1>1. CASE q = r
  BY <1>1 DEF Moved, At
<1>2. CASE q # r
  BY <1>2 DEF IdentityInv, Moved, At
<1> QED BY <1>1, <1>2

(* auth_check runs no request as a user whose token, password or session   *)
(* it does not bring.                                                      *)
THEOREM Identity == Spec => []IdentityProven
<1>1. Init => IdentityInv
  BY DEF Init, IdentityInv, Fresh, At
<1>2. Typed /\ IdentityInv /\ [Next]_vars => IdentityInv'
  <2> SUFFICES ASSUME Typed, IdentityInv, [Next]_vars PROVE IdentityInv'
    OBVIOUS
  <2>1. ASSUME NEW r \in Reqs, NEW k \in plan.kinds, Arrive(r, k) PROVE IdentityInv'
    <3>1. k \in Kinds
      BY DEF Typed, Kinds
    <3>2. /\ \A q \in Reqs : q # r => rq'[q] = rq[q]
          /\ rq'[r].pc \in {"done", "session", "throttle"} /\ rq'[r].kind = k
          /\ rq'[r].pc = "session" => k.auth # "bearer"
          /\ ForgetsUser(r)
      BY <2>1, <3>1, ArriveMoves
    <3> QED BY <3>2 DEF IdentityInv, ForgetsUser, At, Proven
  <2>2. ASSUME NEW r \in Reqs, NextRequest(r) PROVE IdentityInv'
    <3>1. /\ \A q \in Reqs : q # r => rq'[q] = rq[q]
          /\ rq'[r].pc = "idle" /\ ForgetsUser(r)
      BY <2>2, NextRequestMoves
    <3> QED BY <3>1 DEF IdentityInv, ForgetsUser, At, Proven
  <2>3. ASSUME NEW r \in Reqs, NEW s, s \notin {"session", "store", "password"},
               Moved(r, s), KeepsUser(r) \/ ForgetsUser(r)
        PROVE  IdentityInv'
    BY <2>3, IdentityMoves DEF KeepsUser, ForgetsUser, IdentityInv
  <2>4. ASSUME NEW r \in Reqs, NEW t \in Tokens, NEW seen, IsOf(r, t, seen),
               t = rq[r].kind.secret, rq[r].kind.auth \in {"bearer", "basic"}
        PROVE  IdentityInv'
    <3>1. Proven(rq[r].kind, rq'[r].uid)
      BY <2>4 DEF Proven, IsOf
    <3> QED BY <2>4, <3>1, IdentityMoves DEF IsOf
  <2>11. ASSUME NEW r \in Reqs, SessionStep(r) PROVE IdentityInv'
    <3>0. rq[r].kind.auth # "bearer"
      BY <2>11 DEF SessionStep, IdentityInv
    <3>1. CASE Quits(r) \/ Goes(r, "throttle")
      BY <2>3, <3>1 DEF Quits, Goes
    <3>2. CASE /\ Moved(r, "done") /\ rq'[r].uid = rq[r].kind.session
               /\ ~is_dav_path(rq[r].kind.path) \/ dav_session_guard(rq[r].kind)
      <4>1. Proven(rq[r].kind, rq'[r].uid)
        BY <3>0, <3>2 DEF Proven, dav_session_guard
      <4> QED BY <3>2, <4>1, IdentityMoves
    <3> QED BY <2>11, <3>1, <3>2, SessionDoes
  <2>12. ASSUME NEW r \in Reqs, check_throttle(r) \/ CountLong(r) PROVE IdentityInv'
    <3>1. /\ KeepsUser(r) \/ ForgetsUser(r)
          /\ Moved(r, "done") \/ Moved(r, "lookup") \/ Moved(r, "sleep") \/ Moved(r, "long")
      BY <2>12, CheckThrottleDoes, CountLongDoes DEF Quits, Goes, Lets
    <3> QED BY <2>3, <3>1
  <2>13. ASSUME NEW r \in Reqs, WakeUp(r) \/ record_attempt(r) PROVE IdentityInv'
    BY <2>3, <2>13, WakeUpDoes, RecordDoes DEF Quits, Goes
  <2>14. ASSUME NEW r \in Reqs, lookup_bearer(r) PROVE IdentityInv'
    <3> DEFINE t == rq[r].kind.secret
    <3>0. rq[r].kind.auth = "bearer"
      BY <2>14 DEF lookup_bearer, Kind
    <3>1. CASE t \in Tokens /\ IsOf(r, t, clock)
      BY <2>4, <3>0, <3>1
    <3>2. CASE Moved(r, "store") /\ rq'[r].uid = rq[r].uid
      BY <3>0, <3>2, IdentityMoves DEF IdentityInv
    <3>3. CASE Goes(r, "record")
      BY <2>3, <3>3 DEF Goes
    <3> QED BY <2>14, <3>1, <3>2, <3>3, BearerDoes
  <2>15. ASSUME NEW r \in Reqs, StoreToken(r) PROVE IdentityInv'
    <3>1. rq[r].kind.auth = "bearer"
      BY <2>15 DEF StoreToken, IdentityInv
    <3> QED BY <2>4, <2>15, <3>1, StoreTokenDoes
  <2>16. ASSUME NEW r \in Reqs, try_app_token(r) PROVE IdentityInv'
    <3> DEFINE t == rq[r].kind.secret
    <3>1. CASE Quits(r)
      BY <2>3, <3>1 DEF Quits
    <3>2. CASE rq[r].kind.auth = "basic" /\ Live(t) /\ IsOf(r, t, clock)
      <4>1. t \in Tokens
        BY <3>2 DEF Live
      <4> QED BY <2>4, <3>2, <4>1
    <3>3. CASE rq[r].kind.auth = "basic" /\ Goes(r, "password")
      BY <3>3, IdentityMoves DEF IdentityInv, Goes, KeepsUser
    <3> QED BY <2>16, <3>1, <3>2, <3>3, AppTokenDoes
  <2>17. ASSUME NEW r \in Reqs, PlainPassword(r) PROVE IdentityInv'
    <3> DEFINE u == rq[r].kind.login
    <3>1. CASE u \in Users /\ Password[u] = rq[r].kind.secret /\ Moved(r, "state") /\ rq'[r].uid = u
      <4>1. Proven(rq[r].kind, rq'[r].uid)
        BY <2>17, <3>1 DEF PlainPassword, IdentityInv, Proven
      <4> QED BY <3>1, <4>1, IdentityMoves
    <3>2. CASE Goes(r, "record")
      BY <2>3, <3>2 DEF Goes
    <3> QED BY <2>17, <3>1, <3>2, PasswordDoes
  <2>18. ASSUME NEW r \in Reqs, cached_user_state(r) \/ StoreState(r) PROVE IdentityInv'
    <3>1. (Moved(r, "done") \/ Moved(r, "admin")) /\ (KeepsUser(r) \/ ForgetsUser(r))
      BY <2>18, CachedStateDoes, StoreStateDoes DEF Quits, Goes, Gated
    <3> QED BY <2>3, <3>1
  <2>21. CASE UNCHANGED rq
    BY <2>21 DEF IdentityInv, At, Proven
  <2>22. CASE (\E t \in Tokens : update_last_activity(t)) \/ PhpChange \/ Tick \/ UNCHANGED vars
    BY <2>21, <2>22 DEF update_last_activity, PhpChange, Tick, vars
  <2> QED BY <2>1, <2>2, <2>11, <2>12, <2>13, <2>14, <2>15, <2>16, <2>17, <2>18, <2>22
          DEF Next, Step
<1>3. IdentityInv => IdentityProven
  BY DEF IdentityInv, IdentityProven, Kind
<1> QED BY <1>1, <1>2, <1>3, TypeCorrect, PTL DEF Spec
-----------------------------------------------------------------------------
(* The answer of a statement is not older than MaxLag when it is used. *)
Lagging ==
    \A r \in Reqs : InDb(rq[r].pc) => rq[r].since <= clock /\ clock <= rq[r].since + MaxLag

(* By the guard of Tick, every statement is answered within MaxLag. *)
LEMMA StatementsLag == Spec => []Lagging
<1>1. Init => Lagging
  BY DEF Init, Lagging, Fresh, InDb
<1>2. Typed /\ Lagging /\ [Next]_vars => Lagging'
  <2> SUFFICES ASSUME Typed, Lagging, [Next]_vars, NEW q \in Reqs, InDb(rq'[q].pc)
               PROVE  rq'[q].since <= clock' /\ clock' <= rq'[q].since + MaxLag
    BY DEF Lagging, InDb
  <2>0. /\ clock \in Nat /\ MaxLag \in Nat /\ rq[q] \in RequestT /\ rq[q].since \in Nat
        /\ InDb(rq[q].pc) => rq[q].since <= clock /\ clock <= rq[q].since + MaxLag
    BY LoginAssumption DEF Typed, RequestT, Lagging
  <2>1. ASSUME NEW r \in Reqs, NEW k \in plan.kinds, Arrive(r, k)
        PROVE  rq'[q].since <= clock' /\ clock' <= rq'[q].since + MaxLag
    <3>1. k \in Kinds
      BY DEF Typed, Kinds
    <3>2. /\ \A p \in Reqs : p # r => rq'[p] = rq[p]
          /\ rq'[r].pc \in {"done", "session", "throttle"}
      BY <2>1, <3>1, ArriveMoves
    <3>3. clock' = clock /\ q # r
      BY <2>1, <3>2 DEF Arrive, InDb
    <3> QED BY <2>0, <3>2, <3>3
  <2>2. ASSUME NEW r \in Reqs, NextRequest(r)
        PROVE  rq'[q].since <= clock' /\ clock' <= rq'[q].since + MaxLag
    <3>1. (\A p \in Reqs : p # r => rq'[p] = rq[p]) /\ rq'[r].pc = "idle"
      BY <2>2, NextRequestMoves
    <3>2. clock' = clock /\ q # r
      BY <2>2, <3>1 DEF NextRequest, InDb
    <3> QED BY <2>0, <3>1, <3>2
  <2>3. ASSUME NEW r \in Reqs, Step(r)
        PROVE  rq'[q].since <= clock' /\ clock' <= rq'[q].since + MaxLag
    <3>1. MovedOn(r)
      BY <2>3, StepMoves
    <3>2. clock' = clock
      BY <2>3 DEF Step, SessionStep, check_throttle, CountLong, WakeUp, record_attempt,
                  lookup_bearer, StoreToken, try_app_token, PlainPassword, cached_user_state,
                  StoreState
    <3>3. CASE q = r
      BY <2>0, <3>1, <3>2, <3>3 DEF MovedOn
    <3>4. CASE q # r
      BY <2>0, <3>1, <3>2, <3>4 DEF MovedOn
    <3> QED BY <3>3, <3>4
  <2>4. CASE UNCHANGED <<rq, clock>>
    BY <2>0, <2>4
  <2>5. CASE Tick
    BY <2>0, <2>5 DEF Tick
  <2>6. CASE (\E t \in Tokens : update_last_activity(t)) \/ PhpChange \/ UNCHANGED vars
    BY <2>4, <2>6 DEF update_last_activity, PhpChange, vars
  <2> QED BY <2>1, <2>2, <2>3, <2>5, <2>6 DEF Next
<1> QED BY <1>1, <1>2, TypeCorrect, PTL DEF Spec
-----------------------------------------------------------------------------
(***************************************************************************)
(* How long a revoked or expired token is accepted.  A row in the cache    *)
(* was put there not longer than MaxLag after its revocation, because the  *)
(* lookup that put it there read it before; a request carries a token only *)
(* past its lookup.                                                        *)
(***************************************************************************)
GoodToken(t, seen) ==
    /\ seen <= clock
    /\ revoked[t] # Never => seen - revoked[t] < TokenTtl + MaxLag
    /\ TokenRow[t].expires = Never \/ seen <= TokenRow[t].expires

CacheRecent ==
    \A t \in Tokens : /\ tokens[t].at <= clock
                      /\ tokens[t].at # Never /\ revoked[t] # Never =>
                             tokens[t].at <= revoked[t] + MaxLag

RequestTokens ==
    \A r \in Reqs :
        /\ At(r, "store") =>
              LET t == rq[r].kind.secret IN
              /\ rq[r].seen = rq[r].since
              /\ revoked[t] # Never => rq[r].since <= revoked[t]
              /\ TokenRow[t].expires = Never \/ rq[r].seen <= TokenRow[t].expires
        /\ rq[r].tok # NoTok => /\ rq[r].pc \in {"state", "admin", "done"}
                                /\ GoodToken(rq[r].tok, rq[r].seen)

(* A move keeps RequestTokens when the token it brings is good. *)
LEMMA TokenMoves ==
    ASSUME Typed, RequestTokens, NEW r \in Reqs, NEW s, Moved(r, s), s # "store",
           clock' = clock, revoked' = revoked,
           rq'[r].tok # NoTok => s \in {"state", "admin", "done"} /\ GoodToken(rq'[r].tok, rq'[r].seen)
    PROVE  RequestTokens'
<1> SUFFICES ASSUME NEW q \in Reqs
             PROVE  /\ At(q, "store")' =>
                          LET t == rq'[q].kind.secret IN
                          /\ rq'[q].seen = rq'[q].since
                          /\ revoked[t] # Never => rq'[q].since <= revoked[t]
                          /\ TokenRow[t].expires = Never \/ rq'[q].seen <= TokenRow[t].expires
                    /\ rq'[q].tok # NoTok => /\ rq'[q].pc \in {"state", "admin", "done"}
                                             /\ GoodToken(rq'[q].tok, rq'[q].seen)
  BY DEF RequestTokens, GoodToken
<1>1. CASE q = r
  BY <1>1 DEF Moved, At
<1>2. CASE q # r
  BY <1>2 DEF Moved, At, RequestTokens
<1> QED BY <1>1, <1>2

(* A bearer or app token is not accepted for longer after its revocation   *)
(* than the cache's TTL and one statement, nor past its expiry.            *)
THEOREM TokensLapse == Spec => [](RevokedWithinTtl /\ ExpiredRefused)
<1> USE LoginAssumption
<1>1. Init => CacheRecent /\ RequestTokens
  BY DEF Init, CacheRecent, RequestTokens, Fresh, At, NoToken, Never
<1>2. Typed /\ Lagging /\ CacheRecent /\ RequestTokens /\ [Next]_vars => (CacheRecent /\ RequestTokens)'
  <2> SUFFICES ASSUME Typed, Lagging, CacheRecent, RequestTokens, [Next]_vars
               PROVE  CacheRecent' /\ RequestTokens'
    OBVIOUS
  <2>0. CASE UNCHANGED <<clock, revoked, tokens>> /\ ~\E r \in Reqs : StoreToken(r)
    <3> SUFFICES RequestTokens'
      BY <2>0 DEF CacheRecent
    <3>1. ASSUME NEW r \in Reqs, NEW k \in plan.kinds, Arrive(r, k) PROVE RequestTokens'
      <4>1. k \in Kinds
        BY DEF Typed, Kinds
      <4>2. /\ \A q \in Reqs : q # r => rq'[q] = rq[q]
            /\ rq'[r].pc \in {"done", "session", "throttle"} /\ ForgetsUser(r)
        BY <3>1, <4>1, ArriveMoves
      <4> QED BY <2>0, <4>2 DEF RequestTokens, ForgetsUser, At, GoodToken
    <3>2. ASSUME NEW r \in Reqs, NextRequest(r) PROVE RequestTokens'
      <4>1. /\ \A q \in Reqs : q # r => rq'[q] = rq[q]
            /\ rq'[r].pc = "idle" /\ ForgetsUser(r)
        BY <3>2, NextRequestMoves
      <4> QED BY <2>0, <4>1 DEF RequestTokens, ForgetsUser, At, GoodToken
    <3>3. ASSUME NEW r \in Reqs, NEW s, Moved(r, s), s # "store", rq'[r].tok = NoTok
          PROVE  RequestTokens'
      BY <2>0, <3>3, TokenMoves
    <3>4. ASSUME NEW r \in Reqs, rq[r].pc \notin {"state", "admin", "done"} PROVE rq[r].tok = NoTok
      BY <3>4 DEF RequestTokens
    <3>5. ASSUME NEW r \in Reqs, SessionStep(r) \/ check_throttle(r) \/ CountLong(r) \/ WakeUp(r)
                                   \/ record_attempt(r) \/ PlainPassword(r)
          PROVE  RequestTokens'
      <4>1. rq[r].tok = NoTok
        BY <3>4, <3>5 DEF SessionStep, check_throttle, CountLong, WakeUp, record_attempt,
                          PlainPassword, At
      <4>2. /\ rq'[r].tok = rq[r].tok \/ rq'[r].tok = NoTok
            /\ \E s \in {"done", "throttle", "lookup", "sleep", "long", "record", "state"} : Moved(r, s)
        BY <3>5, SessionDoes, CheckThrottleDoes, CountLongDoes, WakeUpDoes, RecordDoes, PasswordDoes
           DEF Quits, Goes, Lets, KeepsUser, ForgetsUser
      <4> QED BY <3>3, <4>1, <4>2
    <3>6. ASSUME NEW r \in Reqs, NEW t \in Tokens, IsOf(r, t, clock), GoodToken(t, clock)
          PROVE  RequestTokens'
      BY <2>0, <3>6, TokenMoves DEF IsOf
    <3>7. ASSUME NEW t, Live(t) PROVE t \in Tokens /\ GoodToken(t, clock)
      BY <3>7, TokenAssumption DEF Live, GoodToken, is_expired, Typed
    <3>8. ASSUME NEW r \in Reqs, lookup_bearer(r) PROVE RequestTokens'
      <4> DEFINE t == rq[r].kind.secret
      <4>0. rq[r].tok = NoTok
        BY <3>4, <3>8 DEF lookup_bearer, At
      <4>1. CASE t \in Tokens /\ FreshToken(t) /\ IsOf(r, t, clock)
        <5>1. GoodToken(t, clock)
          BY <4>1, TokenAssumption, SMTT(30) DEF FreshToken, GoodToken, CacheRecent, is_expired, Typed
        <5> QED BY <3>6, <4>1, <5>1
      <4>2. CASE /\ Live(t) /\ Moved(r, "store")
                 /\ rq'[r].tok = rq[r].tok /\ rq'[r].seen = clock
        <5>1. /\ rq'[r].tok = NoTok /\ rq'[r].seen = clock /\ rq'[r].since = clock
              /\ rq'[r].kind = rq[r].kind /\ rq'[r].pc = "store"
              /\ \A q \in Reqs : q # r => rq'[q] = rq[q]
          BY <4>0, <4>2 DEF Moved, InDb
        <5>2. /\ revoked[t] = Never
              /\ TokenRow[t].expires = Never \/ clock <= TokenRow[t].expires
          BY <4>2, TokenAssumption DEF Live, is_expired, Typed
        <5> QED BY <2>0, <5>1, <5>2 DEF RequestTokens, At, GoodToken
      <4>3. CASE Goes(r, "record")
        BY <3>3, <4>0, <4>3 DEF Goes, KeepsUser
      <4> QED BY <3>8, <4>1, <4>2, <4>3, BearerDoes
    <3>9. ASSUME NEW r \in Reqs, try_app_token(r) PROVE RequestTokens'
      <4> DEFINE t == rq[r].kind.secret
      <4>0. rq[r].tok = NoTok
        BY <3>4, <3>9 DEF try_app_token, At
      <4>1. CASE Quits(r) \/ Goes(r, "password")
        BY <3>3, <4>0, <4>1 DEF Quits, Goes, KeepsUser, ForgetsUser
      <4>2. CASE Live(t) /\ IsOf(r, t, clock)
        BY <3>6, <3>7, <4>2
      <4> QED BY <3>9, <4>1, <4>2, AppTokenDoes
    <3>10. ASSUME NEW r \in Reqs, cached_user_state(r) \/ StoreState(r) PROVE RequestTokens'
      <4>1. (Moved(r, "done") \/ Moved(r, "admin")) /\ (KeepsUser(r) \/ ForgetsUser(r))
        BY <3>10, CachedStateDoes, StoreStateDoes DEF Quits, Goes, Gated
      <4>2. rq'[r].tok # NoTok => GoodToken(rq'[r].tok, rq'[r].seen)
        BY <4>1 DEF KeepsUser, ForgetsUser, RequestTokens
      <4> QED BY <2>0, <4>1, <4>2, TokenMoves
    <3>11. CASE UNCHANGED rq
      BY <2>0, <3>11 DEF RequestTokens, At, GoodToken
    <3>12. CASE (\E t \in Tokens : update_last_activity(t)) \/ PhpChange \/ Tick \/ UNCHANGED vars
      BY <3>11, <3>12 DEF update_last_activity, PhpChange, Tick, vars
    <3> QED BY <2>0, <3>1, <3>2, <3>5, <3>8, <3>9, <3>10, <3>12 DEF Next, Step
  <2>1. ASSUME NEW r \in Reqs, StoreToken(r) PROVE CacheRecent' /\ RequestTokens'
    <3> DEFINE t == rq[r].kind.secret
    <3>1. t \in Tokens /\ IsOf(r, t, rq[r].seen)
      BY <2>1, StoreTokenDoes
    <3>2. /\ clock' = clock /\ revoked' = revoked
          /\ tokens' = [tokens EXCEPT ![t] = [at |-> clock, act |-> rq[r].act]]
      BY <2>1 DEF StoreToken, Kind, db
    <3>3. /\ rq[r].seen = rq[r].since /\ rq[r].since <= clock /\ clock <= rq[r].since + MaxLag
          /\ revoked[t] # Never => rq[r].since <= revoked[t]
          /\ TokenRow[t].expires = Never \/ rq[r].seen <= TokenRow[t].expires
      BY <2>1 DEF StoreToken, RequestTokens, Lagging, InDb, At
    <3>4. clock \in Nat /\ rq[r].since \in Nat /\ revoked[t] \in Int
      BY <3>1 DEF Typed, RequestT
    <3> HIDE DEF t
    <3>5. GoodToken(t, rq[r].seen)
      BY <3>3, <3>4 DEF GoodToken
    <3>6. RequestTokens'
      BY <3>1, <3>2, <3>5, TokenMoves DEF IsOf
    <3>7. CacheRecent'
      <4> SUFFICES ASSUME NEW u \in Tokens
                   PROVE  /\ tokens'[u].at <= clock
                          /\ tokens'[u].at # Never /\ revoked[u] # Never =>
                                 tokens'[u].at <= revoked[u] + MaxLag
        BY <3>2 DEF CacheRecent
      <4>1. CASE u = t
        BY <3>1, <3>2, <3>3, <3>4, <4>1 DEF Typed
      <4>2. CASE u # t
        BY <3>1, <3>2, <4>2 DEF Typed, CacheRecent
      <4> QED BY <4>1, <4>2
    <3> QED BY <3>6, <3>7
  <2>2. CASE PhpChange
    <3>1. /\ UNCHANGED <<clock, tokens, rq>>
          /\ \A t \in Tokens : revoked'[t] = revoked[t] \/ revoked'[t] = clock
      BY <2>2 DEF PhpChange, Typed
    <3>2. clock \in Nat /\ revoked \in [Tokens -> Int]
      BY DEF Typed
    <3>3. CacheRecent'
      <4> SUFFICES ASSUME NEW t \in Tokens
                   PROVE  /\ tokens[t].at <= clock
                          /\ tokens[t].at # Never /\ revoked'[t] # Never =>
                                 tokens[t].at <= revoked'[t] + MaxLag
        BY <3>1 DEF CacheRecent
      <4>1. tokens[t].at \in Int
        BY DEF Typed
      <4> QED BY <3>1, <3>2, <4>1 DEF CacheRecent
    <3>4. \A t \in Tokens : \A seen \in Int : GoodToken(t, seen) => GoodToken(t, seen)'
      BY <3>1, <3>2 DEF GoodToken
    <3>5. RequestTokens'
      <4> SUFFICES ASSUME NEW q \in Reqs
                   PROVE  /\ At(q, "store") =>
                               LET t == rq[q].kind.secret IN
                               /\ rq[q].seen = rq[q].since
                               /\ revoked'[t] # Never => rq[q].since <= revoked'[t]
                               /\ TokenRow[t].expires = Never \/ rq[q].seen <= TokenRow[t].expires
                          /\ rq[q].tok # NoTok => /\ rq[q].pc \in {"state", "admin", "done"}
                                                  /\ GoodToken(rq[q].tok, rq[q].seen)'
        BY <3>1 DEF RequestTokens, At, GoodToken
      <4>1. ASSUME At(q, "store")
            PROVE  rq[q].kind.secret \in Tokens /\ rq[q].since <= clock
        BY <4>1 DEF Typed, Lagging, At, InDb, Kind
      <4>2. rq[q].tok # NoTok => rq[q].tok \in Tokens
        BY DEF Typed, RequestT
      <4>3. rq[q].seen \in Int
        BY DEF Typed, RequestT
      <4>4. rq[q].tok # NoTok => GoodToken(rq[q].tok, rq[q].seen)'
        BY <3>1, <3>4, <4>2, <4>3 DEF RequestTokens, GoodToken
      <4> QED BY <3>1, <4>1, <4>4 DEF RequestTokens
    <3> QED BY <3>3, <3>5
  <2>3. CASE Tick
    <3>1. UNCHANGED <<revoked, tokens, rq>> /\ clock' = clock + 1 /\ clock \in Nat
      BY <2>3 DEF Tick, db, Typed
    <3>2. \A t \in Tokens : \A seen \in Int : GoodToken(t, seen) => GoodToken(t, seen)'
      BY <3>1 DEF GoodToken
    <3>3. \A q \in Reqs : rq[q].seen \in Int /\ (rq[q].tok # NoTok => rq[q].tok \in Tokens)
      BY DEF Typed, RequestT
    <3>4. \A q \in Reqs : rq[q].tok # NoTok => GoodToken(rq[q].tok, rq[q].seen)'
      BY <3>1, <3>2, <3>3 DEF RequestTokens, GoodToken
    <3>5. RequestTokens'
      BY <3>1, <3>4 DEF RequestTokens, At, GoodToken
    <3>6. CacheRecent'
      BY <3>1 DEF CacheRecent, Typed
    <3> QED BY <3>5, <3>6
  <2>4. CASE UNCHANGED <<clock, revoked, tokens>>
    BY <2>0, <2>1, <2>4
  <2>5. ASSUME NEW r \in Reqs, Step(r) PROVE StoreToken(r) \/ UNCHANGED <<clock, revoked, tokens>>
    BY <2>5 DEF Step, SessionStep, check_throttle, CountLong, WakeUp, record_attempt,
                lookup_bearer, try_app_token, PlainPassword, cached_user_state, StoreState, db
  <2>6. CASE \E r \in Reqs, k \in plan.kinds : Arrive(r, k)
    BY <2>4, <2>6 DEF Arrive, db
  <2>7. CASE \E r \in Reqs : NextRequest(r)
    BY <2>4, <2>7 DEF NextRequest, db
  <2>8. CASE (\E t \in Tokens : update_last_activity(t)) \/ UNCHANGED vars
    BY <2>4, <2>8 DEF update_last_activity, vars, db
  <2> QED BY <2>1, <2>2, <2>3, <2>4, <2>5, <2>6, <2>7, <2>8 DEF Next
<1>3. RequestTokens => RevokedWithinTtl /\ ExpiredRefused
  BY DEF RequestTokens, GoodToken, RevokedWithinTtl, ExpiredRefused
<1> QED BY <1>1, <1>2, <1>3, TypeCorrect, StatementsLag, PTL DEF Spec
-----------------------------------------------------------------------------
(***************************************************************************)
(* How long a login without a second factor, and admin rights, outlive     *)
(* their end.  A cached state without a second factor was put there not    *)
(* longer than MaxLag after the factor was set up; the admin query is the  *)
(* last one, so a cached admin right was true when it was stored.          *)
(***************************************************************************)
GoodGrant(u, type, admin, at) ==
    /\ at <= clock
    /\ twofa[u] # Never /\ type # 1 => at - twofa[u] < UserTtl + MaxLag
    /\ demoted[u] # Never /\ admin => at - demoted[u] < UserTtl + MaxLag

StatesRecent ==
    \A u \in Users :
        /\ states[u].at <= clock
        /\ states[u].at # Never /\ twofa[u] # Never /\ ~states[u].tfa => states[u].at <= twofa[u] + MaxLag
        /\ states[u].at # Never /\ demoted[u] # Never /\ states[u].admin => states[u].at <= demoted[u]

RequestGrants ==
    \A r \in Reqs :
        /\ At(r, "admin") /\ ~rq[r].tfa /\ twofa[rq[r].uid] # Never => rq[r].since <= twofa[rq[r].uid]
        /\ rq[r].state # Never =>
              /\ At(r, "done") /\ rq[r].uid \in Users
              /\ GoodGrant(rq[r].uid, rq[r].type, rq[r].admin, rq[r].state)

(* A move keeps RequestGrants when the grant it makes is good. *)
LEMMA GrantMoves ==
    ASSUME Typed, RequestGrants, NEW r \in Reqs, NEW s, Moved(r, s), s # "admin",
           clock' = clock, twofa' = twofa, demoted' = demoted,
           rq'[r].state # Never =>
              /\ s = "done" /\ rq'[r].uid \in Users
              /\ GoodGrant(rq'[r].uid, rq'[r].type, rq'[r].admin, rq'[r].state)
    PROVE  RequestGrants'
<1> SUFFICES ASSUME NEW q \in Reqs
             PROVE  /\ At(q, "admin")' /\ ~rq'[q].tfa /\ twofa[rq'[q].uid] # Never =>
                           rq'[q].since <= twofa[rq'[q].uid]
                    /\ rq'[q].state # Never =>
                          /\ At(q, "done")' /\ rq'[q].uid \in Users
                          /\ GoodGrant(rq'[q].uid, rq'[q].type, rq'[q].admin, rq'[q].state)
  BY DEF RequestGrants, GoodGrant
<1>1. CASE q = r
  BY <1>1 DEF Moved, At
<1>2. CASE q # r
  BY <1>2 DEF Moved, At, RequestGrants
<1> QED BY <1>1, <1>2

(* Nobody is let in without a second factor, or as an admin, for longer    *)
(* after the change than the user-state cache's TTL and one statement      *)
(* (cached_user_state).                                                    *)
THEOREM UsersLapse == Spec => []UserChangesWithinTtl
<1> USE LoginAssumption
<1>1. Init => StatesRecent /\ RequestGrants
  BY DEF Init, StatesRecent, RequestGrants, Fresh, At, NoState, Never
<1>2. Typed /\ Lagging /\ StatesRecent /\ RequestGrants /\ [Next]_vars => (StatesRecent /\ RequestGrants)'
  <2> SUFFICES ASSUME Typed, Lagging, StatesRecent, RequestGrants, [Next]_vars
               PROVE  StatesRecent' /\ RequestGrants'
    OBVIOUS
  <2>0. ASSUME UNCHANGED <<clock, twofa, demoted>>, NEW r \in Reqs, NEW s, Moved(r, s), s # "admin",
               s = "done" => ForgetsGrant(r),
               (rq[r].pc # "done" /\ KeepsGrant(r)) \/ ForgetsGrant(r)
        PROVE  RequestGrants'
    <3>1. rq'[r].state = Never
      BY <2>0 DEF KeepsGrant, ForgetsGrant, RequestGrants, At
    <3> QED BY <2>0, <3>1, GrantMoves
  <2>1. ASSUME NEW r \in Reqs, NEW k \in plan.kinds, Arrive(r, k) PROVE StatesRecent' /\ RequestGrants'
    <3>1. k \in Kinds
      BY DEF Typed, Kinds
    <3>2. /\ \A q \in Reqs : q # r => rq'[q] = rq[q]
          /\ rq'[r].pc \in {"done", "session", "throttle"} /\ ForgetsGrant(r)
      BY <2>1, <3>1, ArriveMoves
    <3>3. UNCHANGED <<clock, twofa, demoted, states>>
      BY <2>1 DEF Arrive, db
    <3> QED BY <3>2, <3>3 DEF StatesRecent, RequestGrants, ForgetsGrant, At, GoodGrant
  <2>2. ASSUME NEW r \in Reqs, NextRequest(r) PROVE StatesRecent' /\ RequestGrants'
    <3>1. (\A q \in Reqs : q # r => rq'[q] = rq[q]) /\ rq'[r].pc = "idle" /\ ForgetsGrant(r)
      BY <2>2, NextRequestMoves
    <3>2. UNCHANGED <<clock, twofa, demoted, states>>
      BY <2>2 DEF NextRequest, db
    <3> QED BY <3>1, <3>2 DEF StatesRecent, RequestGrants, ForgetsGrant, At, GoodGrant
  <2>3. ASSUME NEW r \in Reqs, SessionStep(r) \/ check_throttle(r) \/ CountLong(r) \/ WakeUp(r)
                                 \/ record_attempt(r) \/ lookup_bearer(r) \/ StoreToken(r)
                                 \/ try_app_token(r) \/ PlainPassword(r)
        PROVE  StatesRecent' /\ RequestGrants'
    <3>1. UNCHANGED <<clock, twofa, demoted, states>> /\ rq[r].pc # "done"
      BY <2>3 DEF SessionStep, check_throttle, CountLong, WakeUp, record_attempt, lookup_bearer,
                  StoreToken, try_app_token, PlainPassword, At, db
    <3>2. \/ Moved(r, "done") /\ ForgetsGrant(r)
          \/ /\ KeepsGrant(r)
             /\ \E s \in {"throttle", "lookup", "sleep", "long", "record", "store", "password", "state"} :
                   Moved(r, s)
      BY <2>3, SessionDoes, CheckThrottleDoes, CountLongDoes, WakeUpDoes, RecordDoes, BearerDoes,
         StoreTokenDoes, AppTokenDoes, PasswordDoes DEF Quits, Goes, Lets, IsOf
    <3> QED BY <2>0, <3>1, <3>2 DEF StatesRecent
  <2>4. ASSUME NEW r \in Reqs, NEW tfa, NEW admin, Gated(r, tfa, admin),
               UNCHANGED <<clock, twofa, demoted>>, rq[r].uid \in Users, rq[r].pc # "done",
               ~tfa => GoodGrant(rq[r].uid, rq[r].type, admin, clock),
               rq[r].type = 1 => GoodGrant(rq[r].uid, rq[r].type, admin, clock)
        PROVE  RequestGrants'
    <3>1. CASE Quits(r)
      BY <2>0, <2>4, <3>1 DEF Quits
    <3>2. CASE /\ Moved(r, "done") /\ KeepsUser(r) /\ (rq[r].type = 1 \/ ~tfa)
               /\ rq'[r].admin = admin /\ rq'[r].state = clock
      BY <2>4, <3>2, GrantMoves DEF KeepsUser
    <3> QED BY <2>4, <3>1, <3>2 DEF Gated
  <2>5. ASSUME NEW r \in Reqs, cached_user_state(r) PROVE StatesRecent' /\ RequestGrants'
    <3> DEFINE u == rq[r].uid
    <3>0. /\ UNCHANGED <<clock, twofa, demoted, states>> /\ rq[r].pc # "done" /\ clock \in Nat
          /\ u \in Users
      BY <2>5, CachedStateDoes DEF cached_user_state, At, db, Typed
    <3>1. CASE FreshState(u) /\ Gated(r, states[u].tfa, states[u].admin)
      <4>1. /\ twofa[u] \in Int /\ demoted[u] \in Int /\ states[u].at \in Int
        BY <3>0 DEF Typed
      <4>2. ~states[u].tfa \/ rq[r].type = 1 => GoodGrant(u, rq[r].type, states[u].admin, clock)
        BY <3>0, <3>1, <4>1 DEF FreshState, StatesRecent, GoodGrant
      <4>3. RequestGrants'
        BY <2>4, <3>0, <3>1, <4>2
      <4> QED BY <3>0, <4>3 DEF StatesRecent
    <3>2. CASE Quits(r)
      BY <2>0, <3>0, <3>2 DEF Quits, StatesRecent
    <3>3. CASE Goes(r, "admin") /\ rq'[r].tfa = requires_2fa(u)
      <4>1. /\ rq'[r].pc = "admin" /\ rq'[r].uid = u /\ rq'[r].state = rq[r].state
            /\ \A q \in Reqs : q # r => rq'[q] = rq[q]
            /\ rq'[r].tfa = (twofa[u] # Never)
        BY <3>3 DEF Goes, Moved, KeepsUser, KeepsGrant, requires_2fa
      <4>2. rq'[r].state = Never
        BY <3>0, <4>1 DEF RequestGrants, At
      <4> QED BY <3>0, <4>1, <4>2, ZenonT(60) DEF StatesRecent, RequestGrants, At, GoodGrant
    <3> QED BY <2>5, <3>1, <3>2, <3>3, CachedStateDoes
  <2>6. ASSUME NEW r \in Reqs, StoreState(r) PROVE StatesRecent' /\ RequestGrants'
    <3> DEFINE u == rq[r].uid
    <3>1. PICK a \in BOOLEAN :
             /\ states' = [states EXCEPT ![u] = [tfa |-> rq[r].tfa, admin |-> a, at |-> clock]]
             /\ Gated(r, rq[r].tfa, a) /\ (a => demoted[u] = Never)
      BY <2>6, StoreStateDoes
    <3>2. /\ UNCHANGED <<clock, twofa, demoted>> /\ rq[r].pc = "admin" /\ clock \in Nat
          /\ u \in Users
      BY <2>6, StoreStateDoes DEF StoreState, At, db, Typed
    <3>3. /\ twofa[u] \in Int /\ rq[r].since \in Nat
          /\ clock <= rq[r].since + MaxLag
          /\ ~rq[r].tfa /\ twofa[u] # Never => rq[r].since <= twofa[u]
      BY <3>2 DEF Typed, RequestT, Lagging, InDb, RequestGrants, At
    <3>4. StatesRecent'
      <4> SUFFICES ASSUME NEW v \in Users
                   PROVE  /\ states'[v].at <= clock
                          /\ states'[v].at # Never /\ twofa[v] # Never /\ ~states'[v].tfa =>
                                 states'[v].at <= twofa[v] + MaxLag
                          /\ states'[v].at # Never /\ demoted[v] # Never /\ states'[v].admin =>
                                 states'[v].at <= demoted[v]
        BY <3>2 DEF StatesRecent
      <4>1. CASE v = u
        <5>1. states'[v].at = clock /\ states'[v].tfa = rq[r].tfa /\ states'[v].admin = a
          BY <3>1, <3>2, <4>1 DEF Typed
        <5> QED BY <3>1, <3>2, <3>3, <4>1, <5>1
      <4>2. CASE v # u
        <5>1. states'[v] = states[v]
          BY <3>1, <4>2 DEF Typed
        <5> QED BY <5>1 DEF StatesRecent
      <4> QED BY <4>1, <4>2
    <3>5. ~rq[r].tfa \/ rq[r].type = 1 => GoodGrant(u, rq[r].type, a, clock)
      BY <3>1, <3>2, <3>3 DEF GoodGrant
    <3>6. RequestGrants'
      BY <2>4, <3>1, <3>2, <3>5
    <3> QED BY <3>4, <3>6
  <2>7. CASE PhpChange
    <3>1. /\ UNCHANGED <<clock, states, rq>>
          /\ \A u \in Users : /\ twofa'[u] = twofa[u] \/ (twofa[u] = Never /\ twofa'[u] = clock)
                              /\ demoted'[u] = demoted[u] \/ (demoted[u] = Never /\ demoted'[u] = clock)
      BY <2>7 DEF PhpChange, Typed
    <3>2. clock \in Nat /\ \A u \in Users : /\ twofa[u] \in Int /\ demoted[u] \in Int
                                            /\ states[u].at \in Int
      BY DEF Typed
    <3>3. StatesRecent'
      <4> SUFFICES ASSUME NEW u \in Users
                   PROVE  /\ states[u].at <= clock
                          /\ states[u].at # Never /\ twofa'[u] # Never /\ ~states[u].tfa =>
                                 states[u].at <= twofa'[u] + MaxLag
                          /\ states[u].at # Never /\ demoted'[u] # Never /\ states[u].admin =>
                                 states[u].at <= demoted'[u]
        BY <3>1 DEF StatesRecent
      <4> QED BY <3>1, <3>2 DEF StatesRecent
    <3>4. ASSUME NEW q \in Reqs
          PROVE  /\ At(q, "admin") /\ ~rq[q].tfa /\ twofa'[rq[q].uid] # Never =>
                        rq[q].since <= twofa'[rq[q].uid]
                 /\ rq[q].state # Never =>
                       /\ At(q, "done") /\ rq[q].uid \in Users
                       /\ rq[q].state <= clock
                       /\ twofa'[rq[q].uid] # Never /\ rq[q].type # 1 =>
                              rq[q].state - twofa'[rq[q].uid] < UserTtl + MaxLag
                       /\ demoted'[rq[q].uid] # Never /\ rq[q].admin =>
                              rq[q].state - demoted'[rq[q].uid] < UserTtl + MaxLag
      <4>1. At(q, "admin") => rq[q].uid \in Users /\ rq[q].since <= clock
        BY DEF Typed, Lagging, InDb, At
      <4>2. rq[q].state \in Int
        BY DEF Typed, RequestT
      <4> QED BY <3>1, <3>2, <4>1, <4>2 DEF RequestGrants, GoodGrant
    <3>5. RequestGrants'
      BY <3>1, <3>4 DEF RequestGrants, GoodGrant, At
    <3> QED BY <3>3, <3>5
  <2>8. CASE Tick
    <3>1. UNCHANGED <<twofa, demoted, states, rq>> /\ clock' = clock + 1 /\ clock \in Nat
      BY <2>8 DEF Tick, db, Typed
    <3>2. /\ \A u \in Users : states[u].at \in Int
          /\ \A q \in Reqs : rq[q].state \in Int
      BY DEF Typed, RequestT
    <3>3. StatesRecent'
      BY <3>1, <3>2 DEF StatesRecent
    <3>4. RequestGrants'
      BY <3>1, <3>2 DEF RequestGrants, GoodGrant, At
    <3> QED BY <3>3, <3>4
  <2>9. CASE UNCHANGED <<clock, twofa, demoted, states, rq>>
    BY <2>9 DEF StatesRecent, RequestGrants, GoodGrant, At
  <2>10. CASE (\E t \in Tokens : update_last_activity(t)) \/ UNCHANGED vars
    BY <2>9, <2>10 DEF update_last_activity, vars, db
  <2> QED BY <2>1, <2>2, <2>3, <2>5, <2>6, <2>7, <2>8, <2>10 DEF Next, Step
<1>3. RequestGrants => UserChangesWithinTtl
  BY DEF RequestGrants, GoodGrant, UserChangesWithinTtl
<1> QED BY <1>1, <1>2, <1>3, TypeCorrect, StatementsLag, PTL DEF Spec

(* What was taken away from a token or a user is not granted for longer    *)
(* than the caches of nc-auth and one statement explain.                   *)
THEOREM Lapse == Spec => []GrantsLapse
BY TokensLapse, UsersLapse, PTL DEF GrantsLapse
-----------------------------------------------------------------------------
(***************************************************************************)
(* What the throttle misses.  The first COUNT saw every attempt in the     *)
(* short window before it, the second every one in the long window; the    *)
(* cached counts are from then, up to MaxLag before they were stored.      *)
(* Attempts recorded later are younger than all of this.                   *)
(***************************************************************************)
Window(s, from, to) ==
    {i \in DOMAIN attempts : attempts[i].subnet = s /\ attempts[i].at >= from /\ attempts[i].at < to}

CountSees(s, short, long, at) ==
    /\ Cardinality(Window(s, at - ShortWindow, at - MaxLag)) <= short
    /\ long = 0 => Window(s, at - LongWindow, at - MaxLag) = {}

CountsRecent ==
    \A s \in Subnets : counts[s].at # Never =>
        counts[s].at <= clock /\ CountSees(s, counts[s].short, counts[s].long, counts[s].at)

Judged(s, asked, wake) ==
    /\ asked <= clock
    /\ wake = 0 => Window(s, asked - LongWindow, asked - CountTtl - MaxLag + 1) = {}
    /\ Cardinality(Window(s, asked - ShortWindow, asked - CountTtl - MaxLag + 1)) <= MaxAttempts

RequestsJudged ==
    \A r \in Reqs :
        LET s == rq[r].kind.subnet IN
        /\ At(r, "long") =>
              Cardinality(Window(s, rq[r].since - ShortWindow, rq[r].since)) <= rq[r].short
        /\ rq[r].asked # Never /\ ~rq[r].blind => Judged(s, rq[r].asked, rq[r].wake)

(* The times of recorded attempts are numbers. *)
LEMMA AttemptTyped ==
    ASSUME Typed
    PROVE  \A i \in DOMAIN attempts : attempts[i].at \in Nat
<1> DEFINE S == [subnet : Subnets, at : Nat]
<1>1. attempts \in Seq(S)
  BY DEF Typed
<1>2. \A e \in S : e.at \in Nat
  OBVIOUS
<1> HIDE DEF S
<1>3. \A i \in DOMAIN attempts : attempts[i] \in S
  BY <1>1
<1> QED BY <1>2, <1>3

(* A window inside another has no more attempts. *)
LEMMA WindowMonotonic ==
    ASSUME Typed, NEW s, NEW a \in Int, NEW b \in Int, NEW c \in Int, NEW d \in Int,
           c <= a, b <= d
    PROVE  /\ Window(s, a, b) \subseteq Window(s, c, d)
           /\ Cardinality(Window(s, a, b)) \in Nat
           /\ Cardinality(Window(s, c, d)) \in Nat
           /\ Cardinality(Window(s, a, b)) <= Cardinality(Window(s, c, d))
<1>1. \A i \in DOMAIN attempts : attempts[i].at \in Nat
  BY AttemptTyped
<1>2. Window(s, a, b) \subseteq Window(s, c, d) /\ Window(s, c, d) \in SUBSET DOMAIN attempts
  BY <1>1 DEF Window
<1> QED BY <1>2, AttemptSets

(* A COUNT sees every attempt of a window that begins no earlier. *)
LEMMA SinceSees ==
    ASSUME Typed, NEW s, NEW a \in Int, NEW b \in Int, NEW t \in Int, t <= a
    PROVE  /\ Cardinality(Window(s, a, b)) <= Since(s, t)
           /\ Since(s, t) = 0 => Window(s, a, b) = {}
<1> DEFINE B == {i \in DOMAIN attempts : attempts[i].subnet = s /\ attempts[i].at >= t}
<1>1. \A i \in DOMAIN attempts : attempts[i].at \in Nat
  BY AttemptTyped
<1>2. Window(s, a, b) \subseteq B /\ B \in SUBSET DOMAIN attempts
  BY <1>1 DEF Window
<1> HIDE DEF B
<1>3. /\ Cardinality(Window(s, a, b)) <= Cardinality(B)
      /\ Cardinality(B) = 0 => B = {}
  BY <1>2, AttemptSets
<1>4. Cardinality(B) = Since(s, t)
  BY DEF B, Since
<1> QED BY <1>2, <1>3, <1>4

(* A window that is over keeps its attempts. *)
LEMMA WindowStable ==
    ASSUME Typed, NEW s, NEW a, NEW b \in Int, b <= clock,
           \/ attempts' = attempts
           \/ \E x : attempts' = Append(attempts, [subnet |-> x, at |-> clock])
    PROVE  Window(s, a, b)' = Window(s, a, b)
<1>1. CASE attempts' = attempts
  BY <1>1 DEF Window
<1>2. ASSUME NEW x, attempts' = Append(attempts, [subnet |-> x, at |-> clock])
      PROVE  Window(s, a, b)' = Window(s, a, b)
  <2> DEFINE e == [subnet |-> x, at |-> clock]
             n == Len(attempts)
  <2>1. attempts' = Append(attempts, e) /\ attempts \in Seq([subnet : Subnets, at : Nat])
    BY <1>2 DEF Typed
  <2>2. e.at = clock /\ clock \in Nat
    BY DEF Typed
  <2> HIDE DEF e
  <2>3. /\ n \in Nat /\ DOMAIN attempts = 1..n /\ DOMAIN attempts' = 1..(n + 1)
        /\ attempts'[n + 1] = e /\ \A i \in 1..n : attempts'[i] = attempts[i]
    BY <2>1
  <2> HIDE DEF n
  <2>4. \A i : i \in Window(s, a, b)' <=> i \in Window(s, a, b)
    BY <2>2, <2>3 DEF Window
  <2> QED BY <2>4
<1> QED BY <1>1, <1>2

(* A changed request keeps RequestsJudged when it is judged itself. *)
LEMMA JudgeKept ==
    ASSUME RequestsJudged, NEW r \in Reqs, \A q \in Reqs : q # r => rq'[q] = rq[q],
           UNCHANGED <<clock, attempts>>,
           rq'[r].pc = "long" =>
               Cardinality(Window(rq'[r].kind.subnet, rq'[r].since - ShortWindow, rq'[r].since))
                   <= rq'[r].short,
           rq'[r].asked # Never /\ ~rq'[r].blind =>
               Judged(rq'[r].kind.subnet, rq'[r].asked, rq'[r].wake)
    PROVE  RequestsJudged'
<1> SUFFICES ASSUME NEW q \in Reqs
             PROVE  LET n == rq'[q].kind.subnet IN
                    /\ rq'[q].pc = "long" =>
                          Cardinality(Window(n, rq'[q].since - ShortWindow, rq'[q].since)) <= rq'[q].short
                    /\ rq'[q].asked # Never /\ ~rq'[q].blind => Judged(n, rq'[q].asked, rq'[q].wake)
  BY DEF RequestsJudged, Judged, Window, At
<1>1. CASE q = r
  BY <1>1
<1>2. CASE q # r
  BY <1>2 DEF At, RequestsJudged
<1> QED BY <1>1, <1>2

(* The same of a move that is not to the second COUNT. *)
LEMMA JudgeMoves ==
    ASSUME RequestsJudged, NEW r \in Reqs, NEW s, Moved(r, s), s # "long",
           UNCHANGED <<clock, attempts>>,
           rq'[r].asked # Never /\ ~rq'[r].blind =>
               Judged(rq[r].kind.subnet, rq'[r].asked, rq'[r].wake)
    PROVE  RequestsJudged'
<1>1. /\ rq'[r].pc # "long" /\ rq'[r].kind = rq[r].kind
      /\ \A q \in Reqs : q # r => rq'[q] = rq[q]
  BY DEF Moved
<1> QED BY <1>1, JudgeKept

(* A request the counts let through is judged by what they saw. *)
LEMMA LetsJudge ==
    ASSUME Typed, NEW r \in Reqs, NEW n \in Subnets, NEW short \in Nat, NEW long \in Nat,
           NEW at \in Int, at <= clock, clock - at < CountTtl,
           CountSees(n, short, long, at), Lets(r, short, long)
    PROVE  Judged(n, rq'[r].asked, rq'[r].wake)
<1> USE LoginAssumption
<1> DEFINE end == clock - CountTtl - MaxLag + 1
<1>1. clock \in Nat /\ rq'[r].asked = clock /\ short <= MaxAttempts
  BY DEF Typed, Lets
<1>2. /\ Window(n, clock - LongWindow, end) \subseteq Window(n, at - LongWindow, at - MaxLag)
      /\ Cardinality(Window(n, clock - ShortWindow, end)) <=
             Cardinality(Window(n, at - ShortWindow, at - MaxLag))
      /\ Cardinality(Window(n, clock - ShortWindow, end)) \in Nat
      /\ Cardinality(Window(n, at - ShortWindow, at - MaxLag)) \in Nat
  <2>1. /\ end \in Int /\ at - MaxLag \in Int /\ end <= at - MaxLag
        /\ at - LongWindow \in Int /\ clock - LongWindow \in Int /\ at - LongWindow <= clock - LongWindow
        /\ at - ShortWindow \in Int /\ clock - ShortWindow \in Int /\ at - ShortWindow <= clock - ShortWindow
    BY <1>1
  <2> HIDE DEF end
  <2> QED BY <2>1, WindowMonotonic
<1>3. Cardinality(Window(n, clock - ShortWindow, end)) <= MaxAttempts
  <2> HIDE DEF end
  <2> QED BY <1>1, <1>2 DEF CountSees
<1>4. rq'[r].wake = 0 => Window(n, clock - LongWindow, end) = {}
  <2>1. CASE long = 0
    BY <1>2, <2>1 DEF CountSees
  <2>2. CASE rq'[r].wake = 0 => clock = 0
    BY <1>1, <2>2, AttemptTyped DEF Window
  <2> QED BY <2>1, <2>2 DEF Lets
<1> QED BY <1>1, <1>3, <1>4 DEF Judged

(* check_throttle misses only failed attempts that are younger than its    *)
(* count cache, whatever the windows, the TTL and the limits are.          *)
THEOREM ThrottleBound == Spec => []ThrottleMissesOnlyRecent
<1> USE LoginAssumption
<1>1. Init => CountsRecent /\ RequestsJudged
  BY DEF Init, CountsRecent, RequestsJudged, Fresh, At, NoCount
<1>2. Typed /\ Lagging /\ CountsRecent /\ RequestsJudged /\ [Next]_vars
        => (CountsRecent /\ RequestsJudged)'
  <2> SUFFICES ASSUME Typed, Lagging, CountsRecent, RequestsJudged, [Next]_vars
               PROVE  CountsRecent' /\ RequestsJudged'
    OBVIOUS
  <2>0. clock \in Nat
    BY DEF Typed
  <2>1. ASSUME UNCHANGED <<clock, counts, attempts>> PROVE CountsRecent'
    BY <2>1 DEF CountsRecent, CountSees, Window
  <2>2. ASSUME NEW r \in Reqs, NEW k \in plan.kinds, Arrive(r, k) PROVE CountsRecent' /\ RequestsJudged'
    <3>1. k \in Kinds
      BY DEF Typed, Kinds
    <3>2. /\ \A q \in Reqs : q # r => rq'[q] = rq[q]
          /\ rq'[r].pc \in {"done", "session", "throttle"} /\ ForgetsThrottle(r)
      BY <2>2, <3>1, ArriveMoves
    <3>3. UNCHANGED <<clock, counts, attempts>>
      BY <2>2 DEF Arrive
    <3> QED BY <2>1, <3>2, <3>3, JudgeKept DEF ForgetsThrottle
  <2>3. ASSUME NEW r \in Reqs, NextRequest(r) PROVE CountsRecent' /\ RequestsJudged'
    <3>1. (\A q \in Reqs : q # r => rq'[q] = rq[q]) /\ rq'[r].pc = "idle" /\ ForgetsThrottle(r)
      BY <2>3, NextRequestMoves
    <3>2. UNCHANGED <<clock, counts, attempts>>
      BY <2>3 DEF NextRequest
    <3> QED BY <2>1, <3>1, <3>2, JudgeKept DEF ForgetsThrottle
  <2>4. ASSUME NEW r \in Reqs, SessionStep(r) \/ WakeUp(r) \/ lookup_bearer(r) \/ StoreToken(r)
                                 \/ try_app_token(r) \/ PlainPassword(r) \/ cached_user_state(r)
                                 \/ StoreState(r)
        PROVE  CountsRecent' /\ RequestsJudged'
    <3>1. UNCHANGED <<clock, counts, attempts>>
      BY <2>4 DEF SessionStep, WakeUp, lookup_bearer, StoreToken, try_app_token, PlainPassword,
                  cached_user_state, StoreState
    <3>2. /\ ForgetsThrottle(r) \/ KeepsThrottle(r)
          /\ \E s \in {"done", "throttle", "lookup", "record", "store", "password", "state", "admin"} :
                Moved(r, s)
      BY <2>4, SessionDoes, WakeUpDoes, BearerDoes, StoreTokenDoes, AppTokenDoes, PasswordDoes,
         CachedStateDoes, StoreStateDoes DEF Quits, Goes, IsOf, Gated
    <3>3. rq'[r].asked # Never /\ ~rq'[r].blind =>
              Judged(rq[r].kind.subnet, rq'[r].asked, rq'[r].wake)
      BY <3>2 DEF ForgetsThrottle, KeepsThrottle, RequestsJudged
    <3> QED BY <2>1, <3>1, <3>2, <3>3, JudgeMoves
  <2>5. ASSUME NEW r \in Reqs, check_throttle(r) PROVE CountsRecent' /\ RequestsJudged'
    <3> DEFINE n == rq[r].kind.subnet
               c == counts[n]
    <3>0. /\ n \in Subnets /\ UNCHANGED <<clock, counts, attempts>>
          /\ c.short \in Nat /\ c.long \in Nat /\ c.at \in Int
      BY <2>5, CheckThrottleDoes DEF check_throttle, Typed
    <3>1. CASE Quits(r)
      BY <2>1, <3>0, <3>1, JudgeMoves DEF Quits, ForgetsThrottle
    <3>2. CASE Moved(r, "lookup") /\ rq'[r].blind = TRUE
      BY <2>1, <3>0, <3>2, JudgeMoves
    <3>3. CASE FreshCount(c) /\ Lets(r, c.short, c.long)
      <4>1. c.at <= clock /\ clock - c.at < CountTtl /\ CountSees(n, c.short, c.long, c.at)
        BY <3>0, <3>3 DEF FreshCount, CountsRecent
      <4>2. Judged(n, rq'[r].asked, rq'[r].wake)
        BY <3>0, <3>3, <4>1, LetsJudge
      <4>3. Moved(r, "lookup") \/ Moved(r, "sleep")
        BY <3>3 DEF Lets
      <4> QED BY <2>1, <3>0, <4>2, <4>3, JudgeMoves
    <3>4. CASE Goes(r, "long") /\ rq'[r].short = Since(n, clock - ShortWindow)
      <4>1. /\ rq'[r].pc = "long" /\ rq'[r].kind = rq[r].kind /\ rq'[r].since = clock
            /\ \A q \in Reqs : q # r => rq'[q] = rq[q]
            /\ KeepsThrottle(r)
        BY <3>4 DEF Goes, Moved, InDb
      <4>2. Cardinality(Window(n, clock - ShortWindow, clock)) <= Since(n, clock - ShortWindow)
        BY <2>0, SinceSees
      <4>3. RequestsJudged'
        BY <3>0, <3>4, <4>1, <4>2, JudgeKept DEF RequestsJudged, KeepsThrottle
      <4> QED BY <2>1, <3>0, <4>3
    <3> QED BY <2>5, <3>1, <3>2, <3>3, <3>4, CheckThrottleDoes
  <2>6. ASSUME NEW r \in Reqs, CountLong(r) PROVE CountsRecent' /\ RequestsJudged'
    <3> DEFINE n == rq[r].kind.subnet
               m == Since(n, rq[r].since - LongWindow)
               c == [short |-> rq[r].short, long |-> m, at |-> clock]
    <3>0. /\ n \in Subnets /\ m \in Nat /\ UNCHANGED <<clock, attempts>>
          /\ rq[r].short \in Nat /\ rq[r].since \in Nat
          /\ rq[r].since <= clock /\ clock <= rq[r].since + MaxLag
          /\ Cardinality(Window(n, rq[r].since - ShortWindow, rq[r].since)) <= rq[r].short
      BY <2>6, CountLongDoes DEF CountLong, Typed, RequestT, Lagging, InDb, At, RequestsJudged
    <3>1. CASE Moved(r, "lookup") /\ rq'[r].blind = TRUE /\ counts' = counts
      BY <2>1, <3>0, <3>1, JudgeMoves
    <3>2. CASE counts' = [counts EXCEPT ![n] = c] /\ (Quits(r) \/ Lets(r, rq[r].short, m))
      <4>1. CountSees(n, rq[r].short, m, clock)
        <5> DEFINE W == Window(n, clock - ShortWindow, clock - MaxLag)
                   V == Window(n, rq[r].since - ShortWindow, rq[r].since)
        <5>1. /\ Cardinality(W) \in Nat /\ Cardinality(V) \in Nat /\ Cardinality(W) <= Cardinality(V)
          <6>1. /\ clock - ShortWindow \in Int /\ rq[r].since - ShortWindow \in Int
                /\ clock - MaxLag \in Int /\ rq[r].since \in Int
                /\ rq[r].since - ShortWindow <= clock - ShortWindow /\ clock - MaxLag <= rq[r].since
            BY <2>0, <3>0
          <6> QED BY <6>1, WindowMonotonic
        <5>2. m = 0 => Window(n, clock - LongWindow, clock - MaxLag) = {}
          BY <2>0, <3>0, SinceSees
        <5>3. Cardinality(W) <= rq[r].short
          <6>1. Cardinality(V) <= rq[r].short
            BY <3>0
          <6> HIDE DEF W, V
          <6> QED BY <3>0, <5>1, <6>1
        <5> QED BY <5>2, <5>3 DEF CountSees
      <4>2. CountsRecent'
        <5> SUFFICES ASSUME NEW s \in Subnets, counts'[s].at # Never
                     PROVE  /\ counts'[s].at <= clock
                            /\ CountSees(s, counts'[s].short, counts'[s].long, counts'[s].at)
          BY <3>0 DEF CountsRecent, CountSees, Window
        <5> HIDE DEF m, n
        <5>1. CASE s = n
          <6>1. counts'[s].short = rq[r].short /\ counts'[s].long = m /\ counts'[s].at = clock
            BY <3>2, <5>1 DEF Typed
          <6> QED BY <2>0, <4>1, <5>1, <6>1
        <5>2. CASE s # n
          <6>1. counts'[s] = counts[s]
            BY <3>2, <5>2 DEF Typed
          <6> QED BY <6>1 DEF CountsRecent
        <5> QED BY <5>1, <5>2
      <4>3. CASE Quits(r)
        BY <3>0, <4>2, <4>3, JudgeMoves DEF Quits, ForgetsThrottle
      <4>4. CASE Lets(r, rq[r].short, m)
        <5>1. clock \in Int /\ clock <= clock /\ clock - clock < CountTtl
          BY <2>0
        <5> HIDE DEF m
        <5>2. Judged(n, rq'[r].asked, rq'[r].wake)
          BY <3>0, <4>1, <4>4, <5>1, LetsJudge
        <5>3. Moved(r, "lookup") \/ Moved(r, "sleep")
          BY <4>4 DEF Lets
        <5> QED BY <3>0, <4>2, <5>2, <5>3, JudgeMoves
      <4> QED BY <3>2, <4>3, <4>4
    <3> QED BY <2>6, <3>1, <3>2, CountLongDoes
  <2>7. ASSUME NEW r \in Reqs, record_attempt(r) PROVE CountsRecent' /\ RequestsJudged'
    <3>1. /\ UNCHANGED <<clock, counts>>
          /\ \/ attempts' = attempts
             \/ \E x : attempts' = Append(attempts, [subnet |-> x, at |-> clock])
      BY <2>7 DEF record_attempt
    <3> DEFINE After(s, a, b) == {i \in DOMAIN attempts' : /\ attempts'[i].subnet = s
                                                          /\ attempts'[i].at >= a /\ attempts'[i].at < b}
    <3>2. ASSUME NEW s, NEW a, NEW b \in Int, b <= clock PROVE After(s, a, b) = Window(s, a, b)
      <4>1. Window(s, a, b)' = Window(s, a, b)
        BY <3>1, <3>2, WindowStable
      <4> QED BY <4>1 DEF Window
    <3>3. CountsRecent'
      <4> SUFFICES ASSUME NEW s \in Subnets, counts[s].at # Never
                   PROVE  LET at == counts[s].at IN
                          /\ at <= clock
                          /\ Cardinality(After(s, at - ShortWindow, at - MaxLag)) <= counts[s].short
                          /\ counts[s].long = 0 => After(s, at - LongWindow, at - MaxLag) = {}
        BY <3>1 DEF CountsRecent, CountSees, Window
      <4> HIDE DEF After
      <4>1. /\ counts[s].at - MaxLag \in Int
            /\ counts[s].at <= clock /\ counts[s].at - MaxLag <= clock
        BY <2>0 DEF CountsRecent, Typed
      <4> QED BY <3>2, <4>1 DEF CountsRecent, CountSees
    <3>4. RequestsJudged'
      <4>1. /\ rq'[r].pc = "done" /\ rq'[r].asked = Never
            /\ \A q \in Reqs : q # r => rq'[q] = rq[q]
        BY <2>7, RecordDoes DEF Quits, Moved, ForgetsThrottle
      <4> DEFINE Fine(x) ==
                   LET n == x.kind.subnet
                       end == x.asked - CountTtl - MaxLag + 1 IN
                   /\ x.pc = "long" =>
                         Cardinality(After(n, x.since - ShortWindow, x.since)) <= x.short
                   /\ x.asked # Never /\ ~x.blind =>
                         /\ x.asked <= clock
                         /\ x.wake = 0 => After(n, x.asked - LongWindow, end) = {}
                         /\ Cardinality(After(n, x.asked - ShortWindow, end)) <= MaxAttempts
      <4> SUFFICES ASSUME NEW q \in Reqs PROVE Fine(rq'[q])
        BY <3>1 DEF RequestsJudged, Judged, Window, At
      <4>5. CASE q = r
        BY <4>1, <4>5
      <4> SUFFICES ASSUME q # r PROVE Fine(rq[q])
        BY <4>1, <4>5
      <4> HIDE DEF After
      <4>2. ASSUME rq[q].pc = "long"
            PROVE  Cardinality(After(rq[q].kind.subnet, rq[q].since - ShortWindow, rq[q].since)) <= rq[q].short
        <5>1. rq[q].since \in Nat /\ rq[q].since \in Int
          BY DEF Typed, RequestT
        <5>2. rq[q].since <= clock
          BY <4>2 DEF Lagging, InDb
        <5> QED BY <3>2, <4>2, <5>1, <5>2 DEF RequestsJudged, At
      <4>3. ASSUME rq[q].asked # Never, ~rq[q].blind
            PROVE  /\ rq[q].asked \in Int /\ rq[q].asked <= clock
                   /\ rq[q].asked - CountTtl - MaxLag + 1 \in Int
                   /\ rq[q].asked - CountTtl - MaxLag + 1 <= clock
        <5>1. rq[q].asked \in Int
          BY DEF Typed, RequestT
        <5>2. rq[q].asked <= clock
          BY <4>3 DEF RequestsJudged, Judged
        <5> QED BY <2>0, <5>1, <5>2
      <4> QED BY <3>2, <4>2, <4>3, ZenonT(60) DEF RequestsJudged, Judged
    <3> QED BY <3>3, <3>4
  <2>8. CASE Tick
    <3>1. UNCHANGED <<counts, attempts, rq>> /\ clock' = clock + 1
      BY <2>8 DEF Tick
    <3>2. /\ \A s \in Subnets : counts[s].at \in Int
          /\ \A q \in Reqs : rq[q].asked \in Int
      BY DEF Typed, RequestT
    <3>3. \A s \in Subnets : counts[s].at # Never => counts[s].at <= clock + 1
      BY <2>0, <3>2 DEF CountsRecent
    <3>4. \A q \in Reqs : rq[q].asked # Never /\ ~rq[q].blind => rq[q].asked <= clock + 1
      BY <2>0, <3>2 DEF RequestsJudged, Judged
    <3>5. CountsRecent'
      BY <3>1, <3>3 DEF CountsRecent, CountSees, Window
    <3>6. RequestsJudged'
      BY <3>1, <3>4 DEF RequestsJudged, Judged, Window, At
    <3> QED BY <3>5, <3>6
  <2>9. CASE UNCHANGED <<clock, counts, attempts, rq>>
    BY <2>9 DEF CountsRecent, CountSees, RequestsJudged, Judged, Window, At
  <2>10. CASE (\E t \in Tokens : update_last_activity(t)) \/ PhpChange \/ UNCHANGED vars
    BY <2>9, <2>10 DEF update_last_activity, PhpChange, vars
  <2> QED BY <2>2, <2>3, <2>4, <2>5, <2>6, <2>7, <2>8, <2>10 DEF Next, Step
<1>3. Typed /\ RequestsJudged => ThrottleMissesOnlyRecent
  <2> SUFFICES ASSUME Typed, RequestsJudged, NEW r \in Reqs, rq[r].asked # Never, ~rq[r].blind
               PROVE  LET Old(w) == {i \in DOMAIN attempts :
                                       /\ attempts[i].subnet = rq[r].kind.subnet
                                       /\ attempts[i].at >= rq[r].asked - w
                                       /\ attempts[i].at <= rq[r].asked - CountTtl - MaxLag}
                      IN  /\ rq[r].wake = 0 => Old(LongWindow) = {}
                          /\ Cardinality(Old(ShortWindow)) <= MaxAttempts
    BY DEF ThrottleMissesOnlyRecent, Kind
  <2> DEFINE end == rq[r].asked - CountTtl - MaxLag
             Old(w) == {i \in DOMAIN attempts :
                           /\ attempts[i].subnet = rq[r].kind.subnet
                           /\ attempts[i].at >= rq[r].asked - w /\ attempts[i].at <= end}
  <2>1. end \in Int
    BY DEF Typed, RequestT
  <2>2. \A w : Old(w) = Window(rq[r].kind.subnet, rq[r].asked - w, end + 1)
    <3> HIDE DEF end
    <3> QED BY <2>1, AttemptTyped DEF Window
  <2> HIDE DEF Old
  <2>3. /\ rq[r].wake = 0 => Old(LongWindow) = {}
        /\ Cardinality(Old(ShortWindow)) <= MaxAttempts
    BY <2>2 DEF RequestsJudged, Judged
  <2> QED BY <2>3 DEF Old
<1> QED BY <1>1, <1>2, <1>3, TypeCorrect, StatementsLag, PTL DEF Spec
=============================================================================
