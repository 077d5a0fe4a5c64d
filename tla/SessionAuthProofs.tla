------------------------- MODULE SessionAuthProofs -------------------------
(***************************************************************************)
(* How long a session outlives its logout, for any number of requests and  *)
(* any setting of the timeouts.                                            *)
(***************************************************************************)
EXTENDS SessionAuth, TLAPS

(* A positive answer under way was given while the session was valid, not  *)
(* longer than MaxLag ago, and so was the answer a positive entry holds.   *)
AnswersRecent ==
    \A r \in Reqs : At(r, "collect") =>
        /\ clock <= rq[r].since + MaxLag
        /\ rq[r].answer => valid \/ rq[r].since <= lastValid

EntryRecent == cache.kind = "pos" => valid \/ cache.at <= lastValid + MaxLag

(* The same of answers that deny the session, and of the entries they wrote. *)
DenialsRecent ==
    \A r \in Reqs : At(r, "collect") =>
        /\ clock <= rq[r].since + MaxLag
        /\ ~rq[r].answer => ~valid \/ rq[r].since <= validSince

NegativeRecent ==
    cache.kind = "neg" /\ told => ~valid \/ cache.at <= validSince + MaxLag

States == {"idle", "wait", "granted", "sent", "collect", "stalled", "in", "anonymous"}

(* Replacing one request by a well-typed one keeps all well typed. *)
LEMMA SetRequest ==
    ASSUME NEW r \in Reqs, NEW x \in RequestT, rq \in [Reqs -> RequestT],
           rq' = [rq EXCEPT ![r] = x]
    PROVE  /\ rq' \in [Reqs -> RequestT]
           /\ rq'[r] = x
           /\ \A q \in Reqs : q # r => rq'[q] = rq[q]
OBVIOUS

(* The two ways session_auth moves a request on (Goto, Decide). *)
LEMMA GotoTyped ==
    ASSUME NEW r \in Reqs, NEW s \in States, TypeOK, Goto(r, s)
    PROVE  /\ rq' \in [Reqs -> RequestT]
           /\ \A q \in Reqs : q # r => rq'[q] = rq[q]
           /\ rq'[r].pc = s /\ rq'[r].since = clock
<1> DEFINE x == [rq[r] EXCEPT !.pc = s, !.since = clock]
<1>1. rq[r] \in RequestT /\ clock \in Nat
  BY DEF TypeOK
<1>2. x \in RequestT /\ x.pc = s /\ x.since = clock
  BY <1>1 DEF RequestT, States
<1>3. rq' = [rq EXCEPT ![r] = x] /\ rq \in [Reqs -> RequestT]
  BY DEF Goto, TypeOK
<1> HIDE DEF x
<1> QED BY <1>2, <1>3, SetRequest

LEMMA DecideTyped ==
    ASSUME NEW r \in Reqs, NEW s \in States, TypeOK, Decide(r, s)
    PROVE  /\ rq' \in [Reqs -> RequestT]
           /\ \A q \in Reqs : q # r => rq'[q] = rq[q]
           /\ rq'[r].pc = s /\ rq'[r].since = 0
<1> DEFINE x == [Fresh EXCEPT !.pc = s]
<1>1. x \in RequestT /\ x.pc = s /\ x.since = 0
  BY DEF RequestT, States, Fresh
<1>2. rq' = [rq EXCEPT ![r] = x] /\ rq \in [Reqs -> RequestT]
  BY DEF Decide, TypeOK
<1> HIDE DEF x
<1> QED BY <1>1, <1>2, SetRequest

(* A request that waits for its resolution (Arrive), and one whose answer  *)
(* has started (Answer).                                                   *)
LEMMA ArriveTyped ==
    ASSUME NEW r \in Reqs, NEW login \in BOOLEAN, NEW remember \in BOOLEAN, TypeOK,
           rq' = [rq EXCEPT ![r] = [Fresh EXCEPT !.pc = "wait", !.since = clock,
                                        !.login = login, !.remember = remember]]
    PROVE  /\ rq' \in [Reqs -> RequestT]
           /\ \A q \in Reqs : q # r => rq'[q] = rq[q]
           /\ rq'[r].pc = "wait" /\ rq'[r].since = clock
<1> DEFINE x == [Fresh EXCEPT !.pc = "wait", !.since = clock,
                              !.login = login, !.remember = remember]
<1>1. x \in RequestT /\ x.pc = "wait" /\ x.since = clock
  BY DEF RequestT, Fresh, TypeOK
<1>2. rq' = [rq EXCEPT ![r] = x] /\ rq \in [Reqs -> RequestT]
  BY DEF TypeOK
<1> HIDE DEF x
<1> QED BY <1>1, <1>2, SetRequest

LEMMA AnswerTyped ==
    ASSUME NEW r \in Reqs, NEW v \in BOOLEAN, TypeOK,
           rq' = [rq EXCEPT ![r] =
                    [@ EXCEPT !.pc = "collect", !.since = clock, !.answer = v]]
    PROVE  /\ rq' \in [Reqs -> RequestT]
           /\ \A q \in Reqs : q # r => rq'[q] = rq[q]
           /\ rq'[r].pc = "collect" /\ rq'[r].since = clock /\ rq'[r].answer = v
<1> DEFINE x == [rq[r] EXCEPT !.pc = "collect", !.since = clock, !.answer = v]
<1>1. rq[r] \in RequestT /\ clock \in Nat
  BY DEF TypeOK
<1>2. x \in RequestT /\ x.pc = "collect" /\ x.since = clock /\ x.answer = v
  BY <1>1 DEF RequestT
<1>3. rq' = [rq EXCEPT ![r] = x] /\ rq \in [Reqs -> RequestT]
  BY DEF TypeOK
<1> HIDE DEF x
<1> QED BY <1>2, <1>3, SetRequest

(* The clocks and the states of the requests of session_auth (auth.rs)     *)
(* stay well typed.                                                        *)
THEOREM TypeCorrect == Spec => []TypeOK
<1> USE SessionAssumption
<1>1. Init => TypeOK
  BY DEF Init, TypeOK, Fresh, NoEntry, RequestT, EntryT
<1>2. TypeOK /\ [Next]_vars => TypeOK'
  <2> SUFFICES ASSUME TypeOK, [Next]_vars PROVE TypeOK'
    OBVIOUS
  <2>1. ASSUME NEW r \in Reqs, NEW login \in BOOLEAN, NEW remember \in BOOLEAN,
               Arrive(r, login, remember)
        PROVE  TypeOK'
    <3>1. /\ rq' \in [Reqs -> RequestT]
          /\ \A q \in Reqs : q # r => rq'[q] = rq[q]
          /\ rq'[r].since \in {0, clock}
      BY <2>1, DecideTyped, ArriveTyped DEF Arrive, States
    <3> QED BY <2>1, <3>1 DEF Arrive, TypeOK
  <2>2. ASSUME NEW r \in Reqs,
               Acquire(r) \/ GiveUpWaiting(r) \/ Send(r) \/ Stall(r)
        PROVE  TypeOK'
    <3>1. /\ rq' \in [Reqs -> RequestT]
          /\ \A q \in Reqs : q # r => rq'[q] = rq[q]
          /\ rq'[r].since \in {0, clock}
      BY <2>2, GotoTyped, DecideTyped DEF Acquire, GiveUpWaiting, Send, Stall, States
    <3> QED BY <2>2, <3>1 DEF Acquire, GiveUpWaiting, Send, Stall, TypeOK
  <2>3. ASSUME NEW r \in Reqs, NEW b \in BOOLEAN, Unresolved(r, b) PROVE TypeOK'
    <3>1. /\ rq' \in [Reqs -> RequestT]
          /\ \A q \in Reqs : q # r => rq'[q] = rq[q]
          /\ rq'[r].since = 0
      BY <2>3, DecideTyped DEF Unresolved, States
    <3>2. cache' \in EntryT /\ cache'.at <= clock
      BY <2>3 DEF Unresolved, TypeOK, EntryT
    <3> QED BY <2>3, <3>1, <3>2 DEF Unresolved, TypeOK
  <2>4. ASSUME NEW r \in Reqs, ResolveExpires(r) \/ FpmError(r) PROVE TypeOK'
    BY <2>3, <2>4 DEF ResolveExpires, FpmError
  <2>5. ASSUME NEW r \in Reqs, Answer(r) PROVE TypeOK'
    <3>1. PICK v \in BOOLEAN :
            /\ rq' = [rq EXCEPT ![r] =
                        [@ EXCEPT !.pc = "collect", !.since = clock, !.answer = v]]
            /\ valid' = v
            /\ validSince' = IF v /\ ~valid THEN clock ELSE validSince
      BY <2>5 DEF Answer, TypeOK
    <3>2. /\ rq' \in [Reqs -> RequestT]
          /\ \A q \in Reqs : q # r => rq'[q] = rq[q]
          /\ rq'[r].since = clock
      BY <3>1, AnswerTyped
    <3> QED BY <2>5, <3>1, <3>2 DEF Answer, TypeOK
  <2>6. ASSUME NEW r \in Reqs, Collect(r) PROVE TypeOK'
    <3>1. CASE ~rq[r].answer
      BY <2>3, <2>6, <3>1 DEF Collect
    <3>2. CASE rq[r].answer
      <4>1. /\ rq' \in [Reqs -> RequestT]
            /\ \A q \in Reqs : q # r => rq'[q] = rq[q]
            /\ rq'[r].since = 0
        BY <2>6, <3>2, DecideTyped DEF Collect, States
      <4>2. cache' \in EntryT /\ cache'.at <= clock
        BY <2>6, <3>2 DEF Collect, TypeOK, EntryT
      <4> QED BY <2>6, <3>2, <4>1, <4>2 DEF Collect, TypeOK
    <3> QED BY <3>1, <3>2
  <2>7. CASE cache_evict_expired \/ Logout \/ Login
    <3>1. CASE cache_evict_expired
      <4>1. cache' \in EntryT /\ cache'.at <= clock
        BY <3>1 DEF cache_evict_expired, NoEntry, TypeOK, EntryT
      <4> QED BY <3>1, <4>1 DEF cache_evict_expired, TypeOK
    <3>2. CASE Logout
      <4>1. valid' \in BOOLEAN
        BY <3>2, Zenon DEF Logout
      <4> QED BY <3>2, <4>1 DEF Logout, TypeOK
    <3>3. CASE Login
      BY <3>3 DEF Login, TypeOK
    <3> QED BY <2>7, <3>1, <3>2, <3>3
  <2>8. CASE Tick
    BY <2>8 DEF Tick, TypeOK, EntryT, RequestT
  <2>9. CASE UNCHANGED vars
    BY <2>9 DEF vars, TypeOK
  <2> QED
    BY <2>1, <2>2, <2>4, <2>5, <2>6, <2>7, <2>8, <2>9 DEF Next, ServerStep
<1> QED
  BY <1>1, <1>2, PTL DEF Spec

(* A logged-out session is served from the cache for less than the TTL     *)
(* plus the time one answer of PHP-FPM takes, whatever order the answers   *)
(* are stored in (cache_insert and cache_lookup, session.rs).              *)
THEOREM LogoutBound == Spec => []LogoutWithinTtlAndLag
<1> USE SessionAssumption
<1> DEFINE Inv == AnswersRecent /\ EntryRecent
<1>1. Init => Inv
  BY DEF Init, AnswersRecent, EntryRecent, At, Fresh, NoEntry
<1>2. TypeOK /\ Inv /\ [Next]_vars => Inv'
  <2> SUFFICES ASSUME TypeOK, Inv, [Next]_vars PROVE Inv'
    OBVIOUS
  <2> USE DEF AnswersRecent, EntryRecent, At
  <2>1. ASSUME NEW r \in Reqs, NEW login \in BOOLEAN, NEW remember \in BOOLEAN,
               Arrive(r, login, remember)
        PROVE  Inv'
    <3>1. /\ \A q \in Reqs : q # r => rq'[q] = rq[q]
          /\ rq'[r].pc # "collect"
      BY <2>1, DecideTyped, ArriveTyped DEF Arrive, States
    <3> QED BY <2>1, <3>1 DEF Arrive
  <2>2. ASSUME NEW r \in Reqs,
               Acquire(r) \/ GiveUpWaiting(r) \/ Send(r) \/ Stall(r)
        PROVE  Inv'
    <3>1. /\ \A q \in Reqs : q # r => rq'[q] = rq[q]
          /\ rq'[r].pc # "collect"
      BY <2>2, GotoTyped, DecideTyped DEF Acquire, GiveUpWaiting, Send, Stall, States
    <3> QED BY <2>2, <3>1 DEF Acquire, GiveUpWaiting, Send, Stall
  <2>3. ASSUME NEW r \in Reqs, NEW b \in BOOLEAN, Unresolved(r, b) PROVE Inv'
    <3>1. /\ \A q \in Reqs : q # r => rq'[q] = rq[q]
          /\ rq'[r].pc # "collect"
      BY <2>3, DecideTyped DEF Unresolved, States
    <3> QED BY <2>3, <3>1 DEF Unresolved
  <2>4. ASSUME NEW r \in Reqs, ResolveExpires(r) \/ FpmError(r) PROVE Inv'
    BY <2>3, <2>4 DEF ResolveExpires, FpmError
  <2>5. ASSUME NEW r \in Reqs, Answer(r) PROVE Inv'
    <3>1. PICK v \in BOOLEAN :
            /\ rq' = [rq EXCEPT ![r] =
                        [@ EXCEPT !.pc = "collect", !.since = clock, !.answer = v]]
            /\ valid' = v
            /\ valid => v
      BY <2>5 DEF Answer, TypeOK
    <3>2. /\ \A q \in Reqs : q # r => rq'[q] = rq[q]
          /\ rq'[r].since = clock /\ rq'[r].answer = v
      BY <3>1, AnswerTyped
    <3>3. AnswersRecent'
      BY <2>5, <3>1, <3>2 DEF Answer, TypeOK
    <3>4. EntryRecent'
      BY <2>5, <3>1 DEF Answer
    <3> QED BY <3>3, <3>4
  <2>6. ASSUME NEW r \in Reqs, Collect(r) PROVE Inv'
    <3>1. CASE ~rq[r].answer
      BY <2>3, <2>6, <3>1 DEF Collect
    <3>2. CASE rq[r].answer
      <4>1. /\ \A q \in Reqs : q # r => rq'[q] = rq[q]
            /\ rq'[r].pc # "collect"
        BY <2>6, <3>2, DecideTyped DEF Collect, States
      <4>2. rq[r].since \in Nat
        BY DEF TypeOK, RequestT
      <4>3. valid \/ clock <= lastValid + MaxLag
        BY <2>6, <3>2, <4>2 DEF Collect, TypeOK
      <4> QED BY <2>6, <3>2, <4>1, <4>3 DEF Collect
    <3> QED BY <3>1, <3>2
  <2>7. CASE cache_evict_expired
    BY <2>7 DEF cache_evict_expired, NoEntry
  <2>8. CASE Logout
    BY <2>8 DEF Logout, TypeOK, RequestT, EntryT
  <2>9. CASE Login
    BY <2>9 DEF Login
  <2>10. CASE Tick
    <3>1. \A r \in Reqs : At(r, "collect") => clock + 1 <= rq[r].since + MaxLag
      BY <2>10 DEF Tick, TypeOK, RequestT
    <3> QED BY <2>10, <3>1 DEF Tick
  <2>11. CASE UNCHANGED vars
    BY <2>11 DEF vars
  <2> QED
    BY <2>1, <2>2, <2>4, <2>5, <2>6, <2>7, <2>8, <2>9, <2>10, <2>11
       DEF Next, ServerStep
<1>3. TypeOK /\ Inv => LogoutWithinTtlAndLag
  <2> SUFFICES ASSUME TypeOK, EntryRecent, cache_lookup = "Positive", ~valid
               PROVE  clock - lastValid < PositiveTtl + MaxLag
    BY DEF LogoutWithinTtlAndLag
  <2>1. cache.kind = "pos" /\ clock - cache.at < PositiveTtl
    BY DEF cache_lookup
  <2>2. cache.at <= lastValid + MaxLag
    BY <2>1 DEF EntryRecent
  <2> QED BY <2>1, <2>2 DEF TypeOK, EntryT
<1> QED
  BY <1>1, <1>2, <1>3, TypeCorrect, PTL DEF Spec

(* A negative entry that PHP's answer wrote turns nobody away later than   *)
(* NegativeTtl + MaxLag after a login, whatever order the answers are      *)
(* stored in (session_auth, auth.rs; cache_lookup, session.rs).            *)
THEOREM NegativeBound == Spec => []NegativeIsDefinitive
<1> USE SessionAssumption
<1> DEFINE Inv == DenialsRecent /\ NegativeRecent
<1>1. Init => Inv
  BY DEF Init, DenialsRecent, NegativeRecent, At, Fresh, NoEntry
<1>2. TypeOK /\ Inv /\ [Next]_vars => Inv'
  <2> SUFFICES ASSUME TypeOK, Inv, [Next]_vars PROVE Inv'
    OBVIOUS
  <2> USE DEF DenialsRecent, NegativeRecent, At
  <2>1. ASSUME NEW r \in Reqs, NEW login \in BOOLEAN, NEW remember \in BOOLEAN,
               Arrive(r, login, remember)
        PROVE  Inv'
    <3>1. /\ \A q \in Reqs : q # r => rq'[q] = rq[q]
          /\ rq'[r].pc # "collect"
      BY <2>1, DecideTyped, ArriveTyped DEF Arrive, States
    <3> QED BY <2>1, <3>1 DEF Arrive
  <2>2. ASSUME NEW r \in Reqs,
               Acquire(r) \/ GiveUpWaiting(r) \/ Send(r) \/ Stall(r)
        PROVE  Inv'
    <3>1. /\ \A q \in Reqs : q # r => rq'[q] = rq[q]
          /\ rq'[r].pc # "collect"
      BY <2>2, GotoTyped, DecideTyped DEF Acquire, GiveUpWaiting, Send, Stall, States
    <3> QED BY <2>2, <3>1 DEF Acquire, GiveUpWaiting, Send, Stall
  <2>3. ASSUME NEW r \in Reqs, NEW b \in BOOLEAN, Unresolved(r, b),
               b => ~valid \/ clock <= validSince + MaxLag
        PROVE  Inv'
    <3>1. /\ \A q \in Reqs : q # r => rq'[q] = rq[q]
          /\ rq'[r].pc # "collect"
      BY <2>3, DecideTyped DEF Unresolved, States
    <3>2. DenialsRecent'
      BY <2>3, <3>1 DEF Unresolved
    <3>3. NegativeRecent'
      <4>1. CASE cache' = [kind |-> "neg", at |-> clock] /\ told' = b
        <5>1. cache'.at = clock /\ valid' = valid /\ validSince' = validSince
          BY <2>3, <4>1 DEF Unresolved
        <5>2. told' => ~valid' \/ cache'.at <= validSince' + MaxLag
          BY <2>3, <4>1, <5>1, Zenon
        <5> QED BY <5>2, Zenon
      <4>2. CASE UNCHANGED <<cache, told>>
        BY <2>3, <4>2 DEF Unresolved
      <4> QED BY <2>3, <4>1, <4>2, Zenon DEF Unresolved
    <3> QED BY <3>2, <3>3
  <2>4. ASSUME NEW r \in Reqs, ResolveExpires(r) \/ FpmError(r) PROVE Inv'
    BY <2>3, <2>4 DEF ResolveExpires, FpmError
  <2>5. ASSUME NEW r \in Reqs, Answer(r) PROVE Inv'
    <3>1. PICK v \in BOOLEAN :
            /\ rq' = [rq EXCEPT ![r] =
                        [@ EXCEPT !.pc = "collect", !.since = clock, !.answer = v]]
            /\ valid' = v
            /\ validSince' = IF v /\ ~valid THEN clock ELSE validSince
      BY <2>5 DEF Answer, TypeOK
    <3>2. /\ \A q \in Reqs : q # r => rq'[q] = rq[q]
          /\ rq'[r].since = clock /\ rq'[r].answer = v
      BY <3>1, AnswerTyped
    <3>3. DenialsRecent'
      BY <2>5, <3>1, <3>2 DEF Answer, TypeOK, RequestT
    <3>4. NegativeRecent'
      BY <2>5, <3>1 DEF Answer, TypeOK, EntryT
    <3> QED BY <3>3, <3>4
  <2>6. ASSUME NEW r \in Reqs, Collect(r) PROVE Inv'
    <3>1. CASE ~rq[r].answer
      <4>1. rq[r].since \in Nat
        BY DEF TypeOK, RequestT
      <4>2. /\ clock <= rq[r].since + MaxLag
            /\ ~valid \/ rq[r].since <= validSince
        BY <2>6, <3>1, Zenon DEF Collect
      <4>3. ~valid \/ clock <= validSince + MaxLag
        BY <4>1, <4>2 DEF TypeOK
      <4> QED BY <2>3, <2>6, <3>1, <4>3 DEF Collect
    <3>2. CASE rq[r].answer
      <4>1. /\ \A q \in Reqs : q # r => rq'[q] = rq[q]
            /\ rq'[r].pc # "collect"
        BY <2>6, <3>2, DecideTyped DEF Collect, States
      <4> QED BY <2>6, <3>2, <4>1 DEF Collect
    <3> QED BY <3>1, <3>2
  <2>7. CASE cache_evict_expired
    BY <2>7 DEF cache_evict_expired, NoEntry
  <2>8. CASE Logout
    BY <2>8 DEF Logout
  <2>9. CASE Login
    BY <2>9 DEF Login, TypeOK, RequestT, EntryT
  <2>10. CASE Tick
    <3>1. \A r \in Reqs : At(r, "collect") => clock + 1 <= rq[r].since + MaxLag
      BY <2>10 DEF Tick, TypeOK, RequestT
    <3> QED BY <2>10, <3>1 DEF Tick
  <2>11. CASE UNCHANGED vars
    BY <2>11 DEF vars
  <2> QED
    BY <2>1, <2>2, <2>4, <2>5, <2>6, <2>7, <2>8, <2>9, <2>10, <2>11
       DEF Next, ServerStep
<1>3. TypeOK /\ Inv => NegativeIsDefinitive
  <2> SUFFICES ASSUME TypeOK, NegativeRecent, cache_lookup = "Negative", told, valid
               PROVE  clock - validSince < NegativeTtl + MaxLag
    BY DEF NegativeIsDefinitive
  <2>1. cache.kind = "neg" /\ clock - cache.at < NegativeTtl
    BY DEF cache_lookup
  <2>2. cache.at <= validSince + MaxLag
    BY <2>1 DEF NegativeRecent
  <2> QED BY <2>1, <2>2 DEF TypeOK, EntryT
<1> QED
  BY <1>1, <1>2, <1>3, TypeCorrect, PTL DEF Spec
=============================================================================
