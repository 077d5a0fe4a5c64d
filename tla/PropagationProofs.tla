------------------------- MODULE PropagationProofs -------------------------
(***************************************************************************)
(* Propagations serialize and are applied once, for any number of calls,   *)
(* any chains and any bulk statements next to them.                        *)
(***************************************************************************)
EXTENDS Propagation, WellFoundedInduction, TLAPS

(* A call waiting for its first or next attempt has one left, and a        *)
(* statement waits for a row of its chain it does not hold.                *)
AttemptsLeft == \A t \in Txns : pc[t] = "ready" => attempt[t] < MAX_RETRIES
WantsOwnRow  == \A t \in Txns : want[t] # NoRow => want[t] \in Chain[t] \ held[t]

Types == TypeOK /\ AttemptsLeft /\ WantsOwnRow

(* The rows a propagation holds come before the one it waits for, and      *)
(* before all the others of its chain.                                     *)
LocksInOrder ==
    \A t \in Props :
        /\ want[t] # NoRow => \A g \in Chain[t] \ held[t] : want[t] <= g
        /\ \A h \in held[t] : \A g \in Chain[t] \ held[t] : h < g

(* A statement that was not issued waits for nothing, and without victims  *)
(* no call is ever retried.                                                *)
NotIssued == \A t \in Txns : attempt[t] = 0 => pc[t] = "ready" /\ want[t] = NoRow

FirstAttempt ==
    Undisturbed => \A t \in Props : /\ pc[t] # "failed" /\ attempt[t] <= 1
                                    /\ pc[t] = "ready" => attempt[t] = 0

(* The type invariant of the calls, with the retry count kept in bounds by *)
(* the loop of propagate_change.                                           *)
LEMMA TypesInductive == Spec => []Types
<1> USE ConstantsAssumption DEF Txns, NoRow
<1>1. Init => Types
  BY DEF Init, Types, TypeOK, AttemptsLeft, WantsOwnRow
<1>2. Types /\ [Next]_vars => Types'
  <2> SUFFICES ASSUME Types, [Next]_vars PROVE Types'
    OBVIOUS
  <2> USE DEF Types, TypeOK, AttemptsLeft, WantsOwnRow
  <2>1. ASSUME NEW t \in Txns, Begin(t) PROVE Types'
    BY <2>1 DEF Begin
  <2>2. ASSUME NEW t \in Txns, Reach(t) PROVE Types'
    BY <2>2 DEF Reach
  <2>3. ASSUME NEW t \in Txns, Lock(t) PROVE Types'
    BY <2>3 DEF Lock
  <2>w. ASSUME NEW t \in Txns, Write(t) PROVE sums' \in [0..MaxHash -> [Props -> Nat]]
    <3> SUFFICES ASSUME NEW h \in 0..MaxHash PROVE sums'[h] \in [Props -> Nat]
      BY <2>w DEF Write
    <3> QED BY <2>w DEF Write
  <2>4. ASSUME NEW t \in Txns, Commit(t) PROVE Types'
    <3>1. sums' \in [0..MaxHash -> [Props -> Nat]]
      BY <2>w, <2>4 DEF Commit
    <3>2. /\ pc' \in [Txns -> {"ready", "running", "done", "failed"}]
          /\ held' \in [Txns -> SUBSET (0..MaxHash)] /\ \A u \in Txns : held'[u] \subseteq Chain[u]
          /\ applied' \in [Txns -> Nat]
      BY <2>4 DEF Commit
    <3>3. AttemptsLeft' /\ WantsOwnRow'
      BY <2>4 DEF Commit, AllLocked
    <3> QED BY <2>4, <3>1, <3>2, <3>3 DEF Commit
  <2>5. ASSUME NEW t \in Txns, CommitUnheard(t) PROVE Types'
    <3>1. sums' \in [0..MaxHash -> [Props -> Nat]]
      BY <2>w, <2>5 DEF CommitUnheard
    <3>2. /\ pc' \in [Txns -> {"ready", "running", "done", "failed"}]
          /\ held' \in [Txns -> SUBSET (0..MaxHash)] /\ \A u \in Txns : held'[u] \subseteq Chain[u]
          /\ applied' \in [Txns -> Nat] /\ lost' \in [Txns -> Nat]
      BY <2>5 DEF CommitUnheard, AfterError
    <3>3. AttemptsLeft' /\ WantsOwnRow'
      BY <2>5 DEF CommitUnheard, AllLocked, AfterError
    <3> QED BY <2>5, <3>1, <3>2, <3>3 DEF CommitUnheard
  <2>6. ASSUME NEW t \in Txns, Kill(t) PROVE Types'
    BY <2>6 DEF Kill, AfterError
  <2>7. CASE UNCHANGED vars
    BY <2>7 DEF vars
  <2> QED
    BY <2>1, <2>2, <2>3, <2>4, <2>5, <2>6, <2>7 DEF Next, TxnStep, Finished
<1> QED
  BY <1>1, <1>2, PTL DEF Spec

(* The state of every call stays well typed: no call issues more than      *)
(* MAX_RETRIES statements, none locks a row outside its chain              *)
(* (propagate_change, propagator.rs).                                      *)
THEOREM TypeCorrect == Spec => []TypeOK
BY TypesInductive, PTL DEF Types

(* The ORDER BY path_hash of try_propagate, kept by every statement of     *)
(* every other call.                                                       *)
LEMMA OrderInductive == Spec => []LocksInOrder
<1> USE ConstantsAssumption DEF Txns, NoRow
<1>1. Init => LocksInOrder
  BY DEF Init, LocksInOrder
<1>2. Types /\ LocksInOrder /\ [Next]_vars => LocksInOrder'
  <2> SUFFICES ASSUME Types, LocksInOrder, [Next]_vars PROVE LocksInOrder'
    OBVIOUS
  <2> USE DEF Types, TypeOK, WantsOwnRow, LocksInOrder
  <2>1. ASSUME NEW t \in Txns, Begin(t) PROVE LocksInOrder'
    BY <2>1 DEF Begin
  <2>2. ASSUME NEW t \in Txns, Reach(t) PROVE LocksInOrder'
    BY <2>2 DEF Reach
  <2>3. ASSUME NEW t \in Txns, Lock(t) PROVE LocksInOrder'
    <3>1. want[t] \in 0..MaxHash /\ want[t] \in Chain[t] \ held[t]
      BY <2>3 DEF Lock
    <3>2. ASSUME NEW u \in Props, NEW h \in held'[u], NEW g \in Chain[u] \ held'[u]
          PROVE  h < g
      <4>1. CASE u = t
        <5>1. h \in held[t] \/ h = want[t]
          BY <2>3, <4>1 DEF Lock
        <5>2. g \in Chain[t] \ held[t] /\ g # want[t]
          BY <2>3, <4>1 DEF Lock
        <5>3. g \in 0..MaxHash
          BY <5>2
        <5>4. want[t] <= g
          <6>1. want[t] # NoRow
            BY <2>3 DEF Lock
          <6> QED BY <4>1, <5>2, <6>1
        <5> QED BY <3>1, <4>1, <5>1, <5>2, <5>3, <5>4
      <4>2. CASE u # t
        BY <2>3, <4>2 DEF Lock
      <4> QED BY <4>1, <4>2
    <3>3. ASSUME NEW u \in Props, want'[u] # NoRow, NEW g \in Chain[u] \ held'[u]
          PROVE  want'[u] <= g
      BY <2>3, <3>3 DEF Lock
    <3> QED BY <3>2, <3>3
  <2>4. ASSUME NEW t \in Txns, Commit(t) PROVE LocksInOrder'
    BY <2>4 DEF Commit, AllLocked
  <2>5. ASSUME NEW t \in Txns, CommitUnheard(t) PROVE LocksInOrder'
    BY <2>5 DEF CommitUnheard, AllLocked
  <2>6. ASSUME NEW t \in Txns, Kill(t) PROVE LocksInOrder'
    BY <2>6 DEF Kill
  <2>7. CASE UNCHANGED vars
    BY <2>7 DEF vars
  <2> QED
    BY <2>1, <2>2, <2>3, <2>4, <2>5, <2>6, <2>7 DEF Next, TxnStep, Finished
<1> QED
  BY <1>1, <1>2, TypesInductive, PTL DEF Spec

(* In a circle of waits the hashes would have to grow for ever.            *)
LEMMA NoCycle == Types /\ LocksInOrder => PropagationsSerialize
<1> USE ConstantsAssumption DEF Txns
<1> SUFFICES ASSUME Types, LocksInOrder, NEW S \in SUBSET Props, Cycle(S)
             PROVE  FALSE
  BY DEF PropagationsSerialize
<1> DEFINE Left(t) == MaxHash - want[t]
           T == {Left(t) : t \in S}
<1>1. \A t \in S : \E u \in S : WaitsFor(t, u)
  BY DEF Cycle
<1>2. \A t \in S : want[t] \in 0..MaxHash
  BY <1>1 DEF WaitsFor, Types, TypeOK
<1>3. T \subseteq Nat /\ T # {}
  BY <1>2 DEF Cycle
<1>4. PICK x \in T : \A y \in T : ~(<<y, x>> \in OpToRel(<, Nat))
  BY <1>3, WFMin, NatLessThanWellFounded, Zenon
<1>5. PICK t \in S : x = Left(t)
  BY <1>4
<1>6. PICK u \in S : WaitsFor(t, u)
  BY <1>1
<1>7. want[t] < want[u]
  BY <1>2, <1>6 DEF WaitsFor, Types, WantsOwnRow, LocksInOrder, NoRow
<1>8. Left(u) < x /\ Left(u) \in T
  BY <1>2, <1>5, <1>7
<1>9. <<Left(u), x>> \in OpToRel(<, Nat)
  BY <1>3, <1>4, <1>8, Zenon DEF OpToRel
<1> QED
  BY <1>4, <1>8, <1>9, Zenon

(* Concurrent propagations never deadlock with each other, for every set   *)
(* of calls and every choice of chains (ORDER BY path_hash FOR UPDATE in   *)
(* try_propagate, propagator.rs).                                          *)
THEOREM Serialize == Spec => []PropagationsSerialize
BY TypesInductive, OrderInductive, NoCycle, PTL

(* Every propagation succeeds at its first statement as long as no bulk    *)
(* statement has run and no answer was lost (propagate_change,             *)
(* propagator.rs).                                                         *)
THEOREM NoRetryAlone == Spec => []NeverFailAlone
<1> USE ConstantsAssumption DEF Txns
<1> DEFINE Inv == NotIssued /\ FirstAttempt
<1>1. Init => Inv
  BY DEF Init, NotIssued, FirstAttempt
<1>2. Types /\ PropagationsSerialize /\ Inv /\ [Next]_vars => Inv'
  <2> SUFFICES ASSUME Types, PropagationsSerialize, Inv, [Next]_vars PROVE Inv'
    OBVIOUS
  <2> USE DEF Types, TypeOK, NotIssued, FirstAttempt, Undisturbed
  <2>1. ASSUME NEW t \in Txns, Begin(t) PROVE Inv'
    BY <2>1 DEF Begin
  <2>2. ASSUME NEW t \in Txns, Reach(t) \/ Lock(t) PROVE Inv'
    BY <2>2 DEF Reach, Lock
  <2>3. ASSUME NEW t \in Txns, Commit(t) PROVE Inv'
    BY <2>3 DEF Commit, AllLocked
  <2>4. ASSUME NEW t \in Txns, CommitUnheard(t) PROVE Inv'
    <3>1. attempt[t] # 0 /\ NotIssued'
      BY <2>4 DEF CommitUnheard, AllLocked
    <3>2. ~Undisturbed'
      BY <2>4, <3>1 DEF CommitUnheard
    <3> QED BY <3>1, <3>2
  <2>5. ASSUME NEW t \in Txns, Kill(t) PROVE Inv'
    <3>1. PICK S \in SUBSET Txns : t \in S /\ Cycle(S)
      BY <2>5 DEF Kill
    <3>2. ASSUME NEW u \in S PROVE want[u] # NoRow
      <4>1. PICK v \in S : WaitsFor(u, v)
        BY <3>1 DEF Cycle
      <4>2. want[u] \in held[v] /\ held[v] \subseteq 0..MaxHash
        BY <4>1 DEF WaitsFor
      <4> QED BY <4>2 DEF NoRow
    <3>3. ~Undisturbed
      BY <3>1, <3>2 DEF PropagationsSerialize
    <3>4. attempt[t] # 0 /\ NotIssued'
      BY <2>5, <3>1, <3>2 DEF Kill
    <3>5. ~Undisturbed'
      BY <2>5, <3>3 DEF Kill
    <3> QED BY <3>4, <3>5
  <2>6. CASE UNCHANGED vars
    BY <2>6 DEF vars
  <2> QED
    BY <2>1, <2>2, <2>3, <2>4, <2>5, <2>6 DEF Next, TxnStep, Finished
<1>3. FirstAttempt => NeverFailAlone
  BY DEF FirstAttempt, NeverFailAlone
<1> QED
  BY <1>1, <1>2, <1>3, TypesInductive, Serialize, PTL DEF Spec

(* A propagation is committed exactly once if it succeeds and never if it  *)
(* fails, but for the lost answers, whatever the deadlock detector does    *)
(* (the retry loop of propagate_change, propagator.rs).                    *)
THEOREM ExactlyOnce == Spec => []AppliedOnce
<1> USE ConstantsAssumption DEF Txns
<1> DEFINE Counted == \A t \in Txns : applied[t] = lost[t] + (IF pc[t] = "done" THEN 1 ELSE 0)
           Live == \A t \in Txns : want[t] # NoRow => pc[t] = "running"
<1>1. Init => Counted /\ Live
  BY DEF Init
<1>2. Types /\ Counted /\ Live /\ [Next]_vars => Counted' /\ Live'
  <2> SUFFICES ASSUME Types, Counted, Live, [Next]_vars PROVE Counted' /\ Live'
    OBVIOUS
  <2> USE DEF Types, TypeOK
  <2>1. ASSUME NEW t \in Txns, Begin(t) PROVE Counted' /\ Live'
    BY <2>1 DEF Begin
  <2>2. ASSUME NEW t \in Txns, Reach(t) \/ Lock(t) PROVE Counted' /\ Live'
    BY <2>2 DEF Reach, Lock
  <2>3. ASSUME NEW t \in Txns, Commit(t) PROVE Counted' /\ Live'
    BY <2>3 DEF Commit, AllLocked
  <2>4. ASSUME NEW t \in Txns, CommitUnheard(t) PROVE Counted' /\ Live'
    BY <2>4 DEF CommitUnheard, AllLocked, AfterError
  <2>5. ASSUME NEW t \in Txns, Kill(t) PROVE Counted' /\ Live'
    <3>1. PICK u \in Txns : WaitsFor(t, u)
      BY <2>5 DEF Kill, Cycle
    <3>2. pc[t] = "running"
      BY <3>1 DEF WaitsFor, NoRow
    <3> QED BY <2>5, <3>2 DEF Kill, AfterError
  <2>6. CASE UNCHANGED vars
    BY <2>6 DEF vars
  <2> QED
    BY <2>1, <2>2, <2>3, <2>4, <2>5, <2>6 DEF Next, TxnStep, Finished
<1>3. Counted => AppliedOnce
  BY DEF AppliedOnce
<1> QED
  BY <1>1, <1>2, <1>3, TypesInductive, PTL DEF Spec

(* What the refinement needs of the calls: only a running statement waits  *)
(* or holds rows, it has been counted, and an error that is not retried    *)
(* was the last attempt.                                                   *)
Phases ==
    \A t \in Props :
        /\ want[t] # NoRow => pc[t] = "running"
        /\ pc[t] = "running" => attempt[t] > 0

LEMMA PhasesInductive == Spec => []Phases
<1> USE ConstantsAssumption DEF Txns, Phases
<1>1. Init => Phases
  BY DEF Init
<1>2. Types /\ Phases /\ [Next]_vars => Phases'
  <2> SUFFICES ASSUME Types, Phases, [Next]_vars PROVE Phases'
    OBVIOUS
  <2> USE DEF Types, TypeOK
  <2>1. ASSUME NEW t \in Txns, Begin(t) PROVE Phases'
    BY <2>1 DEF Begin
  <2>2. ASSUME NEW t \in Txns, Reach(t) \/ Lock(t) PROVE Phases'
    BY <2>2 DEF Reach, Lock
  <2>3. ASSUME NEW t \in Txns, Commit(t) \/ CommitUnheard(t) PROVE Phases'
    BY <2>3 DEF Commit, CommitUnheard, AllLocked, AfterError
  <2>4. ASSUME NEW t \in Txns, Kill(t) PROVE Phases'
    BY <2>4 DEF Kill, AfterError
  <2>5. CASE UNCHANGED vars
    BY <2>5 DEF vars
  <2> QED
    BY <2>1, <2>2, <2>3, <2>4, <2>5 DEF Next, TxnStep, Finished
<1> QED
  BY <1>1, <1>2, TypesInductive, PTL DEF Spec

(* A running statement that ends in an error counts as one failure, and    *)
(* the last of them is the call's error.                                   *)
LEMMA FailureCounts ==
    ASSUME Types, Phases, NEW t \in Props, pc[t] = "running",
           pc' = [pc EXCEPT ![t] = AfterError(t)], attempt' = attempt
    PROVE  Atomic!Failed(t)
<1> USE ConstantsAssumption DEF Txns, Types, TypeOK
<1> DEFINE F(p, a) == [u \in Props |-> IF p[u] \in {"running", "done"} THEN a[u] - 1 ELSE a[u]]
           A(p) == [u \in Props |-> CASE p[u] = "done"   -> "ok"
                                      [] p[u] = "failed" -> "error"
                                      [] OTHER           -> "none"]
<1>1. attempt[t] \in 1..MAX_RETRIES
  BY DEF Phases
<1>2. pc'[t] = (IF attempt[t] < MAX_RETRIES THEN "ready" ELSE "failed")
  BY DEF AfterError
<1>3. \A u \in Props \ {t} : pc'[u] = pc[u]
  OBVIOUS
<1>4. F(pc', attempt') = [F(pc, attempt) EXCEPT ![t] = @ + 1]
  <2>1. F(pc, attempt)[t] + 1 = attempt[t]
    BY <1>1
  <2>2. F(pc', attempt')[t] = attempt[t]
    BY <1>2
  <2> QED BY <1>3, <2>1, <2>2
<1>5. A(pc') = [A(pc) EXCEPT ![t] = IF F(pc, attempt)[t] + 1 < MAX_RETRIES THEN "none" ELSE "error"]
  <2>1. F(pc, attempt)[t] + 1 = attempt[t]
    BY <1>1
  <2>2. A(pc')[t] = (IF attempt[t] < MAX_RETRIES THEN "none" ELSE "error")
    BY <1>1, <1>2
  <2>3. \A u \in Props \ {t} : A(pc')[u] = A(pc)[u]
    BY <1>3
  <2> QED BY <2>1, <2>2, <2>3
<1> QED BY <1>4, <1>5 DEF Atomic!Failed

(* A step of a propagation is a step of the atomic one, or none; a step of *)
(* a bulk statement is none.                                               *)
LEMMA StepsImplement ==
    Types /\ Phases /\ [Next]_vars => [Atomic!Next]_(Atomic!avars)
<1> USE ConstantsAssumption DEF Txns
<1> SUFFICES ASSUME Types, Phases, [Next]_vars PROVE [Atomic!Next]_(Atomic!avars)
  OBVIOUS
<1> USE DEF Types, TypeOK
<1>1. ASSUME NEW t \in Txns, Begin(t) PROVE UNCHANGED Atomic!avars
  BY <1>1 DEF Begin, Atomic!avars
<1>2. ASSUME NEW t \in Txns, Reach(t) \/ Lock(t) PROVE UNCHANGED Atomic!avars
  BY <1>2 DEF Reach, Lock, Atomic!avars
<1>3. ASSUME NEW t \in Txns, Commit(t) PROVE [Atomic!Next]_(Atomic!avars)
  <2>1. CASE t \in Props
    <3>1. Atomic!Apply(t)
      BY <1>3, <2>1 DEF Commit, AllLocked, Write, Atomic!Apply
    <3>2. Atomic!Succeed(t)
      BY <1>3, <2>1, <3>1 DEF Commit, AllLocked, Atomic!Succeed
    <3> QED BY <2>1, <3>2 DEF Atomic!Next
  <2>2. CASE t \notin Props
    BY <1>3, <2>2 DEF Commit, AllLocked, Write, Atomic!avars
  <2> QED BY <2>1, <2>2
<1>4. ASSUME NEW t \in Txns, CommitUnheard(t) PROVE [Atomic!Next]_(Atomic!avars)
  <2>1. CASE t \in Props
    <3>1. Atomic!Apply(t)
      BY <1>4, <2>1 DEF CommitUnheard, AllLocked, Write, Atomic!Apply
    <3>2. Atomic!Failed(t)
      <4>1. pc[t] = "running" /\ pc' = [pc EXCEPT ![t] = AfterError(t)] /\ attempt' = attempt
        BY <1>4 DEF CommitUnheard, AllLocked
      <4> QED BY <2>1, <4>1, FailureCounts
    <3>3. Atomic!Unheard(t)
      BY <1>4, <2>1, <3>1, <3>2 DEF CommitUnheard, AllLocked, Atomic!Unheard
    <3> QED BY <2>1, <3>3 DEF Atomic!Next
  <2>2. CASE t \notin Props
    BY <1>4, <2>2 DEF CommitUnheard, AllLocked, Write, Atomic!avars
  <2> QED BY <2>1, <2>2
<1>5. ASSUME NEW t \in Txns, Kill(t) PROVE [Atomic!Next]_(Atomic!avars)
  <2>1. CASE t \in Props
    <3>1. PICK u \in Txns : WaitsFor(t, u)
      BY <1>5 DEF Kill, Cycle
    <3>2. pc[t] = "running"
      BY <2>1, <3>1 DEF WaitsFor, NoRow, Phases
    <3>3. Atomic!Failed(t)
      BY <1>5, <2>1, <3>2, FailureCounts DEF Kill
    <3>4. Atomic!Refuse(t)
      BY <1>5, <2>1, <3>2, <3>3 DEF Kill, Atomic!Refuse
    <3> QED BY <2>1, <3>4 DEF Atomic!Next
  <2>2. CASE t \notin Props
    BY <1>5, <2>2 DEF Kill, Atomic!avars
  <2> QED BY <2>1, <2>2
<1>6. CASE UNCHANGED vars
  BY <1>6 DEF vars, Atomic!avars
<1> QED
  BY <1>1, <1>2, <1>3, <1>4, <1>5, <1>6 DEF Next, TxnStep, Finished

(* For every set of calls, every choice of chains and any bulk statements  *)
(* beside them, propagate_change implements the propagation in one step    *)
(* that the handlers are modelled with (propagator.rs).                    *)
THEOREM Refinement == Spec => ImplementsAtomic
<1>1. Init => Atomic!Init
  BY ConstantsAssumption DEF Init, Txns, Atomic!Init
<1> QED
  BY <1>1, TypesInductive, PhasesInductive, StepsImplement, PTL
     DEF Spec, ImplementsAtomic, Atomic!Spec
=============================================================================
