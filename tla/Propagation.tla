---------------------------- MODULE Propagation ----------------------------
(***************************************************************************)
(* propagate_change on Postgres, one level below DavWrites: the row locks  *)
(* of its statement, the retries around it, and the other statements that  *)
(* lock several oc_filecache rows.                                         *)
(*                                                                         *)
(* The statement of try_propagate locks the rows of its ancestor chain in  *)
(* the order of path_hash and releases them when it ends.  A bulk          *)
(* statement (rekey_subtree_paths, the DELETE of a subtree) locks its rows *)
(* in scan order, which can be any.  The server kills a statement that is  *)
(* part of a cycle of waits; propagate_change retries after any error.     *)
(***************************************************************************)
EXTENDS Integers, FiniteSets

CONSTANTS
    Props,        \* concurrent calls of propagate_change
    Bulks,        \* concurrent bulk statements
    Chain,        \* the rows each of them locks, as path hashes
    MaxHash,      \* hashes are 0..MaxHash
    MAX_RETRIES

Txns  == Props \cup Bulks
NoRow == -1

ASSUME ConstantsAssumption ==
    /\ Props \cap Bulks = {}
    /\ MaxHash \in Nat
    /\ Chain \in [Txns -> SUBSET (0..MaxHash)]
    /\ MAX_RETRIES \in Nat \ {0}

VARIABLES
    pc,       \* "ready", "running", "done" or "failed"
    want,     \* the row the statement has reached and not yet locked
    held,     \* the rows it has locked
    attempt,  \* statements issued so far
    applied,  \* how often the change was committed
    lost,     \* how often the answer to a commit was lost
    sums      \* sums[h][t]: how often the size of row h contains t's change

vars == <<pc, want, held, attempt, applied, lost, sums>>

WaitsFor(t, u) == t # u /\ want[t] \in held[u]

(* A set of statements that all wait for each other. *)
Cycle(S) ==
    /\ S # {}
    /\ \A t \in S : \E u \in S : WaitsFor(t, u)
    /\ \A t \in S : \E u \in S : WaitsFor(u, t)

Init ==
    /\ pc = [t \in Txns |-> "ready"]
    /\ want = [t \in Txns |-> NoRow]
    /\ held = [t \in Txns |-> {}]
    /\ attempt = [t \in Txns |-> 0]
    /\ applied = [t \in Txns |-> 0]
    /\ lost = [t \in Txns |-> 0]
    /\ sums = [h \in 0..MaxHash |-> [t \in Props |-> 0]]

Begin(t) ==
    /\ pc[t] = "ready"
    /\ pc' = [pc EXCEPT ![t] = "running"]
    /\ attempt' = [attempt EXCEPT ![t] = @ + 1]
    /\ UNCHANGED <<want, held, applied, lost, sums>>

(* Faulty variant: an IN list, locked in whatever order the plan scans. *)
ReachInScanOrder(t) ==
    /\ pc[t] = "running" /\ want[t] = NoRow
    /\ \E h \in Chain[t] \ held[t] : want' = [want EXCEPT ![t] = h]
    /\ UNCHANGED <<pc, held, attempt, applied, lost, sums>>

(* The next row: the smallest hash for a propagation, any row otherwise. *)
Reach(t) ==
    /\ pc[t] = "running" /\ want[t] = NoRow
    /\ \E h \in Chain[t] \ held[t] :
          /\ t \in Props => \A g \in Chain[t] \ held[t] : h <= g
          /\ want' = [want EXCEPT ![t] = h]
    /\ UNCHANGED <<pc, held, attempt, applied, lost, sums>>

Lock(t) ==
    /\ want[t] # NoRow
    /\ \A u \in Txns : ~WaitsFor(t, u)
    /\ held' = [held EXCEPT ![t] = @ \cup {want[t]}]
    /\ want' = [want EXCEPT ![t] = NoRow]
    /\ UNCHANGED <<pc, attempt, applied, lost, sums>>

(* Faulty variant: the UPDATE does not wait for the rest of the rows. *)
SomeLocked(t) == pc[t] = "running" /\ want[t] = NoRow /\ held[t] # {}

AllLocked(t) == pc[t] = "running" /\ want[t] = NoRow /\ held[t] = Chain[t]

(* The UPDATE of the rows the sub-select has locked. *)
Write(t) ==
    sums' = [h \in 0..MaxHash |->
                IF t \in Props /\ h \in held[t] THEN [sums[h] EXCEPT ![t] = @ + 1] ELSE sums[h]]

(* What becomes of a call whose statement returned an error. *)
AfterError(t) == IF t \in Props /\ attempt[t] < MAX_RETRIES THEN "ready" ELSE "failed"

(* Faulty variant: the loop goes on after an attempt that succeeded. *)
CommitAndLoop(t) ==
    /\ AllLocked(t)
    /\ Write(t)
    /\ applied' = [applied EXCEPT ![t] = @ + 1]
    /\ held' = [held EXCEPT ![t] = {}]
    /\ pc' = [pc EXCEPT ![t] = IF AfterError(t) = "ready" THEN "ready" ELSE "done"]
    /\ UNCHANGED <<want, attempt, lost>>

Commit(t) ==
    /\ AllLocked(t)
    /\ Write(t)
    /\ applied' = [applied EXCEPT ![t] = @ + 1]
    /\ held' = [held EXCEPT ![t] = {}]
    /\ pc' = [pc EXCEPT ![t] = "done"]
    /\ UNCHANGED <<want, attempt, lost>>

(* The server committed and the answer never came: an error to the client. *)
CommitUnheard(t) ==
    /\ AllLocked(t)
    /\ Write(t)
    /\ applied' = [applied EXCEPT ![t] = @ + 1]
    /\ lost' = [lost EXCEPT ![t] = @ + 1]
    /\ held' = [held EXCEPT ![t] = {}]
    /\ pc' = [pc EXCEPT ![t] = AfterError(t)]
    /\ UNCHANGED <<want, attempt>>

(* Faulty variant: the victim's locks stay. *)
KillKeepsLocks(t) ==
    /\ \E S \in SUBSET Txns : t \in S /\ Cycle(S)
    /\ pc' = [pc EXCEPT ![t] = AfterError(t)]
    /\ want' = [want EXCEPT ![t] = NoRow]
    /\ UNCHANGED <<held, attempt, applied, lost, sums>>

(* The server's deadlock detector rolls the victim's statement back. *)
Kill(t) ==
    /\ \E S \in SUBSET Txns : t \in S /\ Cycle(S)
    /\ pc' = [pc EXCEPT ![t] = AfterError(t)]
    /\ want' = [want EXCEPT ![t] = NoRow]
    /\ held' = [held EXCEPT ![t] = {}]
    /\ UNCHANGED <<attempt, applied, lost, sums>>

TxnStep(t) == Begin(t) \/ Reach(t) \/ Lock(t) \/ Commit(t) \/ CommitUnheard(t)

Ended(t) == pc[t] \in {"done", "failed"}
Finished == (\A t \in Txns : Ended(t)) /\ UNCHANGED vars

Next == \/ \E t \in Txns : TxnStep(t)
        \/ \E t \in Txns : Kill(t)
        \/ Finished

Spec == Init /\ [][Next]_vars
FairSpec == /\ Spec
            /\ \A t \in Txns : WF_vars(TxnStep(t))
            /\ WF_vars(\E t \in Txns : Kill(t))
-----------------------------------------------------------------------------
(* The types of the state; a statement only holds rows of its own chain.   *)
TypeOK ==
    /\ pc \in [Txns -> {"ready", "running", "done", "failed"}]
    /\ want \in [Txns -> (0..MaxHash) \cup {NoRow}]
    /\ held \in [Txns -> SUBSET (0..MaxHash)]
    /\ \A t \in Txns : held[t] \subseteq Chain[t]
    /\ attempt \in [Txns -> 0..MAX_RETRIES]
    /\ applied \in [Txns -> Nat] /\ lost \in [Txns -> Nat]
    /\ sums \in [0..MaxHash -> [Props -> Nat]]

(***************************************************************************)
(* Propagations never wait for each other in a circle, however many there  *)
(* are and however their chains overlap: "concurrent propagations          *)
(* serialize instead of cycle" (try_propagate, propagator.rs).             *)
(***************************************************************************)
PropagationsSerialize == \A S \in SUBSET Props : ~Cycle(S)

(***************************************************************************)
(* As long as no bulk statement has run and no answer was lost, every      *)
(* propagation succeeds with its first statement: no change is left        *)
(* unstamped because of a deadlock (propagate_change, propagator.rs).      *)
(***************************************************************************)
Undisturbed == (\A b \in Bulks : attempt[b] = 0) /\ (\A t \in Props : lost[t] = 0)

NeverFailAlone == Undisturbed => \A t \in Props : pc[t] # "failed" /\ attempt[t] <= 1

(***************************************************************************)
(* A propagation that returned Ok was committed exactly once, one that     *)
(* returned an error not at all, kills and retries included -- but for the *)
(* commits whose answer was lost, each of which adds the size difference   *)
(* another time (the retry loop of propagate_change, propagator.rs).       *)
(***************************************************************************)
AppliedOnce ==
    \A t \in Props : applied[t] = lost[t] + (IF pc[t] = "done" THEN 1 ELSE 0)

(***************************************************************************)
(* The calls, their row locks, kills and retries implement the atomic      *)
(* propagation DavWrites is written with: for the callers a change appears *)
(* in all rows of its chain in one step (propagate_change).                *)
(***************************************************************************)
Atomic == INSTANCE AtomicPropagation WITH
    Calls    <- Props,
    Rows     <- 0..MaxHash,
    failures <- [t \in Props |-> IF pc[t] \in {"running", "done"} THEN attempt[t] - 1 ELSE attempt[t]],
    unheard  <- [t \in Props |-> lost[t]],
    answer   <- [t \in Props |-> CASE pc[t] = "done"   -> "ok"
                                   [] pc[t] = "failed" -> "error"
                                   [] OTHER            -> "none"]

ImplementsAtomic == Atomic!Spec

(* Every propagation returns, deadlocks with bulk statements included.     *)
EveryPropagationEnds == \A t \in Props : <>Ended(t)
=============================================================================
