------------------------- MODULE AtomicPropagation -------------------------
(***************************************************************************)
(* What propagate_change promises to the handlers that call it, and what   *)
(* DavWrites takes for granted when it models a propagation as one step:   *)
(* a change reaches all the rows of its chain at once or none of them,     *)
(* the call returns Ok after the statement that applied it and an error    *)
(* after MAX_RETRIES statements that failed.  Only a statement whose       *)
(* answer is lost applies the change and fails.                            *)
(***************************************************************************)
EXTENDS Integers

CONSTANTS
    Calls,        \* the calls of propagate_change
    Rows,         \* the rows of oc_filecache
    Chain,        \* the rows of each call's ancestors
    MAX_RETRIES

VARIABLES
    sums,     \* sums[h][t]: how often the size of row h contains the change of t
    failures, \* statements of a call that failed
    unheard,  \* how many of them the server had committed
    answer    \* "none" before the call returns, then "ok" or "error"

avars == <<sums, failures, unheard, answer>>

Init ==
    /\ sums = [h \in Rows |-> [t \in Calls |-> 0]]
    /\ failures = [t \in Calls |-> 0]
    /\ unheard = [t \in Calls |-> 0]
    /\ answer = [t \in Calls |-> "none"]

Apply(t) ==
    sums' = [h \in Rows |-> IF h \in Chain[t] THEN [sums[h] EXCEPT ![t] = @ + 1] ELSE sums[h]]

Failed(t) ==
    /\ failures' = [failures EXCEPT ![t] = @ + 1]
    /\ answer' = [answer EXCEPT ![t] = IF failures[t] + 1 < MAX_RETRIES THEN "none" ELSE "error"]

Succeed(t) ==
    /\ answer[t] = "none"
    /\ Apply(t)
    /\ answer' = [answer EXCEPT ![t] = "ok"]
    /\ UNCHANGED <<failures, unheard>>

Unheard(t) ==
    /\ answer[t] = "none"
    /\ Apply(t) /\ Failed(t)
    /\ unheard' = [unheard EXCEPT ![t] = @ + 1]

Refuse(t) ==
    /\ answer[t] = "none"
    /\ Failed(t)
    /\ UNCHANGED <<sums, unheard>>

Next == \E t \in Calls : Succeed(t) \/ Unheard(t) \/ Refuse(t)

Spec == Init /\ [][Next]_avars
=============================================================================
