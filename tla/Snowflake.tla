----------------------------- MODULE Snowflake -----------------------------
(***************************************************************************)
(* The client-side ids of oc_previews (nc-preview snowflake.rs): next_id   *)
(* called from several threads.  The server id and the CLI bit are         *)
(* constant, so an id is the pair <<millisecond, sequence>> it encodes.    *)
(***************************************************************************)
EXTENDS Integers, Sequences, FiniteSets

CONSTANTS
    Threads,
    SEQ_MAX,    \* the largest sequence number of a millisecond
    MaxMs,      \* bound on the clock
    MaxIds      \* bound on the ids handed out and on the sequence counter

ASSUME SnowflakeAssumption == SEQ_MAX \in Nat /\ MaxMs \in Nat /\ MaxIds \in Nat

VARIABLES
    now,      \* the system clock, in milliseconds since TS_OFFSET
    st,       \* SeqState, behind the mutex: [ms, counter]
    th,       \* thread -> [pc, ms], ms what now_relative() returned
    ids       \* the ids handed out, in the order next_id returned them

idvars == <<now, st, th, ids>>

IdsInit ==
    /\ now = 1
    /\ st = [ms |-> 0, counter |-> 0]
    /\ th = [t \in Threads |-> [pc |-> "idle", ms |-> 0]]
    /\ ids = <<>>

(* next_id reads the clock before it takes the lock. *)
ReadClock(t) ==
    /\ th[t].pc = "idle" /\ Len(ids) < MaxIds /\ st.counter < MaxIds
    /\ th' = [th EXCEPT ![t] = [pc |-> "read", ms |-> now]]
    /\ UNCHANGED <<now, st, ids>>

(* Faulty variant: the sequence wraps inside the millisecond. *)
SeqWrapping(ms) == IF st.ms = ms THEN (st.counter + 1) % (SEQ_MAX + 1) ELSE 0

(* alloc: the next number of the millisecond, 0 for another one. *)
Seqno(ms) == IF st.ms = ms THEN st.counter + 1 ELSE 0

(* Past SEQ_MAX the caller sleeps a millisecond and tries again. *)
Alloc(t) ==
    /\ th[t].pc = "read"
    /\ LET ms == th[t].ms IN
       /\ st' = [ms |-> ms, counter |-> Seqno(ms)]
       /\ ids' = IF Seqno(ms) <= SEQ_MAX THEN Append(ids, <<ms, Seqno(ms)>>) ELSE ids
       /\ th' = [th EXCEPT ![t] = [pc |-> IF Seqno(ms) <= SEQ_MAX THEN "idle" ELSE "asleep",
                                   ms |-> ms]]
    /\ UNCHANGED now

WakeUp(t) ==
    /\ th[t].pc = "asleep" /\ now # th[t].ms
    /\ th' = [th EXCEPT ![t] = [pc |-> "idle", ms |-> 0]]
    /\ UNCHANGED <<now, st, ids>>

(* SystemTime goes on, and back when the system clock is set. *)
SetClock ==
    /\ \E ms \in 1..MaxMs : ms # now /\ now' = ms
    /\ UNCHANGED <<st, th, ids>>

IdsNext ==
    \/ \E t \in Threads : ReadClock(t) \/ Alloc(t) \/ WakeUp(t)
    \/ SetClock

IdsSpec == IdsInit /\ [][IdsNext]_idvars
-----------------------------------------------------------------------------
(***************************************************************************)
(* "the next unique snowflake", "Thread-safe: the sequence is guarded by a *)
(* mutex" (snowflake.rs).  The mutex guards the sequence and not the clock *)
(* the caller has read before it: a thread that comes with an older time   *)
(* than the last caller (or any caller after the clock was set back) makes *)
(* alloc start that millisecond again at 0.  So an id is handed out again  *)
(* only across an overtaking: between two equal ids there is one of        *)
(* another millisecond, and ids that go out in the order of their times    *)
(* are all different.                                                      *)
(***************************************************************************)
UniqueUnlessOvertaken ==
    \A i, j \in 1..Len(ids) :
        i < j /\ ids[i] = ids[j] => \E k \in (i + 1)..(j - 1) : ids[k][1] # ids[i][1]
=============================================================================
