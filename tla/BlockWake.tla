------------------------------ MODULE BlockWake ------------------------------
(***************************************************************************)
(* What the scheduler promises to the code that sleeps: thread_block,      *)
(* thread_sleep and vxThreadWake, each reduced to the one step that other  *)
(* threads can observe.  Scheduler implements it (Scheduler!ImplementsBlockWake), *)
(* and the blocking system calls are written against it.                   *)
(***************************************************************************)
CONSTANTS
    Threads,
    NoThread    \* the null thread pointer

VARIABLES
    wake_pending,   \* thread_t.wake_pending
    sleep           \* "no", "block" (in thread_block) or "timed" (in thread_sleep)

sleepVars == <<wake_pending, sleep>>

SleepInit ==
    /\ wake_pending = [t \in Threads |-> FALSE]
    /\ sleep = [t \in Threads |-> "no"]

SleepTypeOK ==
    /\ wake_pending \in [Threads -> BOOLEAN]
    /\ sleep \in [Threads -> {"no", "block", "timed"}]

Awake(t) == sleep[t] = "no"

(* A pending wake is used up by thread_block or thread_sleep, which return. *)
Consume(t) ==
    /\ Awake(t)
    /\ wake_pending[t]
    /\ wake_pending' = [wake_pending EXCEPT ![t] = FALSE]
    /\ UNCHANGED sleep

(* thread_block goes to sleep: never with a wake pending ...               *)
Block(t) ==
    /\ Awake(t)
    /\ ~wake_pending[t]
    /\ sleep' = [sleep EXCEPT ![t] = "block"]
    /\ UNCHANGED wake_pending

(* ... thread_sleep may: a wake can come after it looked.                  *)
Sleep(t) ==
    /\ Awake(t)
    /\ sleep' = [sleep EXCEPT ![t] = "timed"]
    /\ UNCHANGED wake_pending

(* A sleeping thread runs again: it was woken, its time is up, or a tick   *)
(* in the idle loop resumed it for no reason.                              *)
Resume(t) ==
    /\ ~Awake(t)
    /\ sleep' = [sleep EXCEPT ![t] = "no"]
    /\ wake_pending' = [wake_pending EXCEPT ![t] = FALSE]

(* vxThreadWake of the threads of S.                                       *)
Wake(S) ==
    /\ wake_pending' = [t \in Threads |-> t \in S \/ wake_pending[t]]
    /\ UNCHANGED sleep

SleepNext ==
    \/ \E t \in Threads : Consume(t) \/ Block(t) \/ Sleep(t) \/ Resume(t)
    \/ \E S \in SUBSET Threads : Wake(S)

SleepSpec == SleepInit /\ [][SleepNext]_sleepVars
=============================================================================
