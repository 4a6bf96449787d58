----------------------------- MODULE UserThreads -----------------------------
(***************************************************************************)
(* The threads of a user program inside the synchronisation functions of   *)
(* musl.  Each atomic or volatile access is a step; spinning before a wait *)
(* only delays it and is left out.  A behaviour is one of one kind of      *)
(* object, whose module gives the words, the labels and the registers.     *)
(***************************************************************************)
EXTENDS FutexContract, Integers

VARIABLES
    at,       \* the program point of each thread
    reg,      \* its local variables
    misled    \* a thread that a wake took out of the queue was told ETIMEDOUT

userVars == <<contractVars, at, reg, misled>>

Goto(t, l) == at' = [at EXCEPT ![t] = l]
Stored(a, v) == word' = [word EXCEPT ![a] = v]
Keep(t, r) == reg' = [reg EXCEPT ![t] = r]

(* One call of __timedwait or __futexwait: the kernel compares and queues, *)
(* or returns EAGAIN.                                                      *)
Wait(t, from, a, v, asleep, then) ==
    /\ at[t] = from
    /\ IF word[a] = v
       THEN EnterQueue(t, a, v) /\ Goto(t, asleep)
       ELSE Goto(t, then) /\ UNCHANGED waiting
    /\ UNCHANGED <<word, reg, misled>>

(* It returns 0, because of a wake or of nothing ...                       *)
WaitEnds(t, asleep, then) ==
    /\ at[t] = asleep
    /\ LeaveQueue(t)
    /\ Goto(t, then)
    /\ UNCHANGED <<word, reg, misled>>

(* ... or ETIMEDOUT, which the kernel also returns after a wake            *)
(* (Futex!TimeoutNotWoken is violated).                                    *)
WaitTimesOut(t, asleep, then) ==
    /\ at[t] = asleep
    /\ LeaveQueue(t)
    /\ Goto(t, then)
    /\ misled' = (misled \/ waiting[t] = Nowhere)
    /\ UNCHANGED <<word, reg>>

WakeStep(t, from, a, n, then) ==
    /\ at[t] = from
    /\ WakeQueue(a, n)
    /\ Goto(t, then)
    /\ UNCHANGED <<word, reg, misled>>

Everyone == Cardinality(Threads)     \* the count INT_MAX

(* Nobody is on the way to wake anybody: each thread is asleep in a queue  *)
(* or at a point where it may stay for ever.                               *)
Quiet(resting) == \A t \in Threads : at[t] \in resting \/ waiting[t] # Nowhere
=============================================================================
