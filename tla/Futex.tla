-------------------------------- MODULE Futex --------------------------------
(***************************************************************************)
(* The futex system call (kernel/sys/syscall/futex.c): a table of waiters  *)
(* under futex_lock, on top of the scheduler's sleep and wake.  A section  *)
(* under the lock is one step; the threads' own sleep and the steps of     *)
(* user code between the calls are steps of their own.                     *)
(***************************************************************************)
EXTENDS BlockWake, Naturals, FiniteSets

CONSTANTS
    Addresses,    \* user words
    MaxFutex,     \* MAX_FUTEX, the slots of the waiter table
    MaxValue      \* words hold 0 .. MaxValue

ASSUME FutexAssumption == MaxFutex \in Nat \ {0} /\ MaxValue \in Nat /\ NoThread \notin Threads
ASSUME UserAssumption == IsFiniteSet(Threads) /\ "none" \notin Addresses

VARIABLES
    word,         \* the user words
    futex_queue,  \* futex_queue[i] = [uaddr, thread]
    pc,           \* where the thread is in its call, "user" outside
    uaddr,        \* the argument uaddr of the call, kept by the waiter
    val,          \* the argument val
    timeout,      \* the argument timeout: "none", "short" (below 1 ms) or "long"
    my_waiter,    \* the local my_waiter: a slot, or 0
    fate          \* what a WAKE or REQUEUE did to the waiter: "none", "moved", "woken"

waitVars == <<pc, uaddr, val, timeout, my_waiter, fate>>
vars == <<sleepVars, word, futex_queue, waitVars>>

Slots == 1 .. MaxFutex
Values == 0 .. MaxValue
Empty == [uaddr |-> "none", thread |-> NoThread]
SlotsOf(t) == {i \in Slots : futex_queue[i].thread = t}
FreeSlots == SlotsOf(NoThread)
IsFirst(i, S) == i \in S /\ \A j \in S : i <= j

(* The slots the loop of FUTEX_WAKE and FUTEX_REQUEUE stops at.            *)
Queued(a) == {i \in Slots : futex_queue[i].thread # NoThread /\ futex_queue[i].uaddr = a}
FirstOf(S, n) == {i \in S : Cardinality({j \in S : j < i}) < n}

Init ==
    /\ SleepInit
    /\ word = [a \in Addresses |-> 0]
    /\ futex_queue = [i \in Slots |-> Empty]
    /\ pc = [t \in Threads |-> "user"]
    /\ uaddr = [t \in Threads |-> "none"]
    /\ val = [t \in Threads |-> 0]
    /\ timeout = [t \in Threads |-> "none"]
    /\ my_waiter = [t \in Threads |-> 0]
    /\ fate = [t \in Threads |-> "none"]

Goto(t, l) == pc' = [pc EXCEPT ![t] = l]

-----------------------------------------------------------------------------
(***************************************************************************)
(* FUTEX_WAIT.                                                             *)
(***************************************************************************)
WaitStart(t, a, v, limit) ==
    /\ pc[t] = "user"
    /\ wake_pending' = [wake_pending EXCEPT ![t] = FALSE]
    /\ uaddr' = [uaddr EXCEPT ![t] = a]
    /\ val' = [val EXCEPT ![t] = v]
    /\ timeout' = [timeout EXCEPT ![t] = limit]
    /\ my_waiter' = [my_waiter EXCEPT ![t] = 0]
    /\ Goto(t, "enqueue")
    /\ UNCHANGED <<sleep, word, futex_queue, fate>>

(* The call returns; its local variables end.                              *)
Return(t) ==
    /\ Goto(t, "user")
    /\ uaddr' = [uaddr EXCEPT ![t] = "none"]
    /\ val' = [val EXCEPT ![t] = 0]
    /\ timeout' = [timeout EXCEPT ![t] = "none"]
    /\ my_waiter' = [my_waiter EXCEPT ![t] = 0]
    /\ fate' = [fate EXCEPT ![t] = "none"]

(* Under futex_lock: the word is compared and a slot is taken, the one the *)
(* thread already has or the first free one.                               *)
TakeSlot(t, i) ==
    /\ my_waiter' = [my_waiter EXCEPT ![t] = i]
    /\ Goto(t, "sleep")
    /\ UNCHANGED <<uaddr, val, timeout, fate>>

WaitEnqueueUnchecked(t) ==     \* mutant: the word is not compared under the lock
    /\ pc[t] = "enqueue"
    /\ \E i \in Slots :
          /\ IsFirst(i, FreeSlots)
          /\ futex_queue' = [futex_queue EXCEPT ![i] = [uaddr |-> uaddr[t], thread |-> t]]
          /\ TakeSlot(t, i)
    /\ UNCHANGED <<sleepVars, word>>

WaitEnqueue(t) ==
    /\ pc[t] = "enqueue"
    /\ \/ /\ word[uaddr[t]] # val[t]
          /\ Return(t)      \* -EAGAIN
          /\ UNCHANGED futex_queue
       \/ /\ word[uaddr[t]] = val[t]
          /\ \E i \in Slots :
                /\ IF SlotsOf(t) # {}
                   THEN IsFirst(i, SlotsOf(t)) /\ UNCHANGED futex_queue
                   ELSE /\ IsFirst(i, FreeSlots)
                        /\ futex_queue' = [futex_queue EXCEPT ![i] = [uaddr |-> uaddr[t], thread |-> t]]
                /\ TakeSlot(t, i)
       \/ /\ word[uaddr[t]] = val[t]
          /\ SlotsOf(t) \cup FreeSlots = {}
          /\ Return(t)      \* -ENOMEM
          /\ UNCHANGED futex_queue
    /\ UNCHANGED <<sleepVars, word>>

(* thread_block when there is no timeout or one below a millisecond, and   *)
(* the check of wake_pending that begins thread_sleep.                     *)
WaitSleepReset(t) ==     \* mutant: wake_pending is reset only after the slot was taken
    /\ pc[t] = "sleep"
    /\ wake_pending' = [wake_pending EXCEPT ![t] = FALSE]
    /\ sleep' = [sleep EXCEPT ![t] = "block"]
    /\ Goto(t, "asleep")
    /\ UNCHANGED <<word, futex_queue, uaddr, val, timeout, my_waiter, fate>>

WaitSleep(t) ==
    /\ pc[t] = "sleep"
    /\ \/ Consume(t) /\ Goto(t, "check")
       \/ timeout[t] # "long" /\ Block(t) /\ Goto(t, "asleep")
       \/ timeout[t] = "long" /\ ~wake_pending[t] /\ Goto(t, "timer") /\ UNCHANGED sleepVars
    /\ UNCHANGED <<word, futex_queue, uaddr, val, timeout, my_waiter, fate>>

(* thread_sleep puts the thread to sleep; a wake may have come in between. *)
WaitTimer(t) ==
    /\ pc[t] = "timer"
    /\ Sleep(t)
    /\ Goto(t, "asleep")
    /\ UNCHANGED <<word, futex_queue, uaddr, val, timeout, my_waiter, fate>>

WaitResume(t) ==
    /\ pc[t] = "asleep"
    /\ Resume(t)
    /\ Goto(t, "check")
    /\ UNCHANGED <<word, futex_queue, uaddr, val, timeout, my_waiter, fate>>

(* A wait with a timeout tells a timeout from a wake by wake_pending.      *)
WaitCheck(t) ==
    /\ pc[t] = "check"
    /\ Goto(t, IF timeout[t] # "none" /\ ~wake_pending[t] THEN "timed_out" ELSE "cleanup")
    /\ UNCHANGED <<sleepVars, word, futex_queue, uaddr, val, timeout, my_waiter, fate>>

(* Under futex_lock again: the slot is given back if it is still the       *)
(* thread's.  The result is -ETIMEDOUT or 0.                               *)
WaitCleanupAny(t) ==     \* mutant: the slot is cleared whoever holds it
    /\ pc[t] \in {"timed_out", "cleanup"}
    /\ futex_queue' = [futex_queue EXCEPT ![my_waiter[t]] = Empty]
    /\ Return(t)
    /\ UNCHANGED <<sleepVars, word>>

WaitCleanup(t) ==
    /\ pc[t] \in {"timed_out", "cleanup"}
    /\ futex_queue' = [futex_queue EXCEPT ![my_waiter[t]] = IF @.thread = t THEN Empty ELSE @]
    /\ Return(t)
    /\ UNCHANGED <<sleepVars, word>>

-----------------------------------------------------------------------------
(***************************************************************************)
(* FUTEX_WAKE wakes val waiters, and one when val is 0; FUTEX_REQUEUE      *)
(* wakes n of them and moves m others to a second address.                 *)
(***************************************************************************)
ThreadsIn(S) == {futex_queue[i].thread : i \in S}

TakeOut(S, M) ==
    /\ Wake(ThreadsIn(S))
    /\ fate' = [t \in Threads |-> IF t \in ThreadsIn(S) THEN "woken"
                                  ELSE IF t \in ThreadsIn(M) THEN "moved" ELSE fate[t]]

FutexWake(a, n) ==
    LET S == FirstOf(Queued(a), IF n = 0 THEN 1 ELSE n)
    IN  /\ TakeOut(S, {})
        /\ futex_queue' = [i \in Slots |-> IF i \in S THEN Empty ELSE futex_queue[i]]

WakeCall(t, a, n) ==
    /\ pc[t] = "user"
    /\ FutexWake(a, n)
    /\ UNCHANGED <<word, pc, uaddr, val, timeout, my_waiter>>

(* FUTEX_CMP_REQUEUE does the same or, when the word is not val3, nothing. *)
FutexRequeue(t, a, b, n, m) ==
    /\ pc[t] = "user"
    /\ LET S == FirstOf(Queued(a), n)
           M == FirstOf(Queued(a) \ S, m)
       IN  /\ TakeOut(S, M)
           /\ futex_queue' = [i \in Slots |->
                  IF i \in S THEN Empty
                  ELSE IF i \in M THEN [futex_queue[i] EXCEPT !.uaddr = b]
                  ELSE futex_queue[i]]
    /\ UNCHANGED <<word, pc, uaddr, val, timeout, my_waiter>>

-----------------------------------------------------------------------------
(***************************************************************************)
(* The callers: a thread that changes a word then wakes every waiter on    *)
(* it; other code of the kernel wakes threads for its own reasons.         *)
(***************************************************************************)
Store(t, a, v) ==
    /\ pc[t] = "user"
    /\ word' = [word EXCEPT ![a] = v]
    /\ Goto(t, "stored")
    /\ uaddr' = [uaddr EXCEPT ![t] = a]
    /\ UNCHANGED <<sleepVars, futex_queue, val, timeout, my_waiter, fate>>

WakeAll(t) ==
    /\ pc[t] = "stored"
    /\ FutexWake(uaddr[t], MaxFutex)
    /\ Goto(t, "user")
    /\ uaddr' = [uaddr EXCEPT ![t] = "none"]
    /\ UNCHANGED <<word, val, timeout, my_waiter>>

OtherWake(t) ==
    /\ Wake({t})
    /\ UNCHANGED <<word, futex_queue, waitVars>>

Wait(t) ==
    \/ WaitEnqueue(t) \/ WaitSleep(t) \/ WaitTimer(t) \/ WaitCheck(t) \/ WaitCleanup(t)

Waiter(t) ==
    \/ \E a \in Addresses, v \in Values, limit \in {"none", "short", "long"} :
           WaitStart(t, a, v, limit)
    \/ Wait(t) \/ WaitResume(t) \/ OtherWake(t)

Waker(t) ==
    \/ \E a \in Addresses, n \in 0 .. MaxFutex : WakeCall(t, a, n)
    \/ \E a, b \in Addresses, n, m \in 0 .. MaxFutex : FutexRequeue(t, a, b, n, m)
    \/ \E a \in Addresses, v \in Values : Store(t, a, v)
    \/ WakeAll(t)

Next == \E t \in Threads : Waiter(t) \/ Waker(t)

Spec == Init /\ [][Next]_vars

(* A call that has begun goes on; a sleeper is resumed once it is woken or *)
(* its time is up (Scheduler!WokenRuns and SleepEnds).                     *)
Due(t) == wake_pending[t] \/ sleep[t] = "timed"

Fairness == \A t \in Threads : WF_vars(Wait(t)) /\ WF_vars(Due(t) /\ WaitResume(t))

-----------------------------------------------------------------------------
TypeOK ==
    /\ SleepTypeOK
    /\ word \in [Addresses -> Values]
    /\ futex_queue \in [Slots -> [uaddr : Addresses, thread : Threads] \cup {Empty}]
    /\ pc \in [Threads -> {"user", "enqueue", "sleep", "timer", "asleep", "check", "timed_out",
                           "cleanup", "stored"}]
    /\ uaddr \in [Threads -> Addresses \cup {"none"}]
    /\ val \in [Threads -> Values]
    /\ timeout \in [Threads -> {"none", "short", "long"}]
    /\ my_waiter \in [Threads -> Slots \cup {0}]
    /\ fate \in [Threads -> {"none", "moved", "woken"}]

InTable(t) == pc[t] \in {"sleep", "timer", "asleep", "check", "timed_out", "cleanup"}

(* A slot of the waiter table belongs to a thread that is inside           *)
(* FUTEX_WAIT, and it is the slot that thread will give back.              *)
SlotsOwned ==
    \A i \in Slots, t \in Threads :
        futex_queue[i].thread = t => InTable(t) /\ my_waiter[t] = i

(* A thread inside FUTEX_WAIT that no wake is on its way to can still be   *)
(* found in the table, so a later FUTEX_WAKE reaches it.                   *)
SleeperReachable ==
    \A t \in Threads :
        ~Awake(t) /\ ~wake_pending[t] => futex_queue[my_waiter[t]].thread = t

(* The waiter table is exact: its slots are those of the threads inside    *)
(* FUTEX_WAIT, and it reaches every one of them that has to be woken.      *)
TableExact == SlotsOwned /\ SleeperReachable

(* The futex contract: a thread that waits for a word to change from val   *)
(* does not sleep through the change.  Whoever changed it has yet to wake  *)
(* the waiters, or the wake is pending.                                    *)
NoMissedWake ==
    \A t \in Threads :
        ~Awake(t) /\ fate[t] = "none" /\ word[uaddr[t]] # val[t]
            => \/ wake_pending[t]
               \/ \E s \in Threads : pc[s] = "stored" /\ uaddr[s] = uaddr[t]

(* A waiter that FUTEX_WAKE has taken out of the table returns.            *)
WokenReturns == \A t \in Threads : (fate[t] = "woken") ~> pc[t] = "user"

(* The table as user space sees it: the word each thread is queued on.     *)
QueuedOn(t) == {futex_queue[i].uaddr : i \in SlotsOf(t)}

Contract ==
    INSTANCE FutexContract WITH
        Nowhere <- "none",
        waiting <- [t \in Threads |-> IF QueuedOn(t) = {} THEN "none" ELSE CHOOSE a \in QueuedOn(t) : TRUE]

(* The table implements the futex contract that the C library is written   *)
(* against: a thread enters the queue of a word only while the word has    *)
(* the value it gave, FUTEX_WAKE and FUTEX_REQUEUE take out as many as     *)
(* there are up to their counts, and only the thread itself leaves besides.*)
ImplementsContract == Contract!ContractInit /\ [][Contract!ContractNext(val)]_(Contract!contractVars)

(* What the comment on the check after the sleep says: a wait that returns *)
(* ETIMEDOUT was ended by its timeout, not by a wake.                      *)
TimeoutNotWoken == \A t \in Threads : pc[t] = "timed_out" => fate[t] # "woken"
=============================================================================
