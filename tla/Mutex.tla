-------------------------------- MODULE Mutex --------------------------------
(***************************************************************************)
(* pthread_mutex_lock, timedlock, trylock and unlock (musl/src/thread) on  *)
(* one private mutex that is neither robust nor priority-inheriting.       *)
(* _m_lock is the owner and the waiters bit 0x80000000; the owner of a     *)
(* normal mutex is the constant EBUSY.  A failed attempt has no effect, so *)
(* the attempts before the first wait are one.                             *)
(***************************************************************************)
EXTENDS UserThreads, TLC

CONSTANT MaxCount     \* INT_MAX, the largest _m_count

ASSUME MutexAssumption == MaxCount \in Nat

Lock == <<"_m_lock", 0>>
Waiters == <<"_m_waiters", 0>>
Count == <<"_m_count", 0>>
Type == <<"_m_type", 0>>

Unlocked == [own |-> "nobody", bit |-> FALSE]
OwnerOf(t) == IF word[Type] = "normal" THEN "EBUSY" ELSE t

MutexWords(type) ==
    Lock :> Unlocked @@ Waiters :> 0 @@ Count :> 0 @@ Type :> type

MutexRegs == [old |-> Unlocked, waiters |-> 0, timed |-> FALSE, then |-> "out", failed |-> "out"]

(* A call returns to l, and its local variables end.                       *)
Return(t, l) == Goto(t, l) /\ Keep(t, MutexRegs @@ reg[t])

-----------------------------------------------------------------------------
(* The lock functions return to `then' with the mutex and to `failed'      *)
(* without it.                                                             *)
CallLock(t, timed, then, failed) ==
    /\ Goto(t, "try")
    /\ Keep(t, [reg[t] EXCEPT !.timed = timed, !.then = then, !.failed = failed])

(* __pthread_mutex_trylock: the load and the compare-and-swap that follows *)
(* it are one step, as a swap that fails and a load that sees another      *)
(* owner both return EBUSY.                                                *)
Takes(t) == word[Lock] = Unlocked
Again(t) == word[Type] = "recursive" /\ word[Lock].own = t

TryLock(t, then, failed) ==
    \/ /\ Takes(t)
       /\ Stored(Lock, [own |-> OwnerOf(t), bit |-> FALSE])
       /\ Return(t, then)
    \/ /\ Again(t)
       /\ word[Count] < MaxCount
       /\ Stored(Count, word[Count] + 1)
       /\ Return(t, then)
    \/ Again(t) /\ word[Count] >= MaxCount /\ Return(t, failed) /\ UNCHANGED word      \* EAGAIN

Busy(t) == ~Takes(t) /\ ~Again(t)

LockTry(t) ==
    /\ at[t] = "try"
    /\ \/ TryLock(t, reg[t].then, reg[t].failed)
       \/ Busy(t) /\ Goto(t, "load") /\ UNCHANGED <<word, reg>>
    /\ UNCHANGED <<waiting, misled>>

(* The body of the loop of __pthread_mutex_timedlock.                      *)
LockLoad(t) ==
    LET r == word[Lock] IN
    /\ at[t] = "load"
    /\ \/ r = Unlocked /\ Goto(t, "try") /\ UNCHANGED reg
       \/ word[Type] = "errorcheck" /\ r.own = t /\ Return(t, reg[t].failed)     \* EDEADLK
       \/ /\ r # Unlocked /\ ~(word[Type] = "errorcheck" /\ r.own = t)
          /\ Goto(t, "inc")
          /\ Keep(t, [reg[t] EXCEPT !.old = r])
    /\ UNCHANGED <<contractVars, misled>>

LockInc(t) ==
    /\ at[t] = "inc"
    /\ Stored(Waiters, word[Waiters] + 1)
    /\ Goto(t, "mark")
    /\ UNCHANGED <<waiting, reg, misled>>

Marked(r) == [r EXCEPT !.bit = TRUE]

LockMarkStore(t) ==     \* mutant: a store instead of a compare-and-swap
    /\ at[t] = "mark"
    /\ Stored(Lock, Marked(reg[t].old))
    /\ Goto(t, "lock")
    /\ UNCHANGED <<waiting, reg, misled>>

LockMark(t) ==
    /\ at[t] = "mark"
    /\ Stored(Lock, IF word[Lock] = reg[t].old THEN Marked(reg[t].old) ELSE word[Lock])
    /\ Goto(t, "lock")
    /\ UNCHANGED <<waiting, reg, misled>>

LockWait(t) ==
    \/ Wait(t, "lock", Lock, Marked(reg[t].old), "lock asleep", "dec")
    \/ WaitEnds(t, "lock asleep", "dec")
    \/ reg[t].timed /\ WaitTimesOut(t, "lock asleep", "give up")

LockDec(t) ==
    /\ at[t] \in {"dec", "give up"}
    /\ Stored(Waiters, word[Waiters] - 1)
    /\ IF at[t] = "dec"
       THEN Goto(t, "try") /\ Keep(t, [reg[t] EXCEPT !.old = Unlocked])
       ELSE Return(t, reg[t].failed)
    /\ UNCHANGED <<waiting, misled>>

-----------------------------------------------------------------------------
(* __pthread_mutex_unlock.  The robust list of the thread is left out.     *)
CallUnlock(t, then) ==
    /\ Goto(t, "unlock")
    /\ Keep(t, [reg[t] EXCEPT !.waiters = word[Waiters], !.then = then, !.failed = then])

Unlock(t) ==
    /\ at[t] = "unlock"
    /\ \/ /\ word[Type] # "normal" /\ word[Lock].own # t     \* EPERM
          /\ Return(t, reg[t].then)
          /\ UNCHANGED word
       \/ /\ Again(t) /\ word[Count] > 0
          /\ Stored(Count, word[Count] - 1)
          /\ Return(t, reg[t].then)
       \/ /\ word[Type] = "normal" \/ word[Lock].own = t
          /\ ~(Again(t) /\ word[Count] > 0)
          /\ Stored(Lock, Unlocked)
          /\ IF reg[t].waiters > 0 \/ word[Lock].bit
             THEN Goto(t, "unlock wake") /\ UNCHANGED reg
             ELSE Return(t, reg[t].then)
    /\ UNCHANGED <<waiting, misled>>

UnlockWake(t) ==
    /\ at[t] = "unlock wake"
    /\ WakeQueue(Lock, 1)
    /\ Return(t, reg[t].then)
    /\ UNCHANGED <<word, misled>>

MutexStep(t) ==
    \/ LockTry(t) \/ LockLoad(t) \/ LockInc(t) \/ LockMark(t) \/ LockWait(t) \/ LockDec(t)
    \/ Unlock(t) \/ UnlockWake(t)

-----------------------------------------------------------------------------
(* The program: a thread that is not in a call, with or without the mutex. *)
(* It does not lock a normal mutex that it has, which would wait for ever. *)
(* pthread_mutex_lock is a timedlock that does not time out.               *)
UseMutex(t) ==
    /\ \/ at[t] = "out" /\ CallLock(t, TRUE, "held", "out")
       \/ at[t] = "held" /\ word[Type] # "normal" /\ CallLock(t, FALSE, "held", "held")
       \/ at[t] = "out" /\ word[Type] # "normal" /\ CallUnlock(t, "out")
       \/ at[t] = "held" /\ CallUnlock(t, IF word[Count] > 0 THEN "held" ELSE "out")
    /\ UNCHANGED <<contractVars, misled>>

(* pthread_mutex_trylock returns at once.                                  *)
UseTryLock(t) ==
    /\ at[t] = "out"
    /\ TryLock(t, "held", "out") \/ (Busy(t) /\ UNCHANGED <<word, at, reg>>)
    /\ UNCHANGED <<waiting, misled>>

MutexInit ==
    /\ ContractInit
    /\ word \in {MutexWords(type) : type \in {"normal", "recursive", "errorcheck"}}
    /\ at = [t \in Threads |-> "out"]
    /\ reg = [t \in Threads |-> MutexRegs]
    /\ misled = FALSE

MutexNext == \E t \in Threads : MutexStep(t) \/ UseMutex(t) \/ UseTryLock(t)

-----------------------------------------------------------------------------
MutexTypeOK ==
    /\ word[Lock] \in [own : {"nobody", "EBUSY"} \cup Threads, bit : BOOLEAN]
    /\ word[Waiters] \in 0 .. Cardinality(Threads)
    /\ word[Count] \in 0 .. MaxCount
    /\ \A t \in Threads : waiting[t] \in {Nowhere, Lock}

Has(t) ==
    \/ at[t] = "held"
    \/ word[Lock].own = t
    \/ at[t] = "unlock" /\ word[Type] = "normal"

(* One thread at a time is between lock and unlock, and the lock word says *)
(* so; also while others give up, time out or are woken for nothing.       *)
MutexExclusion ==
    /\ \A t, u \in Threads : Has(t) /\ Has(u) => t = u
    /\ \A t \in Threads : at[t] = "held" => word[Lock].own = OwnerOf(t)

(* A thread does not sleep on a free mutex with nobody to wake it: unless  *)
(* the wake went to a thread that was told it had timed out.               *)
MutexNotStuck ==
    word[Lock] = Unlocked /\ Quiet({"out"}) /\ ~misled => WaitingOn(Lock) = {}
=============================================================================
