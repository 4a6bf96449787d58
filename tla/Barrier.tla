------------------------------- MODULE Barrier -------------------------------
(***************************************************************************)
(* pthread_barrier_wait on a private barrier                               *)
(* (musl/src/thread/pthread_barrier_wait.c).  The first thread to enter    *)
(* owns the instance, which is a variable on its stack: the others must be *)
(* done with it before the owner returns.                                  *)
(***************************************************************************)
EXTENDS UserThreads, TLC

BLock == <<"_b_lock", 0>>
BWaiters == <<"_b_waiters", 0>>
BInst == <<"_b_inst", 0>>         \* the owner of the instance, or "null"
BLimit == <<"_b_limit", 0>>       \* the count of the barrier less one

(* struct instance of thread o, and the threads that have entered it.      *)
ICount(o) == <<"count", o>>
ILast(o) == <<"last", o>>
IWaiters(o) == <<"waiters", o>>
IFinished(o) == <<"finished", o>>
Entered(o) == <<"entered", o>>

BarrierInit ==
    /\ ContractInit
    /\ \E limit \in 1 .. Cardinality(Threads) - 1 :
          word = [a \in {ICount(o) : o \in Threads} \cup {ILast(o) : o \in Threads}
                        \cup {IWaiters(o) : o \in Threads} \cup {IFinished(o) : o \in Threads} |-> 0]
                 @@ [a \in {Entered(o) : o \in Threads} |-> {}]
                 @@ BLock :> 0 @@ BWaiters :> 0 @@ BInst :> "null" @@ BLimit :> limit
    /\ at = [t \in Threads |-> "out"]
    /\ reg = [t \in Threads |-> "null"]
    /\ misled = FALSE

-----------------------------------------------------------------------------
(* __wait(addr, waiters, val): it returns at once when it sees another     *)
(* value before it has counted itself.                                     *)
Counts(t, from, addr, waiters, val, sleep, then) ==
    /\ at[t] = from
    /\ \/ Stored(waiters, word[waiters] + 1) /\ Goto(t, sleep)
       \/ word[addr] # val /\ Goto(t, then) /\ UNCHANGED word
    /\ UNCHANGED <<waiting, reg, misled>>

Uncounts(t, from, waiters, then) ==
    /\ at[t] = from
    /\ Stored(waiters, word[waiters] - 1)
    /\ Goto(t, then)
    /\ UNCHANGED <<waiting, reg, misled>>

Enter(t) ==
    /\ at[t] = "out"
    /\ Goto(t, "lock")
    /\ UNCHANGED <<contractVars, reg, misled>>

LockBarrier(t) ==
    /\ at[t] = "lock"
    /\ Stored(BLock, 1)
    /\ Goto(t, IF word[BLock] = 0 THEN "in" ELSE "lock count")
    /\ UNCHANGED <<waiting, reg, misled>>

WaitLock(t) ==
    \/ Counts(t, "lock count", BLock, BWaiters, 1, "lock wait", "lock")
    \/ Wait(t, "lock wait", BLock, 1, "lock asleep", "lock dec")
    \/ WaitEnds(t, "lock asleep", "lock wait")
    \/ Uncounts(t, "lock dec", BWaiters, "lock")

(* Under the lock of the barrier.  Instance owner ...                      *)
OwnInstance(t) ==
    /\ at[t] = "in"
    /\ word[BInst] = "null"
    /\ word' = [word EXCEPT ![BInst] = t, ![ICount(t)] = 0, ![ILast(t)] = 0, ![IWaiters(t)] = 0,
                            ![IFinished(t)] = 0, ![Entered(t)] = {t}]
    /\ reg' = [reg EXCEPT ![t] = t]
    /\ Goto(t, "own unlock")
    /\ UNCHANGED <<waiting, misled>>

(* ... and the others, the last of which detaches the instance.            *)
LastByCount(n) == n = word[BLimit] + 1     \* mutant: the limit taken for the count

IsLast(n) == n = word[BLimit]

JoinInstance(t) ==
    LET o == word[BInst]
        n == word[ICount(o)] + 1
    IN  /\ at[t] = "in"
        /\ o # "null"
        /\ word' = [word EXCEPT ![ICount(o)] = n, ![Entered(o)] = @ \cup {t},
                                ![BInst] = IF IsLast(n) THEN "null" ELSE @]
        /\ reg' = [reg EXCEPT ![t] = o]
        /\ Goto(t, IF IsLast(n) THEN "last unlock" ELSE "join unlock")
        /\ UNCHANGED <<waiting, misled>>

(* a_store(&b->_b_lock, 0), the load of _b_waiters, and the wake.          *)
Unlocks(t, from, look, wake, then) ==
    \/ /\ at[t] = from
       /\ Stored(BLock, 0)
       /\ Goto(t, look)
       /\ UNCHANGED <<waiting, reg, misled>>
    \/ /\ at[t] = look
       /\ Goto(t, IF word[BWaiters] > 0 THEN wake ELSE then)
       /\ UNCHANGED <<contractVars, reg, misled>>
    \/ WakeStep(t, wake, BLock, 1, then)

UnlockBarrier(t) ==
    \/ Unlocks(t, "own unlock", "own look", "own wake", "own inc")
    \/ Unlocks(t, "last unlock", "last look", "last wake", "set last")
    \/ Unlocks(t, "join unlock", "join look", "join wake", "join count")

(* The owner, which may spin for a while, waits for finished to become 2.  *)
OwnerReturns(t) == Goto(t, "out") /\ reg' = [reg EXCEPT ![t] = "null"]

OwnerInc(t) ==
    /\ at[t] = "own inc"
    /\ Stored(IFinished(t), word[IFinished(t)] + 1)
    /\ Goto(t, "own wait")
    /\ UNCHANGED <<waiting, reg, misled>>

OwnerWait(t) ==
    \/ word[IFinished(t)] = 1 /\ Wait(t, "own wait", IFinished(t), 1, "own asleep", "own wait")
    \/ WaitEnds(t, "own asleep", "own wait")
    \/ /\ at[t] = "own wait"
       /\ word[IFinished(t)] # 1
       /\ OwnerReturns(t)
       /\ UNCHANGED <<contractVars, misled>>

(* The last thread lets the others go ...                                  *)
SetLast(t) ==
    \/ /\ at[t] = "set last"
       /\ Stored(ILast(reg[t]), 1)
       /\ Goto(t, "look last")
       /\ UNCHANGED <<waiting, reg, misled>>
    \/ /\ at[t] = "look last"
       /\ Goto(t, IF word[IWaiters(reg[t])] > 0 THEN "wake last" ELSE "leave")
       /\ UNCHANGED <<contractVars, reg, misled>>
    \/ WakeStep(t, "wake last", ILast(reg[t]), Everyone, "leave")

WaitLast(t) ==
    \/ Counts(t, "join count", ILast(reg[t]), IWaiters(reg[t]), 0, "join wait", "leave")
    \/ Wait(t, "join wait", ILast(reg[t]), 0, "join asleep", "join dec")
    \/ WaitEnds(t, "join asleep", "join wait")
    \/ Uncounts(t, "join dec", IWaiters(reg[t]), "leave")

(* ... and the last to leave lets the owner go.                            *)
Leave(t) ==
    \/ /\ at[t] = "leave"
       /\ Stored(ICount(reg[t]), word[ICount(reg[t])] - 1)
       /\ IF word[ICount(reg[t])] = 1 THEN Goto(t, "finish") /\ UNCHANGED reg ELSE OwnerReturns(t)
       /\ UNCHANGED <<waiting, misled>>
    \/ /\ at[t] = "finish"
       /\ Stored(IFinished(reg[t]), word[IFinished(reg[t])] + 1)
       /\ IF word[IFinished(reg[t])] # 0 THEN Goto(t, "wake owner") /\ UNCHANGED reg ELSE OwnerReturns(t)
       /\ UNCHANGED <<waiting, misled>>
    \/ /\ at[t] = "wake owner"
       /\ WakeQueue(IFinished(reg[t]), 1)
       /\ OwnerReturns(t)
       /\ UNCHANGED <<word, misled>>

BarrierNext ==
    \E t \in Threads :
        \/ Enter(t) \/ LockBarrier(t) \/ WaitLock(t) \/ OwnInstance(t) \/ JoinInstance(t)
        \/ UnlockBarrier(t) \/ OwnerInc(t) \/ OwnerWait(t) \/ SetLast(t) \/ WaitLast(t) \/ Leave(t)

-----------------------------------------------------------------------------
BarrierTypeOK ==
    /\ word[BLock] \in {0, 1} /\ word[BWaiters] \in 0 .. Cardinality(Threads)
    /\ word[BInst] \in Threads \cup {"null"}
    /\ \A o \in Threads : /\ word[ICount(o)] \in 0 .. word[BLimit]
                          /\ word[ILast(o)] \in {0, 1}
                          /\ word[IFinished(o)] \in 0 .. 2

Complete(o) == Cardinality(word[Entered(o)]) = word[BLimit] + 1
Past(t) == at[t] \in {"leave", "finish"}

(* Nobody is let past the barrier before as many threads as its count have *)
(* entered the same instance, and the owner is the last to return.         *)
BarrierHolds ==
    /\ \A t \in Threads : Past(t) => Complete(reg[t])
    /\ \A o \in Threads :
          at[o] = "own wait" /\ word[IFinished(o)] = 2 =>
              Complete(o) /\ \A t \in Threads \ {o} : reg[t] = o => at[t] = "wake owner"

(* The instance on the owner's stack is used only while the owner is in    *)
(* the call; the last wake needs no more than its address.                 *)
InstanceLive ==
    \A t \in Threads :
        reg[t] # "null" /\ at[t] # "wake owner" => reg[reg[t]] = reg[t] /\ at[reg[t]] # "out"

(* Nobody sleeps in a complete instance, or on a free lock of the barrier. *)
BarrierNotStuck ==
    Quiet({"out"}) =>
        \A t \in Threads : waiting[t] # Nowhere => waiting[t] # BLock /\ ~Complete(reg[t])
=============================================================================
