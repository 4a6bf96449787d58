----------------------------- MODULE InternalLock -----------------------------
(***************************************************************************)
(* The lock musl uses inside itself (musl/src/thread/__lock.c), in a       *)
(* program with several threads.  The int is a flag, INT_MIN, and a        *)
(* congestion count.                                                       *)
(***************************************************************************)
EXTENDS UserThreads, TLC

CONSTANT FastTries     \* attempts before the thread queues, 10 in the code

ASSUME FastAssumption == FastTries \in Nat

Flag == <<"l", 0>>
Congestion(n) == [held |-> FALSE, n |-> n]
LockedWith(n) == [held |-> TRUE, n |-> n]

ILockRegs == [current |-> Congestion(0), i |-> 0]

ILockInit ==
    /\ ContractInit
    /\ word = Flag :> Congestion(0)
    /\ at = [t \in Threads |-> "out"]
    /\ reg = [t \in Threads |-> ILockRegs]
    /\ misled = FALSE

ILockReturn(t, l) == Goto(t, l) /\ Keep(t, ILockRegs)

-----------------------------------------------------------------------------
(* A compare-and-swap that takes the lock, or loads the value.             *)
ILockTake(t, old, new, next, i) ==
    IF word[Flag] = old
    THEN Stored(Flag, new) /\ ILockReturn(t, "held")
    ELSE Goto(t, next) /\ Keep(t, [current |-> word[Flag], i |-> i]) /\ UNCHANGED word

ILockFast(t) ==
    /\ at[t] = "out"
    /\ ILockTake(t, Congestion(0), LockedWith(1), "spin", 0)
    /\ UNCHANGED <<waiting, misled>>

(* current as if the holder had left.                                      *)
Without(c) == IF c.held THEN c.n - 1 ELSE c.n

ILockSpin(t) ==
    LET n == Without(reg[t].current) IN
    /\ at[t] = "spin"
    /\ reg[t].i < FastTries
    /\ ILockTake(t, Congestion(n), LockedWith(n + 1), "spin", reg[t].i + 1)
    /\ UNCHANGED <<waiting, misled>>

ILockAdd(t) ==
    LET new == [word[Flag] EXCEPT !.n = @ + 1] IN
    /\ at[t] = "spin"
    /\ reg[t].i = FastTries
    /\ Stored(Flag, new)
    /\ Goto(t, "loop")
    /\ Keep(t, [current |-> new, i |-> 0])
    /\ UNCHANGED <<waiting, misled>>

ILockWait(t) ==
    \/ reg[t].current.held /\ Wait(t, "loop", Flag, reg[t].current, "asleep", "take")
    \/ WaitEnds(t, "asleep", "take")

TakeQueued(n) == LockedWith(n)

ILockLoop(t) ==
    LET n == Without(reg[t].current) IN
    /\ at[t] = "take" \/ (at[t] = "loop" /\ ~reg[t].current.held)
    /\ ILockTake(t, Congestion(n), TakeQueued(n), "loop", 0)
    /\ UNCHANGED <<waiting, misled>>

-----------------------------------------------------------------------------
UnlockWakes(old) == old # LockedWith(1)

IUnlock(t) ==
    /\ at[t] = "held"
    /\ Stored(Flag, Congestion(word[Flag].n - 1))
    /\ Goto(t, IF UnlockWakes(word[Flag]) THEN "wake" ELSE "out")
    /\ UNCHANGED <<waiting, reg, misled>>

IUnlockWake(t) == WakeStep(t, "wake", Flag, 1, "out")

ILockNext ==
    \E t \in Threads :
        \/ ILockFast(t) \/ ILockSpin(t) \/ ILockAdd(t) \/ ILockWait(t) \/ ILockLoop(t)
        \/ IUnlock(t) \/ IUnlockWake(t)

-----------------------------------------------------------------------------
ILockTypeOK ==
    /\ word[Flag] \in [held : BOOLEAN, n : 0 .. Cardinality(Threads)]
    /\ \A t \in Threads : waiting[t] \in {Nowhere, Flag}

(* One thread holds the lock, the flag says so, and the congestion is the  *)
(* number of threads inside, as the comment in __lock.c has it.            *)
ILockExact ==
    LET holders == {t \in Threads : at[t] = "held"}
        inside == {t \in Threads : at[t] \in {"held", "loop", "asleep", "take"}}
    IN  /\ Cardinality(holders) = IF word[Flag].held THEN 1 ELSE 0
        /\ word[Flag].n = Cardinality(inside)

(* Nobody sleeps on a lock that is free.                                   *)
ILockNotStuck == ~word[Flag].held /\ Quiet({"out"}) => WaitingOn(Flag) = {}
=============================================================================
