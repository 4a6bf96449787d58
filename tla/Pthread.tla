------------------------------- MODULE Pthread -------------------------------
(***************************************************************************)
(* The life of a thread: pthread_create, pthread_exit, pthread_join and    *)
(* pthread_detach of musl, over the clone, set_tid_address and exit calls  *)
(* of this kernel.  A thread is linked into the list of threads under      *)
(* __thread_list_lock, unlinks itself, and leaves the lock to the kernel,  *)
(* which clears it when the thread exits.  A thread's name is its tid, and *)
(* names its stack and its struct pthread.                                 *)
(***************************************************************************)
EXTENDS UserThreads, TLC

Tl == <<"__thread_list_lock", 0>>
TlWaiters == <<"tl_lock_waiters", 0>>
TlCount == <<"tl_lock_count", 0>>
NeedLocks == <<"need_locks", 0>>
MinusOne == <<"threads_minus_1", 0>>
Global == <<"lock", 0>>               \* some lock taken with LOCK()
List == <<"list", 0>>                 \* the threads that are linked
Maps == <<"maps", 0>>                 \* those whose stack is mapped
First == <<"main", 0>>                \* main's struct pthread is never unmapped
DetachState(n) == <<"detach_state", n>>
ControlOf(n) == <<"control", n>>        \* args->control
Claimed == <<"claimed", 0>>           \* (ghost) not, or no longer, to be joined or detached
Stomped == <<"stomped", 0>>           \* (ghost) a call cleared the list lock of another
Nobody == "0"

With(old, new) == word' = new @@ old

PtRegs == [then |-> "", other |-> Nobody, val |-> Nobody, state |-> "EXITED", flag |-> FALSE]

(* A process that execve or fork has just made, with the value of the list *)
(* lock that is left behind.                                               *)
PthreadStart(m, holder) ==
    /\ ContractInit
    /\ at = [t \in Threads |-> IF t = m THEN "run" ELSE "none"]
    /\ reg = [t \in Threads |-> PtRegs]
    /\ misled = FALSE
    /\ word = [a \in {DetachState(n) : n \in Threads} |-> IF a = DetachState(m) THEN "JOINABLE" ELSE "EXITED"]
              @@ [a \in {ControlOf(n) : n \in Threads} |-> 0]
              @@ (Tl :> holder @@ TlWaiters :> 0 @@ TlCount :> 0 @@ NeedLocks :> 0 @@ MinusOne :> 0
                  @@ Global :> Nobody @@ List :> {m} @@ Maps :> {m} @@ First :> m
                  @@ Claimed :> {} @@ Stomped :> FALSE)

(* __init_tp: set_tid_address stores the tid at the address it is given.   *)
ExecInit == \E m \in Threads : PthreadStart(m, m)

(* __post_Fork stores 0 behind it.                                         *)
PthreadInit == \E m \in Threads : PthreadStart(m, Nobody)

-----------------------------------------------------------------------------
(* __tl_lock.  Whoever fails counts themself and waits for the value seen. *)
TlLock(t) ==
    /\ at[t] = "tl"
    /\ CASE word[Tl] = t -> /\ Stored(TlCount, word[TlCount] + 1)
                            /\ Goto(t, reg[t].then) /\ UNCHANGED reg
         [] word[Tl] = Nobody -> Stored(Tl, t) /\ Goto(t, reg[t].then) /\ UNCHANGED reg
         [] OTHER -> /\ Stored(TlWaiters, word[TlWaiters] + 1)
                     /\ Goto(t, "tl wait") /\ Keep(t, [reg[t] EXCEPT !.val = word[Tl]])
    /\ UNCHANGED <<waiting, misled>>

TlWait(t) ==
    \/ Wait(t, "tl wait", Tl, reg[t].val, "tl asleep", "tl dec")
    \/ WaitEnds(t, "tl asleep", "tl wait")

TlDec(t) ==
    /\ at[t] = "tl dec"
    /\ Stored(TlWaiters, word[TlWaiters] - 1)
    /\ Goto(t, "tl")
    /\ Keep(t, [reg[t] EXCEPT !.val = Nobody])
    /\ UNCHANGED <<waiting, misled>>

(* __tl_unlock, behind which the thread goes to reg.then.                  *)
TlUnlock(t) ==
    /\ at[t] = "tl unlock"
    /\ IF word[TlCount] > 0
       THEN Stored(TlCount, word[TlCount] - 1) /\ Goto(t, reg[t].then)
       ELSE Stored(Tl, Nobody) /\ Goto(t, "tl wake")
    /\ UNCHANGED <<waiting, reg, misled>>

TlWake(t) == WakeStep(t, "tl wake", Tl, IF word[TlWaiters] > 0 THEN 1 ELSE 0, reg[t].then)

Unlocking(t, then) == Goto(t, "tl unlock") /\ Keep(t, [reg[t] EXCEPT !.then = then])

-----------------------------------------------------------------------------
(* pthread_create of thread n.  attr asks for a detached thread, or for    *)
(* explicit scheduling, which this kernel refuses (unknown system call).   *)
Create(t, n) ==
    /\ at[t] = "run" /\ at[n] = "none" /\ n \notin word[Maps]
    /\ \E d \in {"JOINABLE", "DETACHED"}, sched \in BOOLEAN :
          /\ With(word, Maps :> word[Maps] \cup {n} @@ Claimed :> word[Claimed] \cup {n}
                        @@ DetachState(n) :> d @@ ControlOf(n) :> IF sched THEN 1 ELSE 0)
          /\ Keep(t, [reg[t] EXCEPT !.then = "clone", !.other = n, !.state = d, !.flag = sched])
    /\ Goto(t, "tl")
    /\ UNCHANGED <<waiting, misled>>

Clone(t) ==
    /\ at[t] = "clone"
    /\ With(word, MinusOne :> word[MinusOne] + 1
                  @@ NeedLocks :> IF word[MinusOne] = 0 THEN 1 ELSE word[NeedLocks])
    /\ at' = [at EXCEPT ![t] = IF reg[t].flag THEN "sched" ELSE "link", ![reg[t].other] = "start"]
    /\ UNCHANGED <<waiting, reg, misled>>

Link(t) ==
    /\ at[t] = "link"
    /\ Stored(List, word[List] \cup {reg[t].other})
    /\ Unlocking(t, "created")
    /\ UNCHANGED <<waiting, misled>>

(* *res = new: from now on the thread can be joined, unless it is          *)
(* detached.                                                               *)
Created(t) ==
    /\ at[t] = "created"
    /\ Stored(Claimed, word[Claimed] \ (IF reg[t].state = "DETACHED" THEN {} ELSE {reg[t].other}))
    /\ Goto(t, "run")
    /\ Keep(t, PtRegs)
    /\ UNCHANGED <<waiting, misled>>

(* The refused one: it is told through args->control, and the creator      *)
(* waits until the kernel has cleared that.                                *)
Refuse(t) ==
    LET c == ControlOf(reg[t].other) IN
    /\ at[t] = "sched"
    /\ Stored(c, 3)
    /\ Goto(t, IF word[c] = 2 THEN "sched wake" ELSE "sched wait")
    /\ UNCHANGED <<waiting, reg, misled>>

RefuseWait(t) ==
    LET c == ControlOf(reg[t].other) IN
    \/ WakeStep(t, "sched wake", c, 1, "sched wait")
    \/ Wait(t, "sched wait", c, 3, "sched asleep", "refused")
    \/ WaitEnds(t, "sched asleep", "sched wait")

Refused(t) ==
    /\ at[t] = "refused"
    /\ With(word, MinusOne :> word[MinusOne] - 1
                  @@ NeedLocks :> IF word[MinusOne] = 1 THEN 0 ELSE word[NeedLocks])
    /\ Unlocking(t, "unmap")
    /\ UNCHANGED <<waiting, misled>>

-----------------------------------------------------------------------------
(* start, on the new thread.  A refused one lets the kernel clear          *)
(* args->control instead of the list lock: set_tid_address also stores the *)
(* tid there.                                                              *)
Start(n) ==
    LET c == ControlOf(n) IN
    /\ at[n] = "start"
    /\ CASE word[c] = 0 -> Goto(n, "run") /\ UNCHANGED word
         [] word[c] = 1 -> Goto(n, "start wait") /\ Stored(c, 2)
         [] OTHER -> Goto(n, "start over") /\ UNCHANGED word
    /\ UNCHANGED <<waiting, reg, misled>>

StartWait(n) ==
    \/ Wait(n, "start wait", ControlOf(n), 2, "start asleep", "start over")
    \/ WaitEnds(n, "start asleep", "start wait")

SetTid(n) ==
    /\ at[n] = "start over"
    /\ Stored(ControlOf(n), n)
    /\ Goto(n, "sys")
    /\ Keep(n, [reg[n] EXCEPT !.flag = TRUE])
    /\ UNCHANGED <<waiting, misled>>

-----------------------------------------------------------------------------
(* __pthread_exit, up to the list lock.  The compare-and-swap may lose     *)
(* against pthread_detach.                                                 *)
Exit(t) ==
    LET d == DetachState(t) IN
    /\ at[t] = "run"
    /\ Stored(d, IF word[d] = "JOINABLE" THEN "EXITING" ELSE word[d])
    /\ Goto(t, "tl")
    /\ Keep(t, [reg[t] EXCEPT !.then = "exit", !.state = word[d]])
    /\ UNCHANGED <<waiting, misled>>

Unmaps(t) == reg[t].state = "DETACHED" /\ t # word[First]

(* The last thread goes back to run the exit handlers.                     *)
Unlink(t) ==
    /\ at[t] = "exit"
    /\ IF word[List] = {t}
       THEN Unlocking(t, "last") /\ UNCHANGED word
       ELSE /\ With(word, List :> word[List] \ {t} @@ MinusOne :> word[MinusOne] - 1
                          @@ NeedLocks :> IF word[MinusOne] = 1 THEN -1 ELSE word[NeedLocks])
            /\ Goto(t, IF Unmaps(t) THEN "unmapself" ELSE "exited") /\ UNCHANGED reg
    /\ UNCHANGED <<waiting, misled>>

Last(t) ==
    /\ at[t] = "last"
    /\ Stored(DetachState(t), reg[t].state)
    /\ Goto(t, "run")
    /\ Keep(t, PtRegs)
    /\ UNCHANGED <<waiting, misled>>

UnmapSelf(t) ==
    /\ at[t] = "unmapself"
    /\ Stored(Maps, word[Maps] \ {t})
    /\ Goto(t, "sys")
    /\ UNCHANGED <<waiting, reg, misled>>

Exited(t) ==
    /\ at[t] = "exited"
    /\ Stored(DetachState(t), "EXITED")
    /\ Goto(t, "wake joiner")
    /\ UNCHANGED <<waiting, reg, misled>>

WakeJoiner(t) == WakeStep(t, "wake joiner", DetachState(t), 1, "sys")

-----------------------------------------------------------------------------
(* Variant: the kernel clears the word and wakes nobody.                   *)
SysExitWakeNot(t) ==
    /\ at[t] = "sys wake"
    /\ Goto(t, "returned")
    /\ UNCHANGED <<word, waiting, reg, misled>>

(* SYS_exit: the kernel clears the word it was given and wakes one waiter. *)
(* It does not leave the thread: the call returns, until a tick takes the  *)
(* core away for good.  __pthread_exit and start call it again.            *)
ClearTid(t) == IF reg[t].flag THEN ControlOf(t) ELSE Tl

SysExit(t) ==
    LET a == ClearTid(t) IN
    /\ at[t] = "sys" \/ (at[t] = "returned" /\ ~Unmaps(t))
    /\ With(word, a :> (IF reg[t].flag THEN 0 ELSE Nobody)
                  @@ Stomped :> (word[Stomped] \/ (a = Tl /\ word[Tl] \notin {t, Nobody})))
    /\ Goto(t, "sys wake")
    /\ UNCHANGED <<waiting, reg, misled>>

SysExitWake(t) == WakeStep(t, "sys wake", ClearTid(t), 1, "returned")

Reap(t) ==
    /\ at[t] = "returned"
    /\ Goto(t, "none")
    /\ Keep(t, PtRegs)
    /\ UNCHANGED <<word, waiting, misled>>

-----------------------------------------------------------------------------
(* pthread_timedjoin_np, and pthread_detach of a thread that is exiting.   *)
Join(t, n) ==
    /\ at[t] = "run" /\ n # t /\ n \in word[Maps] \ word[Claimed]
    /\ Stored(Claimed, word[Claimed] \cup {n})
    /\ Goto(t, "join")
    /\ Keep(t, [reg[t] EXCEPT !.other = n, !.flag = TRUE])
    /\ UNCHANGED <<waiting, misled>>

Detach(t, n) ==
    LET d == DetachState(n) IN
    /\ at[t] = "run" /\ n \in word[Maps] \ word[Claimed]
    /\ IF word[d] = "JOINABLE"
       THEN With(word, d :> "DETACHED" @@ Claimed :> word[Claimed] \cup {n}) /\ UNCHANGED <<at, reg>>
       ELSE /\ Stored(Claimed, word[Claimed] \cup {n})
            /\ Goto(t, "join")
            /\ Keep(t, [reg[t] EXCEPT !.other = n])
    /\ UNCHANGED <<waiting, misled>>

JoinWait(t) ==
    LET d == DetachState(reg[t].other) IN
    \/ /\ at[t] = "join"
       /\ IF word[d] = "EXITED"
          THEN Goto(t, "sync") /\ UNCHANGED waiting
          ELSE EnterQueue(t, d, word[d]) /\ Goto(t, "join asleep")
       /\ UNCHANGED <<word, reg, misled>>
    \/ WaitEnds(t, "join asleep", "join")

JoinTimesOut(t) ==
    /\ reg[t].flag
    /\ at[t] = "join asleep"
    /\ LeaveQueue(t)
    /\ Goto(t, "run")
    /\ Stored(Claimed, word[Claimed] \ {reg[t].other})
    /\ Keep(t, PtRegs)
    /\ misled' = (misled \/ waiting[t] = Nowhere)


(* __tl_sync: the exiting thread is gone once the lock has changed hands.  *)
(* The wake that ended the wait may have been meant for another.           *)
TlSync(t) ==
    /\ at[t] = "sync"
    /\ IF word[Tl] = Nobody
       THEN Goto(t, "unmap") /\ UNCHANGED <<word, reg>>
       ELSE /\ Stored(TlWaiters, word[TlWaiters] + 1)
            /\ Goto(t, "sync wait") /\ Keep(t, [reg[t] EXCEPT !.val = word[Tl]])
    /\ UNCHANGED <<waiting, misled>>

TlSyncWait(t) ==
    \/ Wait(t, "sync wait", Tl, reg[t].val, "sync asleep", "sync dec")
    \/ WaitEnds(t, "sync asleep", "sync wait")

TlSyncDec(t) ==
    /\ at[t] = "sync dec"
    /\ Stored(TlWaiters, word[TlWaiters] - 1)
    /\ Goto(t, "sync wake")
    /\ UNCHANGED <<waiting, reg, misled>>

TlSyncWake(t) == WakeStep(t, "sync wake", Tl, IF word[TlWaiters] > 0 THEN 1 ELSE 0, "unmap")

Unmap(t) ==
    /\ at[t] = "unmap"
    /\ Stored(Maps, word[Maps] \ ({reg[t].other} \ {word[First]}))
    /\ Goto(t, "run")
    /\ Keep(t, PtRegs)
    /\ UNCHANGED <<waiting, misled>>

-----------------------------------------------------------------------------
(* LOCK and UNLOCK of a lock inside the library: skipped while the process *)
(* has one thread; the lock itself is InternalLock's.                      *)
LibLock(t) ==
    /\ at[t] = "run"
    /\ IF word[NeedLocks] = 0
       THEN Goto(t, "skipped") /\ UNCHANGED word
       ELSE /\ word[Global] = Nobody
            /\ With(word, Global :> t @@ NeedLocks :> IF word[NeedLocks] < 0 THEN 0 ELSE 1)
            /\ Goto(t, "locked")
    /\ UNCHANGED <<waiting, reg, misled>>

LibUnlock(t) ==
    /\ at[t] \in {"skipped", "locked"}
    /\ Stored(Global, Nobody)
    /\ Goto(t, "run")
    /\ UNCHANGED <<waiting, reg, misled>>

Call(t) ==
    \/ \E n \in Threads : Create(t, n) \/ Join(t, n) \/ Detach(t, n)
    \/ Exit(t) \/ LibLock(t)

Inside(t) ==
    \/ TlLock(t) \/ TlWait(t) \/ TlDec(t) \/ TlUnlock(t) \/ TlWake(t)
    \/ Clone(t) \/ Link(t) \/ Created(t) \/ Refuse(t) \/ RefuseWait(t) \/ Refused(t)
    \/ Start(t) \/ StartWait(t) \/ SetTid(t)
    \/ Unlink(t) \/ Last(t) \/ UnmapSelf(t) \/ Exited(t) \/ WakeJoiner(t)
    \/ SysExit(t) \/ SysExitWake(t) \/ Reap(t)
    \/ JoinWait(t) \/ TlSync(t) \/ TlSyncWait(t) \/ TlSyncDec(t) \/ TlSyncWake(t)
    \/ Unmap(t) \/ LibUnlock(t)

PthreadNext == \E t \in Threads : Call(t) \/ Inside(t) \/ JoinTimesOut(t)

-----------------------------------------------------------------------------
PthreadTypeOK ==
    /\ word[Tl] \in Threads \cup {Nobody}
    /\ word[TlWaiters] \in 0 .. Cardinality(Threads)
    /\ word[TlCount] \in Nat
    /\ word[NeedLocks] \in {-1, 0, 1} /\ word[MinusOne] \in 0 .. Cardinality(Threads)
    /\ word[List] \subseteq Threads /\ word[Maps] \subseteq Threads

Left(t) == at[t] \in {"none", "sys", "sys wake", "returned"}

HoldsTl(t) ==
    \/ at[t] \in {"clone", "link", "sched", "sched wake", "sched wait", "sched asleep", "refused",
                   "tl unlock", "exit", "unmapself", "exited", "wake joiner"}
    \/ at[t] = "sys" /\ ~reg[t].flag

(* As long as no second SYS_exit cleared the lock of another: the list     *)
(* lock is held by the thread it names, from pthread_create or             *)
(* pthread_exit to the exit in the kernel; the list and the count hold the *)
(* threads there are; LOCK is skipped only while nobody else could be in   *)
(* the section; and of a detach and an exit that race one frees the stack. *)
PthreadExact ==
    ~word[Stomped] =>
        /\ \A t \in Threads : HoldsTl(t) <=> word[Tl] = t
        /\ word[Tl] = Nobody =>
              /\ word[List] = {t \in Threads : ~Left(t)}
              /\ word[MinusOne] + 1 = Cardinality(word[List])
        /\ Cardinality({t \in Threads : at[t] \in {"skipped", "locked"}}) <= 1
        /\ \A n \in (word[Maps] \cap word[Claimed]) \ {word[First]} :
              at[n] # "none" \/ \E t \in Threads : reg[t].other = n

(* Nobody sleeps on the list lock while it is free, nor in pthread_join of *)
(* a thread that has exited; and nobody at rest holds the list lock.       *)
PthreadNotStuck ==
    Quiet({"run", "none", "locked", "skipped", "returned"}) /\ ~word[Stomped] =>
        /\ word[Tl] = Nobody
        /\ \A t \in Threads : waiting[t] # Nowhere =>
              \E n \in Threads : waiting[t] = DetachState(n) /\ word[DetachState(n)] # "EXITED"

(* A stack is unmapped once, and after its thread has used it for the last *)
(* time.                                                                   *)
StacksMapped ==
    ~word[Stomped] =>
        \A t \in Threads : /\ ~Left(t) => t \in word[Maps]
                           /\ at[t] = "unmap" => reg[t].other \in word[Maps]
=============================================================================
