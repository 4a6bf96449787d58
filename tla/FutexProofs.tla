---------------------------- MODULE FutexProofs -----------------------------
(***************************************************************************)
(* The futex table is exact, loses no wake and implements the contract of  *)
(* futex(), for any number of threads, words and slots.                    *)
(***************************************************************************)
EXTENDS Futex, FiniteSetTheorems, TLAPS

Waits(t) == pc[t] \in {"sleep", "timer", "asleep"}

CallInv ==
    \A t \in Threads :
        /\ InTable(t) \/ pc[t] \in {"enqueue", "stored"} => uaddr[t] \in Addresses
        /\ InTable(t) => my_waiter[t] \in Slots
        /\ ~Awake(t) => pc[t] = "asleep"

(* A slot that was not requeued holds the address its thread waits on.     *)
SlotAddress ==
    \A i \in Slots, t \in Threads :
        futex_queue[i].thread = t /\ fate[t] = "none" => futex_queue[i].uaddr = uaddr[t]

(* SleeperReachable and NoMissedWake from the moment the slot is taken.    *)
Reach == \A t \in Threads : Waits(t) /\ ~wake_pending[t] => futex_queue[my_waiter[t]].thread = t
Missed ==
    \A t \in Threads :
        Waits(t) /\ fate[t] = "none" /\ word[uaddr[t]] # val[t] /\ ~wake_pending[t]
            => \E s \in Threads : pc[s] = "stored" /\ uaddr[s] = uaddr[t]

FutexInv == TypeOK /\ CallInv /\ SlotsOwned /\ SlotAddress /\ Reach /\ Missed

(* The table at boot.                                                      *)
LEMMA InitFutexInv == Init => FutexInv
  BY FutexAssumption DEF Init, SleepInit, FutexInv, TypeOK, SleepTypeOK, CallInv, SlotsOwned,
     SlotAddress, Reach, Missed, Empty, InTable, Awake, Waits, Values

(* What the invariant is for.                                              *)
LEMMA FutexInvImplies == FutexInv => TableExact /\ NoMissedWake
  BY Zenon DEF FutexInv, CallInv, Reach, Missed, TableExact, SleeperReachable, NoMissedWake, Waits

-----------------------------------------------------------------------------
(* FUTEX_WAKE and FUTEX_REQUEUE, as far as they change the table: the      *)
(* slots of S are emptied and those of M moved to b.                       *)
Table(S, M, b) ==
    [i \in Slots |-> IF i \in S THEN Empty
                     ELSE IF i \in M THEN [futex_queue[i] EXCEPT !.uaddr = b]
                     ELSE futex_queue[i]]

(* A thread w that changed a word returns with the wake; NoThread: none.   *)
Settles(w) ==
    /\ pc' = [u \in Threads |-> IF u = w THEN "user" ELSE pc[u]]
    /\ uaddr' = [u \in Threads |-> IF u = w THEN "none" ELSE uaddr[u]]

(* A search that takes threads out of the table, or moves them to another  *)
(* word, and wakes those it takes out.                                     *)
LEMMA TakeOutInv ==
    ASSUME FutexInv, NEW a, NEW b \in Addresses, NEW S \in SUBSET Queued(a),
           NEW M \in SUBSET Queued(a), TakeOut(S, M), futex_queue' = Table(S, M, b),
           UNCHANGED <<word, val, timeout, my_waiter>>,
           NEW w, Settles(w),
           w \in Threads => pc[w] = "stored" /\ S = Queued(uaddr[w])
    PROVE  FutexInv'
<1>. DEFINE Out == ThreadsIn(S)
            Moved == ThreadsIn(M)
<1>0. /\ \A u \in Threads : (InTable(u)' <=> InTable(u)) /\ (Waits(u)' <=> Waits(u))
      /\ \A u \in Threads : InTable(u) => u # w /\ uaddr'[u] = uaddr[u]
  BY Zenon DEF Settles, InTable, Waits
<1>1. /\ \A i \in S : i \in Slots /\ futex_queue[i].thread \in Threads
      /\ \A i \in M : i \in Slots /\ futex_queue[i].thread \in Threads
  BY FutexAssumption DEF Queued, FutexInv, TypeOK, Empty
<1>2. /\ wake_pending' = [t \in Threads |-> t \in Out \/ wake_pending[t]]
      /\ sleep' = sleep
      /\ fate' = [t \in Threads |-> IF t \in Out THEN "woken" ELSE IF t \in Moved THEN "moved" ELSE fate[t]]
  BY Zenon DEF TakeOut, Wake
<1>3. ASSUME NEW i \in Slots
      PROVE  futex_queue'[i] = IF i \in S THEN Empty
                               ELSE IF i \in M THEN [futex_queue[i] EXCEPT !.uaddr = b]
                               ELSE futex_queue[i]
  BY Zenon DEF Table
<1>4. futex_queue' \in [Slots -> [uaddr : Addresses, thread : Threads] \cup {Empty}]
  BY <1>1 DEF Table, FutexInv, TypeOK, Empty
<1>5. TypeOK'
  <2>1. pc' \in [Threads -> {"user", "enqueue", "sleep", "timer", "asleep", "check", "timed_out",
                            "cleanup", "stored"}]
        /\ uaddr' \in [Threads -> Addresses \cup {"none"}]
    BY Zenon DEF Settles, FutexInv, TypeOK
  <2>. QED  BY Zenon, <1>2, <1>4, <2>1 DEF FutexInv, TypeOK, SleepTypeOK
<1>6. CallInv'
  BY Zenon, <1>2 DEF FutexInv, CallInv, InTable, Awake, Settles
<1>7. ASSUME NEW i \in Slots, NEW t \in Threads, futex_queue'[i].thread = t
      PROVE  /\ futex_queue[i].thread = t
             /\ i \notin S
             /\ i \in M => t \in Moved
             /\ i \notin M => futex_queue'[i] = futex_queue[i]
  <2>1. i \notin S
    <3>1. SUFFICES ASSUME i \in S PROVE FALSE
      BY Zenon
    <3>2. futex_queue'[i] = Empty  BY Zenon, <1>3, <3>1
    <3>. QED  BY <1>7, <3>2, FutexAssumption DEF Empty
  <2>2. CASE i \in M
    <3>1. futex_queue'[i] = [futex_queue[i] EXCEPT !.uaddr = b]  BY Zenon, <1>3, <2>1, <2>2
    <3>2. futex_queue[i] \in [uaddr : Addresses, thread : Threads]
      BY <1>1, <2>2, FutexAssumption DEF FutexInv, TypeOK, Empty
    <3>3. futex_queue[i].thread = t  BY Zenon, <1>7, <3>1, <3>2
    <3>. QED  BY Zenon, <2>1, <2>2, <3>3 DEF ThreadsIn
  <2>3. CASE i \notin M
    BY Zenon, <1>3, <1>7, <2>1, <2>3
  <2>. QED  BY Zenon, <2>1, <2>2, <2>3
<1>8. SlotsOwned'
  BY Zenon, <1>0, <1>7 DEF FutexInv, SlotsOwned
<1>9. SlotAddress'
  <2>. SUFFICES ASSUME NEW i \in Slots, NEW t \in Threads, futex_queue'[i].thread = t, fate'[t] = "none"
                PROVE  futex_queue'[i].uaddr = uaddr'[t]
    BY Zenon DEF SlotAddress
  <2>1. t \notin Out /\ t \notin Moved /\ fate[t] = "none"
    BY Zenon, <1>2
  <2>2. i \notin M
    BY Zenon, <1>7, <2>1
  <2>3. uaddr'[t] = uaddr[t]
    BY <1>0, <1>7 DEF FutexInv, SlotsOwned
  <2>. QED  BY <1>7, <2>1, <2>2, <2>3 DEF FutexInv, SlotAddress
<1>10. ASSUME NEW t \in Threads, Waits(t), ~wake_pending'[t]
       PROVE  /\ my_waiter[t] \in Slots
              /\ futex_queue[my_waiter[t]].thread = t
              /\ my_waiter[t] \notin S
              /\ t \notin Out
              /\ ~wake_pending[t]
  <2>1. t \notin Out /\ ~wake_pending[t]
    BY Zenon, <1>2, <1>10
  <2>2. my_waiter[t] \in Slots /\ futex_queue[my_waiter[t]].thread = t
    BY Zenon, <1>10, <2>1 DEF FutexInv, Reach, CallInv, InTable, Waits
  <2>. QED  BY Zenon, <2>1, <2>2 DEF ThreadsIn
<1>11. Reach'
  <2>. SUFFICES ASSUME NEW t \in Threads, Waits(t), ~wake_pending'[t]
                PROVE  futex_queue'[my_waiter[t]].thread = t
    BY Zenon, <1>0 DEF Reach
  <2>1. futex_queue[my_waiter[t]] \in [uaddr : Addresses, thread : Threads]
    BY <1>10, FutexAssumption DEF FutexInv, TypeOK, Empty
  <2>2. my_waiter[t] \in Slots /\ my_waiter[t] \notin S /\ futex_queue[my_waiter[t]].thread = t
    BY Zenon, <1>10
  <2>3. \/ futex_queue'[my_waiter[t]] = futex_queue[my_waiter[t]]
        \/ futex_queue'[my_waiter[t]] = [futex_queue[my_waiter[t]] EXCEPT !.uaddr = b]
    BY Zenon, <1>3, <2>2
  <2>. QED  BY Zenon, <2>1, <2>2, <2>3
<1>12. Missed'
  <2>. SUFFICES ASSUME NEW u \in Threads, Waits(u), fate'[u] = "none",
                       word[uaddr'[u]] # val[u], ~wake_pending'[u]
                PROVE  \E s \in Threads : pc'[s] = "stored" /\ uaddr'[s] = uaddr'[u]
    BY Zenon, <1>0 DEF Missed
  <2>1. uaddr'[u] = uaddr[u]
    BY Zenon, <1>0 DEF InTable, Waits
  <2>2. fate[u] = "none"
    BY Zenon, <1>2, <1>10
  <2>3. PICK s \in Threads : pc[s] = "stored" /\ uaddr[s] = uaddr[u]
    BY Zenon, <1>10, <2>1, <2>2 DEF FutexInv, Missed
  <2>4. s # w
    <3>1. SUFFICES ASSUME s = w PROVE FALSE
      BY Zenon
    <3>2. S = Queued(uaddr[u])  BY Zenon, <2>3, <3>1
    <3>3. futex_queue[my_waiter[u]].uaddr = uaddr[u]
      BY Zenon, <1>10, <2>2 DEF FutexInv, SlotAddress
    <3>. QED  BY Zenon, <1>10, <3>2, <3>3, FutexAssumption DEF Queued
  <2>. QED  BY Zenon, <2>1, <2>3, <2>4 DEF Settles
<1>. QED  BY Zenon, <1>5, <1>6, <1>8, <1>9, <1>11, <1>12 DEF FutexInv

(* A search finds slots of the set it searches.                            *)
LEMMA FirstOfSubset == \A S, n : FirstOf(S, n) \in SUBSET S
  BY Zenon DEF FirstOf

(* A wake of MAX_FUTEX waiters stops at every slot of the address.         *)
LEMMA FirstOfAll ==
    ASSUME NEW a
    PROVE  FirstOf(Queued(a), MaxFutex) = Queued(a)
<1>. SUFFICES ASSUME NEW i \in Queued(a)
              PROVE  Cardinality({j \in Queued(a) : j < i}) < MaxFutex
  BY Zenon DEF FirstOf
<1>. DEFINE B == {j \in Queued(a) : j < i}
<1>1. i \in 1 .. MaxFutex /\ MaxFutex \in Nat
  BY Zenon, FutexAssumption DEF Queued, Slots
<1>2. B \in SUBSET (1 .. i - 1)
  BY <1>1 DEF Queued, Slots
<1>3. IsFiniteSet(1 .. i - 1) /\ Cardinality(1 .. i - 1) = i - 1
  BY <1>1, FS_Interval
<1>4. IsFiniteSet(B) /\ Cardinality(B) <= i - 1
  BY ZenonT(30), <1>2, <1>3, FS_Subset
<1>5. Cardinality(B) \in Nat
  BY Zenon, <1>4, FS_CardinalityType
<1>. QED  BY <1>1, <1>4, <1>5

-----------------------------------------------------------------------------
(* FUTEX_WAIT.                                                             *)
LEMMA WaitStartInv ==
    ASSUME FutexInv, NEW t \in Threads, NEW a \in Addresses, NEW v \in Values,
           NEW limit \in {"none", "short", "long"}, WaitStart(t, a, v, limit)
    PROVE  FutexInv'
<1>. USE DEF WaitStart, Goto, FutexInv
<1>1. TypeOK'      BY Zenon DEF TypeOK, SleepTypeOK
<1>2. CallInv'     BY Zenon DEF TypeOK, CallInv, InTable, Awake
<1>3. SlotsOwned'  BY DEF TypeOK, SlotsOwned, InTable
<1>4. SlotAddress'
  BY DEF TypeOK, SlotAddress, SlotsOwned, InTable
<1>5. Reach'       BY Zenon DEF TypeOK, SleepTypeOK, Reach, Waits
<1>6. Missed'      BY DEF TypeOK, SleepTypeOK, Missed, Waits
<1>. QED  BY Zenon, <1>1, <1>2, <1>3, <1>4, <1>5, <1>6

(* A return takes the thread's slot along, if it has one.                  *)
LEMMA ReturnInv ==
    ASSUME FutexInv, NEW t \in Threads, Return(t), Awake(t), pc[t] # "stored",
           UNCHANGED <<sleepVars, word>>,
           futex_queue' = [i \in Slots |-> IF futex_queue[i].thread = t THEN Empty ELSE futex_queue[i]]
    PROVE  FutexInv'
<1>. USE DEF Return, Goto, FutexInv, sleepVars
<1>0. ASSUME NEW i \in Slots, NEW u \in Threads, futex_queue'[i].thread = u
      PROVE  u # t /\ futex_queue'[i] = futex_queue[i]
  BY Zenon, <1>0, FutexAssumption DEF Empty
<1>1. TypeOK'
  BY FutexAssumption DEF TypeOK, SleepTypeOK, Values
<1>2. CallInv'     BY Zenon DEF TypeOK, CallInv, InTable, Awake
<1>3. SlotsOwned'  BY <1>0 DEF TypeOK, SlotsOwned, InTable
<1>4. SlotAddress'  BY <1>0 DEF TypeOK, SlotAddress
<1>5. Reach'
  <2>. SUFFICES ASSUME NEW u \in Threads, Waits(u)', ~wake_pending[u]
                PROVE  futex_queue'[my_waiter'[u]].thread = u
    BY Zenon DEF Reach
  <2>1. u # t /\ Waits(u) /\ my_waiter'[u] = my_waiter[u]
    BY Zenon DEF Waits, TypeOK
  <2>2. my_waiter[u] \in Slots /\ futex_queue[my_waiter[u]].thread = u
    BY Zenon, <2>1 DEF Reach, CallInv, InTable, Waits
  <2>. QED  BY Zenon, <2>1, <2>2
<1>6. Missed'
  <2>. SUFFICES ASSUME NEW u \in Threads, Waits(u)', fate'[u] = "none",
                       word[uaddr'[u]] # val'[u], ~wake_pending[u]
                PROVE  \E s \in Threads : pc'[s] = "stored" /\ uaddr'[s] = uaddr'[u]
    BY Zenon DEF Missed, Waits
  <2>1. u # t /\ Waits(u) /\ uaddr'[u] = uaddr[u] /\ val'[u] = val[u] /\ fate[u] = "none"
    BY Zenon DEF Waits, TypeOK
  <2>2. PICK s \in Threads : pc[s] = "stored" /\ uaddr[s] = uaddr[u]
    BY Zenon, <2>1 DEF Missed
  <2>3. s # t
    BY Zenon, <2>2
  <2>. QED  BY Zenon, <2>1, <2>2, <2>3 DEF TypeOK
<1>. QED  BY Zenon, <1>1, <1>2, <1>3, <1>4, <1>5, <1>6

(* futex_wait takes the first free slot.                                   *)
LEMMA WaitEnqueueInv ==
    ASSUME FutexInv, NEW t \in Threads, WaitEnqueue(t)
    PROVE  FutexInv'
<1>1. pc[t] = "enqueue" /\ Awake(t) /\ uaddr[t] \in Addresses /\ UNCHANGED <<sleepVars, word>>
  BY Zenon DEF WaitEnqueue, FutexInv, CallInv
<1>2. \A i \in Slots : futex_queue[i].thread # t
  BY Zenon, <1>1 DEF FutexInv, SlotsOwned, InTable
<1>3. ASSUME Return(t), UNCHANGED futex_queue PROVE FutexInv'
  <2>1. futex_queue' = [i \in Slots |-> IF futex_queue[i].thread = t THEN Empty ELSE futex_queue[i]]
    BY Zenon, <1>2, <1>3 DEF FutexInv, TypeOK
  <2>. QED  BY Zenon, <1>1, <1>3, <2>1, ReturnInv
<1>4. ASSUME NEW i \in Slots, word[uaddr[t]] = val[t], IsFirst(i, FreeSlots), TakeSlot(t, i),
             futex_queue' = [futex_queue EXCEPT ![i] = [uaddr |-> uaddr[t], thread |-> t]]
      PROVE  FutexInv'
  <2>. USE <1>1, <1>4 DEF TakeSlot, Goto, FutexInv, sleepVars
  <2>0. futex_queue[i].thread = NoThread
    BY Zenon DEF IsFirst, FreeSlots, SlotsOf
  <2>1. TypeOK'      BY Zenon DEF TypeOK, SleepTypeOK
  <2>2. CallInv'     BY Zenon DEF TypeOK, CallInv, InTable, Awake
  <2>3. SlotsOwned'
    BY <1>2 DEF TypeOK, SlotsOwned, InTable
  <2>4. SlotAddress'  BY DEF TypeOK, SlotAddress
  <2>5. Reach'
    <3>. SUFFICES ASSUME NEW u \in Threads, Waits(u)', ~wake_pending[u]
                  PROVE  futex_queue'[my_waiter'[u]].thread = u
      BY Zenon DEF Reach
    <3>1. CASE u = t
      BY Zenon, <3>1 DEF TypeOK
    <3>2. CASE u # t
      <4>1. Waits(u) /\ my_waiter'[u] = my_waiter[u]  BY Zenon, <3>2 DEF Waits, TypeOK
      <4>2. my_waiter[u] \in Slots /\ futex_queue[my_waiter[u]].thread = u
        BY Zenon, <4>1 DEF Reach, CallInv, InTable, Waits
      <4>3. my_waiter[u] # i  BY Zenon, <2>0, <4>2, FutexAssumption
      <4>. QED  BY Zenon, <4>1, <4>2, <4>3 DEF TypeOK
    <3>. QED  BY Zenon, <3>1, <3>2
  <2>6. Missed'
    <3>. SUFFICES ASSUME NEW u \in Threads, Waits(u)', fate[u] = "none",
                         word[uaddr[u]] # val[u], ~wake_pending[u]
                  PROVE  \E s \in Threads : pc'[s] = "stored" /\ uaddr[s] = uaddr[u]
      BY Zenon DEF Missed, Waits
    <3>1. u # t /\ Waits(u)  BY Zenon DEF Waits, TypeOK
    <3>2. PICK s \in Threads : pc[s] = "stored" /\ uaddr[s] = uaddr[u]
      BY Zenon, <3>1 DEF Missed
    <3>. QED  BY Zenon, <3>2 DEF TypeOK
  <2>. QED  BY Zenon, <2>1, <2>2, <2>3, <2>4, <2>5, <2>6
<1>5. SlotsOf(t) = {}
  BY Zenon, <1>2 DEF SlotsOf
<1>. QED  BY Zenon, <1>3, <1>4, <1>5 DEF WaitEnqueue

(* A step inside FUTEX_WAIT that leaves the table alone.                   *)
LEMMA WaitStepInv ==
    ASSUME FutexInv, NEW t \in Threads,
           WaitSleep(t) \/ WaitTimer(t) \/ WaitResume(t) \/ WaitCheck(t)
    PROVE  FutexInv'
<1>1. PICK l \in {"timer", "asleep", "check", "timed_out", "cleanup"} :
          /\ pc' = [pc EXCEPT ![t] = l]
          /\ l # "asleep" => sleep'[t] = "no"
          /\ l \in {"timer", "asleep"} => Waits(t) /\ wake_pending'[t] = wake_pending[t]
  BY DEF WaitSleep, WaitTimer, WaitResume, WaitCheck, Goto, Waits, Consume, Block, Sleep, Resume,
     Awake, sleepVars, FutexInv, TypeOK, SleepTypeOK, CallInv
<1>2. InTable(t) /\ UNCHANGED <<word, futex_queue, uaddr, val, timeout, my_waiter, fate>>
  BY Zenon DEF WaitSleep, WaitTimer, WaitResume, WaitCheck, InTable
<1>3. /\ SleepTypeOK'
      /\ \A u \in Threads : u # t => sleep'[u] = sleep[u] /\ wake_pending'[u] = wake_pending[u]
  BY ZenonT(30) DEF WaitSleep, WaitTimer, WaitResume, WaitCheck, Consume, Block, Sleep, Resume,
     sleepVars, FutexInv, TypeOK, SleepTypeOK
<1>4. \A u \in Threads : InTable(u)' <=> InTable(u)
  BY Zenon, <1>1, <1>2 DEF InTable, FutexInv, TypeOK
<1>5. \A u \in Threads : Waits(u)' /\ ~wake_pending'[u] => Waits(u) /\ ~wake_pending[u]
  BY Zenon, <1>1, <1>3 DEF Waits, FutexInv, TypeOK
<1>6. \A u \in Threads : pc[u] = "stored" => pc'[u] = "stored"
  BY Zenon, <1>1, <1>2 DEF InTable, FutexInv, TypeOK
<1>7. TypeOK'      BY Zenon, <1>1, <1>2, <1>3 DEF FutexInv, TypeOK
<1>8. CallInv'
  <2>. SUFFICES ASSUME NEW u \in Threads
                PROVE  /\ InTable(u)' \/ pc'[u] \in {"enqueue", "stored"} => uaddr[u] \in Addresses
                       /\ InTable(u)' => my_waiter[u] \in Slots
                       /\ ~Awake(u)' => pc'[u] = "asleep"
    BY Zenon, <1>2 DEF CallInv, Slots
  <2>1. CASE u = t
    BY Zenon, <1>1, <1>2, <2>1 DEF FutexInv, CallInv, TypeOK, Awake
  <2>2. CASE u # t
    BY Zenon, <1>1, <1>3, <1>4, <2>2 DEF FutexInv, CallInv, TypeOK, Awake
  <2>. QED  BY Zenon, <2>1, <2>2
<1>9. SlotsOwned'  BY Zenon, <1>2, <1>4 DEF FutexInv, SlotsOwned
<1>10. SlotAddress'  BY Zenon, <1>2 DEF FutexInv, SlotAddress
<1>11. Reach'      BY Zenon, <1>2, <1>5 DEF FutexInv, Reach
<1>12. Missed'     BY Zenon, <1>2, <1>5, <1>6 DEF FutexInv, Missed
<1>. QED  BY Zenon, <1>7, <1>8, <1>9, <1>10, <1>11, <1>12 DEF FutexInv

(* futex_wait gives its slot back if it still has it.                      *)
LEMMA WaitCleanupInv ==
    ASSUME FutexInv, NEW t \in Threads, WaitCleanup(t)
    PROVE  FutexInv'
<1>1. InTable(t) /\ pc[t] # "stored" /\ Awake(t) /\ Return(t) /\ UNCHANGED <<sleepVars, word>>
  BY Zenon DEF WaitCleanup, InTable, FutexInv, CallInv
<1>2. my_waiter[t] \in Slots /\ \A i \in Slots : futex_queue[i].thread = t => i = my_waiter[t]
  BY Zenon, <1>1 DEF FutexInv, CallInv, SlotsOwned
<1>3. futex_queue' = [i \in Slots |-> IF futex_queue[i].thread = t THEN Empty ELSE futex_queue[i]]
  BY Zenon, <1>2 DEF WaitCleanup, FutexInv, TypeOK
<1>. QED  BY Zenon, <1>1, <1>3, ReturnInv

-----------------------------------------------------------------------------
(* The callers.                                                            *)
LEMMA WakeCallInv ==
    ASSUME FutexInv, NEW t \in Threads, NEW a \in Addresses, NEW n \in Nat, WakeCall(t, a, n)
    PROVE  FutexInv'
<1>. DEFINE S == FirstOf(Queued(a), IF n = 0 THEN 1 ELSE n)
<1>1. S \in SUBSET Queued(a) /\ {} \in SUBSET Queued(a)
  BY Zenon, FirstOfSubset
<1>2. TakeOut(S, {}) /\ UNCHANGED <<word, val, timeout, my_waiter>> /\ Settles(NoThread)
  BY Zenon, FutexAssumption DEF WakeCall, FutexWake, Settles, FutexInv, TypeOK
<1>3. futex_queue' = Table(S, {}, a)
  BY Zenon DEF WakeCall, FutexWake, Table
<1>. HIDE DEF S
<1>. QED  BY Zenon, <1>1, <1>2, <1>3, TakeOutInv, FutexAssumption

(* FUTEX_REQUEUE.                                                          *)
LEMMA FutexRequeueInv ==
    ASSUME FutexInv, NEW t \in Threads, NEW a \in Addresses, NEW b \in Addresses,
           NEW n, NEW m, FutexRequeue(t, a, b, n, m)
    PROVE  FutexInv'
<1>. DEFINE S == FirstOf(Queued(a), n)
            M == FirstOf(Queued(a) \ S, m)
<1>1. S \in SUBSET Queued(a) /\ M \in SUBSET Queued(a)
  BY Zenon, FirstOfSubset
<1>2. TakeOut(S, M) /\ UNCHANGED <<word, val, timeout, my_waiter>> /\ Settles(NoThread)
  BY Zenon, FutexAssumption DEF FutexRequeue, Settles, FutexInv, TypeOK
<1>3. futex_queue' = Table(S, M, b)
  BY Zenon DEF FutexRequeue, Table
<1>. HIDE DEF S, M
<1>. QED  BY Zenon, <1>1, <1>2, <1>3, TakeOutInv, FutexAssumption

(* User code stores to a word, and owes a wake.                            *)
LEMMA StoreInv ==
    ASSUME FutexInv, NEW t \in Threads, NEW a \in Addresses, NEW v \in Values, Store(t, a, v)
    PROVE  FutexInv'
<1>. USE DEF Store, Goto, FutexInv, sleepVars
<1>1. TypeOK'      BY Zenon DEF TypeOK, SleepTypeOK
<1>2. CallInv'     BY Zenon DEF TypeOK, CallInv, InTable, Awake
<1>3. SlotsOwned'  BY DEF TypeOK, SlotsOwned, InTable
<1>4. SlotAddress'  BY DEF TypeOK, SlotAddress, SlotsOwned, InTable
<1>5. Reach'       BY Zenon DEF TypeOK, Reach, Waits
<1>6. Missed'
  <2>. SUFFICES ASSUME NEW u \in Threads, Waits(u)', fate[u] = "none",
                       word'[uaddr'[u]] # val[u], ~wake_pending[u]
                PROVE  \E s \in Threads : pc'[s] = "stored" /\ uaddr'[s] = uaddr'[u]
    BY DEF Missed, Waits
  <2>1. u # t /\ Waits(u) /\ uaddr'[u] = uaddr[u] /\ uaddr[u] \in Addresses
    BY Zenon DEF Waits, TypeOK, CallInv, InTable
  <2>2. CASE uaddr[u] = a
    BY Zenon, <2>1, <2>2 DEF TypeOK
  <2>3. CASE uaddr[u] # a
    <3>1. word'[uaddr[u]] = word[uaddr[u]]  BY Zenon, <2>1, <2>3 DEF TypeOK
    <3>2. PICK s \in Threads : pc[s] = "stored" /\ uaddr[s] = uaddr[u]
      BY Zenon, <2>1, <3>1 DEF Missed
    <3>3. s # t  BY Zenon, <3>2
    <3>. QED  BY Zenon, <2>1, <3>2, <3>3 DEF TypeOK
  <2>. QED  BY Zenon, <2>2, <2>3
<1>. QED  BY Zenon, <1>1, <1>2, <1>3, <1>4, <1>5, <1>6

(* The waker that changed the word clears its debt: every waiter of the    *)
(* address that has not been moved is in the table and is woken.           *)
LEMMA WakeAllInv ==
    ASSUME FutexInv, NEW t \in Threads, WakeAll(t)
    PROVE  FutexInv'
<1>. DEFINE a == uaddr[t]
<1>1. a \in Addresses /\ pc[t] = "stored"
  BY Zenon DEF WakeAll, FutexInv, CallInv
<1>2. FirstOf(Queued(a), IF MaxFutex = 0 THEN 1 ELSE MaxFutex) = Queued(a)
  BY Zenon, FirstOfAll, FutexAssumption
<1>3. TakeOut(Queued(a), {}) /\ UNCHANGED <<word, val, timeout, my_waiter>>
  BY Zenon, <1>2 DEF WakeAll, FutexWake
<1>4. futex_queue' = Table(Queued(a), {}, a)
  BY Zenon, <1>2 DEF WakeAll, FutexWake, Table
<1>5. Settles(t)
  BY Zenon DEF WakeAll, Goto, Settles, FutexInv, TypeOK
<1>. HIDE DEF a
<1>6. Queued(a) \in SUBSET Queued(a) /\ {} \in SUBSET Queued(a)
  BY Zenon
<1>7. Queued(a) = Queued(uaddr[t])
  BY Zenon DEF a
<1>. QED  BY Zenon, <1>1, <1>3, <1>4, <1>5, <1>6, <1>7, TakeOutInv

(* A wake from elsewhere: a signal.                                        *)
LEMMA OtherWakeInv ==
    ASSUME FutexInv, NEW t \in Threads, OtherWake(t)
    PROVE  FutexInv'
  BY DEF OtherWake, Wake, waitVars, FutexInv, TypeOK, SleepTypeOK, CallInv, SlotsOwned, SlotAddress,
     Reach, Missed, Waits, InTable, Awake, Slots

(* Every step keeps the invariant.                                         *)
LEMMA NextFutexInv == FutexInv /\ [Next]_vars => FutexInv'
<1>. SUFFICES ASSUME FutexInv, [Next]_vars PROVE FutexInv'
  BY Zenon
<1>1. CASE UNCHANGED vars
  BY <1>1 DEF vars, waitVars, sleepVars, FutexInv, TypeOK, SleepTypeOK, CallInv, SlotsOwned,
     SlotAddress, Reach, Missed, Waits, InTable, Awake, Slots
<1>2. ASSUME NEW t \in Threads, Wait(t) \/ WaitResume(t) PROVE FutexInv'
  BY Zenon, <1>2, WaitEnqueueInv, WaitStepInv, WaitCleanupInv DEF Wait
<1>3. ASSUME NEW t \in Threads,
             \/ \E a \in Addresses, v \in Values, limit \in {"none", "short", "long"} :
                    WaitStart(t, a, v, limit)
             \/ \E a \in Addresses, v \in Values : Store(t, a, v)
             \/ WakeAll(t) \/ OtherWake(t)
      PROVE  FutexInv'
  BY Zenon, <1>3, WaitStartInv, StoreInv, WakeAllInv, OtherWakeInv
<1>4. ASSUME NEW t \in Threads, NEW a \in Addresses, NEW n \in 0 .. MaxFutex, WakeCall(t, a, n)
      PROVE  FutexInv'
  BY <1>4, WakeCallInv, FutexAssumption
<1>5. ASSUME NEW t \in Threads, NEW a \in Addresses, NEW b \in Addresses,
             NEW n \in 0 .. MaxFutex, NEW m \in 0 .. MaxFutex, FutexRequeue(t, a, b, n, m)
      PROVE  FutexInv'
  BY Zenon, <1>5, FutexRequeueInv
<1>. QED  BY Zenon, <1>1, <1>2, <1>3, <1>4, <1>5 DEF Next, Waiter, Waker

(* For any number of threads, words and slots: every slot of the table     *)
(* belongs to a thread inside FUTEX_WAIT, which has no other slot, and     *)
(* a sleeper that no wake is on its way to is in the table.                *)
THEOREM TableKept == Spec => []TableExact
<1>. QED  BY InitFutexInv, NextFutexInv, FutexInvImplies, PTL DEF Spec

(* No waiter sleeps through a change of its word that was followed by a    *)
(* wake.                                                                   *)
THEOREM FutexCorrect == Spec => []NoMissedWake
<1>. QED  BY InitFutexInv, NextFutexInv, FutexInvImplies, PTL DEF Spec

(* The type invariant, for all values of the constants.                    *)
THEOREM FutexTypes == Spec => []TypeOK
<1>1. FutexInv => TypeOK
  BY Zenon DEF FutexInv
<1>. QED  BY <1>1, InitFutexInv, NextFutexInv, PTL DEF Spec

-----------------------------------------------------------------------------
(* The first n slots of a search are n, or all there are.                  *)
LEMMA FirstOfCount ==
    ASSUME NEW S, S \subseteq Slots, NEW n \in Nat
    PROVE  /\ IsFiniteSet(S) /\ Cardinality(S) \in Nat
           /\ Cardinality(FirstOf(S, n)) = IF n < Cardinality(S) THEN n ELSE Cardinality(S)
<1>. DEFINE Below(i) == {j \in S : j < i}
            k == Cardinality(S)
            R == 0 .. k - 1
            r == [i \in S |-> Cardinality(Below(i))]
            m == IF n < k THEN n ELSE k
            F == FirstOf(S, n)
            g == [i \in F |-> r[i]]
<1>1. /\ MaxFutex \in Nat /\ IsFiniteSet(Slots) /\ \A i \in S : i \in Nat
  BY FutexAssumption, FS_Interval DEF Slots
<1>2. IsFiniteSet(S) /\ k \in Nat
  BY Zenon, <1>1, FS_Subset, FS_CardinalityType
<1>3. ASSUME NEW i \in S
      PROVE  /\ IsFiniteSet(Below(i)) /\ Cardinality(Below(i)) \in Nat
             /\ Cardinality(Below(i)) < k
  <2>1. Below(i) \subseteq S \ {i} /\ Below(i) \subseteq S
    BY <1>1
  <2>2. IsFiniteSet(S \ {i}) /\ Cardinality(S \ {i}) = k - 1
    BY Zenon, <1>2, FS_RemoveElement
  <2>3. IsFiniteSet(Below(i)) /\ Cardinality(Below(i)) <= k - 1
    BY Zenon, <2>1, <2>2, FS_Subset
  <2>4. Cardinality(Below(i)) \in Nat
    BY Zenon, <2>3, FS_CardinalityType
  <2>. HIDE DEF Below, k
  <2>. QED  BY <1>2, <2>3, <2>4
<1>4. ASSUME NEW i \in S, NEW j \in S, i < j
      PROVE  Cardinality(Below(i)) < Cardinality(Below(j))
  <2>1. Below(i) \cup {i} \subseteq Below(j) /\ i \notin Below(i)
    BY <1>1, <1>4
  <2>2. IsFiniteSet(Below(i) \cup {i}) /\ Cardinality(Below(i) \cup {i}) = Cardinality(Below(i)) + 1
    BY Zenon, <1>3, <2>1, FS_AddElement
  <2>3. Cardinality(Below(i) \cup {i}) <= Cardinality(Below(j))
    BY Zenon, <1>3, <2>1, FS_Subset
  <2>. HIDE DEF Below
  <2>. QED  BY <1>3, <2>2, <2>3
<1>. HIDE DEF Below, k
<1>5. r \in Injection(S, R)
  <2>1. r \in [S -> R]
    BY <1>2, <1>3
  <2>2. \A i, j \in S : i < j => r[i] < r[j]
    BY Zenon, <1>4
  <2>3. \A i \in S : r[i] \in Nat
    BY Zenon, <1>3
  <2>. HIDE DEF r
  <2>4. \A i, j \in S : r[i] = r[j] => i = j
    BY <1>1, <2>2, <2>3
  <2>. QED  BY Zenon, <2>1, <2>4 DEF Injection, IsInjective
<1>6. IsFiniteSet(R) /\ Cardinality(R) = k
  <2>1. 0 \in Int /\ k - 1 \in Int
    BY <1>2
  <2>2. IsFiniteSet(R) /\ Cardinality(R) = IF 0 > k - 1 THEN 0 ELSE (k - 1) - 0 + 1
    BY Zenon, <2>1, FS_Interval
  <2>. QED  BY <1>2, <2>2
<1>7. r \in Surjection(S, R)
  <2>. HIDE DEF r, R
  <2>. QED  BY Zenon, <1>5, <1>6, FS_Injection DEF k
<1>8. m \in Nat /\ m <= k /\ \A i \in S : i \in F <=> r[i] < m
  <2>1. \A i \in S : i \in F <=> r[i] < n
    BY Zenon DEF FirstOf, Below
  <2>2. \A i \in S : r[i] \in Nat /\ r[i] < k
    BY Zenon, <1>3
  <2>. HIDE DEF r, F
  <2>. QED  BY <1>2, <2>1, <2>2
<1>9. F \subseteq S
  BY Zenon DEF FirstOf
<1>. HIDE DEF F, m
<1>10. g \in Bijection(F, 0 .. m - 1)
  <2>1. /\ \A i \in S : r[i] \in Nat
        /\ \A i, j \in S : r[i] = r[j] => i = j
        /\ \A x \in R : \E i \in S : r[i] = x
    BY Zenon, <1>3, <1>5, <1>7 DEF Injection, IsInjective, Surjection
  <2>. HIDE DEF r
  <2>2. g \in [F -> 0 .. m - 1]
    BY <1>8, <1>9, <2>1
  <2>3. \A i, j \in F : g[i] = g[j] => i = j
    BY Zenon, <1>9, <2>1
  <2>4. \A x \in 0 .. m - 1 : \E i \in F : g[i] = x
    <3>. TAKE x \in 0 .. m - 1
    <3>1. x \in R /\ x < m
      BY <1>2, <1>8
    <3>2. PICK i \in S : r[i] = x
      BY Zenon, <2>1, <3>1
    <3>3. i \in F /\ g[i] = x
      BY Zenon, <1>8, <3>1, <3>2
    <3>. QED  BY Zenon, <3>3
  <2>. HIDE DEF g
  <2>. QED  BY Zenon, <2>2, <2>3, <2>4 DEF Bijection, Injection, Surjection, IsInjective
<1>11. Cardinality(F) = m
  <2>1. 0 \in Int /\ m - 1 \in Int
    BY <1>8
  <2>2. Cardinality(0 .. m - 1) = IF 0 > m - 1 THEN 0 ELSE (m - 1) - 0 + 1
    BY Zenon, <2>1, FS_Interval
  <2>3. IsFiniteSet(F)
    BY Zenon, <1>2, <1>9, FS_Subset
  <2>4. Cardinality(0 .. m - 1) = Cardinality(F)
    BY Zenon, <1>10, <2>3, FS_Bijection DEF ExistsBijection
  <2>. QED  BY <1>8, <2>2, <2>4
<1>. QED  BY Zenon, <1>2, <1>11 DEF F, m, k

(* The word each thread is queued on, as the contract sees it.             *)
WaitWord == [t \in Threads |-> IF QueuedOn(t) = {} THEN "none" ELSE CHOOSE a \in QueuedOn(t) : TRUE]

WaitExact ==
    /\ \A i \in Slots, t \in Threads :
          futex_queue[i].thread = t => WaitWord[t] = futex_queue[i].uaddr
    /\ \A t \in Threads :
          (\A i \in Slots : futex_queue[i].thread # t) => WaitWord[t] = "none"

(* A thread has one slot at most, and that slot is what the contract sees. *)
LEMMA WaitWordFacts == FutexInv => WaitExact
<1>. SUFFICES ASSUME FutexInv PROVE WaitExact
  BY Zenon
<1>1. ASSUME NEW i \in Slots, NEW t \in Threads, futex_queue[i].thread = t
      PROVE  WaitWord[t] = futex_queue[i].uaddr
  <2>1. SlotsOf(t) = {i}
    BY Zenon, <1>1 DEF FutexInv, SlotsOwned, SlotsOf
  <2>2. QueuedOn(t) = {futex_queue[i].uaddr}
    BY Zenon, <2>1 DEF QueuedOn
  <2>. QED  BY Zenon, <2>2 DEF WaitWord
<1>2. ASSUME NEW t \in Threads, \A i \in Slots : futex_queue[i].thread # t
      PROVE  WaitWord[t] = "none"
  <2>1. QueuedOn(t) = {}
    BY Zenon, <1>2 DEF QueuedOn, SlotsOf
  <2>. QED  BY Zenon, <2>1 DEF WaitWord
<1>. QED  BY Zenon, <1>1, <1>2 DEF WaitExact

(* The waiters of a word are the threads of its slots, one for each.       *)
LEMMA SlotsAreWaiters ==
    ASSUME FutexInv, NEW a \in Addresses
    PROVE  /\ {t \in Threads : WaitWord[t] = a} = ThreadsIn(Queued(a))
           /\ ThreadsIn(Queued(a)) \subseteq Threads
           /\ \A S \in SUBSET Queued(a) :
                 /\ IsFiniteSet(S) /\ Cardinality(S) \in Nat
                 /\ IsFiniteSet(ThreadsIn(S)) /\ Cardinality(ThreadsIn(S)) = Cardinality(S)
                 /\ ThreadsIn(Queued(a)) \ ThreadsIn(S) = ThreadsIn(Queued(a) \ S)
<1>1. \A i \in Queued(a) : i \in Slots /\ futex_queue[i].thread \in Threads /\ futex_queue[i].uaddr = a
  BY FutexAssumption DEF Queued, FutexInv, TypeOK, Empty
<1>2. \A i, j \in Queued(a) : futex_queue[i].thread = futex_queue[j].thread => i = j
  BY <1>1 DEF FutexInv, SlotsOwned
<1>3. {t \in Threads : WaitWord[t] = a} = ThreadsIn(Queued(a))
  <2>1. ASSUME NEW t \in Threads, WaitWord[t] = a PROVE t \in ThreadsIn(Queued(a))
    <3>1. PICK i \in Slots : futex_queue[i].thread = t
      BY Zenon, <2>1, WaitWordFacts, UserAssumption DEF WaitExact
    <3>2. futex_queue[i].uaddr = a /\ t # NoThread
      BY Zenon, <2>1, <3>1, WaitWordFacts, FutexAssumption DEF WaitExact
    <3>. QED  BY Zenon, <3>1, <3>2 DEF ThreadsIn, Queued
  <2>2. ASSUME NEW i \in Queued(a) PROVE WaitWord[futex_queue[i].thread] = a
    BY <1>1, WaitWordFacts DEF WaitExact
  <2>. QED  BY Zenon, <1>1, <2>1, <2>2 DEF ThreadsIn
<1>4. ASSUME NEW S \in SUBSET Queued(a)
      PROVE  /\ IsFiniteSet(S) /\ Cardinality(S) \in Nat
             /\ IsFiniteSet(ThreadsIn(S)) /\ Cardinality(ThreadsIn(S)) = Cardinality(S)
  <2>. DEFINE f == [i \in S |-> futex_queue[i].thread]
  <2>1. IsFiniteSet(S) /\ Cardinality(S) \in Nat
    BY Zenon, <1>1, FirstOfCount
  <2>2. f \in Bijection(S, ThreadsIn(S))
    <3>1. f \in [S -> ThreadsIn(S)] /\ \A t \in ThreadsIn(S) : \E i \in S : f[i] = t
      BY Zenon DEF ThreadsIn
    <3>2. \A i, j \in S : f[i] = f[j] => i = j
      BY Zenon, <1>2
    <3>. HIDE DEF f
    <3>. QED  BY Zenon, <3>1, <3>2 DEF Bijection, Injection, Surjection, IsInjective
  <2>. QED  BY Zenon, <2>1, <2>2, FS_Bijection DEF ExistsBijection
<1>5. ASSUME NEW S \in SUBSET Queued(a)
      PROVE  ThreadsIn(Queued(a)) \ ThreadsIn(S) = ThreadsIn(Queued(a) \ S)
  BY Zenon, <1>2 DEF ThreadsIn
<1>. QED  BY Zenon, <1>1, <1>3, <1>4, <1>5 DEF ThreadsIn

(* The contract counts as the table does.                                  *)
LEMMA SameCount == \A X : Contract!Cardinality(X) = Cardinality(X)
  BY Zenon DEF Contract!Cardinality, Cardinality

(* A search with a count takes out a number of threads the contract        *)
(* allows.                                                                 *)
LEMMA FirstOfAllowed ==
    ASSUME FutexInv, NEW a \in Addresses, NEW n \in Nat,
           NEW Q \in SUBSET Queued(a)
    PROVE  \E k \in 0 .. Cardinality(Threads) :
              ThreadsIn(FirstOf(Q, n)) \in Contract!UpTo(ThreadsIn(Q), k)
<1>. DEFINE S == FirstOf(Q, n)
            k == IF n < Cardinality(Q) THEN n ELSE Cardinality(Q)
<1>1. S \in SUBSET Q /\ S \in SUBSET Queued(a)
  BY Zenon, FirstOfSubset
<1>2. Q \subseteq Slots
  BY Zenon DEF Queued
<1>3. Cardinality(S) = k /\ Cardinality(Q) \in Nat
  BY Zenon, <1>2, FirstOfCount
<1>4. Cardinality(ThreadsIn(S)) = k /\ Cardinality(ThreadsIn(Q)) = Cardinality(Q)
  BY Zenon, <1>1, <1>3, SlotsAreWaiters
<1>5. ThreadsIn(S) \in SUBSET ThreadsIn(Q)
  BY Zenon, <1>1 DEF ThreadsIn
<1>6. ThreadsIn(Q) \subseteq Threads
  BY SlotsAreWaiters DEF ThreadsIn
<1>7. Cardinality(Q) <= Cardinality(Threads) /\ Cardinality(Threads) \in Nat
  BY Zenon, <1>4, <1>6, UserAssumption, FS_Subset, FS_CardinalityType
<1>8. k \in 0 .. Cardinality(Threads) /\ k = IF k < Cardinality(Q) THEN k ELSE Cardinality(Q)
  BY <1>3, <1>7
<1>. HIDE DEF S, k
<1>9. Cardinality(ThreadsIn(S)) = IF k < Cardinality(ThreadsIn(Q)) THEN k ELSE Cardinality(ThreadsIn(Q))
  BY Zenon, <1>4, <1>8
<1>10. ThreadsIn(S) \in Contract!UpTo(ThreadsIn(Q), k)
  BY Zenon, <1>5, <1>9, SameCount DEF Contract!UpTo
<1>. QED  BY Zenon, <1>8, <1>10 DEF S

(* What FUTEX_WAKE and FUTEX_REQUEUE do to the words threads wait on.      *)
LEMMA TableWaits ==
    ASSUME FutexInv, FutexInv', NEW a, NEW b \in Addresses, NEW S \in SUBSET Queued(a),
           NEW M \in SUBSET (Queued(a) \ S), futex_queue' = Table(S, M, b)
    PROVE  WaitWord' = [t \in Threads |-> IF t \in ThreadsIn(M) THEN b
                                          ELSE IF t \in ThreadsIn(S) THEN "none" ELSE WaitWord[t]]
<1>0. WaitExact /\ WaitExact'
  BY WaitWordFacts, PTL
<1>1. /\ \A i \in S : i \in Slots /\ futex_queue[i].thread \in Threads
      /\ \A i \in M : i \in Slots /\ futex_queue[i] \in [uaddr : Addresses, thread : Threads]
  BY FutexAssumption DEF Queued, FutexInv, TypeOK, Empty
<1>2. \A i \in Slots : futex_queue'[i] = IF i \in S THEN Empty
                                         ELSE IF i \in M THEN [futex_queue[i] EXCEPT !.uaddr = b]
                                         ELSE futex_queue[i]
  BY Zenon DEF Table
<1>3. \A i, j \in Slots, t \in Threads : futex_queue[i].thread = t /\ futex_queue[j].thread = t => i = j
  BY Zenon DEF FutexInv, SlotsOwned
<1>5. \A i \in Slots : futex_queue'[i].thread = IF i \in S THEN NoThread ELSE futex_queue[i].thread
  <2>. TAKE i \in Slots
  <2>1. CASE i \in S
    <3>1. futex_queue'[i] = Empty
      BY Zenon, <1>2, <2>1
    <3>. QED  BY <2>1, <3>1 DEF Empty
  <2>2. CASE i \in M \ S
    BY Zenon, <1>1, <1>2, <2>2
  <2>3. CASE i \notin M \cup S
    BY Zenon, <1>2, <2>3
  <2>. QED  BY Zenon, <2>1, <2>2, <2>3
<1>4. ASSUME NEW t \in Threads
      PROVE  WaitWord'[t] = IF t \in ThreadsIn(M) THEN b
                            ELSE IF t \in ThreadsIn(S) THEN "none" ELSE WaitWord[t]
  <2>1. CASE t \in ThreadsIn(M)
    <3>1. PICK i \in M : futex_queue[i].thread = t
      BY Zenon, <2>1 DEF ThreadsIn
    <3>2. futex_queue'[i].thread = t /\ futex_queue'[i].uaddr = b /\ i \in Slots
      BY Zenon, <1>1, <1>2, <3>1
    <3>. QED  BY Zenon, <1>0, <2>1, <3>2 DEF WaitExact, Slots
  <2>2. CASE t \notin ThreadsIn(M) /\ t \in ThreadsIn(S)
    <3>1. PICK i \in S : futex_queue[i].thread = t
      BY Zenon, <2>2 DEF ThreadsIn
    <3>2. \A j \in Slots : futex_queue'[j].thread # t
      BY <1>1, <1>3, <1>5, <3>1, FutexAssumption
    <3>. QED  BY Zenon, <1>0, <2>2, <3>2 DEF WaitExact, Slots
  <2>3. CASE t \notin ThreadsIn(M) /\ t \notin ThreadsIn(S)
    <3>1. \A j \in Slots : futex_queue[j].thread = t => futex_queue'[j] = futex_queue[j]
      BY Zenon, <1>2, <2>3 DEF ThreadsIn
    <3>2. CASE \E j \in Slots : futex_queue[j].thread = t
      BY <1>0, <2>3, <3>1, <3>2 DEF WaitExact, Slots
    <3>3. CASE \A j \in Slots : futex_queue[j].thread # t
      <4>1. \A j \in Slots : futex_queue'[j].thread # t
        BY Zenon, <1>5, <3>3, FutexAssumption
      <4>. QED  BY Zenon, <1>0, <2>3, <3>3, <4>1 DEF WaitExact, Slots
    <3>. QED  BY Zenon, <3>2, <3>3
  <2>. QED  BY Zenon, <2>1, <2>2, <2>3
<1>. QED  BY Zenon, <1>4 DEF WaitWord

Seen == <<word, WaitWord>>

(* The steps that user space does not see.                                 *)
LEMMA TableSame ==
    ASSUME UNCHANGED futex_queue
    PROVE  UNCHANGED WaitWord
  BY DEF WaitWord, QueuedOn, SlotsOf, Slots

(* FUTEX_WAIT queues the thread while the word has its value.              *)
LEMMA EnqueueEnters ==
    ASSUME FutexInv, FutexInv', NEW t \in Threads, WaitEnqueue(t)
    PROVE  Contract!ContractNext(val) \/ UNCHANGED Seen
<1>1. pc[t] = "enqueue" /\ uaddr[t] \in Addresses /\ UNCHANGED word
  BY Zenon DEF WaitEnqueue, FutexInv, CallInv
<1>2. \A i \in Slots : futex_queue[i].thread # t
  BY Zenon, <1>1 DEF FutexInv, SlotsOwned, InTable
<1>3. WaitExact /\ WaitExact'
  BY WaitWordFacts, PTL
<1>4. ASSUME NEW i \in Slots, word[uaddr[t]] = val[t], futex_queue[i].thread = NoThread,
             futex_queue' = [futex_queue EXCEPT ![i] = [uaddr |-> uaddr[t], thread |-> t]]
      PROVE  Contract!ContractNext(val)
  <2>1. /\ futex_queue'[i].thread = t /\ futex_queue'[i].uaddr = uaddr[t]
        /\ \A j \in Slots : j # i => futex_queue'[j] = futex_queue[j]
    BY <1>4 DEF FutexInv, TypeOK
  <2>2. WaitWord[t] = "none" /\ WaitWord'[t] = uaddr[t]
    BY Zenon, <1>2, <1>3, <2>1 DEF WaitExact, Slots
  <2>3. ASSUME NEW u \in Threads, u # t PROVE WaitWord'[u] = WaitWord[u]
    <3>1. CASE \E j \in Slots : futex_queue[j].thread = u
      <4>1. PICK j \in Slots : futex_queue[j].thread = u
        BY Zenon, <3>1
      <4>2. futex_queue'[j] = futex_queue[j]
        BY Zenon, <1>4, <2>1, <4>1, FutexAssumption
      <4>. QED  BY <1>3, <4>1, <4>2 DEF WaitExact, Slots
    <3>2. CASE \A j \in Slots : futex_queue[j].thread # u
      <4>1. \A j \in Slots : futex_queue'[j].thread # u
        BY Zenon, <2>1, <2>3, <3>2
      <4>. QED  BY Zenon, <1>3, <3>2, <4>1 DEF WaitExact, Slots
    <3>. QED  BY Zenon, <3>1, <3>2
  <2>4. WaitWord' = [WaitWord EXCEPT ![t] = uaddr[t]]
    BY Zenon, <2>2, <2>3 DEF WaitWord
  <2>5. Contract!EnterQueue(t, uaddr[t], val[t])
    BY Zenon, <1>4, <2>2, <2>4 DEF Contract!EnterQueue, WaitWord
  <2>6. uaddr[t] \in DOMAIN word
    BY Zenon, <1>1 DEF FutexInv, TypeOK
  <2>. QED  BY Zenon, <1>1, <2>5, <2>6 DEF Contract!ContractNext
<1>5. SlotsOf(t) = {}
  BY Zenon, <1>2 DEF SlotsOf
<1>6. CASE UNCHANGED futex_queue
  BY Zenon, <1>1, <1>6, TableSame DEF Seen
<1>7. CASE ~UNCHANGED futex_queue
  <2>1. PICK i \in Slots : /\ word[uaddr[t]] = val[t] /\ IsFirst(i, FreeSlots)
                           /\ futex_queue' = [futex_queue EXCEPT ![i] = [uaddr |-> uaddr[t], thread |-> t]]
    BY Zenon, <1>5, <1>7 DEF WaitEnqueue
  <2>2. futex_queue[i].thread = NoThread
    BY Zenon, <2>1 DEF IsFirst, FreeSlots, SlotsOf
  <2>. QED  BY Zenon, <1>4, <2>1, <2>2
<1>. QED  BY Zenon, <1>6, <1>7

(* The end of a wait takes the thread out of the queue if it is still in.  *)
LEMMA CleanupLeaves ==
    ASSUME FutexInv, FutexInv', NEW t \in Threads, WaitCleanup(t)
    PROVE  Contract!ContractNext(val)
<1>1. InTable(t) /\ UNCHANGED word
  BY Zenon DEF WaitCleanup, InTable
<1>2. my_waiter[t] \in Slots /\ \A i \in Slots : futex_queue[i].thread = t => i = my_waiter[t]
  BY Zenon, <1>1 DEF FutexInv, CallInv, SlotsOwned
<1>3. \A i \in Slots : futex_queue'[i] = IF futex_queue[i].thread = t THEN Empty ELSE futex_queue[i]
  BY <1>2 DEF WaitCleanup, FutexInv, TypeOK
<1>4. \A i \in Slots : futex_queue'[i].thread # t
  BY <1>3, FutexAssumption DEF Empty
<1>5. WaitExact /\ WaitExact'
  BY WaitWordFacts, PTL
<1>6. WaitWord'[t] = "none"
  BY Zenon, <1>4, <1>5 DEF WaitExact, Slots
<1>7. ASSUME NEW u \in Threads, u # t PROVE WaitWord'[u] = WaitWord[u]
  <2>1. CASE \E j \in Slots : futex_queue[j].thread = u
    <3>1. PICK j \in Slots : futex_queue[j].thread = u
      BY Zenon, <2>1
    <3>2. futex_queue'[j] = futex_queue[j]
      BY Zenon, <1>3, <1>7, <3>1
    <3>. QED  BY <1>5, <3>1, <3>2 DEF WaitExact, Slots
  <2>2. CASE \A j \in Slots : futex_queue[j].thread # u
    <3>1. \A j \in Slots : futex_queue'[j].thread # u
      BY <1>3, <2>2, FutexAssumption DEF Empty
    <3>. QED  BY Zenon, <1>5, <2>2, <3>1 DEF WaitExact, Slots
  <2>. QED  BY Zenon, <2>1, <2>2
<1>8. WaitWord' = [u \in Threads |-> IF u \in {t} THEN "none" ELSE WaitWord[u]]
  BY Zenon, <1>6, <1>7 DEF WaitWord
<1>9. Contract!LeaveQueue(t)
  BY Zenon, <1>8 DEF Contract!LeaveQueue, Contract!Out, WaitWord
<1>. QED  BY Zenon, <1>1, <1>9 DEF Contract!ContractNext

(* FUTEX_WAKE takes as many waiters out as there are up to its count.      *)
LEMMA WakeTakes ==
    ASSUME FutexInv, FutexInv', NEW a \in Addresses, NEW n \in Nat, FutexWake(a, n), UNCHANGED word
    PROVE  Contract!ContractNext(val)
<1>. DEFINE m == IF n = 0 THEN 1 ELSE n
            S == FirstOf(Queued(a), m)
            W == ThreadsIn(Queued(a))
<1>1. S \in SUBSET Queued(a) /\ {} \in SUBSET (Queued(a) \ S) /\ Queued(a) \in SUBSET Queued(a) /\ m \in Nat
  BY Zenon, FirstOfSubset
<1>2. futex_queue' = Table(S, {}, a)
  BY Zenon DEF FutexWake, Table
<1>. HIDE DEF m
<1>3. PICK k \in 0 .. Cardinality(Threads) : ThreadsIn(S) \in Contract!UpTo(W, k)
  BY Zenon, <1>1, FirstOfAllowed
<1>4. Contract!WaitingOn(a) = W
  BY Zenon, SlotsAreWaiters DEF Contract!WaitingOn, WaitWord
<1>. HIDE DEF S
<1>5. ThreadsIn({}) = {}
  BY Zenon DEF ThreadsIn
<1>6. WaitWord' = [t \in Threads |-> IF t \in ThreadsIn(S) THEN "none" ELSE WaitWord[t]]
  BY <1>1, <1>2, <1>5, TableWaits
<1>7. WaitWord' = Contract!Out(ThreadsIn(S))
  BY Zenon, <1>6 DEF Contract!Out, WaitWord
<1>8. Contract!WakeQueue(a, k)
  BY Zenon, <1>3, <1>4, <1>7 DEF Contract!WakeQueue, WaitWord
<1>9. a \in DOMAIN word
  BY Zenon DEF FutexInv, TypeOK
<1>. QED  BY Zenon, <1>3, <1>8, <1>9, SameCount DEF Contract!ContractNext

(* FUTEX_REQUEUE wakes some and moves some of the rest.                    *)
LEMMA RequeueMoves ==
    ASSUME FutexInv, FutexInv', NEW t \in Threads, NEW a \in Addresses, NEW b \in Addresses,
           NEW n \in Nat, NEW m \in Nat, FutexRequeue(t, a, b, n, m)
    PROVE  Contract!ContractNext(val)
<1>. DEFINE S == FirstOf(Queued(a), n)
            R == Queued(a) \ S
            M == FirstOf(R, m)
            W == ThreadsIn(Queued(a))
<1>1. S \in SUBSET Queued(a) /\ Queued(a) \in SUBSET Queued(a) /\ R \in SUBSET Queued(a) /\ M \in SUBSET R
  BY Zenon, FirstOfSubset
<1>2. futex_queue' = Table(S, M, b) /\ UNCHANGED word
  BY Zenon DEF FutexRequeue, Table
<1>3. PICK k \in 0 .. Cardinality(Threads) : ThreadsIn(S) \in Contract!UpTo(W, k)
  BY Zenon, <1>1, FirstOfAllowed
<1>. HIDE DEF S
<1>4. PICK l \in 0 .. Cardinality(Threads) : ThreadsIn(M) \in Contract!UpTo(ThreadsIn(R), l)
  BY Zenon, <1>1, FirstOfAllowed
<1>5. Contract!WaitingOn(a) = W
  BY Zenon, SlotsAreWaiters DEF Contract!WaitingOn, WaitWord
<1>6. ThreadsIn(R) = W \ ThreadsIn(S)
  BY Zenon, <1>1, SlotsAreWaiters
<1>. HIDE DEF M
<1>7. WaitWord' = [u \in Threads |-> IF u \in ThreadsIn(M) THEN b
                                     ELSE IF u \in ThreadsIn(S) THEN "none" ELSE WaitWord[u]]
  BY <1>1, <1>2, TableWaits
<1>8. WaitWord' = [u \in Threads |-> IF u \in ThreadsIn(M) THEN b ELSE Contract!Out(ThreadsIn(S))[u]]
  BY Zenon, <1>7 DEF Contract!Out, WaitWord
<1>. HIDE DEF W
<1>9. Contract!RequeueTo(a, b, k, l)
  BY Zenon, <1>3, <1>4, <1>5, <1>6, <1>8 DEF Contract!RequeueTo, WaitWord
<1>10. a \in DOMAIN word /\ b \in DOMAIN word
  BY DEF FutexInv, TypeOK
<1>. QED  BY Zenon, <1>2, <1>3, <1>4, <1>9, <1>10, SameCount DEF Contract!ContractNext

(* User code stores to a word.                                             *)
LEMMA StoreChanges ==
    ASSUME FutexInv, NEW t \in Threads, NEW a \in Addresses, NEW v \in Values, Store(t, a, v)
    PROVE  Contract!ContractNext(val)
<1>1. a \in DOMAIN word /\ word' = [word EXCEPT ![a] = v] /\ word'[a] = v /\ UNCHANGED futex_queue
  BY Zenon DEF Store, FutexInv, TypeOK
<1>2. Contract!ChangeWord
  BY Zenon, <1>1 DEF Contract!ChangeWord
<1>3. UNCHANGED WaitWord
  BY Zenon, <1>1, TableSame
<1>. QED  BY Zenon, <1>2, <1>3 DEF Contract!ContractNext, WaitWord

(* Every step of the table is a step of the contract or is not seen.       *)
LEMMA NextContract ==
    FutexInv /\ FutexInv' /\ [Next]_vars => [Contract!ContractNext(val)]_(Contract!contractVars)
<1>. SUFFICES ASSUME FutexInv, FutexInv', [Next]_vars
              PROVE  Contract!ContractNext(val) \/ UNCHANGED Seen
  BY Zenon DEF Seen, Contract!contractVars, WaitWord
<1>1. CASE UNCHANGED vars
  BY Zenon, <1>1, TableSame DEF vars, Seen
<1>2. ASSUME NEW t \in Threads, WaitEnqueue(t) \/ WaitCleanup(t)
      PROVE  Contract!ContractNext(val) \/ UNCHANGED Seen
  BY Zenon, <1>2, EnqueueEnters, CleanupLeaves
<1>3. ASSUME NEW t \in Threads,
             \/ WaitSleep(t) \/ WaitTimer(t) \/ WaitCheck(t) \/ WaitResume(t) \/ OtherWake(t)
             \/ \E a \in Addresses, v \in Values, limit \in {"none", "short", "long"} :
                    WaitStart(t, a, v, limit)
      PROVE  UNCHANGED Seen
  BY Zenon, <1>3, TableSame DEF WaitSleep, WaitTimer, WaitCheck, WaitResume, OtherWake, WaitStart, Seen
<1>4. ASSUME NEW t \in Threads, NEW a \in Addresses, NEW n \in 0 .. MaxFutex, WakeCall(t, a, n)
      PROVE  Contract!ContractNext(val)
  BY <1>4, WakeTakes, FutexAssumption DEF WakeCall
<1>5. ASSUME NEW t \in Threads, WakeAll(t)
      PROVE  Contract!ContractNext(val)
  <2>1. uaddr[t] \in Addresses
    BY Zenon, <1>5 DEF WakeAll, FutexInv, CallInv
  <2>. QED  BY Zenon, <1>5, <2>1, WakeTakes, FutexAssumption DEF WakeAll
<1>6. ASSUME NEW t \in Threads, NEW a \in Addresses, NEW b \in Addresses,
             NEW n \in 0 .. MaxFutex, NEW m \in 0 .. MaxFutex, FutexRequeue(t, a, b, n, m)
      PROVE  Contract!ContractNext(val)
  BY <1>6, RequeueMoves, FutexAssumption
<1>7. ASSUME NEW t \in Threads, NEW a \in Addresses, NEW v \in Values, Store(t, a, v)
      PROVE  Contract!ContractNext(val)
  BY Zenon, <1>7, StoreChanges
<1>. QED  BY Zenon, <1>1, <1>2, <1>3, <1>4, <1>5, <1>6, <1>7 DEF Next, Waiter, Waker, Wait

(* The table implements the contract the callers of futex() rely on, for   *)
(* any number of threads, words and slots: a wait enters the queue only    *)
(* while the word has the expected value, a wake takes out exactly as many *)
(* waiters as it names if there are that many, and a requeue wakes and     *)
(* moves as many as it was told.                                           *)
THEOREM ContractKept == Spec => ImplementsContract
<1>1. Init => Contract!ContractInit
  <2>. SUFFICES ASSUME Init PROVE Contract!ContractInit
    BY Zenon
  <2>1. WaitExact
    BY Zenon, InitFutexInv, WaitWordFacts
  <2>2. \A t \in Threads : WaitWord[t] = "none"
    BY Zenon, <2>1, FutexAssumption DEF WaitExact, Init, Empty
  <2>. QED  BY Zenon, <2>2 DEF Contract!ContractInit, WaitWord
<1>. QED  BY <1>1, InitFutexInv, NextFutexInv, NextContract, PTL DEF Spec, ImplementsContract
=============================================================================
