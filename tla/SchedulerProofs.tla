-------------------------- MODULE SchedulerProofs ---------------------------
(***************************************************************************)
(* For any number of threads and cores: no wake of a thread in             *)
(* thread_block is lost; the records of the scheduler are exact, by an     *)
(* invariant that ties the queues, current, active_thread and the fields   *)
(* of the threads together; and the scheduler implements BlockWake.        *)
(***************************************************************************)
EXTENDS Scheduler, TLAPS

(* The variables the argument is about, and no more of their types than it *)
(* needs.                                                                  *)
WakeTypes ==
    /\ state \in [Threads -> States]
    /\ wake_pending \in [Threads -> BOOLEAN]
    /\ loc \in [Threads -> Locations]
    /\ on = [c \in Cores |-> on[c]]
    /\ waking \in [Cores -> {NoWake} \cup [step : {"load", "store"}, thread : Threads]]

WakeInv == WakeTypes /\ NoLostWake

(* A thread asleep in thread_block with a wake pending, and its waker.     *)
Sleeps(t) == loc[t] = "blocked" /\ ~Executing(t) /\ state[t] = "BLOCKED" /\ wake_pending[t]
Waker(t) == \E c \in Cores : waking[c].thread = t

LEMMA InitWakeInv == Init => WakeInv
  BY DEF Init, WakeInv, WakeTypes, NoLostWake, States, Locations, Suspended, Returned, NoWake

(* A core that executes no thread in user mode, and no scheduler loop,     *)
(* keeps executing what it executes during a tick of another kind: a       *)
(* thread asleep in thread_block is not interrupted.                       *)
LEMMA TickKeepsBlocked ==
    ASSUME WakeTypes, NEW c \in Cores, Interruptible(c), NEW t \in Threads, loc[t] = "blocked"
    PROVE  on[c] # t
  BY Zenon, ContextAssumption DEF Interruptible, Returned, Contexts

(* The states a tick stores: it blocks no thread, and an expired sleeper   *)
(* is READY.                                                               *)
LEMMA TickStateFacts ==
    ASSUME WakeTypes, NEW c \in Cores, NEW over \in BOOLEAN
    PROVE  /\ TickState(c, over) \in [Threads -> States]
           /\ \A t \in Threads : TickState(c, over)[t] = "BLOCKED" =>
                 state[t] = "BLOCKED" /\ t \notin Expired(c)
<1>1. ASSUME NEW t \in Threads
      PROVE  /\ TickState(c, over)[t] \in States
             /\ TickState(c, over)[t] = "BLOCKED" => state[t] = "BLOCKED" /\ t \notin Expired(c)
  BY Zenon, <1>1 DEF TickState, WakeTypes, States
<1>. QED  BY Zenon, <1>1 DEF TickState

(* Dispatch blocks no thread and takes the core only from what it          *)
(* executes.                                                               *)
LEMMA DispatchFacts ==
    ASSUME WakeTypes, NEW c \in Cores, NEW st \in [Threads -> States], NEW next,
           NEW switch \in BOOLEAN, Dispatch(c, st, next, switch)
    PROVE  /\ state' \in [Threads -> States]
           /\ \A t \in Threads : state'[t] = "BLOCKED" => st[t] = "BLOCKED"
           /\ on' = [d \in Cores |-> on'[d]]
           /\ \A d \in Cores : d # c => on'[d] = on[d]
<1>1. state' = [st EXCEPT ![next] = IF @ = "READY" /\ ~in_kernel_sleep[next] THEN "RUNNING" ELSE @]
  BY Zenon DEF Dispatch
<1>2. PICK x : on' = [on EXCEPT ![c] = x]
  BY Zenon DEF Dispatch
<1>3. state' \in [Threads -> States] /\ \A t \in Threads : state'[t] = "BLOCKED" => st[t] = "BLOCKED"
  BY Zenon, <1>1 DEF States
<1>4. on' = [d \in Cores |-> on'[d]] /\ \A d \in Cores : d # c => on'[d] = on[d]
  BY Zenon, <1>2 DEF WakeTypes
<1>. QED  BY Zenon, <1>3, <1>4

-----------------------------------------------------------------------------
(* vxThreadWake and attach_to_scheduler.                                   *)
LEMMA WakersWakeInv ==
    ASSUME WakeInv, NEW t \in Threads, NEW c \in Cores,
           Attach(t, c) \/ WakeStart(c, t) \/ WakeLoad(c) \/ WakeStore(c) \/ DeadlinePasses(t)
    PROVE  WakeInv'
<1>. USE DEF WakeInv, WakeTypes, NoLostWake, Executing, NoWake
<1>1. CASE Attach(t, c)
  BY Zenon, <1>1 DEF Attach, States
<1>2. CASE WakeStart(c, t)
  <2>1. WakeTypes'
    BY Zenon, <1>2 DEF WakeStart, coreVars
  <2>2. ASSUME NEW u \in Threads, Sleeps(u)' PROVE Waker(u)'
    <3>1. CASE u = t
      <4>1. waking'[c].thread = t  BY Zenon, <1>2 DEF WakeStart
      <4>. QED  BY Zenon, <3>1, <4>1 DEF Waker
    <3>2. CASE u # t
      <4>1. Sleeps(u)  BY Zenon, <1>2, <2>2, <3>2 DEF Sleeps, WakeStart, coreVars
      <4>2. PICK d \in Cores : waking[d].thread = u  BY Zenon, <4>1 DEF Sleeps
      <4>3. d # c  BY <1>2, <4>2, NoThreadAssumption DEF WakeStart
      <4>4. waking'[d].thread = u  BY Zenon, <1>2, <4>2, <4>3 DEF WakeStart
      <4>. QED  BY Zenon, <4>4 DEF Waker
    <3>. QED  BY Zenon, <3>1, <3>2
  <2>. QED  BY Zenon, <2>1, <2>2 DEF Sleeps, Waker
<1>3. CASE WakeLoad(c)
  <2>1. WakeTypes'
    BY <1>3 DEF WakeLoad, coreVars, threadVars
  <2>2. ASSUME NEW u \in Threads, Sleeps(u)' PROVE Waker(u)'
    <3>1. Sleeps(u)  BY Zenon, <1>3, <2>2 DEF Sleeps, WakeLoad, coreVars, threadVars
    <3>2. PICK d \in Cores : waking[d].thread = u  BY Zenon, <3>1 DEF Sleeps
    <3>3. waking'[d].thread = u
      BY <1>3, <3>1, <3>2 DEF WakeLoad, Sleeps
    <3>. QED  BY Zenon, <3>3 DEF Waker
  <2>. QED  BY Zenon, <2>1, <2>2 DEF Sleeps, Waker
<1>4. CASE WakeStore(c)
  <2>1. WakeTypes'
    BY Zenon, <1>4 DEF WakeStore, coreVars, States
  <2>2. ASSUME NEW u \in Threads, Sleeps(u)' PROVE Waker(u)'
    <3>1. Sleeps(u) /\ u # waking[c].thread
      BY Zenon, <1>4, <2>2 DEF Sleeps, WakeStore, coreVars
    <3>2. PICK d \in Cores : waking[d].thread = u  BY Zenon, <3>1 DEF Sleeps
    <3>3. waking'[d].thread = u
      BY Zenon, <1>4, <3>1, <3>2 DEF WakeStore
    <3>. QED  BY Zenon, <3>3 DEF Waker
  <2>. QED  BY Zenon, <2>1, <2>2 DEF Sleeps, Waker
<1>5. CASE DeadlinePasses(t)
  BY Zenon, <1>5 DEF DeadlinePasses, coreVars
<1>. QED  BY Zenon, <1>1, <1>2, <1>3, <1>4, <1>5

(* What is needed of a step of core c that leaves loc alone: no thread is  *)
(* blocked, a thread that gets wake_pending is not BLOCKED, and a thread   *)
(* asleep in thread_block does not lose the core.                          *)
LEMMA CoreKeeps ==
    ASSUME WakeInv, NEW c \in Cores,
           state' \in [Threads -> States],
           wake_pending' \in [Threads -> BOOLEAN],
           \A t \in Threads : state'[t] = "BLOCKED" =>
               state[t] = "BLOCKED" /\ wake_pending'[t] = wake_pending[t],
           on' = [d \in Cores |-> on'[d]],
           \A d \in Cores : d # c => on'[d] = on[d],
           \A t \in Threads : loc[t] = "blocked" => on[c] # t,
           UNCHANGED <<loc, waking>>
    PROVE  WakeInv'
<1>1. WakeTypes'
  BY Zenon DEF WakeInv, WakeTypes, NoWake
<1>2. ASSUME NEW t \in Threads, Sleeps(t)' PROVE Waker(t)'
  <2>1. Sleeps(t)
    BY Zenon, <1>2 DEF Sleeps, Executing
  <2>2. Waker(t)
    BY Zenon, <2>1 DEF WakeInv, NoLostWake, Sleeps, Waker
  <2>. QED  BY Zenon, <2>2 DEF Waker
<1>. QED  BY Zenon, <1>1, <1>2 DEF WakeInv, NoLostWake, Sleeps, Waker

(* A step of the thread t that core c executes: nobody else is touched,    *)
(* and t goes to sleep in thread_block only with wake_pending clear.       *)
OwnStep(c, t) ==
    /\ on[c] = t
    /\ state' \in [Threads -> States]
    /\ wake_pending' \in [Threads -> BOOLEAN]
    /\ loc' \in [Threads -> Locations]
    /\ \A u \in Threads \ {t} :
          state'[u] = state[u] /\ wake_pending'[u] = wake_pending[u] /\ loc'[u] = loc[u]
    /\ loc'[t] = "blocked" => ~wake_pending'[t] \/ on'[c] = t
    /\ on' = [d \in Cores |-> on'[d]]
    /\ \A d \in Cores \ {c} : on'[d] = on[d]
    /\ UNCHANGED waking

(* Such a step loses no wake.                                              *)
LEMMA OwnStepKeeps ==
    ASSUME WakeInv, NEW t \in Threads, NEW c \in Cores, OwnStep(c, t)
    PROVE  WakeInv'
<1>1. WakeTypes'
  BY Zenon DEF WakeInv, WakeTypes, OwnStep
<1>2. ASSUME NEW u \in Threads, Sleeps(u)' PROVE Waker(u)'
  <2>1. u # t
    BY Zenon, <1>2 DEF Sleeps, Executing, OwnStep
  <2>2. ~Executing(u)
    BY Zenon, <1>2, <2>1 DEF Sleeps, Executing, OwnStep
  <2>3. Sleeps(u)
    BY Zenon, <1>2, <2>1, <2>2 DEF Sleeps, OwnStep
  <2>. QED  BY Zenon, <2>3 DEF WakeInv, NoLostWake, Sleeps, Waker, OwnStep
<1>. QED  BY Zenon, <1>1, <1>2 DEF WakeInv, NoLostWake, Sleeps, Waker

(* A step of the thread a core executes.  Only thread_block sends a thread *)
(* to "blocked", and it has read wake_pending FALSE; the end of a fault is *)
(* the one step that takes the core to another thread.                     *)
LEMMA ThreadStepWakeInv ==
    ASSUME WakeInv, NEW t \in Threads, NEW c \in Cores, ThreadStep(c, t)
    PROVE  WakeInv'
<1>. USE DEF Executes
<1>1. CASE BlockStore(c, t)
  <2>1. OwnStep(c, t)
    BY Zenon, <1>1 DEF BlockStore, Calls, OwnStep, WakeInv, WakeTypes, coreVars, States, Locations, Suspended, Returned
  <2>. QED  BY Zenon, <2>1, OwnStepKeeps
<1>2. CASE BlockWoken(c, t)
  <2>1. OwnStep(c, t)
    BY Zenon, <1>2 DEF BlockWoken, OwnStep, WakeInv, WakeTypes, coreVars, States, Locations, Suspended, Returned
  <2>. QED  BY Zenon, <2>1, OwnStepKeeps
<1>3. CASE BlockSwitch(c, t)
  <2>1. OwnStep(c, t)
    BY Zenon, <1>3 DEF BlockSwitch, SwitchOut, OwnStep, WakeInv, WakeTypes, coreVars, States, Locations, Suspended, Returned
  <2>. QED  BY Zenon, <2>1, OwnStepKeeps
<1>4. CASE SleepStart(c, t)
  <2>1. OwnStep(c, t)
    BY ZenonT(30), <1>4 DEF SleepStart, Calls, OwnStep, WakeInv, WakeTypes, coreVars, States, Locations, Suspended, Returned
  <2>. QED  BY Zenon, <2>1, OwnStepKeeps
<1>5. CASE SleepSwitch(c, t)
  <2>1. OwnStep(c, t)
    BY Zenon, <1>5 DEF SleepSwitch, SwitchOut, OwnStep, WakeInv, WakeTypes, coreVars, States, Locations, Suspended, Returned
  <2>. QED  BY Zenon, <2>1, OwnStepKeeps
<1>6. CASE SleepReturn(c, t)
  <2>1. OwnStep(c, t)
    BY Zenon, <1>6 DEF SleepReturn, OwnStep, WakeInv, WakeTypes, coreVars, States, Locations, Suspended, Returned
  <2>. QED  BY Zenon, <2>1, OwnStepKeeps
<1>7. CASE Yield(c, t)
  <2>1. OwnStep(c, t)
    BY Zenon, <1>7 DEF Yield, Calls, SwitchOut, OwnStep, WakeInv, WakeTypes, coreVars, States, Locations, Suspended, Returned
  <2>. QED  BY Zenon, <2>1, OwnStepKeeps
<1>8. CASE YieldReturn(c, t)
  <2>1. OwnStep(c, t)
    BY Zenon, <1>8 DEF YieldReturn, OwnStep, WakeInv, WakeTypes, coreVars, States, Locations, Suspended, Returned
  <2>. QED  BY Zenon, <2>1, OwnStepKeeps
<1>9. CASE SysExit(c, t)
  <2>1. OwnStep(c, t)
    BY Zenon, <1>9 DEF SysExit, Calls, OwnStep, WakeInv, WakeTypes, coreVars, States, Locations, Suspended, Returned
  <2>. QED  BY Zenon, <2>1, OwnStepKeeps
<1>10. CASE ExitGroup(c, t)
  <2>1. OwnStep(c, t)
    BY Zenon, <1>10 DEF ExitGroup, Calls, OwnStep, WakeInv, WakeTypes, coreVars, States, Locations, Suspended, Returned
  <2>. QED  BY Zenon, <2>1, OwnStepKeeps
<1>11. CASE ExitGroupYield(c, t)
  <2>1. OwnStep(c, t)
    BY Zenon, <1>11 DEF ExitGroupYield, SwitchOut, OwnStep, WakeInv, WakeTypes, coreVars, States, Locations, Suspended, Returned
  <2>. QED  BY Zenon, <2>1, OwnStepKeeps
<1>12. CASE Fault(c, t)
  <2>1. OwnStep(c, t)
    BY Zenon, <1>12 DEF Fault, Calls, OwnStep, WakeInv, WakeTypes, coreVars, States, Locations, Suspended, Returned
  <2>. QED  BY Zenon, <2>1, OwnStepKeeps
<1>13. CASE FaultRestore(c, t)
  <2>1. PICK x : on' = [on EXCEPT ![c] = x]
    BY Zenon, <1>13 DEF FaultRestore
  <2>2. state' \in [Threads -> States] /\ \A u \in Threads : state'[u] = "BLOCKED" => state[u] = "BLOCKED"
    BY <1>13 DEF FaultRestore, WakeInv, WakeTypes, States
  <2>3. on[c] = t /\ loc[t] = "fault" /\ UNCHANGED <<wake_pending, loc, waking>>
    BY Zenon, <1>13 DEF FaultRestore
  <2>4. on' = [d \in Cores |-> on'[d]] /\ \A d \in Cores : d # c => on'[d] = on[d]
    BY Zenon, <2>1 DEF WakeInv, WakeTypes
  <2>. QED  BY Zenon, <2>2, <2>3, <2>4, CoreKeeps DEF WakeInv, WakeTypes
<1>. QED  BY Zenon, <1>1, <1>2, <1>3, <1>4, <1>5, <1>6, <1>7, <1>8, <1>9, <1>10, <1>11, <1>12,
             <1>13 DEF ThreadStep

-----------------------------------------------------------------------------
LEMMA TickScanFacts ==
    ASSUME WakeTypes, NEW c \in Cores, TickScan(c)
    PROVE  /\ wake_pending' \in [Threads -> BOOLEAN]
           /\ \A t \in Threads : t \notin Expired(c) => wake_pending'[t] = wake_pending[t]
           /\ UNCHANGED <<loc, waking>>
  BY Zenon DEF TickScan, WakeTypes

LEMMA CoreStepWakeInv ==
    ASSUME WakeInv, NEW c \in Cores, CoreStep(c), ~WakeLoad(c), ~WakeStore(c)
    PROVE  WakeInv'
<1>. WakeTypes  BY Zenon DEF WakeInv
<1>1. CASE ResumeSearch(c)
  <2>1. PICK x : on' = [on EXCEPT ![c] = x]
    BY Zenon, <1>1 DEF ResumeSearch
  <2>2. on[c] = "resume" /\ UNCHANGED <<threadVars, waking>>
    BY Zenon, <1>1 DEF ResumeSearch
  <2>3. on' = [d \in Cores |-> on'[d]] /\ \A d \in Cores : d # c => on'[d] = on[d]
    BY Zenon, <2>1 DEF WakeTypes
  <2>. QED  BY Zenon, <2>2, <2>3, CoreKeeps, ContextAssumption DEF threadVars, Contexts, WakeTypes
<1>2. CASE TickSearch(c)
  <2>1. on[c] = "search" /\ UNCHANGED <<wake_pending, loc, waking>>
    BY Zenon, <1>2 DEF TickSearch
  <2>2. state \in [Threads -> States]
    BY Zenon DEF WakeTypes
  <2>3. Dispatch(c, state, FirstRunnable(queue[c], state), TRUE)
    BY Zenon, <1>2 DEF TickSearch
  <2>4. /\ state' \in [Threads -> States]
        /\ \A t \in Threads : state'[t] = "BLOCKED" => state[t] = "BLOCKED"
        /\ on' = [d \in Cores |-> on'[d]]
        /\ \A d \in Cores : d # c => on'[d] = on[d]
    BY Zenon, <2>2, <2>3, DispatchFacts
  <2>. QED  BY <2>1, <2>4, CoreKeeps, ContextAssumption DEF Contexts, WakeTypes
<1>3. ASSUME NEW over \in BOOLEAN, Tick(c, over)
      PROVE  WakeInv'
  <2>1. \A t \in Threads : loc[t] = "blocked" => on[c] # t
    BY Zenon, <1>3, TickKeepsBlocked DEF Tick, TickReapLast, TickKeep, TickSwitch, TickNone, Ticks
  <2>2. ASSUME NEW sw \in BOOLEAN, NEW next, NEW ov \in BOOLEAN,
               TickScan(c), Dispatch(c, TickState(c, ov), next, sw)
        PROVE  WakeInv'
    <3>1. /\ TickState(c, ov) \in [Threads -> States]
          /\ \A t \in Threads : TickState(c, ov)[t] = "BLOCKED" =>
                 state[t] = "BLOCKED" /\ t \notin Expired(c)
      BY Zenon, TickStateFacts
    <3>2. /\ state' \in [Threads -> States]
          /\ \A t \in Threads : state'[t] = "BLOCKED" => TickState(c, ov)[t] = "BLOCKED"
          /\ on' = [d \in Cores |-> on'[d]]
          /\ \A d \in Cores : d # c => on'[d] = on[d]
      BY <2>2, <3>1, DispatchFacts
    <3>. QED  BY <2>1, <2>2, <3>1, <3>2, TickScanFacts, CoreKeeps
  <2>3. CASE TickReapLast(c)
    <3>1. /\ state' \in [Threads -> States]
          /\ \A t \in Threads : state'[t] = "BLOCKED" => state[t] = "BLOCKED"
      BY Zenon, <2>3 DEF TickReapLast, WakeTypes, States
    <3>2. UNCHANGED <<wake_pending, loc, on, waking>>
      BY Zenon, <2>3 DEF TickReapLast
    <3>. QED  BY Zenon, <2>1, <3>1, <3>2, CoreKeeps DEF WakeTypes
  <2>4. CASE TickKeep(c)
    BY Zenon, <2>2, <2>4 DEF TickKeep
  <2>5. CASE TickSwitch(c, over)
    BY Zenon, <2>2, <2>5 DEF TickSwitch
  <2>6. CASE TickNone(c, over)
    <3>1. TickScan(c) /\ state' = TickState(c, over)
      BY Zenon, <2>6 DEF TickNone
    <3>2. PICK x : on' = on \/ on' = [on EXCEPT ![c] = x]
      BY Zenon, <2>6 DEF TickNone
    <3>3. on' = [d \in Cores |-> on'[d]] /\ \A d \in Cores : d # c => on'[d] = on[d]
      BY Zenon, <3>2 DEF WakeTypes
    <3>. QED  BY <2>1, <3>1, <3>3, TickStateFacts, TickScanFacts, CoreKeeps
  <2>. QED  BY Zenon, <1>3, <2>3, <2>4, <2>5, <2>6 DEF Tick
<1>. QED  BY Zenon, <1>1, <1>2, <1>3 DEF CoreStep

LEMMA NextWakeInv == WakeInv /\ [Next]_vars => WakeInv'
<1>. SUFFICES ASSUME WakeInv, [Next]_vars PROVE WakeInv'
  BY Zenon
<1>1. CASE UNCHANGED vars
  BY Zenon, <1>1 DEF WakeInv, WakeTypes, NoLostWake, Executing, NoWake, vars, threadVars, coreVars
<1>2. ASSUME NEW t \in Threads, NEW c \in Cores, Attach(t, c) \/ WakeStart(c, t) \/ ThreadStep(c, t)
      PROVE  WakeInv'
  BY Zenon, <1>2, WakersWakeInv, ThreadStepWakeInv
<1>3. ASSUME NEW c \in Cores, CoreStep(c) PROVE WakeInv'
  <2>1. CASE WakeLoad(c) \/ WakeStore(c)
    <3>1. waking[c].thread \in Threads
      BY <2>1 DEF WakeInv, WakeTypes, NoWake, WakeLoad, WakeStore
    <3>. QED  BY Zenon, <2>1, <3>1, WakersWakeInv
  <2>. QED  BY Zenon, <1>3, <2>1, CoreStepWakeInv
<1>4. ASSUME NEW t \in Threads, DeadlinePasses(t) PROVE WakeInv'
  BY Zenon, <1>4 DEF DeadlinePasses, WakeInv, WakeTypes, NoLostWake, Executing, NoWake, coreVars
<1>. QED  BY Zenon, <1>1, <1>2, <1>3, <1>4 DEF Next

(* On any number of cores and threads, a thread that sleeps in             *)
(* thread_block with wake_pending set still has a vxThreadWake under way   *)
(* that will make it runnable.                                             *)
THEOREM WakeNeverLost == Spec => []NoLostWake
<1>1. WakeInv => NoLostWake
  BY Zenon DEF WakeInv
<1>. QED  BY <1>1, InitWakeInv, NextWakeInv, PTL DEF Spec

------------------------------------------------------------------------------
(* A sequence of threads that holds each of them once.                     *)
Ring(q) == q \in Seq(Threads) /\ \A i, j \in 1 .. Len(q) : q[i] = q[j] => i = j

(* The nodes of a queue, by their index.                                   *)
LEMMA MembersAre ==
    ASSUME NEW q \in Seq(Threads)
    PROVE  /\ DOMAIN q = 1 .. Len(q) /\ Len(q) \in Nat
           /\ \A x : x \in Members(q) <=> \E i \in 1 .. Len(q) : q[i] = x
  BY DEF Members

(* PlaceOf is the index of a thread in a queue that holds it.              *)
LEMMA PlaceFacts ==
    ASSUME NEW q \in Seq(Threads), NEW t \in Members(q)
    PROVE  PlaceOf(q, t) \in 1 .. Len(q) /\ q[PlaceOf(q, t)] = t
  BY DEF PlaceOf, Members

(* vxAllocScheduler links a thread that is in no queue at the end.         *)
LEMMA AppendFacts ==
    ASSUME NEW q, Ring(q), NEW t \in Threads, t \notin Members(q)
    PROVE  Ring(Append(q, t)) /\ Members(Append(q, t)) = Members(q) \cup {t}
<1>. DEFINE n == Len(q)
            w == Append(q, t)
<1>1. /\ q \in Seq(Threads) /\ w \in Seq(Threads) /\ n \in Nat /\ Len(w) = n + 1
      /\ \A i \in 1 .. n : w[i] = q[i]
      /\ w[n + 1] = t
  BY DEF Ring
<1>2. \A i \in 1 .. n : q[i] # t
  BY Zenon, <1>1, MembersAre
<1>3. \A i, j \in 1 .. n : q[i] = q[j] => i = j
  BY Zenon DEF Ring
<1>. HIDE DEF n, w
<1>4. \A i \in 1 .. n + 1 : i \in 1 .. n \/ i = n + 1
  BY <1>1
<1>5. Ring(w)
  BY Zenon, <1>1, <1>2, <1>3, <1>4 DEF Ring
<1>6. ASSUME NEW x \in Members(w) PROVE x \in Members(q) \cup {t}
  <2>1. PICK i \in 1 .. n + 1 : w[i] = x
    BY <1>1, MembersAre
  <2>. QED  BY Zenon, <1>1, <1>4, <2>1, MembersAre DEF n
<1>7. ASSUME NEW x \in Members(q) PROVE x \in Members(w)
  <2>1. PICK i \in 1 .. n : q[i] = x
    BY Zenon, <1>1, MembersAre DEF n
  <2>2. i \in 1 .. n + 1 /\ w[i] = x
    BY <1>1, <2>1
  <2>. QED  BY Zenon, <1>1, <2>2, MembersAre
<1>8. t \in Members(w)
  <2>1. n + 1 \in 1 .. n + 1
    BY <1>1
  <2>. QED  BY Zenon, <1>1, <2>1, MembersAre
<1>. QED  BY Zenon, <1>5, <1>6, <1>7, <1>8 DEF w

(* vxDeatachFromScheduler unlinks one node and keeps the others apart.     *)
LEMMA WithoutFacts ==
    ASSUME NEW q, Ring(q), NEW t
    PROVE  Ring(Without(q, t)) /\ Members(Without(q, t)) = Members(q) \ {t}
<1>. DEFINE n == Len(q)
            k == PlaceOf(q, t)
            w == Without(q, t)
<1>. q \in Seq(Threads) /\ n \in Nat
  BY DEF Ring
<1>0. CASE t \notin Members(q)
  BY Zenon, <1>0 DEF Without
<1>1. CASE t \in Members(q)
  <2>1. k \in 1 .. n /\ q[k] = t
    BY Zenon, <1>1, PlaceFacts
  <2>2. \A i \in 1 .. n : q[i] = t => i = k
    BY Zenon, <2>1 DEF Ring
  <2>3. w = [i \in 1 .. n - 1 |-> IF i < k THEN q[i] ELSE q[i + 1]]
    BY Zenon, <1>1 DEF Without
  <2>. HIDE DEF k, w
  <2>4. ASSUME NEW i \in 1 .. n - 1
        PROVE  /\ i < k => i \in 1 .. n /\ i # k /\ w[i] = q[i]
               /\ ~(i < k) => i + 1 \in 1 .. n /\ i + 1 # k /\ w[i] = q[i + 1]
               /\ w[i] \in Threads
    BY <2>1, <2>3
  <2>5. w \in Seq(Threads) /\ Len(w) = n - 1
    BY <2>1, <2>3, <2>4
  <2>6. Ring(w)
    <3>. SUFFICES ASSUME NEW i \in 1 .. n - 1, NEW j \in 1 .. n - 1, w[i] = w[j] PROVE i = j
      BY Zenon, <2>5 DEF Ring
    <3>. QED  BY <2>1, <2>4 DEF Ring
  <2>7. ASSUME NEW x \in Members(w) PROVE x \in Members(q) /\ x # t
    <3>1. PICK i \in 1 .. n - 1 : w[i] = x
      BY Zenon, <2>5, MembersAre
    <3>2. PICK j \in 1 .. n : j # k /\ q[j] = x
      BY Zenon, <2>4, <3>1
    <3>. QED  BY Zenon, <2>2, <3>2, MembersAre
  <2>8. ASSUME NEW x \in Members(q), x # t PROVE x \in Members(w)
    <3>1. PICK i \in 1 .. n : q[i] = x /\ i # k
      BY Zenon, <2>1, <2>8, MembersAre
    <3>2. CASE i < k
      <4>1. i \in 1 .. n - 1 /\ w[i] = x
        BY <2>1, <2>4, <3>1, <3>2
      <4>. QED  BY Zenon, <2>5, <4>1, MembersAre
    <3>3. CASE i > k
      <4>1. i - 1 \in 1 .. n - 1 /\ ~(i - 1 < k) /\ (i - 1) + 1 = i
        BY <2>1, <3>1, <3>3
      <4>2. w[i - 1] = x
        BY Zenon, <2>4, <3>1, <4>1
      <4>. QED  BY Zenon, <2>5, <4>1, <4>2, MembersAre
    <3>. QED  BY <2>1, <3>1, <3>2, <3>3
  <2>9. Members(w) = Members(q) \ {t}
    BY Zenon, <2>7, <2>8
  <2>. QED  BY Zenon, <2>6, <2>9 DEF w
<1>. QED  BY Zenon, <1>0, <1>1

(* The ring walked from the node after t is the same ring.                 *)
LEMMA AfterFacts ==
    ASSUME NEW q \in Seq(Threads), NEW t
    PROVE  /\ After(q, t) \in Seq(Threads) /\ Len(After(q, t)) = Len(q)
           /\ Members(After(q, t)) \subseteq Members(q)
           /\ t \in Members(q) =>
                 Head(After(q, t)) = IF PlaceOf(q, t) < Len(q) THEN q[PlaceOf(q, t) + 1] ELSE q[1]
<1>. DEFINE n == Len(q)
            k == PlaceOf(q, t)
            a == After(q, t)
<1>0. CASE t \notin Members(q)
  BY Zenon, <1>0 DEF After
<1>1. CASE t \in Members(q)
  <2>1. k \in 1 .. n /\ n \in Nat
    BY <1>1, PlaceFacts
  <2>2. a = [i \in 1 .. n |-> IF i <= n - k THEN q[k + i] ELSE q[i - (n - k)]]
    BY Zenon, <1>1 DEF After
  <2>. HIDE DEF k, a
  <2>3. ASSUME NEW i \in 1 .. n PROVE (\E j \in 1 .. n : a[i] = q[j]) /\ a[i] \in Threads
    <3>1. CASE i <= n - k
      BY <2>1, <2>2, <3>1
    <3>2. CASE ~(i <= n - k)
      <4>1. i - (n - k) \in 1 .. n
        BY <2>1, <3>2
      <4>. QED  BY <2>2, <3>2, <4>1
    <3>. QED  BY Zenon, <3>1, <3>2
  <2>4. a \in Seq(Threads) /\ Len(a) = n
    BY <2>1, <2>2, <2>3
  <2>5. a[1] = IF k < n THEN q[k + 1] ELSE q[1]
    BY <2>1, <2>2
  <2>6. Head(a) = a[1]
    BY <2>1, <2>4
  <2>7. ASSUME NEW x \in Members(a) PROVE x \in Members(q)
    <3>1. PICK i \in 1 .. n : a[i] = x
      BY Zenon, <2>4, MembersAre
    <3>. QED  BY Zenon, <2>3, <3>1, MembersAre
  <2>. QED  BY Zenon, <2>4, <2>5, <2>6, <2>7 DEF a, k
<1>. QED  BY Zenon, <1>0, <1>1

(* A node that is not alone has another one as its successor.              *)
LEMMA SuccessorFacts ==
    ASSUME NEW q, Ring(q), NEW t \in Members(q), Len(q) # 1
    PROVE  Head(After(q, t)) \in Members(q) \ {t}
<1>. DEFINE k == PlaceOf(q, t)
            n == Len(q)
<1>1. q \in Seq(Threads) /\ k \in 1 .. n /\ q[k] = t /\ n \in Nat
  BY PlaceFacts DEF Ring
<1>2. Head(After(q, t)) = IF k < n THEN q[k + 1] ELSE q[1]
  BY Zenon, <1>1, AfterFacts
<1>3. /\ \A i \in 1 .. n : q[i] \in Members(q)
      /\ \A i \in 1 .. n : q[i] = t => i = k
  BY Zenon, <1>1, MembersAre DEF Ring
<1>4. n # 1
  BY Zenon
<1>. HIDE DEF k, n
<1>5. CASE k < n
  BY <1>1, <1>2, <1>3, <1>5
<1>6. CASE ~(k < n)
  <2>1. 1 \in 1 .. n /\ 1 # k
    BY <1>1, <1>4, <1>6
  <2>. QED  BY Zenon, <1>2, <1>3, <1>6, <2>1
<1>. QED  BY Zenon, <1>5, <1>6

(* A search that stops, stops at a runnable node of the ring it walks.     *)
LEMMA FirstRunnableFacts ==
    ASSUME NEW ring \in Seq(Threads), NEW st
    PROVE  \/ FirstRunnable(ring, st) = NoThread
           \/ /\ FirstRunnable(ring, st) \in Members(ring)
              /\ st[FirstRunnable(ring, st)] \in Runnable
  BY Zenon DEF FirstRunnable, Members

-----------------------------------------------------------------------------
Ended == {"exit", "exited", "fault"} \cup Returned
Over == {"TERMINATED", "HAL"}

(* A thread is in one queue, once.                                         *)
QueuesApart ==
    /\ \A c \in Cores : Ring(queue[c])
    /\ \A c, d \in Cores : c # d => Members(queue[c]) \cap Members(queue[d]) = {}

(* current is a node of the core's queue; active_thread is that node, or a *)
(* thread that has been taken out.                                         *)
PointersInQueue ==
    \A c \in Cores :
        /\ current[c] \in Members(queue[c]) \cup {NoThread}
        /\ active[c] \in {NoThread, current[c]} \/ ~Queued(active[c])

(* A thread that executes is active_thread, on that core alone, and only   *)
(* one that came back from its exit may have been taken out of its queue.  *)
CoresExecute ==
    \A c \in Cores, t \in Threads :
        on[c] = t =>
            /\ active[c] = t
            /\ loc[t] \notin Returned => Queued(t)
            /\ \A d \in Cores : on[d] = t => d = c

(* A thread that is not attached yet is nowhere.                           *)
UnattachedNowhere ==
    \A t \in Threads :
        state[t] = "CREATE" =>
            /\ loc[t] = "user"
            /\ ~Queued(t)
            /\ \A c \in Cores : on[c] # t /\ active[c] # t

(* How far a thread is in the kernel, and what its fields say of it.       *)
FieldsAgree(t) ==
    /\ loc[t] = "user" => ~in_kernel_sleep[t]
    /\ loc[t] \in Suspended \cup {"block", "sleep"} => in_kernel_sleep[t]
    /\ state[t] \in Over => loc[t] \in Ended

InsideExecutes ==
    \A t \in Threads :
        loc[t] \in {"block", "sleep", "exit", "fault"} /\ Queued(t) => Executing(t)

RecordInv ==
    /\ TypeOK
    /\ QueuesApart
    /\ PointersInQueue
    /\ CoresExecute
    /\ UnattachedNowhere
    /\ \A t \in Threads : FieldsAgree(t)
    /\ InsideExecutes

(* An idle kernel: no thread is attached, every core is in its boot        *)
(* context.                                                                *)
LEMMA InitRecordInv == Init => RecordInv
<1>. SUFFICES ASSUME Init PROVE RecordInv
  BY Zenon
<1>1. \A c \in Cores : queue[c] = <<>> /\ Members(queue[c]) = {}
  BY DEF Init, Members
<1>2. TypeOK
  BY DEF Init, TypeOK, States, Locations, Suspended, Returned, Contexts, NoWake
<1>3. QueuesApart
  <2>1. Ring(<<>>)
    BY DEF Ring
  <2>. QED  BY Zenon, <1>1, <2>1 DEF QueuesApart
<1>4. PointersInQueue /\ CoresExecute /\ UnattachedNowhere
  BY Zenon, <1>1, NoThreadAssumption, ContextAssumption
     DEF Init, PointersInQueue, CoresExecute, UnattachedNowhere, Queued, Contexts
<1>5. (\A t \in Threads : FieldsAgree(t)) /\ InsideExecutes
  BY Zenon DEF Init, FieldsAgree, InsideExecutes, Over, Suspended
<1>. QED  BY Zenon, <1>2, <1>3, <1>4, <1>5 DEF RecordInv

(* The inductive invariant says what the records of the scheduler are      *)
(* worth to kernel_context_restore.                                        *)
LEMMA RecordInvImplies == RecordInv => RecordsExact
<1>. SUFFICES ASSUME RecordInv PROVE RecordsExact
  BY Zenon
<1>1. QueuesDisjoint
  <2>. SUFFICES ASSUME NEW c \in Cores, NEW d \in Cores, NEW i \in DOMAIN queue[c],
                       NEW j \in DOMAIN queue[d], queue[c][i] = queue[d][j]
                PROVE  c = d /\ i = j
    BY Zenon DEF QueuesDisjoint
  <2>1. queue[c] \in Seq(Threads) /\ queue[d] \in Seq(Threads)
    BY Zenon DEF RecordInv, TypeOK
  <2>2. queue[c][i] \in Members(queue[c]) /\ queue[c][i] \in Members(queue[d])
    BY Zenon DEF Members
  <2>3. c = d
    BY Zenon, <2>2 DEF RecordInv, QueuesApart
  <2>4. i \in 1 .. Len(queue[c]) /\ j \in 1 .. Len(queue[c])
    BY <2>1, <2>3
  <2>. QED  BY Zenon, <2>3, <2>4 DEF RecordInv, QueuesApart, Ring
<1>2. ActiveExecutes
  BY NoThreadAssumption DEF RecordInv, CoresExecute, PointersInQueue, ActiveExecutes
<1>3. KernelContextValid
  BY Zenon DEF RecordInv, TypeOK, FieldsAgree, InsideExecutes, KernelContextValid, Locations
<1>. QED  BY Zenon, <1>1, <1>2, <1>3 DEF RecordsExact, ThreadInOnePlace

(* A step of the thread t on core c: it goes on, or switches away.         *)
LEMMA OwnStepRecords ==
    ASSUME RecordInv, TypeOK', NEW c \in Cores, NEW t \in Threads, on[c] = t,
           UNCHANGED <<queue, current>>,
           \A u \in Threads \ {t} :
              state'[u] = state[u] /\ loc'[u] = loc[u] /\ in_kernel_sleep'[u] = in_kernel_sleep[u],
           state'[t] # "CREATE", FieldsAgree(t)',
           \/ /\ UNCHANGED <<active, on>>
              /\ loc[t] \in Returned => loc'[t] \in Returned
           \/ /\ active' = [active EXCEPT ![c] = NoThread]
              /\ on' = [on EXCEPT ![c] = "resume"]
              /\ loc'[t] \in Suspended
    PROVE  RecordInv'
<1>. USE DEF RecordInv
<1>0. /\ "resume" \notin Threads /\ NoThread \notin Threads
      /\ \A u \in Threads : Queued(u)' <=> Queued(u)
  BY Zenon, ContextAssumption, NoThreadAssumption DEF Contexts, Queued
<1>1. QueuesApart'
  BY Zenon DEF QueuesApart
<1>2. PointersInQueue'
  <2>1. \A d \in Cores : active'[d] \in {NoThread, active[d]}
    BY DEF TypeOK
  <2>. QED  BY Zenon, <2>1 DEF PointersInQueue, Queued
<1>3. ASSUME NEW d \in Cores, NEW u \in Threads, on'[d] = u
      PROVE  on[d] = u /\ active'[d] = active[d] /\ (loc[u] \in Returned => loc'[u] \in Returned)
  <2>1. on[d] = u /\ active'[d] = active[d]
    BY <1>0, <1>3 DEF TypeOK
  <2>2. CASE u = t
    <3>1. d = c
      BY <2>1, <2>2 DEF CoresExecute
    <3>2. on'[c] # "resume"
      BY Zenon, <1>0, <1>3, <3>1
    <3>. QED  BY <2>1, <2>2, <3>1, <3>2 DEF TypeOK
  <2>. QED  BY Zenon, <2>1, <2>2
<1>4. CoresExecute'
  BY <1>0, <1>3 DEF CoresExecute
<1>5. UnattachedNowhere'
  <2>. SUFFICES ASSUME NEW u \in Threads, state'[u] = "CREATE"
                PROVE  loc'[u] = "user" /\ ~Queued(u)' /\ \A d \in Cores : on'[d] # u /\ active'[d] # u
    BY Zenon DEF UnattachedNowhere
  <2>1. u # t /\ state[u] = "CREATE"
    BY Zenon
  <2>. QED  BY <1>0, <2>1 DEF UnattachedNowhere, TypeOK
<1>6. ASSUME NEW u \in Threads PROVE FieldsAgree(u)'
  BY Zenon DEF FieldsAgree
<1>7. InsideExecutes'
  <2>. SUFFICES ASSUME NEW u \in Threads, loc'[u] \in {"block", "sleep", "exit", "fault"}, Queued(u)
                PROVE  \E d \in Cores : on'[d] = u
    BY Zenon, <1>0 DEF InsideExecutes, Executing
  <2>1. CASE u = t
    BY Zenon, <2>1 DEF Suspended
  <2>2. CASE u # t
    <3>1. PICK d \in Cores : on[d] = u
      BY Zenon, <2>2 DEF InsideExecutes, Executing
    <3>. QED  BY <2>2, <3>1 DEF TypeOK
  <2>. QED  BY Zenon, <2>1, <2>2
<1>. QED  BY Zenon, <1>1, <1>2, <1>4, <1>5, <1>6, <1>7

(* What core c executes after a step that may hand it to another thread.   *)
Hands(c) ==
    \/ on'[c] \in Contexts
    \/ on'[c] = on[c] /\ active'[c] = on[c]
    \/ on'[c] \in Members(queue'[c]) /\ active'[c] = on'[c]

(* A step of the scheduler on core c: a thread may leave its queue, and    *)
(* the core may pass from a thread outside the kernel to another one.      *)
LEMMA CoreStepRecords ==
    ASSUME RecordInv, TypeOK', NEW c \in Cores, UNCHANGED <<loc, in_kernel_sleep>>,
           \A u \in Threads : /\ state'[u] = "CREATE" => state[u] = "CREATE"
                              /\ state'[u] \in Over => loc[u] \in Ended,
           \A d \in Cores \ {c} : /\ queue'[d] = queue[d] /\ current'[d] = current[d]
                                  /\ active'[d] = active[d] /\ on'[d] = on[d],
           Ring(queue'[c]),
           Members(queue'[c]) \subseteq Members(queue[c]),
           \A u \in Members(queue[c]) \ Members(queue'[c]) : on'[c] = u => loc[u] \in Returned,
           current'[c] \in Members(queue'[c]) \cup {NoThread},
           \/ active'[c] \in {NoThread, current'[c]}
           \/ /\ active'[c] = active[c]
              /\ Queued(active[c]) => active[c] \in Members(queue[c]) \ Members(queue'[c]),
           Hands(c),
           \A u \in Members(queue'[c]) : on[c] = u /\ on'[c] # u => loc[u] \in {"user"} \cup Returned
    PROVE  RecordInv'
<1>. USE DEF RecordInv
<1>0. NoThread \notin Threads /\ \A x \in Contexts : x \notin Threads
  BY Zenon, ContextAssumption, NoThreadAssumption
<1>1. ASSUME NEW d \in Cores PROVE Members(queue'[d]) \subseteq Members(queue[d])
  BY Zenon DEF TypeOK
<1>2. ASSUME NEW u PROVE Queued(u)' => Queued(u)
  BY Zenon, <1>1 DEF Queued
<1>3. ASSUME NEW u PROVE Queued(u) /\ ~Queued(u)' => u \in Members(queue[c]) \ Members(queue'[c])
  BY Zenon DEF Queued
<1>4. QueuesApart'
  <2>1. \A d \in Cores : Ring(queue'[d])
    BY Zenon DEF QueuesApart
  <2>. QED  BY <1>1, <2>1 DEF QueuesApart
<1>5. PointersInQueue'
  <2>. SUFFICES ASSUME NEW d \in Cores
                PROVE  /\ current'[d] \in Members(queue'[d]) \cup {NoThread}
                       /\ \/ active'[d] \in {NoThread, current'[d]}
                          \/ \A e \in Cores : active'[d] \notin Members(queue'[e])
    BY Zenon DEF PointersInQueue, Queued
  <2>1. CASE d # c
    <3>1. active[d] \in {NoThread, current[d]} \/ \A e \in Cores : active[d] \notin Members(queue[e])
      BY Zenon DEF PointersInQueue, Queued
    <3>. QED  BY Zenon, <1>1, <2>1, <3>1 DEF PointersInQueue
  <2>2. CASE d = c
    <3>1. ASSUME active'[c] = active[c], NEW e \in Cores, active[c] \in Members(queue'[e])
          PROVE  active[c] \notin Members(queue[c]) \ Members(queue'[c])
      BY Zenon, <1>1, <3>1 DEF QueuesApart
    <3>2. ASSUME active'[c] = active[c], NEW e \in Cores, active[c] \in Members(queue'[e])
          PROVE  Queued(active[c])
      BY Zenon, <1>1, <3>2 DEF Queued
    <3>. QED  BY Zenon, <2>2, <3>1, <3>2
  <2>. QED  BY Zenon, <2>1, <2>2
<1>6. ASSUME NEW u \in Threads, on'[c] = u, on[c] # u
      PROVE  u \in Members(queue'[c]) /\ \A d \in Cores : on[d] # u
  <2>1. u \in Members(queue'[c]) /\ u \in Members(queue[c])
    BY Zenon, <1>0, <1>6 DEF Hands
  <2>2. ASSUME NEW d \in Cores, on[d] = u PROVE FALSE
    <3>1. Queued(u)
      BY Zenon, <2>1 DEF Queued
    <3>2. active[d] = u
      BY Zenon, <2>2 DEF CoresExecute
    <3>3. u \in Members(queue[d])
      BY Zenon, <1>0, <3>1, <3>2 DEF PointersInQueue
    <3>4. d = c
      BY Zenon, <2>1, <3>3 DEF QueuesApart
    <3>. QED  BY Zenon, <1>6, <2>2, <3>4
  <2>. QED  BY Zenon, <2>1, <2>2
<1>7. CoresExecute'
  <2>. SUFFICES ASSUME NEW d \in Cores, NEW u \in Threads, on'[d] = u
                PROVE  /\ active'[d] = u
                       /\ loc[u] \notin Returned => Queued(u)'
                       /\ \A e \in Cores : on'[e] = u => e = d
    BY DEF CoresExecute
  <2>1. CASE d = c /\ on[c] # u
    <3>1. u \in Members(queue'[c]) /\ \A e \in Cores : on[e] # u
      BY Zenon, <1>6, <2>1
    <3>. QED  BY Zenon, <1>0, <2>1, <3>1 DEF Hands, Queued
  <2>2. CASE on[d] = u
    <3>1. active[d] = u /\ (loc[u] \notin Returned => Queued(u)) /\ \A e \in Cores : on[e] = u => e = d
      BY Zenon, <2>2 DEF CoresExecute
    <3>2. active'[d] = u
      BY Zenon, <1>0, <2>2, <3>1 DEF Hands
    <3>3. \A e \in Cores : on'[e] = u => e = d
      BY Zenon, <1>6, <2>2, <3>1
    <3>4. ASSUME loc[u] \notin Returned PROVE Queued(u)'
      <4>1. Queued(u)
        BY Zenon, <3>1, <3>4
      <4>2. SUFFICES ASSUME u \in Members(queue[c]) \ Members(queue'[c]) PROVE FALSE
        BY Zenon, <1>3, <4>1
      <4>3. u \in Members(queue[d])
        BY <1>0, <3>1, <4>1 DEF PointersInQueue
      <4>4. d = c
        BY Zenon, <4>2, <4>3 DEF QueuesApart
      <4>. QED  BY Zenon, <3>4, <4>2, <4>4
    <3>. QED  BY Zenon, <3>2, <3>3, <3>4
  <2>. QED  BY Zenon, <2>1, <2>2
<1>8. UnattachedNowhere'
  <2>. SUFFICES ASSUME NEW u \in Threads, state'[u] = "CREATE"
                PROVE  loc[u] = "user" /\ ~Queued(u)' /\ \A d \in Cores : on'[d] # u /\ active'[d] # u
    BY ZenonT(30) DEF UnattachedNowhere
  <2>1. loc[u] = "user" /\ ~Queued(u) /\ \A d \in Cores : on[d] # u /\ active[d] # u
    BY Zenon DEF UnattachedNowhere
  <2>2. u \notin Members(queue'[c])
    BY Zenon, <1>2, <2>1 DEF Queued
  <2>. QED  BY <1>0, <1>2, <1>6, <2>1, <2>2
<1>9. ASSUME NEW u \in Threads PROVE FieldsAgree(u)'
  BY Zenon DEF FieldsAgree
<1>10. InsideExecutes'
  <2>. SUFFICES ASSUME NEW u \in Threads, loc[u] \in {"block", "sleep", "exit", "fault"}, Queued(u)'
                PROVE  \E d \in Cores : on'[d] = u
    BY Zenon DEF InsideExecutes, Executing
  <2>1. PICK d \in Cores : on[d] = u
    BY Zenon, <1>2 DEF InsideExecutes, Executing
  <2>2. u \in Members(queue[d])
    BY <1>0, <1>2, <2>1 DEF CoresExecute, PointersInQueue
  <2>3. u \in Members(queue'[d])
    BY Zenon, <1>1, <2>2 DEF Queued, QueuesApart
  <2>. QED  BY Zenon, <2>1, <2>3 DEF Returned
<1>. QED  BY Zenon, <1>4, <1>5, <1>7, <1>8, <1>9, <1>10

(* A step that touches no core and no thread in the kernel.                *)
LEMMA QuietStepRecords ==
    ASSUME RecordInv, TypeOK', UNCHANGED <<coreVars, loc, in_kernel_sleep>>,
           \A u \in Threads : state'[u] = state[u] \/ state'[u] = "RUNNING"
    PROVE  RecordInv'
<1>. USE DEF RecordInv, coreVars
<1>1. QueuesApart' /\ PointersInQueue'
  BY Zenon DEF QueuesApart, PointersInQueue, Queued
<1>2. CoresExecute' /\ UnattachedNowhere' /\ InsideExecutes'
  BY DEF CoresExecute, UnattachedNowhere, InsideExecutes, Queued, Executing
<1>3. ASSUME NEW u \in Threads PROVE FieldsAgree(u)'
  BY Zenon DEF FieldsAgree, Over
<1>. QED  BY Zenon, <1>1, <1>2, <1>3

(* attach_to_scheduler: the one step that puts a thread into a queue.      *)
LEMMA AttachRecords ==
    ASSUME RecordInv, NEW t \in Threads, NEW c \in Cores, Attach(t, c)
    PROVE  RecordInv'
<1>. USE DEF RecordInv
<1>0. /\ state[t] = "CREATE" /\ loc[t] = "user"
      /\ \A d \in Cores : t \notin Members(queue[d]) /\ on[d] # t /\ active[d] # t
  BY Zenon DEF Attach, UnattachedNowhere, Queued
<1>1. /\ state' = [state EXCEPT ![t] = "READY"]
      /\ UNCHANGED <<in_kernel_sleep, wake_pending, wakeup_time, loc, frame_saved, current, active, on, waking>>
      /\ queue' = [queue EXCEPT ![c] = Append(@, t)]
  BY Zenon DEF Attach
<1>2. queue'[c] = Append(queue[c], t) /\ \A d \in Cores \ {c} : queue'[d] = queue[d]
  BY Zenon, <1>1 DEF TypeOK
<1>3. Ring(queue'[c]) /\ Members(queue'[c]) = Members(queue[c]) \cup {t}
  BY <1>0, <1>2, AppendFacts DEF QueuesApart
<1>4. TypeOK'
  <2>1. Append(queue[c], t) \in Seq(Threads)
    BY Zenon, <1>2, <1>3 DEF Ring
  <2>. QED  BY Zenon, <1>1, <2>1 DEF TypeOK, States
<1>7. ASSUME NEW u PROVE Queued(u)' <=> Queued(u) \/ u = t
  BY Zenon, <1>2, <1>3 DEF Queued
<1>8. QueuesApart'
  <2>1. \A d \in Cores : Ring(queue'[d])
    BY Zenon, <1>2, <1>3 DEF QueuesApart
  <2>2. ASSUME NEW d \in Cores, NEW e \in Cores, d # e PROVE Members(queue'[d]) \cap Members(queue'[e]) = {}
    <3>1. Members(queue[d]) \cap Members(queue[e]) = {}
      BY Zenon, <2>2 DEF QueuesApart
    <3>2. CASE d = c  BY Zenon, <1>0, <1>2, <1>3, <2>2, <3>1, <3>2
    <3>3. CASE e = c  BY Zenon, <1>0, <1>2, <1>3, <2>2, <3>1, <3>3
    <3>. QED  BY Zenon, <1>2, <3>1, <3>2, <3>3
  <2>. QED  BY Zenon, <2>1, <2>2 DEF QueuesApart
<1>9. PointersInQueue'
  <2>. SUFFICES ASSUME NEW d \in Cores
                PROVE  /\ current[d] \in Members(queue'[d]) \cup {NoThread}
                       /\ \/ active[d] \in {NoThread, current[d]}
                          \/ \A e \in Cores : active[d] \notin Members(queue'[e])
    BY Zenon, <1>1 DEF PointersInQueue, Queued
  <2>. QED  BY ZenonT(30), <1>0, <1>2, <1>3 DEF PointersInQueue, Queued
<1>10. CoresExecute' /\ UnattachedNowhere'
  BY <1>0, <1>1, <1>7 DEF CoresExecute, UnattachedNowhere, TypeOK
<1>11. ASSUME NEW u \in Threads PROVE FieldsAgree(u)'
  BY Zenon, <1>1 DEF FieldsAgree, Over, TypeOK
<1>12. InsideExecutes'
  BY Zenon, <1>0, <1>1, <1>7 DEF InsideExecutes, Executing
<1>. QED  BY Zenon, <1>4, <1>8, <1>9, <1>10, <1>11, <1>12

(* vxThreadWake and the timer change a thread's fields only.               *)
LEMMA WakersRecords ==
    ASSUME RecordInv, NEW t \in Threads, NEW c \in Cores,
           WakeStart(c, t) \/ WakeLoad(c) \/ WakeStore(c) \/ DeadlinePasses(t)
    PROVE  RecordInv'
<1>. TypeOK  BY Zenon DEF RecordInv
<1>1. CASE WakeStart(c, t)
  <2>1. TypeOK'
    BY Zenon, <1>1 DEF WakeStart, TypeOK, coreVars, NoWake
  <2>. QED  BY Zenon, <1>1, <2>1, QuietStepRecords DEF WakeStart
<1>2. CASE WakeLoad(c)
  <2>0. waking' \in [Cores -> {NoWake} \cup [step : {"load", "store"}, thread : Threads]]
    BY <1>2 DEF WakeLoad, TypeOK, NoWake
  <2>1. TypeOK'
    BY Zenon, <1>2, <2>0 DEF WakeLoad, TypeOK, coreVars, threadVars
  <2>. QED  BY Zenon, <1>2, <2>1, QuietStepRecords DEF WakeLoad, threadVars
<1>3. CASE WakeStore(c)
  <2>1. TypeOK'
    BY Zenon, <1>3 DEF WakeStore, TypeOK, coreVars, States, NoWake
  <2>2. \A u \in Threads : state'[u] = state[u] \/ state'[u] = "RUNNING"
    BY Zenon, <1>3 DEF WakeStore, TypeOK
  <2>. QED  BY Zenon, <1>3, <2>1, <2>2, QuietStepRecords DEF WakeStore
<1>4. CASE DeadlinePasses(t)
  <2>1. TypeOK'
    BY Zenon, <1>4 DEF DeadlinePasses, TypeOK, coreVars
  <2>. QED  BY Zenon, <1>4, <2>1, QuietStepRecords DEF DeadlinePasses
<1>. QED  BY Zenon, <1>1, <1>2, <1>3, <1>4

(* thread_block, thread_sleep, schedule_yield and the ways a thread ends,  *)
(* one step at a time.                                                     *)
LEMMA ThreadStepRecords ==
    ASSUME RecordInv, NEW t \in Threads, NEW c \in Cores, ThreadStep(c, t), ~FaultRestore(c, t)
    PROVE  RecordInv'
<1>. TypeOK /\ FieldsAgree(t) /\ state[t] # "CREATE"
  <2>1. on[c] = t
    BY ZenonT(30) DEF ThreadStep, BlockStore, BlockWoken, BlockSwitch, SleepStart, SleepSwitch, SleepReturn,
       Yield, YieldReturn, SysExit, ExitGroup, ExitGroupYield, Fault, Calls, Executes
  <2>. QED  BY Zenon, <2>1 DEF RecordInv, UnattachedNowhere
<1>. USE DEF Executes, FieldsAgree, Over, Ended, Suspended, Returned, Runnable
<1>1. CASE BlockStore(c, t)
  <2>1. TypeOK'
    BY Zenon, <1>1 DEF BlockStore, Calls, TypeOK, coreVars, States, Locations
  <2>. QED  BY Zenon, <1>1, <2>1, OwnStepRecords DEF BlockStore, Calls, coreVars, TypeOK
<1>2. CASE BlockWoken(c, t)
  <2>1. TypeOK'
    BY Zenon, <1>2 DEF BlockWoken, TypeOK, coreVars, States, Locations
  <2>. QED  BY ZenonT(30), <1>2, <2>1, OwnStepRecords DEF BlockWoken, coreVars, TypeOK
<1>3. CASE BlockSwitch(c, t)
  <2>1. TypeOK'
    BY Zenon, <1>3 DEF BlockSwitch, SwitchOut, TypeOK, Locations, Contexts
  <2>. QED  BY ZenonT(30), <1>3, <2>1, OwnStepRecords DEF BlockSwitch, SwitchOut, TypeOK
<1>4. CASE SleepStart(c, t)
  <2>1. CASE wake_pending[t]
    <3>0. /\ on[c] = t
          /\ wake_pending' = [wake_pending EXCEPT ![t] = FALSE]
          /\ UNCHANGED <<state, in_kernel_sleep, wakeup_time, loc, frame_saved, queue, current, active, on, waking>>
      BY Zenon, <1>4, <2>1 DEF SleepStart, Calls, coreVars
    <3>1. TypeOK'
      BY Zenon, <3>0 DEF TypeOK
    <3>2. FieldsAgree(t)'
      BY Zenon, <3>0
    <3>. QED  BY Zenon, <3>0, <3>1, <3>2, OwnStepRecords
  <2>2. CASE ~wake_pending[t]
    <3>0. /\ in_kernel_sleep' = [in_kernel_sleep EXCEPT ![t] = TRUE]
          /\ wakeup_time' = [wakeup_time EXCEPT ![t] = "armed"]
          /\ loc' = [loc EXCEPT ![t] = "sleep"]
          /\ UNCHANGED <<state, wake_pending, frame_saved, queue, current, active, on, waking>>
      BY Zenon, <1>4, <2>2 DEF SleepStart, coreVars
    <3>1. TypeOK'
      BY Zenon, <3>0 DEF TypeOK, Locations
    <3>2. FieldsAgree(t)' /\ loc[t] \notin Returned /\ on[c] = t /\ state'[t] = state[t]
      BY Zenon, <1>4, <2>2 DEF SleepStart, Calls, TypeOK
    <3>3. \A u \in Threads \ {t} :
             state'[u] = state[u] /\ loc'[u] = loc[u] /\ in_kernel_sleep'[u] = in_kernel_sleep[u]
      BY Zenon, <1>4, <2>2 DEF SleepStart, TypeOK
    <3>. QED  BY Zenon, <1>4, <3>1, <3>2, <3>3, OwnStepRecords DEF SleepStart, coreVars
  <2>. QED  BY Zenon, <2>1, <2>2
<1>5. CASE SleepSwitch(c, t)
  <2>1. TypeOK'
    BY Zenon, <1>5 DEF SleepSwitch, TypeOK, SwitchOut, Contexts, States, Locations
  <2>. QED  BY Zenon, <1>5, <2>1, OwnStepRecords DEF SleepSwitch, SwitchOut, TypeOK
<1>6. CASE SleepReturn(c, t)
  <2>1. TypeOK'
    BY Zenon, <1>6 DEF SleepReturn, TypeOK, coreVars, States, Locations
  <2>. QED  BY Zenon, <1>6, <2>1, OwnStepRecords DEF SleepReturn, coreVars, TypeOK
<1>7. CASE Yield(c, t)
  <2>1. TypeOK'
    BY Zenon, <1>7 DEF Yield, Calls, TypeOK, SwitchOut, Contexts, States, Locations
  <2>. QED  BY Zenon, <1>7, <2>1, OwnStepRecords DEF Yield, Calls, SwitchOut, TypeOK
<1>8. CASE YieldReturn(c, t)
  <2>a. loc' \in [Threads -> Locations]
    <3>1. (IF loc[t] = "exited" THEN "exit_returned" ELSE "user") \in Locations
      BY Zenon DEF Locations
    <3>. QED  BY Zenon, <1>8, <3>1 DEF YieldReturn, TypeOK
  <2>b. state' \in [Threads -> States] /\ in_kernel_sleep' \in [Threads -> BOOLEAN]
    BY ZenonT(30), <1>8 DEF YieldReturn, TypeOK, States
  <2>1. TypeOK'
    BY Zenon, <1>8, <2>a, <2>b DEF YieldReturn, TypeOK, coreVars
  <2>2. CASE state[t] \in {"TERMINATED", "HAL"}
    BY Zenon, <1>8, <2>1, <2>2, OwnStepRecords DEF YieldReturn, coreVars, TypeOK
  <2>3. CASE state[t] \notin {"TERMINATED", "HAL"}
    <3>1. FieldsAgree(t)' /\ loc[t] \notin Returned /\ on[c] = t /\ state'[t] = "RUNNING"
      BY <1>8, <2>3 DEF YieldReturn, TypeOK
    <3>2. \A u \in Threads \ {t} :
             state'[u] = state[u] /\ loc'[u] = loc[u] /\ in_kernel_sleep'[u] = in_kernel_sleep[u]
      BY <1>8, <2>3 DEF YieldReturn, TypeOK
    <3>. QED  BY Zenon, <1>8, <2>1, <3>1, <3>2, OwnStepRecords DEF YieldReturn, coreVars
  <2>. QED  BY Zenon, <2>2, <2>3
<1>9. CASE SysExit(c, t)
  <2>1. TypeOK'
    BY Zenon, <1>9 DEF SysExit, Calls, TypeOK, coreVars, States, Locations
  <2>2. /\ on[c] = t /\ state'[t] = "TERMINATED" /\ loc'[t] \in Returned
        /\ UNCHANGED <<in_kernel_sleep, queue, current, active, on>>
    BY Zenon, <1>9 DEF SysExit, Calls, TypeOK, coreVars
  <2>3. \A u \in Threads \ {t} : state'[u] = state[u] /\ loc'[u] = loc[u]
    BY Zenon, <1>9 DEF SysExit, TypeOK
  <2>4. FieldsAgree(t)'
    BY Zenon, <2>2
  <2>. QED  BY Zenon, <2>1, <2>2, <2>3, <2>4, OwnStepRecords
<1>10. CASE ExitGroup(c, t)
  <2>1. TypeOK'
    BY Zenon, <1>10 DEF ExitGroup, Calls, TypeOK, coreVars, States, Locations
  <2>. QED  BY ZenonT(30), <1>10, <2>1, OwnStepRecords DEF ExitGroup, Calls, coreVars, TypeOK
<1>11. CASE ExitGroupYield(c, t)
  <2>1. TypeOK'
    BY Zenon, <1>11 DEF ExitGroupYield, TypeOK, SwitchOut, Contexts, States, Locations
  <2>. QED  BY Zenon, <1>11, <2>1, OwnStepRecords DEF ExitGroupYield, SwitchOut, TypeOK
<1>12. CASE Fault(c, t)
  <2>1. TypeOK'
    BY Zenon, <1>12 DEF Fault, Calls, TypeOK, coreVars, States, Locations
  <2>. QED  BY ZenonT(30), <1>12, <2>1, OwnStepRecords DEF Fault, Calls, coreVars, TypeOK
<1>. QED  BY ZenonT(30), <1>1, <1>2, <1>3, <1>4, <1>5, <1>6, <1>7, <1>8, <1>9, <1>10, <1>11, <1>12 DEF ThreadStep

-----------------------------------------------------------------------------
(* The steps of the timer tick, one lemma for each of its ways to end.     *)

(* What a search along a queue finds is one of its nodes.                  *)
LEMMA NodeFacts ==
    ASSUME RecordInv, NEW c \in Cores, queue[c] # <<>>
    PROVE  CurrentNode(c) \in Members(queue[c])
<1>1. queue[c] \in Seq(Threads)
  BY Zenon DEF RecordInv, TypeOK
<1>2. 1 \in 1 .. Len(queue[c]) /\ Head(queue[c]) = queue[c][1]
  BY <1>1
<1>3. Head(queue[c]) \in Members(queue[c])
  BY Zenon, <1>1, <1>2, MembersAre
<1>. QED  BY Zenon, <1>3 DEF CurrentNode, RecordInv, PointersInQueue

(* The nodes of a queue are threads.                                       *)
LEMMA MemberIsThread ==
    ASSUME RecordInv, NEW c \in Cores, NEW u \in Members(queue[c])
    PROVE  u \in Threads
  BY DEF RecordInv, TypeOK, Members

(* A tick takes at most the terminated active thread out of the queue.     *)
LEMMA ReapFacts ==
    ASSUME RecordInv, NEW c \in Cores, queue[c] # <<>>
    PROVE  /\ Ring(QueueAfterReap(c))
           /\ Members(QueueAfterReap(c)) = IF Detaches(c) THEN Members(queue[c]) \ {active[c]}
                                           ELSE Members(queue[c])
           /\ Detaches(c) => /\ active[c] \in Members(queue[c])
                             /\ state[active[c]] = "TERMINATED"
<1>1. Ring(queue[c])
  BY Zenon DEF RecordInv, QueuesApart
<1>2. Detaches(c) => active[c] \in Members(queue[c])
  BY Zenon, NodeFacts DEF Detaches
<1>3. Detaches(c) => state[active[c]] = "TERMINATED"
  BY Zenon DEF Detaches, Reaps, ActiveState
<1>. QED  BY Zenon, <1>1, <1>2, <1>3, WithoutFacts DEF QueueAfterReap

(* A tick creates no thread, and ends none that has not ended.             *)
LEMMA TickStateKept ==
    ASSUME RecordInv, NEW c \in Cores, NEW over \in BOOLEAN
    PROVE  /\ TickState(c, over) \in [Threads -> States]
           /\ \A u \in Threads :
                 /\ TickState(c, over)[u] = "CREATE" => state[u] = "CREATE"
                 /\ TickState(c, over)[u] \in Over => loc[u] \in Ended
<1>1. WakeTypes
  BY Zenon DEF RecordInv, TypeOK, WakeTypes
<1>2. ASSUME NEW u \in Threads
      PROVE  /\ TickState(c, over)[u] = "CREATE" => state[u] = "CREATE"
             /\ TickState(c, over)[u] \in Over => state[u] \in Over
  BY Zenon DEF TickState, Over, Reaps, ActiveState
<1>. QED  BY Zenon, <1>1, <1>2, TickStateFacts DEF RecordInv, FieldsAgree

(* The scan for expired sleepers touches two fields only.                  *)
LEMMA TickScanTypes ==
    ASSUME RecordInv, NEW c \in Cores, TickScan(c)
    PROVE  /\ wakeup_time' \in [Threads -> {"none", "armed", "due"}]
           /\ wake_pending' \in [Threads -> BOOLEAN]
           /\ UNCHANGED <<in_kernel_sleep, loc, waking>>
  BY Zenon DEF TickScan, RecordInv, TypeOK

(* The frames a tick saves.                                                *)
LEMMA FrameTypes ==
    ASSUME RecordInv, NEW c \in Cores, NEW next
    PROVE  FrameAfter(c, next) \in [Threads -> BOOLEAN]
<1>1. ASSUME NEW u \in Threads PROVE FrameAfter(c, next)[u] \in BOOLEAN
  BY Zenon DEF FrameAfter, RecordInv, TypeOK
<1>. QED  BY Zenon, <1>1 DEF FrameAfter

(* A core that was outside the kernel, or in one of the scheduler's loops, *)
(* is handed to a node of its queue, or goes on.                           *)
LEMMA DispatchRecords ==
    ASSUME RecordInv, NEW c \in Cores, NEW st \in [Threads -> States], NEW next, NEW switch \in BOOLEAN,
           Dispatch(c, st, next, switch),
           \A u \in Threads : (st[u] = "CREATE" => state[u] = "CREATE") /\ (st[u] \in Over => loc[u] \in Ended),
           wakeup_time' \in [Threads -> {"none", "armed", "due"}],
           wake_pending' \in [Threads -> BOOLEAN],
           UNCHANGED <<in_kernel_sleep, loc, waking>>,
           NEW q, queue' = [queue EXCEPT ![c] = q], Ring(q), Members(q) \subseteq Members(queue[c]),
           \A u \in Members(queue[c]) \ Members(q) : on[c] = u => loc[u] \in Returned,
           next \in Members(q),
           \A u \in Threads : on[c] = u => loc[u] \in {"user"} \cup Returned,
           on[c] \in Threads => next = active[c] \/ (st[next] \in Runnable /\ switch)
    PROVE  RecordInv'
<1>. DEFINE runs == \/ in_kernel_sleep[next]
                    \/ st[next] = "READY"
                    \/ st[next] = "RUNNING" /\ switch /\ (next # active[c] \/ FromScheduler(c))
<1>0. TypeOK /\ next \in Threads /\ queue'[c] = q
  BY Zenon, MemberIsThread DEF RecordInv, TypeOK
<1>1. /\ state' = [st EXCEPT ![next] = IF @ = "READY" /\ ~in_kernel_sleep[next] THEN "RUNNING" ELSE @]
      /\ current' = [current EXCEPT ![c] = next]
      /\ active' = [active EXCEPT ![c] = next]
      /\ on' = [on EXCEPT ![c] = IF runs THEN next ELSE @]
      /\ frame_saved' = FrameAfter(c, on'[c])
  BY Zenon DEF Dispatch
<1>2. ~runs /\ on[c] \in Threads => next = on[c]
  BY Zenon DEF Runnable, RecordInv, CoresExecute
<1>. HIDE DEF runs
<1>3. TypeOK'
  <2>1. frame_saved' \in [Threads -> BOOLEAN]
    BY Zenon, <1>1, FrameTypes
  <2>2. state' \in [Threads -> States]
    BY Zenon, <1>1 DEF States
  <2>3. q \in Seq(Threads)
    BY Zenon DEF Ring
  <2>. QED  BY Zenon, <1>0, <1>1, <2>1, <2>2, <2>3 DEF TypeOK
<1>4. \A u \in Threads : (state'[u] = "CREATE" => state[u] = "CREATE") /\ (state'[u] \in Over => loc[u] \in Ended)
  BY Zenon, <1>0, <1>1 DEF Over
<1>5. \A d \in Cores \ {c} : /\ queue'[d] = queue[d] /\ current'[d] = current[d]
                             /\ active'[d] = active[d] /\ on'[d] = on[d]
  BY Zenon, <1>0, <1>1 DEF TypeOK
<1>6. current'[c] = next /\ active'[c] = next /\ (on'[c] = next \/ on'[c] = on[c])
  BY Zenon, <1>0, <1>1 DEF TypeOK
<1>7. Hands(c)
  BY Zenon, <1>0, <1>1, <1>2, <1>6 DEF Hands, TypeOK
<1>8. \A u \in Members(queue[c]) \ Members(queue'[c]) : on'[c] = u => loc[u] \in Returned
  BY Zenon, <1>0, <1>6
<1>9. \A u \in Members(queue'[c]) : on[c] = u /\ on'[c] # u => loc[u] \in {"user"} \cup Returned
  BY Zenon, <1>0, MemberIsThread
<1>10. /\ current'[c] \in Members(queue'[c]) \cup {NoThread}
       /\ active'[c] \in {NoThread, current'[c]}
       /\ Ring(queue'[c])
       /\ Members(queue'[c]) \subseteq Members(queue[c])
  BY Zenon, <1>0, <1>6
<1>. QED  BY Zenon, <1>3, <1>4, <1>5, <1>7, <1>8, <1>9, <1>10, CoreStepRecords

(* What a tick interrupts is outside the kernel.                           *)
LEMMA InterruptedOutside ==
    ASSUME RecordInv, NEW c \in Cores, Interruptible(c)
    PROVE  \A u \in Threads : on[c] = u => loc[u] \in {"user"} \cup Returned
  BY Zenon, ContextAssumption DEF Interruptible, Contexts

(* The search of a tick walks nodes that are still in the queue.           *)
LEMMA CandidatesFacts ==
    ASSUME RecordInv, NEW c \in Cores, QueueAfterReap(c) # <<>>, queue[c] # <<>>
    PROVE  /\ Candidates(c) \in Seq(Threads)
           /\ Members(Candidates(c)) \subseteq Members(QueueAfterReap(c))
<1>. DEFINE q == QueueAfterReap(c)
            ring == After(q, CurrentNode(c))
            n == Len(ring)
            s == SubSeq(ring, 1, n - 1)
<1>1. q \in Seq(Threads)
  BY Zenon, ReapFacts DEF Ring
<1>2. ring \in Seq(Threads) /\ Len(ring) = Len(q) /\ Members(ring) \subseteq Members(q)
  BY Zenon, <1>1, AfterFacts
<1>6. Candidates(c) \in {q, s}
  BY Zenon DEF Candidates
<1>. HIDE DEF q, ring
<1>3. n \in Nat /\ n # 0
  BY <1>1, <1>2 DEF q
<1>. HIDE DEF n
<1>4. s \in Seq(Threads) /\ Len(s) = n - 1 /\ \A i \in 1 .. n - 1 : s[i] = ring[i]
  BY <1>2, <1>3 DEF n
<1>. HIDE DEF s
<1>5. Members(s) \subseteq Members(ring)
  <2>1. /\ \A x : x \in Members(s) <=> \E i \in 1 .. n - 1 : s[i] = x
        /\ \A x : x \in Members(ring) <=> \E i \in 1 .. n : ring[i] = x
    BY <1>2, <1>4, MembersAre DEF n
  <2>. QED  BY <1>3, <1>4, <2>1
<1>. QED  BY Zenon, <1>1, <1>2, <1>4, <1>5, <1>6 DEF q

(* What the search of a tick finds is in the queue and runnable.           *)
LEMMA FoundFacts ==
    ASSUME RecordInv, NEW c \in Cores, NEW over \in BOOLEAN,
           queue[c] # <<>>, QueueAfterReap(c) # <<>>, Found(c, over) # NoThread
    PROVE  /\ Found(c, over) \in Members(QueueAfterReap(c))
           /\ TickState(c, over)[Found(c, over)] \in Runnable
<1>. DEFINE st == TickState(c, over)
<1>1. CASE FromScheduler(c) /\ st[CurrentNode(c)] \in Runnable
  <2>1. Found(c, over) = CurrentNode(c)
    BY Zenon, <1>1 DEF Found
  <2>2. CurrentNode(c) \in Members(queue[c]) /\ CurrentNode(c) \in Threads
    BY Zenon, NodeFacts, MemberIsThread
  <2>3. ~Detaches(c)
    <3>. SUFFICES ASSUME Detaches(c) PROVE FALSE
      BY Zenon
    <3>1. active[c] = CurrentNode(c) /\ Reaps(c) /\ ~Preempts(c, over)
      BY Zenon DEF Detaches, Reaps, Preempts
    <3>2. active[c] \notin Expired(c)
      BY Zenon, <3>1 DEF Expired, Reaps, ActiveState
    <3>3. st[active[c]] = "HAL"
      BY Zenon, <2>2, <3>1, <3>2 DEF TickState
    <3>. QED  BY Zenon, <1>1, <3>1, <3>3 DEF Runnable
  <2>. QED  BY Zenon, <1>1, <2>1, <2>2, <2>3 DEF QueueAfterReap
<1>2. CASE ~(FromScheduler(c) /\ st[CurrentNode(c)] \in Runnable)
  BY Zenon, <1>2, CandidatesFacts, FirstRunnableFacts DEF Found
<1>. QED  BY Zenon, <1>1, <1>2

(* sch_restore_to_next_thread: the faulting thread is unlinked and the     *)
(* node after it runs.                                                     *)
LEMMA FaultRestoreRecords ==
    ASSUME RecordInv, NEW c \in Cores, NEW t \in Threads, FaultRestore(c, t)
    PROVE  RecordInv'
<1>. DEFINE q == queue[c]
            next == current'[c]
<1>1. /\ TypeOK /\ on[c] = t /\ loc[t] = "fault"
      /\ queue' = [queue EXCEPT ![c] = Without(q, t)]
      /\ UNCHANGED <<in_kernel_sleep, wake_pending, wakeup_time, loc, waking>>
      /\ current' = [current EXCEPT ![c] = IF Len(q) = 1 THEN NoThread ELSE Head(After(q, t))]
  BY Zenon DEF FaultRestore, Executes, Detach, RecordInv
<1>2. active[c] = t /\ t \in Members(q) /\ Ring(q)
  <2>1. active[c] = t /\ Queued(t)
    BY Zenon, <1>1 DEF RecordInv, CoresExecute, Returned
  <2>. QED  BY Zenon, <2>1, NoThreadAssumption DEF RecordInv, PointersInQueue, QueuesApart
<1>3. /\ queue'[c] = Without(q, t) /\ Ring(queue'[c]) /\ Members(queue'[c]) = Members(q) \ {t}
  BY Zenon, <1>1, <1>2, WithoutFacts DEF TypeOK
<1>4. /\ next = NoThread \/ next \in Members(queue'[c])
      /\ next # NoThread => next \in Threads /\ next # t
  <2>1. CASE Len(q) = 1
    BY Zenon, <1>1, <2>1 DEF TypeOK
  <2>2. CASE Len(q) # 1
    <3>1. next = Head(After(q, t))
      BY Zenon, <1>1, <2>2 DEF TypeOK
    <3>2. next \in Members(q) \ {t}
      BY Zenon, <1>2, <2>2, <3>1, SuccessorFacts
    <3>. QED  BY Zenon, <1>3, <3>2, MemberIsThread
  <2>. QED  BY Zenon, <2>1, <2>2
<1>5. \A d \in Cores \ {c} : queue'[d] = queue[d] /\ current'[d] = current[d]
  BY Zenon, <1>1 DEF TypeOK
<1>6. CASE next = NoThread
  <2>1. /\ state' = [state EXCEPT ![t] = "HAL"]
        /\ on' = [on EXCEPT ![c] = "dead"]
        /\ UNCHANGED <<frame_saved, active>>
    BY Zenon, <1>6 DEF FaultRestore
  <2>2. TypeOK'
    BY Zenon, <1>1, <1>3, <1>4, <1>6, <2>1 DEF TypeOK, States, Contexts, Ring
  <2>3. \A u \in Threads : (state'[u] = "CREATE" => state[u] = "CREATE") /\ (state'[u] \in Over => loc[u] \in Ended)
    BY Zenon, <1>1, <2>1 DEF TypeOK, RecordInv, FieldsAgree, Ended
  <2>4. on'[c] = "dead" /\ active'[c] = t /\ \A d \in Cores \ {c} : active'[d] = active[d] /\ on'[d] = on[d]
    BY Zenon, <1>1, <1>2, <2>1 DEF TypeOK
  <2>5. Hands(c) /\ on'[c] \notin Threads
    BY Zenon, <2>4, ContextAssumption DEF Hands, Contexts
  <2>6. \A u \in Members(queue[c]) \ Members(queue'[c]) : on'[c] = u => loc[u] \in Returned
    BY Zenon, <2>5, MemberIsThread
  <2>. QED  BY Zenon, <1>1, <1>2, <1>3, <1>5, <1>6, <2>2, <2>3, <2>4, <2>5, <2>6, CoreStepRecords
<1>7. CASE next # NoThread
  <2>1. /\ state' = [state EXCEPT ![t] = "HAL", ![next] = IF @ = "READY" THEN "RUNNING" ELSE @]
        /\ on' = [on EXCEPT ![c] = next]
        /\ active' = [active EXCEPT ![c] = next]
        /\ frame_saved' = [frame_saved EXCEPT ![next] = FALSE]
    BY Zenon, <1>7 DEF FaultRestore
  <2>2. TypeOK'
    <3>1. state' \in [Threads -> States]
      BY Zenon, <1>1, <1>4, <1>7, <2>1 DEF TypeOK, States
    <3>. QED  BY Zenon, <1>1, <1>3, <1>4, <1>7, <2>1, <3>1 DEF TypeOK, Ring
  <2>3. \A u \in Threads : (state'[u] = "CREATE" => state[u] = "CREATE") /\ (state'[u] \in Over => loc[u] \in Ended)
    BY Zenon, <1>1, <1>4, <1>7, <2>1 DEF TypeOK, RecordInv, FieldsAgree, Ended, Over
  <2>4. on'[c] = next /\ active'[c] = next /\ \A d \in Cores \ {c} : active'[d] = active[d] /\ on'[d] = on[d]
    BY Zenon, <1>1, <2>1 DEF TypeOK
  <2>5. Hands(c)
    BY Zenon, <1>4, <1>7, <2>4 DEF Hands
  <2>6. \A u \in Members(queue[c]) \ Members(queue'[c]) : on'[c] = u => loc[u] \in Returned
    BY Zenon, <1>3, <1>4, <1>7, <2>4
  <2>. QED  BY Zenon, <1>1, <1>3, <1>4, <1>5, <1>7, <2>2, <2>3, <2>4, <2>5, <2>6, CoreStepRecords
<1>. QED  BY Zenon, <1>6, <1>7

(* scheduler_resume_point.                                                 *)
LEMMA ResumeRecords ==
    ASSUME RecordInv, NEW c \in Cores, ResumeSearch(c)
    PROVE  RecordInv'
<1>. DEFINE found == FirstRunnable(After(queue[c], CurrentNode(c)), state)
<1>1. /\ TypeOK /\ on[c] = "resume" /\ queue[c] # <<>> /\ found # NoThread
      /\ current' = [current EXCEPT ![c] = found]
      /\ active' = [active EXCEPT ![c] = found]
      /\ on' = [on EXCEPT ![c] = IF in_kernel_sleep[found] THEN found ELSE @]
      /\ UNCHANGED <<threadVars, queue, waking>>
  BY Zenon DEF ResumeSearch, RecordInv, CurrentNode
<1>2. found \in Members(queue[c]) /\ found \in Threads
  <2>1. queue[c] \in Seq(Threads)
    BY Zenon, <1>1 DEF TypeOK
  <2>2. found \in Members(queue[c])
    BY Zenon, <1>1, <2>1, AfterFacts, FirstRunnableFacts
  <2>. QED  BY Zenon, <2>2, MemberIsThread
<1>. HIDE DEF found
<1>3. TypeOK'
  BY Zenon, <1>1, <1>2 DEF TypeOK, threadVars
<1>4. /\ current'[c] = found /\ active'[c] = found /\ (on'[c] = found \/ on'[c] = "resume")
      /\ \A d \in Cores \ {c} : current'[d] = current[d] /\ active'[d] = active[d] /\ on'[d] = on[d]
  BY Zenon, <1>1 DEF TypeOK
<1>5. Hands(c)
  BY Zenon, <1>1, <1>2, <1>4 DEF Hands, Contexts
<1>6. UNCHANGED <<state, loc, in_kernel_sleep, queue>>
  BY Zenon, <1>1 DEF threadVars
<1>7. \A u \in Threads : (state'[u] = "CREATE" => state[u] = "CREATE") /\ (state'[u] \in Over => loc[u] \in Ended)
  BY Zenon, <1>6 DEF RecordInv, FieldsAgree
<1>8. \A u \in Members(queue'[c]) : on[c] # u
  BY Zenon, <1>1, <1>6, MemberIsThread, ContextAssumption DEF Contexts
<1>9. Ring(queue'[c])
  BY Zenon, <1>6 DEF RecordInv, QueuesApart
<1>. QED  BY Zenon, <1>2, <1>3, <1>4, <1>5, <1>6, <1>7, <1>8, <1>9, CoreStepRecords

(* The tick that went on searching with the queue locked finds a thread.   *)
LEMMA TickSearchRecords ==
    ASSUME RecordInv, NEW c \in Cores, TickSearch(c)
    PROVE  RecordInv'
<1>. DEFINE found == FirstRunnable(queue[c], state)
<1>1. /\ TypeOK /\ on[c] = "search" /\ found # NoThread
      /\ Dispatch(c, state, found, TRUE)
      /\ UNCHANGED <<in_kernel_sleep, wake_pending, wakeup_time, loc, queue, waking>>
  BY Zenon DEF TickSearch, RecordInv
<1>2. /\ queue[c] \in Seq(Threads) /\ Ring(queue[c]) /\ state \in [Threads -> States]
      /\ queue' = [queue EXCEPT ![c] = queue[c]]
      /\ wakeup_time' \in [Threads -> {"none", "armed", "due"}]
      /\ wake_pending' \in [Threads -> BOOLEAN]
  BY Zenon, <1>1 DEF TypeOK, RecordInv, QueuesApart
<1>3. found \in Members(queue[c])
  BY Zenon, <1>1, <1>2, FirstRunnableFacts
<1>4. on[c] \notin Threads
  BY Zenon, <1>1, ContextAssumption DEF Contexts
<1>5. \A u \in Threads : (state[u] = "CREATE" => state[u] = "CREATE") /\ (state[u] \in Over => loc[u] \in Ended)
  BY Zenon DEF RecordInv, FieldsAgree
<1>6. /\ \A u \in Members(queue[c]) \ Members(queue[c]) : on[c] = u => loc[u] \in Returned
      /\ \A u \in Threads : on[c] = u => loc[u] \in {"user"} \cup Returned
      /\ on[c] \in Threads => found = active[c] \/ (state[found] \in Runnable /\ TRUE)
      /\ Members(queue[c]) \subseteq Members(queue[c])
  BY Zenon, <1>4
<1>7. UNCHANGED <<in_kernel_sleep, loc, waking>>
  BY Zenon, <1>1
<1>. HIDE DEF found
<1>. QED  BY Zenon, <1>1, <1>2, <1>3, <1>5, <1>6, <1>7, DispatchRecords

(* A thread that a tick takes out of its queue has come back from its exit *)
(* if it is the one that was interrupted.                                  *)
LEMMA ReapedReturned ==
    ASSUME RecordInv, NEW c \in Cores, Interruptible(c), queue[c] # <<>>
    PROVE  \A u \in Members(queue[c]) \ Members(QueueAfterReap(c)) :
              on[c] = u => loc[u] \in Returned
<1>. SUFFICES ASSUME NEW u \in Members(queue[c]) \ Members(QueueAfterReap(c)), on[c] = u
              PROVE  loc[u] \in Returned
  BY Zenon
<1>1. state[u] = "TERMINATED" /\ u \in Threads
  BY Zenon, ReapFacts, MemberIsThread
<1>2. loc[u] \in Ended /\ loc[u] \in {"user"} \cup Returned
  BY Zenon, <1>1, InterruptedOutside DEF RecordInv, FieldsAgree, Over
<1>. QED  BY Zenon, <1>2 DEF Ended

(* A tick without a switch.                                                *)
LEMMA TickKeepRecords ==
    ASSUME RecordInv, NEW c \in Cores, TickKeep(c)
    PROVE  RecordInv'
<1>. DEFINE st == TickState(c, FALSE)
<1>1. /\ TypeOK /\ Interruptible(c) /\ queue[c] # <<>> /\ ~NeedsSwitch(c, FALSE) /\ TickScan(c)
      /\ Dispatch(c, st, CurrentNode(c), FALSE)
      /\ queue' = [queue EXCEPT ![c] = queue[c]]
  BY Zenon DEF TickKeep, Ticks, RecordInv, TypeOK
<1>2. Ring(queue[c]) /\ CurrentNode(c) \in Members(queue[c])
  BY Zenon, <1>1, NodeFacts DEF RecordInv, QueuesApart
<1>3. on[c] \in Threads => CurrentNode(c) = active[c]
  BY Zenon, <1>1, ContextAssumption DEF NeedsSwitch, FromScheduler, Contexts
<1>4. /\ st \in [Threads -> States]
      /\ \A u \in Threads : (st[u] = "CREATE" => state[u] = "CREATE") /\ (st[u] \in Over => loc[u] \in Ended)
  BY Zenon, TickStateKept
<1>5. /\ \A u \in Members(queue[c]) \ Members(queue[c]) : on[c] = u => loc[u] \in Returned
      /\ on[c] \in Threads => CurrentNode(c) = active[c] \/ (st[CurrentNode(c)] \in Runnable /\ FALSE)
      /\ Members(queue[c]) \subseteq Members(queue[c])
  BY Zenon, <1>3
<1>6. /\ wakeup_time' \in [Threads -> {"none", "armed", "due"}]
      /\ wake_pending' \in [Threads -> BOOLEAN]
      /\ UNCHANGED <<in_kernel_sleep, loc, waking>>
      /\ \A u \in Threads : on[c] = u => loc[u] \in {"user"} \cup Returned
  BY Zenon, <1>1, TickScanTypes, InterruptedOutside
<1>. HIDE DEF st
<1>. QED  BY Zenon, <1>1, <1>2, <1>4, <1>5, <1>6, DispatchRecords

(* A tick that switches.                                                   *)
LEMMA TickSwitchRecords ==
    ASSUME RecordInv, NEW c \in Cores, NEW over \in BOOLEAN, TickSwitch(c, over)
    PROVE  RecordInv'
<1>. DEFINE st == TickState(c, over)
            q == QueueAfterReap(c)
            found == Found(c, over)
<1>1. /\ Interruptible(c) /\ queue[c] # <<>> /\ q # <<>> /\ found # NoThread /\ TickScan(c)
      /\ Dispatch(c, st, found, TRUE)
      /\ queue' = [queue EXCEPT ![c] = q]
  BY Zenon DEF TickSwitch, Ticks
<1>2. Ring(q) /\ Members(q) \subseteq Members(queue[c])
  BY Zenon, <1>1, ReapFacts
<1>3. found \in Members(q) /\ st[found] \in Runnable
  BY Zenon, <1>1, FoundFacts
<1>4. /\ st \in [Threads -> States]
      /\ \A u \in Threads : (st[u] = "CREATE" => state[u] = "CREATE") /\ (st[u] \in Over => loc[u] \in Ended)
  BY Zenon, TickStateKept
<1>5. \A u \in Members(queue[c]) \ Members(q) : on[c] = u => loc[u] \in Returned
  BY Zenon, <1>1, ReapedReturned
<1>. HIDE DEF st, q, found
<1>. QED  BY Zenon, <1>1, <1>2, <1>3, <1>4, <1>5, TickScanTypes, InterruptedOutside, DispatchRecords

(* A tick that reaps the last thread of its core.                          *)
LEMMA TickReapLastRecords ==
    ASSUME RecordInv, NEW c \in Cores, TickReapLast(c)
    PROVE  RecordInv'
<1>1. /\ TypeOK /\ Interruptible(c) /\ queue[c] # <<>> /\ QueueAfterReap(c) = <<>>
      /\ state' = [state EXCEPT ![active[c]] = "HAL"]
      /\ queue' = [queue EXCEPT ![c] = <<>>]
      /\ current' = [current EXCEPT ![c] = NoThread]
      /\ UNCHANGED <<in_kernel_sleep, wake_pending, wakeup_time, loc, frame_saved, active, on, waking>>
  BY Zenon DEF TickReapLast, Ticks, RecordInv
<1>2. Detaches(c) /\ active[c] \in Members(queue[c]) /\ state[active[c]] = "TERMINATED" /\ active[c] \in Threads
  BY Zenon, <1>1, ReapFacts, MemberIsThread DEF QueueAfterReap
<1>3. queue'[c] = <<>> /\ current'[c] = NoThread /\ Ring(queue'[c]) /\ Members(queue'[c]) = {}
  BY <1>1 DEF TypeOK, Ring, Members
<1>4. TypeOK'
  BY <1>1, <1>2 DEF TypeOK, States
<1>5. \A u \in Threads : (state'[u] = "CREATE" => state[u] = "CREATE") /\ (state'[u] \in Over => loc[u] \in Ended)
  BY Zenon, <1>1, <1>2 DEF TypeOK, RecordInv, FieldsAgree, Over
<1>6. Hands(c)
  BY Zenon, <1>1 DEF Hands, TypeOK, RecordInv, CoresExecute
<1>7. \A d \in Cores \ {c} : /\ queue'[d] = queue[d] /\ current'[d] = current[d]
                             /\ active'[d] = active[d] /\ on'[d] = on[d]
  BY Zenon, <1>1 DEF TypeOK
<1>8. \A u \in Members(queue[c]) \ Members(queue'[c]) : on'[c] = u => loc[u] \in Returned
  BY Zenon, <1>1, <1>3, ReapedReturned
<1>. QED  BY Zenon, <1>1, <1>2, <1>3, <1>4, <1>5, <1>6, <1>7, <1>8, CoreStepRecords

(* A tick that finds nothing to run.                                       *)
LEMMA TickNoneRecords ==
    ASSUME RecordInv, NEW c \in Cores, NEW over \in BOOLEAN, TickNone(c, over)
    PROVE  RecordInv'
<1>. DEFINE q == QueueAfterReap(c)
<1>1. /\ TypeOK /\ Interruptible(c) /\ queue[c] # <<>> /\ q # <<>> /\ TickScan(c)
      /\ state' = TickState(c, over)
      /\ queue' = [queue EXCEPT ![c] = q]
      /\ frame_saved' = FrameAfter(c, on'[c])
      /\ UNCHANGED active
  BY Zenon DEF TickNone, Ticks, RecordInv
<1>2. Ring(q) /\ Members(q) \subseteq Members(queue[c]) /\ queue'[c] = q
  BY Zenon, <1>1, ReapFacts DEF TypeOK
<1>3. \A u \in Members(queue[c]) \ Members(q) : on[c] = u => loc[u] \in Returned
  BY Zenon, <1>1, ReapedReturned
<1>4. /\ state' \in [Threads -> States]
      /\ \A u \in Threads : (state'[u] = "CREATE" => state[u] = "CREATE") /\ (state'[u] \in Over => loc[u] \in Ended)
  BY Zenon, <1>1, TickStateKept
<1>5. /\ frame_saved' \in [Threads -> BOOLEAN]
      /\ wakeup_time' \in [Threads -> {"none", "armed", "due"}]
      /\ wake_pending' \in [Threads -> BOOLEAN]
      /\ UNCHANGED <<in_kernel_sleep, loc, waking>>
  BY Zenon, <1>1, FrameTypes, TickScanTypes
<1>6. CASE Detaches(c)
  <2>1. /\ on' = [on EXCEPT ![c] = "search"]
        /\ current' = [current EXCEPT ![c] = Head(After(queue[c], active[c]))]
    BY Zenon, <1>6 DEF TickNone
  <2>2. Members(q) = Members(queue[c]) \ {active[c]} /\ active[c] \in Members(queue[c])
    BY Zenon, <1>1, <1>6, ReapFacts
  <2>3. Len(queue[c]) # 1
    <3>1. q[1] \in Members(q) /\ queue[c] \in Seq(Threads)
      BY <1>1, <1>2, MembersAre DEF Ring, TypeOK
    <3>. HIDE DEF q
    <3>. QED  BY <2>2, <3>1, MembersAre
  <2>4. Head(After(queue[c], active[c])) \in Members(q)
    BY <2>2, <2>3, SuccessorFacts DEF RecordInv, QueuesApart
  <2>. HIDE DEF q
  <2>5. /\ on'[c] = "search" /\ current'[c] \in Members(q) /\ active'[c] = active[c]
        /\ \A d \in Cores \ {c} : /\ queue'[d] = queue[d] /\ current'[d] = current[d]
                                  /\ active'[d] = active[d] /\ on'[d] = on[d]
    BY Zenon, <1>1, <2>1, <2>4 DEF TypeOK
  <2>6. TypeOK'
    <3>1. Head(After(queue[c], active[c])) \in Threads /\ q \in Seq(Threads)
      BY Zenon, <1>2, <2>4, MemberIsThread DEF Ring
    <3>. QED  BY Zenon, <1>1, <1>4, <1>5, <2>1, <3>1 DEF TypeOK, Contexts
  <2>7. Hands(c) /\ on'[c] \notin Threads
    BY Zenon, <2>5, ContextAssumption DEF Hands, Contexts
  <2>8. /\ \A u \in Members(queue[c]) \ Members(queue'[c]) : on'[c] = u => loc[u] \in Returned
        /\ \A u \in Members(queue'[c]) : on[c] = u => loc[u] \in {"user"} \cup Returned
    BY Zenon, <1>1, <1>2, <2>7, MemberIsThread, InterruptedOutside
  <2>. QED  BY Zenon, <1>2, <1>4, <1>5, <2>2, <2>5, <2>6, <2>7, <2>8, CoreStepRecords
<1>7. CASE ~Detaches(c)
  <2>1. /\ UNCHANGED on
        /\ current' = [current EXCEPT ![c] = CurrentNode(c)]
    BY Zenon, <1>7 DEF TickNone
  <2>2. q = queue[c] /\ CurrentNode(c) \in Members(q) /\ CurrentNode(c) \in Threads
    BY Zenon, <1>1, <1>7, NodeFacts, MemberIsThread DEF QueueAfterReap
  <2>. HIDE DEF q
  <2>3. /\ on'[c] = on[c] /\ current'[c] = CurrentNode(c) /\ active'[c] = active[c]
        /\ \A d \in Cores \ {c} : /\ queue'[d] = queue[d] /\ current'[d] = current[d]
                                  /\ active'[d] = active[d] /\ on'[d] = on[d]
    BY Zenon, <1>1, <2>1 DEF TypeOK
  <2>4. TypeOK'
    BY Zenon, <1>1, <1>4, <1>5, <2>1, <2>2 DEF TypeOK
  <2>5. \/ active'[c] \in {NoThread, current'[c]}
        \/ active'[c] = active[c] /\ ~Queued(active[c])
    BY Zenon, <2>3 DEF RecordInv, PointersInQueue, CurrentNode
  <2>6. Hands(c)
    BY Zenon, <1>1, <2>3 DEF Hands, TypeOK, RecordInv, CoresExecute
  <2>. QED  BY Zenon, <1>2, <1>4, <1>5, <2>2, <2>3, <2>4, <2>5, <2>6, CoreStepRecords
<1>. QED  BY Zenon, <1>6, <1>7

(* Every step keeps the records exact.                                     *)
LEMMA NextRecordInv == RecordInv /\ [Next]_vars => RecordInv'
<1>. SUFFICES ASSUME RecordInv, [Next]_vars PROVE RecordInv'
  BY Zenon
<1>1. CASE UNCHANGED vars
  <2>1. TypeOK'
    BY Zenon, <1>1 DEF vars, threadVars, coreVars, RecordInv, TypeOK
  <2>. QED  BY Zenon, <1>1, <2>1, QuietStepRecords DEF vars, threadVars
<1>2. ASSUME NEW t \in Threads, NEW c \in Cores, Attach(t, c) \/ WakeStart(c, t) \/ ThreadStep(c, t)
      PROVE  RecordInv'
  BY Zenon, <1>2, AttachRecords, WakersRecords, ThreadStepRecords, FaultRestoreRecords
<1>3. ASSUME NEW c \in Cores, CoreStep(c) PROVE RecordInv'
  <2>1. CASE WakeLoad(c) \/ WakeStore(c)
    <3>1. waking[c].thread \in Threads
      BY <2>1 DEF RecordInv, TypeOK, NoWake, WakeLoad, WakeStore
    <3>. QED  BY Zenon, <2>1, <3>1, WakersRecords
  <2>2. CASE ResumeSearch(c) \/ TickSearch(c)
    BY Zenon, <2>2, ResumeRecords, TickSearchRecords
  <2>3. ASSUME NEW over \in BOOLEAN, Tick(c, over) PROVE RecordInv'
    BY Zenon, <2>3, TickReapLastRecords, TickKeepRecords, TickSwitchRecords, TickNoneRecords DEF Tick
  <2>. QED  BY Zenon, <1>3, <2>1, <2>2, <2>3 DEF CoreStep
<1>4. ASSUME NEW t \in Threads, DeadlinePasses(t) PROVE RecordInv'
  <2>1. TypeOK'
    BY Zenon, <1>4 DEF DeadlinePasses, coreVars, RecordInv, TypeOK
  <2>. QED  BY Zenon, <1>4, <2>1, QuietStepRecords DEF DeadlinePasses
<1>. QED  BY Zenon, <1>1, <1>2, <1>3, <1>4 DEF Next

(* On any number of cores and threads the scheduler's records are exact:   *)
(* a thread executes on one core, is in one queue, once, is active_thread  *)
(* and the current node where it executes, and is marked in_kernel_sleep   *)
(* exactly when kernel_context_restore may continue it.                    *)
THEOREM RecordsKept == Spec => []RecordsExact
  BY InitRecordInv, NextRecordInv, RecordInvImplies, PTL DEF Spec

(* Every field keeps its type: in particular a core never executes, and    *)
(* no queue ever holds, anything but a thread.                             *)
THEOREM SchedulerTypes == Spec => []TypeOK
<1>1. RecordInv => TypeOK
  BY Zenon DEF RecordInv
<1>. QED  BY <1>1, InitRecordInv, NextRecordInv, PTL DEF Spec

-----------------------------------------------------------------------------
(* A kernel at boot is an idle BlockWake.                                  *)
LEMMA InitPromise == Init => Promise!SleepInit
  BY Zenon DEF Init, Promise!SleepInit, SleepAt

(* The steps that the users of thread_block and thread_sleep do not see.   *)
LEMMA UnseenStep ==
    ASSUME UNCHANGED wake_pending, \A u \in Threads : SleepAt(loc'[u]) = SleepAt(loc[u])
    PROVE  UNCHANGED Promise!sleepVars
  BY Zenon DEF Promise!sleepVars

(* The scan of a tick is one wake of all the sleepers that expired.        *)
LEMMA ScanWakes ==
    ASSUME TypeOK, NEW c \in Cores, TickScan(c)
    PROVE  Promise!SleepNext
<1>. DEFINE S == Expired(c) \cap Threads
<1>1. S \in SUBSET Threads
  BY Zenon
<1>2. wake_pending' = [t \in Threads |-> t \in S \/ wake_pending[t]]
  BY Zenon DEF TickScan
<1>3. UNCHANGED [t \in Threads |-> SleepAt(loc[t])]
  BY Zenon DEF TickScan
<1>. HIDE DEF S
<1>. QED  BY Zenon, <1>1, <1>2, <1>3 DEF Promise!SleepNext, Promise!Wake

(* A step of a thread is the step of BlockWake of the same name, or is     *)
(* not seen.                                                               *)
LEMMA ThreadStepPromise ==
    ASSUME TypeOK, NEW t \in Threads, NEW c \in Cores, ThreadStep(c, t)
    PROVE  Promise!SleepNext \/ UNCHANGED Promise!sleepVars
<1>. DEFINE slept == [u \in Threads |-> SleepAt(loc[u])]
<1>. USE DEF TypeOK
<1>1. CASE BlockStore(c, t)
  <2>1. \A u \in Threads : SleepAt(loc'[u]) = SleepAt(loc[u])
    BY Zenon, <1>1 DEF BlockStore, Calls, SleepAt
  <2>. QED  BY Zenon, <1>1, <2>1, UnseenStep DEF BlockStore
<1>2. CASE BlockWoken(c, t)
  <2>1. slept' = slept /\ slept[t] = "no"
    BY Zenon, <1>2 DEF BlockWoken, SleepAt
  <2>2. Promise!Consume(t)
    BY Zenon, <1>2, <2>1 DEF BlockWoken, Promise!Consume, Promise!Awake
  <2>. QED  BY Zenon, <2>2 DEF Promise!SleepNext
<1>3. CASE BlockSwitch(c, t)
  <2>1. slept' = [slept EXCEPT ![t] = "block"] /\ slept[t] = "no"
    BY Zenon, <1>3 DEF BlockSwitch, SleepAt
  <2>2. Promise!Block(t)
    BY Zenon, <1>3, <2>1 DEF BlockSwitch, Promise!Block, Promise!Awake
  <2>. QED  BY Zenon, <2>2 DEF Promise!SleepNext
<1>4. CASE SleepStart(c, t)
  <2>1. CASE wake_pending[t]
    <3>1. slept' = slept /\ slept[t] = "no"
      BY ZenonT(30), <1>4, <2>1 DEF SleepStart, Calls, SleepAt
    <3>2. Promise!Consume(t)
      BY Zenon, <1>4, <2>1, <3>1 DEF SleepStart, Promise!Consume, Promise!Awake
    <3>. QED  BY Zenon, <3>2 DEF Promise!SleepNext
  <2>2. CASE ~wake_pending[t]
    <3>1. \A u \in Threads : SleepAt(loc'[u]) = SleepAt(loc[u])
      BY Zenon, <1>4, <2>2 DEF SleepStart, Calls, SleepAt
    <3>. QED  BY Zenon, <1>4, <2>2, <3>1, UnseenStep DEF SleepStart
  <2>. QED  BY Zenon, <2>1, <2>2
<1>5. CASE SleepSwitch(c, t)
  <2>1. slept' = [slept EXCEPT ![t] = "timed"] /\ slept[t] = "no"
    BY Zenon, <1>5 DEF SleepSwitch, SleepAt
  <2>2. Promise!Sleep(t)
    BY Zenon, <1>5, <2>1 DEF SleepSwitch, Promise!Sleep, Promise!Awake
  <2>. QED  BY Zenon, <2>2 DEF Promise!SleepNext
<1>6. CASE SleepReturn(c, t)
  <2>1. slept' = [slept EXCEPT ![t] = "no"] /\ slept[t] # "no"
    BY Zenon, <1>6 DEF SleepReturn, SleepAt
  <2>2. Promise!Resume(t)
    BY Zenon, <1>6, <2>1 DEF SleepReturn, Promise!Resume, Promise!Awake
  <2>. QED  BY Zenon, <2>2 DEF Promise!SleepNext
<1>7. CASE Yield(c, t)
  <2>1. \A u \in Threads : SleepAt(loc'[u]) = SleepAt(loc[u])
    BY Zenon, <1>7 DEF Yield, Calls, SleepAt
  <2>. QED  BY Zenon, <1>7, <2>1, UnseenStep DEF Yield
<1>8. CASE YieldReturn(c, t)
  <2>1. \A u \in Threads : SleepAt(loc'[u]) = SleepAt(loc[u])
    BY Zenon, <1>8 DEF YieldReturn, SleepAt
  <2>. QED  BY Zenon, <1>8, <2>1, UnseenStep DEF YieldReturn
<1>9. CASE SysExit(c, t)
  <2>1. \A u \in Threads : SleepAt(loc'[u]) = SleepAt(loc[u])
    BY Zenon, <1>9 DEF SysExit, SleepAt
  <2>. QED  BY Zenon, <1>9, <2>1, UnseenStep DEF SysExit
<1>10. CASE ExitGroup(c, t)
  <2>1. \A u \in Threads : SleepAt(loc'[u]) = SleepAt(loc[u])
    BY Zenon, <1>10 DEF ExitGroup, Calls, SleepAt
  <2>. QED  BY Zenon, <1>10, <2>1, UnseenStep DEF ExitGroup
<1>11. CASE ExitGroupYield(c, t)
  <2>1. \A u \in Threads : SleepAt(loc'[u]) = SleepAt(loc[u])
    BY Zenon, <1>11 DEF ExitGroupYield, SleepAt
  <2>. QED  BY Zenon, <1>11, <2>1, UnseenStep DEF ExitGroupYield
<1>12. CASE Fault(c, t)
  <2>1. \A u \in Threads : SleepAt(loc'[u]) = SleepAt(loc[u])
    BY Zenon, <1>12 DEF Fault, Calls, SleepAt
  <2>. QED  BY Zenon, <1>12, <2>1, UnseenStep DEF Fault
<1>13. CASE FaultRestore(c, t)
  BY Zenon, <1>13, UnseenStep DEF FaultRestore
<1>. QED
  BY Zenon, <1>1, <1>2, <1>3, <1>4, <1>5, <1>6, <1>7, <1>8, <1>9, <1>10, <1>11, <1>12, <1>13 DEF ThreadStep

(* Every step of the scheduler is a step of BlockWake or is not seen.      *)
LEMMA NextPromise == TypeOK /\ [Next]_vars => [Promise!SleepNext]_(Promise!sleepVars)
<1>. SUFFICES ASSUME TypeOK, [Next]_vars
              PROVE  Promise!SleepNext \/ UNCHANGED Promise!sleepVars
  BY Zenon
<1>1. CASE UNCHANGED vars
  BY Zenon, <1>1, UnseenStep DEF vars, threadVars
<1>2. ASSUME NEW t \in Threads, NEW c \in Cores, Attach(t, c)
      PROVE  UNCHANGED Promise!sleepVars
  BY Zenon, <1>2, UnseenStep DEF Attach
<1>3. ASSUME NEW t \in Threads, NEW c \in Cores, WakeStart(c, t)
      PROVE  Promise!SleepNext
  <2>1. wake_pending' = [u \in Threads |-> u \in {t} \/ wake_pending[u]]
    BY Zenon, <1>3 DEF WakeStart, TypeOK
  <2>2. Promise!Wake({t})
    BY Zenon, <1>3, <2>1 DEF WakeStart, Promise!Wake
  <2>. QED  BY Zenon, <2>2 DEF Promise!SleepNext
<1>4. ASSUME NEW c \in Cores, CoreStep(c)
      PROVE  Promise!SleepNext \/ UNCHANGED Promise!sleepVars
  <2>1. CASE WakeLoad(c) \/ WakeStore(c)
    BY Zenon, <2>1, UnseenStep DEF WakeLoad, WakeStore, threadVars
  <2>2. CASE ResumeSearch(c) \/ TickSearch(c)
    BY Zenon, <2>2, UnseenStep DEF ResumeSearch, TickSearch, threadVars
  <2>3. ASSUME NEW over \in BOOLEAN, Tick(c, over)
        PROVE  Promise!SleepNext \/ UNCHANGED Promise!sleepVars
    <3>1. CASE TickReapLast(c)
      BY Zenon, <3>1, UnseenStep DEF TickReapLast
    <3>2. CASE ~TickReapLast(c)
      BY Zenon, <2>3, <3>2, ScanWakes DEF Tick, TickKeep, TickSwitch, TickNone
    <3>. QED  BY Zenon, <3>1, <3>2
  <2>. QED  BY Zenon, <1>4, <2>1, <2>2, <2>3 DEF CoreStep
<1>5. ASSUME NEW t \in Threads, DeadlinePasses(t) PROVE UNCHANGED Promise!sleepVars
  BY Zenon, <1>5, UnseenStep DEF DeadlinePasses
<1>. QED  BY Zenon, <1>1, <1>2, <1>3, <1>4, <1>5, ThreadStepPromise DEF Next

(* The scheduler implements BlockWake for any number of cores and          *)
(* threads: the blocking system calls may be reasoned about with one step  *)
(* per sleep, wake and return.                                             *)
THEOREM PromiseKept == Spec => ImplementsBlockWake
  BY SchedulerTypes, InitPromise, NextPromise, PTL DEF Spec, ImplementsBlockWake, Promise!SleepSpec
=============================================================================
