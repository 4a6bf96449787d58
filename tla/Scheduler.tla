------------------------------ MODULE Scheduler ------------------------------
(***************************************************************************)
(* The preemptive scheduler (kernel/procc/scheduler.c): one circular run   *)
(* queue per core, the timer tick, the sleep and wake primitives every     *)
(* blocking system call is built from, and the ways a thread ends.         *)
(*                                                                         *)
(* A thread never leaves the core it was attached to.  System calls run    *)
(* with interrupts off (syscall_init clears IF), so a step of a thread in  *)
(* the kernel interleaves with the other cores only, and the tick          *)
(* interrupts user code and the scheduler's own idle loops.  What other    *)
(* cores do to a thread is vxThreadWake and attach_to_scheduler; neither   *)
(* vxThreadWake nor the thread's own writes of its state take a lock, so   *)
(* each of their shared accesses is a step.                                *)
(***************************************************************************)
EXTENDS Naturals, Sequences

CONSTANTS
    Threads,     \* the threads that are ever created
    Cores,       \* the cores that run a scheduler
    NoThread     \* the null thread pointer

(* What a core executes when it does not execute a thread: the context it  *)
(* booted in, the loop of scheduler_resume_point on the scheduler stack,   *)
(* the search loop of a tick, the INFLOOP of sch_restore_to_next_thread.   *)
Contexts == {"boot", "resume", "search", "dead"}

ASSUME NoThreadAssumption == NoThread \notin Threads \cup Contexts
ASSUME ContextAssumption == Threads \cap Contexts = {}

VARIABLES
    state,            \* thread_t.state
    in_kernel_sleep,  \* thread_t.in_kernel_sleep
    wake_pending,     \* thread_t.wake_pending
    wakeup_time,      \* thread_t.wakeup_time: "none" (0), "armed" or, once passed, "due"
    loc,              \* where the thread's code is, see Locations
    frame_saved,      \* thread_t.reg holds the point the thread will continue from
    queue,            \* scheduler[c]: run_queue_head .. last
    current,          \* scheduler[c].current
    active,           \* each_core_data.active_thread
    on,               \* the thread or the context the core executes
    waking            \* the vxThreadWake in progress on a core

threadVars == <<state, in_kernel_sleep, wake_pending, wakeup_time, loc, frame_saved>>
coreVars == <<queue, current, active, on>>
vars == <<threadVars, coreVars, waking>>

States == {"CREATE", "READY", "RUNNING", "BLOCKED", "TERMINATED", "HAL"}

(* "user": outside the functions below (interrupts on).  "block",          *)
(* "sleep": in thread_block or thread_sleep, before the switch.            *)
(* "blocked", "sleeping", "yielded": inside kernel_context_save, or just   *)
(* restored from it.  "exit", "exited": in exit_group, before and inside   *)
(* its schedule_yield; "fault": in the exception handler.                  *)
(* "exit_returned", "sys_exit_returned": exit_group or SYS_exit has        *)
(* returned to user mode, where the C library calls SYS_exit again.        *)
Suspended == {"blocked", "sleeping", "yielded", "exited"}
Returned == {"exit_returned", "sys_exit_returned"}
Locations == {"user", "block", "sleep", "exit", "fault"} \cup Suspended \cup Returned

NoWake == [step |-> "none", thread |-> NoThread]

Runnable == {"READY", "RUNNING"}
Members(q) == {q[i] : i \in DOMAIN q}
PlaceOf(q, t) == CHOOSE i \in DOMAIN q : q[i] = t

(* The ring with the node of t unlinked.                                   *)
Without(q, t) ==
    IF t \in Members(q)
    THEN [i \in 1 .. Len(q) - 1 |-> IF i < PlaceOf(q, t) THEN q[i] ELSE q[i + 1]]
    ELSE q

(* The ring in the order of next_queue from the node after t; t is last.   *)
AfterHead(q, t) == q     \* mutant: every search starts at the head

After(q, t) ==
    IF t \in Members(q)
    THEN LET left == Len(q) - PlaceOf(q, t)
         IN  [i \in 1 .. Len(q) |-> IF i <= left THEN q[PlaceOf(q, t) + i] ELSE q[i - left]]
    ELSE q

(* The thread a search along the ring stops at.                            *)
FirstRunnable(ring, st) ==
    LET stops == {i \in DOMAIN ring : /\ st[ring[i]] \in Runnable
                                      /\ \A j \in 1 .. i - 1 : st[ring[j]] \notin Runnable}
    IN  IF stops = {} THEN NoThread ELSE ring[CHOOSE i \in stops : TRUE]

Init ==
    /\ state = [t \in Threads |-> "CREATE"]
    /\ in_kernel_sleep = [t \in Threads |-> FALSE]
    /\ wake_pending = [t \in Threads |-> FALSE]
    /\ wakeup_time = [t \in Threads |-> "none"]
    /\ loc = [t \in Threads |-> "user"]
    /\ frame_saved = [t \in Threads |-> TRUE]
    /\ queue = [c \in Cores |-> <<>>]
    /\ current = [c \in Cores |-> NoThread]
    /\ active = [c \in Cores |-> NoThread]
    /\ on = [c \in Cores |-> "boot"]
    /\ waking = [c \in Cores |-> NoWake]

-----------------------------------------------------------------------------
(***************************************************************************)
(* attach_to_scheduler and vxAllocScheduler: a created thread becomes      *)
(* READY at the end of the ring of the core chosen for it.                 *)
(***************************************************************************)
Attach(t, c) ==
    /\ state[t] = "CREATE"
    /\ on[c] # "search"                     \* the tick there holds the lock
    /\ state' = [state EXCEPT ![t] = "READY"]
    /\ queue' = [queue EXCEPT ![c] = Append(@, t)]
    /\ UNCHANGED <<in_kernel_sleep, wake_pending, wakeup_time, loc, frame_saved,
                   current, active, on, waking>>

(***************************************************************************)
(* vxThreadWake, called by a core from a system call or an interrupt       *)
(* handler: store wake_pending, fence, load state, store state.            *)
(***************************************************************************)
Interruptible(c) ==
    \/ on[c] \in {"boot", "resume"}
    \/ on[c] \in Threads /\ loc[on[c]] \in {"user"} \cup Returned

MayWake(c) ==
    Interruptible(c) \/ (on[c] \in Threads /\ loc[on[c]] \in {"exit", "fault"})

WakeStart(c, t) ==
    /\ waking[c] = NoWake
    /\ MayWake(c)
    /\ state[t] # "CREATE"
    /\ wake_pending' = [wake_pending EXCEPT ![t] = TRUE]
    /\ waking' = [waking EXCEPT ![c] = [step |-> "load", thread |-> t]]
    /\ UNCHANGED <<state, in_kernel_sleep, wakeup_time, loc, frame_saved, coreVars>>

WakeLoad(c) ==
    /\ waking[c].step = "load"
    /\ waking' = [waking EXCEPT ![c] = IF state[waking[c].thread] = "BLOCKED"
                                       THEN [@ EXCEPT !.step = "store"]
                                       ELSE NoWake]
    /\ UNCHANGED <<threadVars, coreVars>>

WakeStore(c) ==
    /\ waking[c].step = "store"
    /\ state' = [state EXCEPT ![waking[c].thread] = "RUNNING"]
    /\ waking' = [waking EXCEPT ![c] = NoWake]
    /\ UNCHANGED <<in_kernel_sleep, wake_pending, wakeup_time, loc, frame_saved, coreVars>>

-----------------------------------------------------------------------------
(***************************************************************************)
(* The thread t executes on core c and may leave user mode.                *)
(***************************************************************************)
Executes(c, t) == on[c] = t /\ t \in Threads /\ waking[c] = NoWake

Calls(c, t) ==
    /\ Executes(c, t)
    /\ loc[t] = "user"
    /\ state[t] \in Runnable

(* active_thread = NULL; kernel_context_save onto the scheduler stack.     *)
SwitchOut(c) ==
    /\ active' = [active EXCEPT ![c] = NoThread]
    /\ on' = [on EXCEPT ![c] = "resume"]
    /\ UNCHANGED <<queue, current>>

(***************************************************************************)
(* thread_block: the state is stored before wake_pending is read.          *)
(***************************************************************************)
BlockStore(c, t) ==
    /\ Calls(c, t)
    /\ in_kernel_sleep' = [in_kernel_sleep EXCEPT ![t] = TRUE]
    /\ state' = [state EXCEPT ![t] = "BLOCKED"]
    /\ loc' = [loc EXCEPT ![t] = "block"]
    /\ UNCHANGED <<wake_pending, wakeup_time, frame_saved, coreVars, waking>>

BlockWoken(c, t) ==
    /\ Executes(c, t)
    /\ loc[t] = "block"
    /\ wake_pending[t]
    /\ wake_pending' = [wake_pending EXCEPT ![t] = FALSE]
    /\ in_kernel_sleep' = [in_kernel_sleep EXCEPT ![t] = FALSE]
    /\ state' = [state EXCEPT ![t] = "RUNNING"]
    /\ loc' = [loc EXCEPT ![t] = "user"]
    /\ UNCHANGED <<wakeup_time, frame_saved, coreVars, waking>>

BlockUnchecked(c, t) ==     \* mutant: wake_pending is not read after the store of the state
    /\ Executes(c, t)
    /\ loc[t] = "block"
    /\ loc' = [loc EXCEPT ![t] = "blocked"]
    /\ SwitchOut(c)
    /\ UNCHANGED <<state, in_kernel_sleep, wake_pending, wakeup_time, frame_saved, waking>>

BlockSwitch(c, t) ==
    /\ Executes(c, t)
    /\ loc[t] = "block"
    /\ ~wake_pending[t]
    /\ loc' = [loc EXCEPT ![t] = "blocked"]
    /\ SwitchOut(c)
    /\ UNCHANGED <<state, in_kernel_sleep, wake_pending, wakeup_time, frame_saved, waking>>

(***************************************************************************)
(* thread_sleep: arms the timer and reads wake_pending before the state is *)
(* stored.                                                                 *)
(***************************************************************************)
SleepStart(c, t) ==
    /\ Calls(c, t)
    /\ IF wake_pending[t]
       THEN /\ wake_pending' = [wake_pending EXCEPT ![t] = FALSE]
            /\ UNCHANGED <<in_kernel_sleep, wakeup_time, loc>>
       ELSE /\ in_kernel_sleep' = [in_kernel_sleep EXCEPT ![t] = TRUE]
            /\ wakeup_time' = [wakeup_time EXCEPT ![t] = "armed"]
            /\ loc' = [loc EXCEPT ![t] = "sleep"]
            /\ UNCHANGED wake_pending
    /\ UNCHANGED <<state, frame_saved, coreVars, waking>>

SleepSwitch(c, t) ==
    /\ Executes(c, t)
    /\ loc[t] = "sleep"
    /\ state' = [state EXCEPT ![t] = "BLOCKED"]
    /\ loc' = [loc EXCEPT ![t] = "sleeping"]
    /\ SwitchOut(c)
    /\ UNCHANGED <<in_kernel_sleep, wake_pending, wakeup_time, frame_saved, waking>>

(* The HPET main counter passes wakeup_time.                               *)
DeadlinePasses(t) ==
    /\ wakeup_time[t] = "armed"
    /\ wakeup_time' = [wakeup_time EXCEPT ![t] = "due"]
    /\ UNCHANGED <<state, in_kernel_sleep, wake_pending, loc, frame_saved, coreVars, waking>>

(* schedule_yield, up to the switch.                                       *)
Yield(c, t) ==
    /\ Calls(c, t)
    /\ in_kernel_sleep' = [in_kernel_sleep EXCEPT ![t] = TRUE]
    /\ state' = [state EXCEPT ![t] = "READY"]
    /\ loc' = [loc EXCEPT ![t] = "yielded"]
    /\ SwitchOut(c)
    /\ UNCHANGED <<wake_pending, wakeup_time, frame_saved, waking>>

(***************************************************************************)
(* kernel_context_save returns in thread_block or thread_sleep ...         *)
(***************************************************************************)
SleepReturnMarked(c, t) ==     \* mutant: in_kernel_sleep is not cleared on the way out
    /\ Executes(c, t)
    /\ loc[t] \in {"blocked", "sleeping"}
    /\ wake_pending' = [wake_pending EXCEPT ![t] = FALSE]
    /\ state' = [state EXCEPT ![t] = "RUNNING"]
    /\ loc' = [loc EXCEPT ![t] = "user"]
    /\ UNCHANGED <<in_kernel_sleep, wakeup_time, frame_saved, coreVars, waking>>

SleepReturnPending(c, t) ==     \* mutant: wake_pending is left set
    /\ Executes(c, t)
    /\ loc[t] \in {"blocked", "sleeping"}
    /\ in_kernel_sleep' = [in_kernel_sleep EXCEPT ![t] = FALSE]
    /\ wakeup_time' = [wakeup_time EXCEPT ![t] = IF loc[t] = "sleeping" THEN "none" ELSE @]
    /\ state' = [state EXCEPT ![t] = "RUNNING"]
    /\ loc' = [loc EXCEPT ![t] = "user"]
    /\ UNCHANGED <<wake_pending, frame_saved, coreVars, waking>>

SleepReturn(c, t) ==
    /\ Executes(c, t)
    /\ loc[t] \in {"blocked", "sleeping"}
    /\ in_kernel_sleep' = [in_kernel_sleep EXCEPT ![t] = FALSE]
    /\ wake_pending' = [wake_pending EXCEPT ![t] = FALSE]
    /\ wakeup_time' = [wakeup_time EXCEPT ![t] = IF loc[t] = "sleeping" THEN "none" ELSE @]
    /\ state' = [state EXCEPT ![t] = "RUNNING"]
    /\ loc' = [loc EXCEPT ![t] = "user"]
    /\ UNCHANGED <<frame_saved, coreVars, waking>>

(* ... or in schedule_yield.                                               *)
YieldReturn(c, t) ==
    /\ Executes(c, t)
    /\ loc[t] \in {"yielded", "exited"}
    /\ IF state[t] \in {"TERMINATED", "HAL"}
       THEN UNCHANGED <<in_kernel_sleep, state>>
       ELSE /\ in_kernel_sleep' = [in_kernel_sleep EXCEPT ![t] = FALSE]
            /\ state' = [state EXCEPT ![t] = "RUNNING"]
    /\ loc' = [loc EXCEPT ![t] = IF @ = "exited" THEN "exit_returned" ELSE "user"]
    /\ UNCHANGED <<wake_pending, wakeup_time, frame_saved, coreVars, waking>>

-----------------------------------------------------------------------------
(***************************************************************************)
(* SYS_exit marks the thread and returns to user mode; exit_group marks    *)
(* it, wakes the parent and yields; an exception marks it, wakes the       *)
(* parent and switches away (sch_restore_to_next_thread).                  *)
(***************************************************************************)
SysExit(c, t) ==
    /\ Calls(c, t) \/ (Executes(c, t) /\ loc[t] \in Returned)
    /\ state' = [state EXCEPT ![t] = "TERMINATED"]
    /\ loc' = [loc EXCEPT ![t] = IF @ = "user" THEN "sys_exit_returned" ELSE @]
    /\ UNCHANGED <<in_kernel_sleep, wake_pending, wakeup_time, frame_saved, coreVars, waking>>

ExitGroup(c, t) ==
    /\ Calls(c, t)
    /\ state' = [state EXCEPT ![t] = "TERMINATED"]
    /\ loc' = [loc EXCEPT ![t] = "exit"]
    /\ UNCHANGED <<in_kernel_sleep, wake_pending, wakeup_time, frame_saved, coreVars, waking>>

ExitGroupYield(c, t) ==
    /\ Executes(c, t)
    /\ loc[t] = "exit"
    /\ in_kernel_sleep' = [in_kernel_sleep EXCEPT ![t] = TRUE]
    /\ loc' = [loc EXCEPT ![t] = "exited"]
    /\ SwitchOut(c)
    /\ UNCHANGED <<state, wake_pending, wakeup_time, frame_saved, waking>>

Fault(c, t) ==
    /\ Calls(c, t)
    /\ state' = [state EXCEPT ![t] = "TERMINATED"]
    /\ loc' = [loc EXCEPT ![t] = "fault"]
    /\ UNCHANGED <<in_kernel_sleep, wake_pending, wakeup_time, frame_saved, coreVars, waking>>

(* vxDeatachFromScheduler on the current node.                             *)
Detach(c, t) ==
    /\ queue' = [queue EXCEPT ![c] = Without(@, t)]
    /\ current' = [current EXCEPT ![c] = IF Len(queue[c]) = 1 THEN NoThread
                                         ELSE Head(After(queue[c], t))]

(* The node after the crashed one is run whatever its state.               *)
FaultRestore(c, t) ==
    /\ Executes(c, t)
    /\ loc[t] = "fault"
    /\ Detach(c, t)
    /\ LET next == current'[c]
       IN  IF next = NoThread
           THEN /\ state' = [state EXCEPT ![t] = "HAL"]
                /\ on' = [on EXCEPT ![c] = "dead"]
                /\ UNCHANGED <<frame_saved, active>>
           ELSE /\ state' = [state EXCEPT ![t] = "HAL",
                                          ![next] = IF @ = "READY" THEN "RUNNING" ELSE @]
                /\ on' = [on EXCEPT ![c] = next]
                /\ active' = [active EXCEPT ![c] = next]
                /\ frame_saved' = [frame_saved EXCEPT ![next] = FALSE]
    /\ UNCHANGED <<in_kernel_sleep, wake_pending, wakeup_time, loc, waking>>

-----------------------------------------------------------------------------
(***************************************************************************)
(* scheduler_resume_point: the first runnable thread after the current     *)
(* node becomes current and active.  A thread asleep in the kernel is      *)
(* continued at once, any other one is left to the next tick.              *)
(***************************************************************************)
ResumeAnything(c) ==     \* mutant: the result of the search is not checked
    /\ on[c] = "resume"
    /\ waking[c] = NoWake
    /\ LET found == FirstRunnable(After(queue[c], current[c]), state)
       IN  /\ current' = [current EXCEPT ![c] = found]
           /\ active' = [active EXCEPT ![c] = found]
           /\ on' = [on EXCEPT ![c] = found]
    /\ UNCHANGED <<threadVars, queue, waking>>

ResumeSearch(c) ==
    /\ on[c] = "resume"
    /\ waking[c] = NoWake
    /\ queue[c] # <<>>
    /\ LET start == IF current[c] = NoThread THEN Head(queue[c]) ELSE current[c]
           found == FirstRunnable(After(queue[c], start), state)
       IN  /\ found # NoThread
           /\ current' = [current EXCEPT ![c] = found]
           /\ active' = [active EXCEPT ![c] = found]
           /\ on' = [on EXCEPT ![c] = IF in_kernel_sleep[found] THEN found ELSE @]
    /\ UNCHANGED <<threadVars, queue, waking>>

-----------------------------------------------------------------------------
(***************************************************************************)
(* vxSchedulerTick on core c; over: the active thread's time slice is      *)
(* used up.  The operators below are the local variables of the function.  *)
(***************************************************************************)
FromScheduler(c) == on[c] = "resume"
CurrentNode(c) == IF current[c] = NoThread THEN Head(queue[c]) ELSE current[c]
ActiveState(c) == IF active[c] = NoThread THEN "none" ELSE state[active[c]]

Preempts(c, over) ==
    /\ ActiveState(c) = "RUNNING"
    /\ over \/ (FromScheduler(c) /\ ~in_kernel_sleep[active[c]])

Reaps(c) == ActiveState(c) = "TERMINATED"
Detaches(c) == Reaps(c) /\ active[c] = CurrentNode(c)
QueueAfterReap(c) == IF Detaches(c) THEN Without(queue[c], active[c]) ELSE queue[c]

NeedsSwitch(c, over) ==
    \/ Preempts(c, over)
    \/ ActiveState(c) \in {"BLOCKED", "TERMINATED"}
    \/ FromScheduler(c) /\ ActiveState(c) = "READY" /\ ~in_kernel_sleep[active[c]]
    \/ ~FromScheduler(c) /\ (ActiveState(c) # "RUNNING" \/ active[c] # CurrentNode(c))

(* Expired sleepers of this core become READY.                             *)
ExpiredCurrent(c) ==     \* mutant: only the current node's timer is looked at
    {t \in Members(QueueAfterReap(c)) :
        t = current[c] /\ state[t] = "BLOCKED" /\ wakeup_time[t] = "due"}

Expired(c) ==
    {t \in Members(QueueAfterReap(c)) : state[t] = "BLOCKED" /\ wakeup_time[t] = "due"}

TickState(c, over) ==
    [t \in Threads |->
        CASE t = active[c] /\ Preempts(c, over) -> "READY"
          [] t = active[c] /\ Reaps(c) -> "HAL"
          [] t \in Expired(c) -> "READY"
          [] OTHER -> state[t]]

(* The search leaves out the node it starts from, unless it is alone; a    *)
(* node that was just detached has no successor and the search starts at   *)
(* the head.                                                               *)
Candidates(c) ==
    LET q == QueueAfterReap(c)
        ring == After(q, CurrentNode(c))
    IN  IF Detaches(c) \/ Len(q) = 1 THEN q ELSE SubSeq(ring, 1, Len(ring) - 1)

Found(c, over) ==
    LET st == TickState(c, over)
    IN  IF FromScheduler(c) /\ st[CurrentNode(c)] \in Runnable THEN CurrentNode(c)
        ELSE FirstRunnable(Candidates(c), st)

Ticks(c) ==
    /\ waking[c] = NoWake
    /\ Interruptible(c)
    /\ queue[c] # <<>>

(* The part of a tick before it chooses a thread.                          *)
TickScan(c) ==
    /\ wakeup_time' = [t \in Threads |-> IF t \in Expired(c) THEN "none" ELSE wakeup_time[t]]
    /\ wake_pending' = [t \in Threads |-> t \in Expired(c) \/ wake_pending[t]]
    /\ UNCHANGED <<in_kernel_sleep, loc, waking>>

(* The register frame of the interrupted thread is saved only if it is     *)
(* RUNNING; it is out of date as soon as the thread runs on.               *)
FrameAfter(c, next) ==
    [t \in Threads |->
        CASE t = next -> FALSE
          [] t = on[c] /\ t # next -> state[t] = "RUNNING"
          [] OTHER -> frame_saved[t]]

(* Hands core c to the thread next.                                        *)
DispatchUnrecorded(c, st, next, switch) ==     \* mutant: scheduler[c].current stays
    /\ state' = [st EXCEPT ![next] = IF in_kernel_sleep[next] THEN @ ELSE "RUNNING"]
    /\ active' = [active EXCEPT ![c] = next]
    /\ on' = [on EXCEPT ![c] = next]
    /\ frame_saved' = FrameAfter(c, next)
    /\ UNCHANGED current

Dispatch(c, st, next, switch) ==
    LET runs == \/ in_kernel_sleep[next]
                \/ st[next] = "READY"
                \/ st[next] = "RUNNING" /\ switch /\ (next # active[c] \/ FromScheduler(c))
    IN  /\ state' = [st EXCEPT ![next] = IF @ = "READY" /\ ~in_kernel_sleep[next]
                                         THEN "RUNNING" ELSE @]
        /\ current' = [current EXCEPT ![c] = next]
        /\ active' = [active EXCEPT ![c] = next]
        /\ on' = [on EXCEPT ![c] = IF runs THEN next ELSE @]
        /\ frame_saved' = FrameAfter(c, on'[c])

(* The last thread of the core is reaped: the tick returns to it.          *)
TickReapLast(c) ==
    /\ Ticks(c)
    /\ QueueAfterReap(c) = <<>>
    /\ state' = [state EXCEPT ![active[c]] = "HAL"]
    /\ queue' = [queue EXCEPT ![c] = <<>>]
    /\ current' = [current EXCEPT ![c] = NoThread]
    /\ UNCHANGED <<in_kernel_sleep, wake_pending, wakeup_time, loc, frame_saved, active, on, waking>>

(* No switch is due: the current node goes on.                             *)
TickKeep(c) ==
    /\ Ticks(c)
    /\ ~NeedsSwitch(c, FALSE)
    /\ TickScan(c)
    /\ Dispatch(c, TickState(c, FALSE), CurrentNode(c), FALSE)
    /\ UNCHANGED queue

TickSwitch(c, over) ==
    /\ Ticks(c)
    /\ QueueAfterReap(c) # <<>>
    /\ NeedsSwitch(c, over)
    /\ Found(c, over) # NoThread
    /\ TickScan(c)
    /\ queue' = [queue EXCEPT ![c] = QueueAfterReap(c)]
    /\ Dispatch(c, TickState(c, over), Found(c, over), TRUE)

(* Nothing is found: the tick returns to what it interrupted, or, when it  *)
(* has just detached the node its search would stop at, searches on with   *)
(* the run queue locked and interrupts off.                                *)
TickNone(c, over) ==
    /\ Ticks(c)
    /\ QueueAfterReap(c) # <<>>
    /\ NeedsSwitch(c, over)
    /\ Found(c, over) = NoThread
    /\ TickScan(c)
    /\ state' = TickState(c, over)
    /\ queue' = [queue EXCEPT ![c] = QueueAfterReap(c)]
    /\ IF Detaches(c)
       THEN /\ on' = [on EXCEPT ![c] = "search"]
            /\ current' = [current EXCEPT ![c] = Head(After(queue[c], active[c]))]
       ELSE /\ UNCHANGED on
            /\ current' = [current EXCEPT ![c] = CurrentNode(c)]
    /\ frame_saved' = FrameAfter(c, on'[c])
    /\ UNCHANGED active

TickSearch(c) ==
    /\ on[c] = "search"
    /\ FirstRunnable(queue[c], state) # NoThread
    /\ Dispatch(c, state, FirstRunnable(queue[c], state), TRUE)
    /\ UNCHANGED <<in_kernel_sleep, wake_pending, wakeup_time, loc, queue, waking>>

Tick(c, over) ==
    TickReapLast(c) \/ TickKeep(c) \/ TickSwitch(c, over) \/ TickNone(c, over)

-----------------------------------------------------------------------------
ThreadStep(c, t) ==
    \/ BlockStore(c, t) \/ BlockWoken(c, t) \/ BlockSwitch(c, t)
    \/ SleepStart(c, t) \/ SleepSwitch(c, t) \/ SleepReturn(c, t)
    \/ Yield(c, t) \/ YieldReturn(c, t)
    \/ SysExit(c, t) \/ ExitGroup(c, t) \/ ExitGroupYield(c, t)
    \/ Fault(c, t) \/ FaultRestore(c, t)

CoreStep(c) ==
    \/ WakeLoad(c) \/ WakeStore(c)
    \/ ResumeSearch(c) \/ TickSearch(c)
    \/ \E over \in BOOLEAN : Tick(c, over)

Next ==
    \/ \E t \in Threads, c \in Cores :
           Attach(t, c) \/ WakeStart(c, t) \/ ThreadStep(c, t)
    \/ \E c \in Cores : CoreStep(c)
    \/ \E t \in Threads : DeadlinePasses(t)

Spec == Init /\ [][Next]_vars

(***************************************************************************)
(* Kernel code that has begun goes on, however many interrupts come in     *)
(* between.  The timer is re-armed by every tick and a pending tick is     *)
(* taken as soon as interrupts are on; a thread that runs on uses up its   *)
(* slice.                                                                  *)
(***************************************************************************)
KernelStep(c) ==
    \/ ResumeSearch(c) \/ TickSearch(c)
    \/ \E t \in Threads :
          \/ BlockWoken(c, t) \/ BlockSwitch(c, t) \/ SleepSwitch(c, t)
          \/ SleepReturn(c, t) \/ YieldReturn(c, t) \/ ExitGroupYield(c, t)
          \/ FaultRestore(c, t)

Fairness ==
    \A c \in Cores :
        /\ WF_vars(WakeLoad(c) \/ WakeStore(c))
        /\ SF_vars(KernelStep(c))
        /\ SF_vars(\E over \in BOOLEAN : Tick(c, over))
        /\ SF_vars(TickSwitch(c, TRUE))

FairSpec == Spec /\ Fairness

-----------------------------------------------------------------------------
TypeOK ==
    /\ state \in [Threads -> States]
    /\ in_kernel_sleep \in [Threads -> BOOLEAN]
    /\ wake_pending \in [Threads -> BOOLEAN]
    /\ wakeup_time \in [Threads -> {"none", "armed", "due"}]
    /\ loc \in [Threads -> Locations]
    /\ frame_saved \in [Threads -> BOOLEAN]
    /\ queue \in [Cores -> Seq(Threads)]
    /\ current \in [Cores -> Threads \cup {NoThread}]
    /\ active \in [Cores -> Threads \cup {NoThread}]
    /\ on \in [Cores -> Threads \cup Contexts]
    /\ waking \in [Cores -> {NoWake} \cup [step : {"load", "store"}, thread : Threads]]

Executing(t) == \E c \in Cores : on[c] = t
Queued(t) == \E c \in Cores : t \in Members(queue[c])

(* A wake is never lost on thread_block: a thread that sleeps in it with   *)
(* wake_pending set is about to be made runnable by the waker that set it. *)
NoLostWake ==
    \A t \in Threads :
        loc[t] = "blocked" /\ ~Executing(t) /\ state[t] = "BLOCKED" /\ wake_pending[t]
            => \E c \in Cores : waking[c].thread = t

(* active_thread is the thread that executes, it is the current node while *)
(* it may call the kernel, and no thread executes on two cores.            *)
ActiveExecutes ==
    \A c \in Cores, t \in Threads :
        on[c] = t =>
            /\ active[c] = t
            /\ Queued(t) => current[c] = t
            /\ \A d \in Cores : on[d] = t => d = c

(* kernel_context_restore is only ever given a kernel stack that           *)
(* kernel_context_save has filled: a thread that does not execute, and has *)
(* not come back from its exit, is                                         *)
(* marked in_kernel_sleep exactly when it is inside kernel_context_save.   *)
KernelContextValid ==
    \A t \in Threads :
        Queued(t) /\ ~Executing(t) /\ loc[t] \notin Returned => (in_kernel_sleep[t] <=> loc[t] \in Suspended)

(* A run queue holds a thread once, and one queue holds it.                *)
QueuesDisjoint ==
    \A c, d \in Cores : \A i \in DOMAIN queue[c], j \in DOMAIN queue[d] :
        queue[c][i] = queue[d][j] => c = d /\ i = j

(* A thread is at one place: on one core, in one queue, once.              *)
ThreadInOnePlace == ActiveExecutes /\ QueuesDisjoint

(* The scheduler's records of a thread say where it is and how it is to be *)
(* continued, through every tick, sleep, wake and exit.                    *)
RecordsExact == ThreadInOnePlace /\ KernelContextValid

(* A thread woken from thread_block runs again, whatever the others do.    *)
WokenRuns ==
    \A t \in Threads :
        (loc[t] = "blocked" /\ wake_pending[t]) ~> Executing(t)

(* A thread whose thread_sleep has timed out runs again, even if a wake    *)
(* was lost between its check of wake_pending and its store of the state.  *)
(* The exception is a core whose tick is caught in its search.             *)
SleepEnds ==
    \A t \in Threads :
        (loc[t] = "sleeping" /\ wakeup_time[t] = "due")
            ~> (Executing(t) \/ \E c \in Cores : on[c] = "search")

(* The scheduler gives its clients the sleep and wake of BlockWake: the    *)
(* first store of vxThreadWake is the wake, and the steps around it, the   *)
(* ring and the ticks do not show.                                         *)
SleepAt(l) ==
    CASE l = "blocked" -> "block"
      [] l = "sleeping" -> "timed"
      [] OTHER -> "no"
Promise == INSTANCE BlockWake WITH sleep <- [t \in Threads |-> SleepAt(loc[t])]
ImplementsBlockWake == Promise!SleepSpec

-----------------------------------------------------------------------------
(* What comments and messages of the source say, and the code does not do. *)

(* exit_group does not come back from its schedule_yield.                  *)
ExitGroupNeverReturns == \A t \in Threads : loc[t] # "exit_returned"

(* A thread that waits to be continued from its saved registers continues  *)
(* where it was interrupted.                                               *)
FullContextSaved ==
    \A t \in Threads :
        state[t] \in Runnable /\ ~in_kernel_sleep[t] /\ ~Executing(t) => frame_saved[t]
=============================================================================
