---------------------------- MODULE LockSection -----------------------------
(***************************************************************************)
(* Sections under one spinlock, the timer tick and the interrupt flag.     *)
(* Some callers turn interrupts off first (vxPhysBaseFree), others take    *)
(* the lock as they are (phys_base_alloc, vxAllocScheduler), and the tick  *)
(* of a core takes the lock of its own run queue.  The ticket lock is the  *)
(* line of those that have drawn a ticket: the first one has its turn,     *)
(* whether it is running or not (Spinlock!ImplementsFifoLock).             *)
(***************************************************************************)
EXTENDS Sequences

CONSTANTS
    Tasks,       \* threads that execute kernel code
    Home,        \* Home[t]: the core of thread t, its core_affinity
    QueueCore    \* the core whose run queue the lock may belong to

Cores == {Home[t] : t \in Tasks}

ASSUME SectionAssumption == QueueCore \in Cores

VARIABLES
    which,    \* the lock: "frames" (pmm_lock) or "queue" (that of QueueCore)
    line,     \* the tickets drawn and not given back, of threads and of ticks (cores)
    phase,    \* "out", "spin" or "held", of each thread
    iflag,    \* interrupts are on in the thread's flags
    flags,    \* what irq_save returned: "on", "off", or "plain" without it
    cur,      \* the thread each core executes or has interrupted
    tick      \* the core is in its tick, spinning for the lock of its queue

sectionVars == <<which, line, phase, iflag, flags, cur, tick>>

SectionInit ==
    /\ which \in {"frames", "queue"}
    /\ line = <<>>
    /\ phase = [t \in Tasks |-> "out"]
    /\ iflag = [t \in Tasks |-> TRUE]
    /\ flags = [t \in Tasks |-> "plain"]
    /\ cur \in {f \in [Cores -> Tasks] : \A c \in Cores : Home[f[c]] = c}
    /\ tick = [c \in Cores |-> FALSE]

Runs(t) == cur[Home[t]] = t /\ ~tick[Home[t]]

-----------------------------------------------------------------------------
(* A system call or a fault begins with interrupts off, and ends.          *)
EnterKernel(t) ==
    /\ Runs(t) /\ phase[t] = "out" /\ iflag[t]
    /\ iflag' = [iflag EXCEPT ![t] = FALSE]
    /\ UNCHANGED <<which, line, phase, flags, cur, tick>>

LeaveKernel(t) ==
    /\ Runs(t) /\ phase[t] = "out" /\ ~iflag[t]
    /\ iflag' = [iflag EXCEPT ![t] = TRUE]
    /\ UNCHANGED <<which, line, phase, flags, cur, tick>>

DrawTicket(t) ==
    /\ Runs(t) /\ phase[t] = "out"
    /\ phase' = [phase EXCEPT ![t] = "spin"]
    /\ line' = Append(line, t)
    /\ UNCHANGED <<which, cur, tick>>

(* spin_acquire with the flags as they are ...                             *)
AcquirePlain(t) == DrawTicket(t) /\ UNCHANGED <<iflag, flags>>

(* ... and irq_save before it.                                             *)
AcquireSavedLate(t) ==     \* mutant: the flags are saved, the interrupts stay on
    /\ DrawTicket(t)
    /\ flags' = [flags EXCEPT ![t] = IF iflag[t] THEN "on" ELSE "off"]
    /\ UNCHANGED iflag

AcquireSaved(t) ==
    /\ DrawTicket(t)
    /\ flags' = [flags EXCEPT ![t] = IF iflag[t] THEN "on" ELSE "off"]
    /\ iflag' = [iflag EXCEPT ![t] = FALSE]

Granted(t) ==
    /\ Runs(t) /\ phase[t] = "spin" /\ Head(line) = t
    /\ phase' = [phase EXCEPT ![t] = "held"]
    /\ UNCHANGED <<which, line, iflag, flags, cur, tick>>

SpinOn(t) ==
    /\ Runs(t) /\ phase[t] = "spin" /\ Head(line) # t
    /\ UNCHANGED sectionVars

(* spin_release, and irq_restore where there was an irq_save.              *)
Release(t) ==
    /\ Runs(t) /\ phase[t] = "held"
    /\ phase' = [phase EXCEPT ![t] = "out"]
    /\ line' = Tail(line)
    /\ iflag' = [iflag EXCEPT ![t] = IF flags[t] = "plain" THEN @ ELSE flags[t] = "on"]
    /\ flags' = [flags EXCEPT ![t] = "plain"]
    /\ UNCHANGED <<which, cur, tick>>

-----------------------------------------------------------------------------
(* vxSchedulerTick interrupts a thread with interrupts on, also in the     *)
(* kernel.  It takes the lock of the core's queue, and goes on with the    *)
(* same or another thread.                                                 *)
Tick(c) ==
    /\ iflag[cur[c]] /\ ~tick[c]
    /\ which = "queue" /\ c = QueueCore
    /\ tick' = [tick EXCEPT ![c] = TRUE]
    /\ line' = Append(line, c)
    /\ UNCHANGED <<which, phase, iflag, flags, cur>>

TickSpinsOn(c) == tick[c] /\ Head(line) # c /\ UNCHANGED sectionVars

Switch(c, t) ==
    /\ Home[t] = c
    /\ \/ /\ tick[c] /\ Head(line) = c
          /\ line' = Tail(line)
       \/ /\ iflag[cur[c]] /\ ~tick[c] /\ ~(which = "queue" /\ c = QueueCore)
          /\ UNCHANGED line
    /\ cur' = [cur EXCEPT ![c] = t]
    /\ tick' = [tick EXCEPT ![c] = FALSE]
    /\ UNCHANGED <<which, phase, iflag, flags>>

SectionNext ==
    \/ \E t \in Tasks :
          \/ EnterKernel(t) \/ LeaveKernel(t) \/ AcquirePlain(t) \/ AcquireSaved(t)
          \/ Granted(t) \/ SpinOn(t) \/ Release(t)
          \/ Switch(Home[t], t)
    \/ \E c \in Cores : Tick(c) \/ TickSpinsOn(c)

SectionSpec == SectionInit /\ [][SectionNext]_sectionVars

-----------------------------------------------------------------------------
SectionTypeOK ==
    /\ \A i \in DOMAIN line : line[i] \in Tasks \cup Cores
    /\ phase \in [Tasks -> {"out", "spin", "held"}]
    /\ iflag \in [Tasks -> BOOLEAN]
    /\ flags \in [Tasks -> {"on", "off", "plain"}]

(* The core spins with interrupts off, for somebody other than t.          *)
SpinsFor(c, t) == tick[c] \/ (cur[c] # t /\ phase[cur[c]] = "spin" /\ ~iflag[cur[c]])

(* The turn belongs to a thread whose core spins for it: for ever, as the  *)
(* thread is not executed again and nobody can pass it in the line.        *)
Trapped ==
    /\ line # <<>>
    /\ Head(line) \in Tasks
    /\ SpinsFor(Home[Head(line)], Head(line))

(* A core waits for ever for a lock only where a section that does not     *)
(* turn interrupts off was interrupted: by another thread of the core that *)
(* takes the lock in a system call, or by the tick for the run queue's.    *)
TrappedOnlyPlain == Trapped => flags[Head(line)] = "plain"
=============================================================================
