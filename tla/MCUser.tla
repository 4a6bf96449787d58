------------------------------- MODULE MCUser -------------------------------
(***************************************************************************)
(* The synchronisation functions of the C library for TLC: one object, of  *)
(* any kind, used by three threads, or the threads themselves as they are  *)
(* created, exit, and are joined or detached.                              *)
(***************************************************************************)
EXTENDS Cond, Semaphore, RwLock, Once, InternalLock, Barrier, Pthread

CONSTANTS t1, t2, t3

MCThreads == {t1, t2, t3}
MCTwoThreads == {t1, t2}

Alike == Permutations(MCThreads)

VARIABLE subject

UserInit ==
    \/ subject = "mutex" /\ MutexInit
    \/ subject = "cond" /\ CondInit
    \/ subject = "sem" /\ SemInit
    \/ subject = "rwlock" /\ RwInit
    \/ subject = "once" /\ OnceInit
    \/ subject = "lock" /\ ILockInit
    \/ subject = "barrier" /\ BarrierInit
    \/ subject = "pthread" /\ PthreadInit

(* On a condition variable, two threads at a time wait, one is in a        *)
(* signal, and one is between its first attempt at the mutex and its       *)
(* sleep: the races inside the mutex are those of subject "mutex".  With   *)
(* pthreads, the search stops behind the first second SYS_exit that        *)
(* cleared the list lock of another.                                       *)
InSignal == {t \in Threads : at[t] \in {"sig load", "sig wait", "sig asleep", "sig open", "sig wake"}}
InMutex == {t \in Threads : at[t] \in {"load", "inc", "mark", "lock", "dec"}}

Bounded ==
    /\ subject = "cond" =>
          /\ Cardinality({t \in Threads : Live(t)}) <= 2
          /\ Cardinality(InSignal) <= 1
          /\ Cardinality(InMutex) <= 1
    /\ subject = "pthread" => ~word[Stomped]

UserNext ==
    /\ \/ subject = "mutex" /\ MutexNext
       \/ subject = "cond" /\ CondNext
       \/ subject = "sem" /\ SemNext
       \/ subject = "rwlock" /\ RwNext
       \/ subject = "once" /\ OnceNext
       \/ subject = "lock" /\ ILockNext
       \/ subject = "barrier" /\ BarrierNext
       \/ subject = "pthread" /\ PthreadNext
    /\ UNCHANGED subject
    /\ Bounded'

UserSpec == UserInit /\ [][UserNext]_<<userVars, subject>>

(* A program just executed, whose threads go on while they can.            *)
ExecSpec ==
    /\ subject = "pthread"
    /\ ExecInit
    /\ [][PthreadNext /\ UNCHANGED subject]_<<userVars, subject>>
    /\ \A t \in Threads : WF_userVars(Inside(t))

-----------------------------------------------------------------------------
UserTypesOK ==
    /\ subject = "mutex" => MutexTypeOK
    /\ subject = "cond" => CondTypeOK
    /\ subject = "sem" => SemTypeOK
    /\ subject = "rwlock" => RwTypeOK
    /\ subject = "once" => OnceTypeOK
    /\ subject = "lock" => ILockTypeOK
    /\ subject = "barrier" => BarrierTypeOK
    /\ subject = "pthread" => PthreadTypeOK

(* Each object keeps the threads apart as it promises: a mutex, a          *)
(* read-write lock and __lock exclude, a mutex is held again when a wait   *)
(* on a condition variable returns, pthread_once runs its function once,   *)
(* nobody passes a barrier before the last has come, and the list of       *)
(* threads is changed under its lock.                                      *)
SyncExact ==
    /\ subject = "mutex" => MutexExclusion
    /\ subject = "cond" => CondExact
    /\ subject = "rwlock" => RwExclusion
    /\ subject = "once" => OnceExact
    /\ subject = "lock" => ILockExact
    /\ subject = "barrier" => BarrierHolds
    /\ subject = "pthread" => PthreadExact

(* No thread is left asleep with nobody to wake it although what it waits  *)
(* for has happened.                                                       *)
NobodyStuck ==
    /\ subject = "mutex" => MutexNotStuck
    /\ subject = "cond" => CondNotStuck
    /\ subject = "sem" => SemNotStuck
    /\ subject = "rwlock" => RwNotStuck
    /\ subject = "once" => OnceNotStuck
    /\ subject = "lock" => ILockNotStuck
    /\ subject = "barrier" => BarrierNotStuck
    /\ subject = "pthread" => PthreadNotStuck


(* pthread_join returns when the thread has exited: "Wake any joiner."     *)
(* (pthread_create.c).                                                     *)
Joining(t) == at[t] \in {"join", "join asleep"} /\ word[DetachState(reg[t].other)] # "JOINABLE"
JoinerWoken == \A t \in Threads : Joining(t) ~> ~Joining(t)
=============================================================================
