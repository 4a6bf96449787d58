------------------------------ MODULE Process ------------------------------
(***************************************************************************)
(* Process objects (kernel/procc/process.c): pid bitmap, process list, pid *)
(* hash buckets, fork, exit_group and wait4.  An object stands for the     *)
(* process and its main thread, the one that forks, exits and waits.  An   *)
(* object that was freed keeps its last contents until it is reused, and   *)
(* the hash buckets go on pointing at it.                                  *)
(***************************************************************************)
EXTENDS BlockWake, Integers, SequencesExt

CONSTANTS
    InitProc,     \* the first process of the system: it has pid 0 and never exits
    MaxPids,      \* MAX_PID_ALLOWED, at most the number of hash buckets
    ByteBits,     \* pids in one byte of pid_bitmap
    Codes         \* exit codes

ASSUME ProcessAssumption ==
    /\ InitProc \in Threads
    /\ NoThread \notin Threads
    /\ ByteBits \in Nat \ {0}
    /\ \E k \in 1 .. MaxPids : MaxPids = k * ByteBits

VARIABLES
    smp,              \* processes run on several cores
    proc,             \* the fields of the process objects
    process_cache,    \* the free list, last freed first
    process_list,     \* _process_list, from its head
    first, next, prev,  \* process_bucket[].first and the cache links of each object
    pid_bitmap, last_pid_index,
    where,            \* the program point of each main thread
    child             \* the child that wait4 looks at, NoThread for any child

procVars == <<smp, proc, process_cache, process_list, first, next, prev, pid_bitmap, last_pid_index,
              where, child>>

Pids == 0 .. MaxPids - 1
BitmapBytes == 0 .. (MaxPids \div ByteBits) - 1
Live == {p \in Threads : proc[p].used}
Children(p) == {q \in Live : proc[q].parent_pid = proc[p].pid}     \* the first process is its own child
Blank == [used |-> FALSE, pid |-> 0, parent_pid |-> 0, exited |-> FALSE, exit_code |-> 0, status |-> 0]

ProcInit ==
    /\ SleepInit
    /\ smp \in BOOLEAN
    /\ proc = [p \in Threads |-> [Blank EXCEPT !.used = (p = InitProc)]]
    /\ process_cache = SetToSeq(Threads \ {InitProc})
    /\ process_list = <<InitProc>>
    /\ first = [i \in Pids |-> IF i = 0 THEN InitProc ELSE NoThread]
    /\ next = [p \in Threads |-> p] /\ prev = [p \in Threads |-> p]
    /\ pid_bitmap = {0} /\ last_pid_index = 0
    /\ where = [p \in Threads |-> IF p = InitProc THEN "user" ELSE "gone"]
    /\ child = [p \in Threads |-> NoThread]

-----------------------------------------------------------------------------
ProcInKernel(p) == where[p] \notin {"user", "asleep", "gone"}

(* On one core a system call is interrupted only where it sleeps.          *)
ProcRuns(p, l) ==
    /\ where[p] = l
    /\ Awake(p)
    /\ smp \/ \A q \in Threads \ {p} : ~ProcInKernel(q)

ProcGoto(p, l) == where' = [where EXCEPT ![p] = l]
Tables == <<process_cache, process_list, first, next, prev, pid_bitmap, last_pid_index>>

(* alloc_pid: the lowest free pid of the first byte that is not full, from *)
(* the byte that served the previous call.                                 *)
InByte(i) == {n \in Pids : n \div ByteBits = i}
Nth(k) == (last_pid_index + k) % (MaxPids \div ByteBits)
PidByte ==
    Nth(CHOOSE k \in BitmapBytes :
            /\ ~ (InByte(Nth(k)) \subseteq pid_bitmap)
            /\ \A j \in 0 .. k - 1 : InByte(Nth(j)) \subseteq pid_bitmap)
FreePid == CHOOSE n \in InByte(PidByte) \ pid_bitmap : \A m \in InByte(PidByte) \ pid_bitmap : n <= m


BucketFirst(pid, n) == [first EXCEPT ![pid] = n]

ForkRun(p) ==
    /\ ProcRuns(p, "user")
    /\ process_cache # <<>>
    /\ LET n == Head(process_cache)
           pid == FreePid
           h == IF first[pid] = NoThread THEN n ELSE first[pid]
           self == [prev EXCEPT ![n] = n]
       IN  /\ where[n] = "gone"
           /\ proc' = [proc EXCEPT ![n] =
                 [Blank EXCEPT !.used = TRUE, !.pid = pid, !.parent_pid = proc[p].pid]]
           /\ next' = [next EXCEPT ![n] = n, ![self[h]] = n, ![n] = h]
           /\ prev' = [self EXCEPT ![n] = self[h], ![h] = n]
           /\ first' = BucketFirst(pid, n)
           /\ process_list' = Append(process_list, n)
           /\ pid_bitmap' = pid_bitmap \cup {pid}
           /\ last_pid_index' = PidByte
           /\ ProcGoto(n, "user")
           /\ wake_pending' = [wake_pending EXCEPT ![n] = FALSE]
           /\ sleep' = [sleep EXCEPT ![n] = "no"]
    /\ process_cache' = Tail(process_cache)
    /\ UNCHANGED <<smp, child>>

(* find_process_by_pid: along the cache links, until back at the first.    *)
Find(pid) ==
    LET h == first[pid]
        node[k \in 0 .. MaxPids] == IF k = 0 THEN h ELSE next[node[k - 1]]
        hits == {k \in 0 .. MaxPids : proc[node[k]].pid = pid /\ \A j \in 1 .. k : node[j] # h}
    IN  IF hits = {} THEN NoThread ELSE node[CHOOSE k \in hits : \A j \in hits : k <= j]

-----------------------------------------------------------------------------
(* exit_group, or the end of a thread by a signal or a fault: the thread   *)
(* terminates, then the exit is published and the parent woken.            *)
ExitStart(p, code) ==
    /\ ProcRuns(p, "user")
    /\ p # InitProc
    /\ Children(p) = {}     \* assumed: a process waits for its children before it exits
    /\ proc' = [proc EXCEPT ![p].status = code]
    /\ ProcGoto(p, "exited")
    /\ UNCHANGED <<sleepVars, smp, Tables, child>>

ExitMark(p) ==
    /\ ProcRuns(p, "exited")
    /\ proc' = [proc EXCEPT ![p].exited = TRUE]
    /\ ProcGoto(p, "exit_code")
    /\ UNCHANGED <<sleepVars, smp, Tables, child>>


Code(p) == proc[p].status

ExitCode(p) ==
    /\ ProcRuns(p, "exit_code")
    /\ proc' = [proc EXCEPT ![p].exit_code = Code(p)]
    /\ ProcGoto(p, "wake_parent")
    /\ UNCHANGED <<sleepVars, smp, Tables, child>>

ExitWakeSelf(p) ==     \* mutant: the exiting process is woken instead of its parent
    /\ ProcRuns(p, "wake_parent")
    /\ Wake({Find(proc[p].pid)})
    /\ ProcGoto(p, "gone")
    /\ UNCHANGED <<smp, proc, Tables, child>>

ExitWake(p) ==
    /\ ProcRuns(p, "wake_parent")
    /\ Wake({Find(proc[p].parent_pid)})
    /\ ProcGoto(p, "gone")
    /\ UNCHANGED <<smp, proc, Tables, child>>

-----------------------------------------------------------------------------
(* The child wait4 would reap: find_exited_child_process takes the first   *)
(* of the list.                                                            *)
Exited(p, c) ==
    LET done == SelectSeq(process_list, LAMBDA q : q \in Children(p) /\ proc[q].exited /\ c \in {q, NoThread})
    IN  IF done = <<>> THEN NoThread ELSE Head(done)

WaitCall(p, c) ==
    /\ ProcRuns(p, "user")
    /\ IF c = NoThread THEN Children(p) # {} ELSE c \in Children(p) \ {p} /\ Find(proc[c].pid) = c
    /\ child' = [child EXCEPT ![p] = IF Exited(p, c) = NoThread THEN c ELSE Exited(p, c)]
    /\ ProcGoto(p, IF Exited(p, c) = NoThread THEN "block" ELSE "reap")
    /\ UNCHANGED <<sleepVars, smp, proc, Tables>>

WaitBlock(p) ==
    /\ ProcRuns(p, "block")
    /\ \/ Consume(p) /\ ProcGoto(p, "again")
       \/ Block(p) /\ ProcGoto(p, "asleep")
    /\ UNCHANGED <<smp, proc, Tables, child>>

Wait4Resume(p) ==
    /\ where[p] = "asleep"
    /\ Resume(p)
    /\ smp \/ \A q \in Threads \ {p} : ~ProcInKernel(q)
    /\ ProcGoto(p, "again")
    /\ UNCHANGED <<smp, proc, Tables, child>>

(* wait4 looks once more and gives up with EINTR.                          *)
WaitAgain(p) ==
    /\ ProcRuns(p, "again")
    /\ child' = [child EXCEPT ![p] = Exited(p, child[p])]
    /\ ProcGoto(p, IF Exited(p, child[p]) = NoThread THEN "user" ELSE "reap")
    /\ UNCHANGED <<sleepVars, smp, proc, Tables>>

(* destroy_process frees the pid and the object, takes it off the list and *)
(* leaves the buckets as they are.                                         *)
Unlisted(c) == Remove(process_list, c)

FreedPid(c) == pid_bitmap \ {proc[c].pid}

WaitReap(p) ==
    /\ ProcRuns(p, "reap")
    /\ LET c == child[p] IN
       /\ pid_bitmap' = FreedPid(c)
       /\ process_list' = Unlisted(c)
       /\ process_cache' = <<c>> \o process_cache
       /\ proc' = [proc EXCEPT ![c].used = FALSE]
    /\ child' = [child EXCEPT ![p] = NoThread]
    /\ ProcGoto(p, "user")
    /\ UNCHANGED <<sleepVars, smp, first, next, prev, last_pid_index>>

-----------------------------------------------------------------------------
ProcNext ==
    \E p \in Threads :
        \/ ForkRun(p)
        \/ \E code \in Codes : ExitStart(p, code)
        \/ ExitMark(p) \/ ExitCode(p) \/ ExitWake(p)
        \/ \E c \in Threads \cup {NoThread} : WaitCall(p, c)
        \/ WaitBlock(p) \/ Wait4Resume(p) \/ WaitAgain(p) \/ WaitReap(p)

ProcSpec == ProcInit /\ [][ProcNext]_<<sleepVars, procVars>>

-----------------------------------------------------------------------------
ProcTypeOK ==
    /\ SleepTypeOK
    /\ proc \in [Threads -> [used : BOOLEAN, pid : Pids, parent_pid : Pids, exited : BOOLEAN,
                             exit_code : Codes, status : Codes]]
    /\ first \in [Pids -> Threads \cup {NoThread}]
    /\ next \in [Threads -> Threads] /\ prev \in [Threads -> Threads]
    /\ pid_bitmap \subseteq Pids /\ last_pid_index \in BitmapBytes
    /\ child \in [Threads -> Threads \cup {NoThread}]

(* alloc_pid, free_pid: the bitmap holds exactly the pids of the live      *)
(* processes, and no two of them have one pid.                             *)
PidsExact ==
    /\ pid_bitmap = {proc[p].pid : p \in Live}
    /\ \A p, q \in Live : proc[p].pid = proc[q].pid => p = q

(* The list that wait4(-1) and kill(-1) walk holds each live process once, *)
(* no freed object, and its head is never destroyed (destroy_process does  *)
(* not move the head).                                                     *)
ListExact ==
    /\ ToSet(process_list) = Live
    /\ Len(process_list) = Cardinality(Live)
    /\ Head(process_list) = InitProc

(* find_process_by_pid finds every live process, although destroyed ones   *)
(* are never taken out of their bucket and their objects are reused.       *)
FindsLive == \A p \in Live : Find(proc[p].pid) = p

(* The tables that wait4, kill and fork work on describe exactly the live  *)
(* processes, after any sequence of forks, exits and waits.                *)
ProcessTableExact == PidsExact /\ ListExact /\ FindsLive

(* A parent asleep in wait4 whose child is gone has a wake pending, also   *)
(* when the child exits on another core between the parent's look at       *)
(* `exited' and its thread_block.                                          *)
WaitNotMissed ==
    \A p \in Threads :
        /\ where[p] = "asleep" /\ ~Awake(p)
        /\ \E q \in Children(p) : proc[q].exited /\ where[q] = "gone" /\ child[p] \in {q, NoThread}
        => wake_pending[p]

(* wait4 returns the code its child exited with.  On one core only: on two *)
(* the parent can see `exited' before exit_group has stored the code.      *)
StatusDelivered ==
    \A p \in Threads : ~smp /\ where[p] = "reap" => proc[child[p]].exit_code = proc[child[p]].status

(* wait4 ends when a child has exited, and with the child's code.          *)
WaitExact == WaitNotMissed /\ StatusDelivered
=============================================================================
