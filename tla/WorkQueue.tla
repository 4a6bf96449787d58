----------------------------- MODULE WorkQueue ------------------------------
(***************************************************************************)
(* The work queues of the cores (kernel/procc/workqueue.c) and their two   *)
(* users: the loader of driver modules (kernel/modules/voxmo.c), whose     *)
(* tasks depend on each other, and call_rcu (kernel/vfs/rcu.c).  A task is *)
(* named by its node, a module by its place in voxmo_modules.  What runs   *)
(* under wq_lock is one step.                                              *)
(***************************************************************************)
EXTENDS Integers, Sequences, FiniteSets, Functions

CONSTANTS
    Workers,     \* the cores with a worker thread: all but the first
    LastModule,  \* the modules are 1 .. LastModule
    Requires,    \* Requires[m]: the modules m depends on, in the order of its header
    RcuTasks,    \* calls of call_rcu
    CountWidth   \* 2^32, the range of workqueue_count

Modules == 1 .. LastModule
WorkTasks == Modules \cup RcuTasks

ASSUME WorkAssumption ==
    /\ LastModule \in Nat /\ CountWidth \in Nat \ {0}
    /\ Workers # {} /\ Workers \cap {"idle", "done"} = {}
    /\ Requires \in [Modules -> Seq(Modules)]
    /\ \A m \in Modules : IsInjective(Requires[m])
    /\ \E rank \in [Modules -> Modules] :
          \A m \in Modules : \A d \in Range(Requires[m]) : rank[d] < rank[m]
    /\ RcuTasks \cap Modules = {} /\ 0 \notin RcuTasks

VARIABLES
    in_use,         \* SLOT_BUSY, SLOT_FINISHED, SLOT_EMPTY; "none" before, "freed" after
    refcount,
    dependency,     \* the task's dependency vector of nodes
    wq,             \* the list of each core
    work_count,     \* workqueue_count
    worker,         \* program point of each worker, its node, dependencies left to drop
    loader,         \* the pending calls of vxVoxmoReload, its program point, dependencies left
    queue_ref_held, \* modules whose caller's reference is not given back
    rcu_at,         \* program point of each call_rcu
    ran,            \* how often the task's function has run
    stray,          \* references counted for a load that was given up
    broken,         \* modules that are not installed or have no load function
    late            \* nodes given back while the worker had yet to store SLOT_FINISHED

workVars == <<in_use, refcount, dependency, wq, work_count, worker, loader, queue_ref_held,
              rcu_at, ran, stray, late>>

Asleep == [at |-> "idle", node |-> 0, todo |-> <<>>]
Probe(m) == <<"probe", m>>

WorkInit ==
    /\ in_use = [t \in WorkTasks |-> "none"]
    /\ refcount = [t \in WorkTasks |-> 0]
    /\ dependency = [t \in WorkTasks |-> <<>>]
    /\ wq = [c \in Workers |-> <<>>]
    /\ work_count = [c \in Workers |-> 0]
    /\ worker = [c \in Workers |-> Asleep]
    /\ loader = [at |-> "probe", calls |-> [m \in Modules |-> Probe(m)], todo |-> <<>>, core |-> 0]
    /\ queue_ref_held = {}
    /\ rcu_at = [t \in RcuTasks |-> "idle"]
    /\ ran = [t \in WorkTasks |-> 0]
    /\ stray = [t \in WorkTasks |-> 0]
    /\ late = {}
    /\ broken \in SUBSET Modules

-----------------------------------------------------------------------------
AddNodeForWorker(t, deps, c) ==     \* mutant: no reference for the caller
    /\ in_use' = [in_use EXCEPT ![t] = "busy"]
    /\ refcount' = [refcount EXCEPT ![t] = 1]
    /\ dependency' = [dependency EXCEPT ![t] = deps]
    /\ wq' = [wq EXCEPT ![c] = Append(@, t)]

(* vxAddWorkqueueTask: the node is filled and appended, on a core of the   *)
(* round robin, which calls on all cores turn; then the count is raised.   *)
AddNode(t, deps, c) ==
    /\ in_use' = [in_use EXCEPT ![t] = "busy"]
    /\ refcount' = [refcount EXCEPT ![t] = 2]
    /\ dependency' = [dependency EXCEPT ![t] = deps]
    /\ wq' = [wq EXCEPT ![c] = Append(@, t)]

RaiseCount(c) == work_count' = [work_count EXCEPT ![c] = (@ + 1) % CountWidth]

(* call_rcu ignores the node, and with it the caller's reference.          *)
RcuAdd(t, c) ==
    /\ rcu_at[t] = "idle"
    /\ AddNode(t, <<>>, c)
    /\ rcu_at' = [rcu_at EXCEPT ![t] = c]
    /\ UNCHANGED <<work_count, worker, loader, queue_ref_held, ran, stray, late>>

RcuCount(t) ==
    /\ rcu_at[t] \in Workers
    /\ RaiseCount(rcu_at[t])
    /\ rcu_at' = [rcu_at EXCEPT ![t] = "done"]
    /\ UNCHANGED <<in_use, refcount, dependency, wq, worker, loader, queue_ref_held, ran, stray, late>>

-----------------------------------------------------------------------------
(* vxVoxmoReload, first pass: each module is probed.  loader.calls are the *)
(* calls to make, those of the recursion in vxVoxmoProbe first.            *)
LoaderGoto(l, calls, todo, c) == loader' = [at |-> l, calls |-> calls, todo |-> todo, core |-> c]
Current == Head(loader.calls)[2]
NextCall == LoaderGoto("probe", Tail(loader.calls), <<>>, 0)

ProbeModule ==
    /\ loader.at = "probe"
    /\ loader.calls # <<>>
    /\ Head(loader.calls)[1] = "probe"
    /\ IF Current \in queue_ref_held THEN NextCall
       ELSE LoaderGoto("probe",
                [i \in 1 .. Len(Requires[Current]) |-> Probe(Requires[Current][i])]
                    \o <<<<"load", Current>>>> \o Tail(loader.calls), <<>>, 0)
    /\ UNCHANGED <<in_use, refcount, dependency, wq, work_count, worker, queue_ref_held, rcu_at,
                   ran, stray, late>>

(* proccess_elf counts a reference to the node of each dependency; with a  *)
(* dependency that is not loaded it gives up, and keeps those counted.     *)
LoadModule ==
    /\ loader.at = "probe"
    /\ loader.calls # <<>>
    /\ Head(loader.calls)[1] = "load"
    /\ IF Current \in broken THEN NextCall
       ELSE LoaderGoto("depend", loader.calls, Requires[Current], 0)
    /\ UNCHANGED <<in_use, refcount, dependency, wq, work_count, worker, queue_ref_held, rcu_at,
                   ran, stray, late>>

Counted == Range(Requires[Current]) \ Range(loader.todo)

CountDependency ==
    /\ loader.at = "depend"
    /\ loader.todo # <<>>
    /\ LET d == Head(loader.todo) IN
       IF d \in queue_ref_held
       THEN /\ refcount' = [refcount EXCEPT ![d] = @ + 1]
            /\ LoaderGoto("depend", loader.calls, Tail(loader.todo), 0)
            /\ UNCHANGED stray
       ELSE /\ stray' = [t \in WorkTasks |-> IF t \in Counted THEN stray[t] + 1 ELSE stray[t]]
            /\ NextCall
            /\ UNCHANGED refcount
    /\ UNCHANGED <<in_use, dependency, wq, work_count, worker, queue_ref_held, rcu_at, ran, late>>

AddModuleTask(c) ==
    /\ loader.at = "depend"
    /\ loader.todo = <<>>
    /\ AddNode(Current, Requires[Current], c)
    /\ LoaderGoto("count", loader.calls, <<>>, c)
    /\ UNCHANGED <<work_count, worker, queue_ref_held, rcu_at, ran, stray, late>>

(* The count is raised, and the module is marked loaded.                   *)
CountModuleTask ==
    /\ loader.at = "count"
    /\ RaiseCount(loader.core)
    /\ queue_ref_held' = queue_ref_held \cup {Current}
    /\ NextCall
    /\ UNCHANGED <<in_use, refcount, dependency, wq, worker, rcu_at, ran, stray, late>>

(* Second pass: the caller's reference of each module is given back, in    *)
(* the order of the list; the last reference to a finished node marks it   *)
(* empty.                                                                  *)
ReleaseModule ==
    /\ loader.at = "probe"
    /\ loader.calls = <<>>
    /\ \E m \in queue_ref_held :
        /\ \A n \in queue_ref_held : m <= n
        /\ refcount' = [refcount EXCEPT ![m] = @ - 1]
        /\ queue_ref_held' = queue_ref_held \ {m}
        /\ IF refcount[m] = 1 THEN LoaderGoto("mark", <<<<"release", m>>>>, <<>>, 0)
           ELSE UNCHANGED loader
    /\ UNCHANGED <<in_use, dependency, wq, work_count, worker, rcu_at, ran, stray, late>>

MarkModule ==
    /\ loader.at = "mark"
    /\ in_use' = [in_use EXCEPT ![Current] = IF @ = "finished" THEN "empty" ELSE @]
    /\ late' = IF in_use[Current] = "finished" THEN late ELSE late \cup {Current}
    /\ NextCall
    /\ UNCHANGED <<refcount, dependency, wq, work_count, worker, queue_ref_held, rcu_at, ran, stray>>

-----------------------------------------------------------------------------
(* workqueue_process.  Node 0 is the null pointer.                         *)
WorkerGoto(c, l, node, todo) == worker' = [worker EXCEPT ![c] = [at |-> l, node |-> node, todo |-> todo]]

After(c, t) ==
    LET i == CHOOSE j \in 1 .. Len(wq[c]) : wq[c][j] = t
    IN  IF i < Len(wq[c]) THEN wq[c][i + 1] ELSE 0

(* With work_count zero the worker sleeps 10 ms and looks again.           *)
LookAgain(c) ==
    /\ worker[c].at = "idle"
    /\ work_count[c] = 0
    /\ UNCHANGED workVars

StartPass(c) ==
    /\ worker[c].at = "idle"
    /\ work_count[c] # 0
    /\ WorkerGoto(c, "scan", IF wq[c] = <<>> THEN 0 ELSE Head(wq[c]), <<>>)
    /\ UNCHANGED <<in_use, refcount, dependency, wq, work_count, loader, queue_ref_held, rcu_at,
                   ran, stray, late>>

(* All dependencies are seen finished.  They are loaded one by one, but a  *)
(* finished node stays so while this task has its reference.               *)
Ready(t) == \A d \in Range(dependency[t]) : in_use[d] = "finished"

ScanNode(c) ==
    LET t == worker[c].node IN
    /\ worker[c].at = "scan"
    /\ t # 0
    /\ IF in_use[t] = "busy" /\ Ready(t)
       THEN WorkerGoto(c, "run", t, <<>>)
       ELSE WorkerGoto(c, "next", t, <<>>)
    /\ UNCHANGED <<in_use, refcount, dependency, wq, work_count, loader, queue_ref_held, rcu_at,
                   ran, stray, late>>

RunTask(c) ==
    LET t == worker[c].node IN
    /\ worker[c].at = "run"
    /\ ran' = [ran EXCEPT ![t] = @ + 1]
    /\ WorkerGoto(c, "drop", t, dependency[t])
    /\ UNCHANGED <<in_use, refcount, dependency, wq, work_count, loader, queue_ref_held, rcu_at,
                   stray, late>>

(* The references to the dependencies are dropped one by one, the last one *)
(* to a finished node marks it empty ...                                   *)
DropDependency(c) ==
    /\ worker[c].at = "drop"
    /\ worker[c].todo # <<>>
    /\ LET d == Head(worker[c].todo) IN
       /\ refcount' = [refcount EXCEPT ![d] = @ - 1]
       /\ IF refcount[d] = 1
          THEN WorkerGoto(c, "mark", worker[c].node, worker[c].todo)
          ELSE WorkerGoto(c, "drop", worker[c].node, Tail(worker[c].todo))
    /\ UNCHANGED <<in_use, dependency, wq, work_count, loader, queue_ref_held, rcu_at, ran, stray, late>>

MarkDependency(c) ==
    LET d == Head(worker[c].todo) IN
    /\ worker[c].at = "mark"
    /\ in_use' = [in_use EXCEPT ![d] = IF @ = "finished" THEN "empty" ELSE @]
    /\ WorkerGoto(c, "drop", worker[c].node, Tail(worker[c].todo))
    /\ UNCHANGED <<refcount, dependency, wq, work_count, loader, queue_ref_held, rcu_at, ran, stray, late>>

(* ... then the worker's own, and what it returned decides what is stored. *)
DropOwn(c) ==
    LET t == worker[c].node IN
    /\ worker[c].at = "drop"
    /\ worker[c].todo = <<>>
    /\ dependency' = [dependency EXCEPT ![t] = <<>>]
    /\ refcount' = [refcount EXCEPT ![t] = @ - 1]
    /\ WorkerGoto(c, IF refcount[t] = 1 THEN "empty" ELSE "finished", t, <<>>)
    /\ UNCHANGED <<in_use, wq, work_count, loader, queue_ref_held, rcu_at, ran, stray, late>>

StoreState(c) ==
    /\ worker[c].at \in {"empty", "finished"}
    /\ in_use' = [in_use EXCEPT ![worker[c].node] = worker[c].at]
    /\ WorkerGoto(c, "lower", worker[c].node, <<>>)
    /\ UNCHANGED <<refcount, dependency, wq, work_count, loader, queue_ref_held, rcu_at, ran, stray, late>>

LowerCountAll(c) ==     \* mutant: the count is cleared after a task
    /\ worker[c].at = "lower"
    /\ work_count' = [work_count EXCEPT ![c] = 0]
    /\ WorkerGoto(c, "next", worker[c].node, <<>>)
    /\ UNCHANGED <<in_use, refcount, dependency, wq, loader, queue_ref_held, rcu_at, ran, stray, late>>

LowerCount(c) ==
    /\ worker[c].at = "lower"
    /\ work_count' = [work_count EXCEPT ![c] = (@ - 1) % CountWidth]
    /\ WorkerGoto(c, "next", worker[c].node, <<>>)
    /\ UNCHANGED <<in_use, refcount, dependency, wq, loader, queue_ref_held, rcu_at, ran, stray, late>>

NextNode(c) ==
    /\ worker[c].at = "next"
    /\ WorkerGoto(c, "scan", After(c, worker[c].node), <<>>)
    /\ UNCHANGED <<in_use, refcount, dependency, wq, work_count, loader, queue_ref_held, rcu_at,
                   ran, stray, late>>

(* The list q without some nodes; the others keep their order.             *)
Unlink(q, gone) ==
    LET left == {i \in 1 .. Len(q) : q[i] \notin gone}
        Nth(n) == CHOOSE i \in left : Cardinality({j \in left : j < i}) = n - 1
    IN  [n \in 1 .. Cardinality(left) |-> q[Nth(n)]]

(* The cleanup pass, all of it under wq_lock.                              *)
Cleanup(c) ==
    LET gone == {t \in Range(wq[c]) : in_use[t] = "empty" /\ refcount[t] = 0}
    IN  /\ worker[c].at = "scan"
        /\ worker[c].node = 0
        /\ in_use' = [t \in WorkTasks |-> IF t \in gone THEN "freed" ELSE in_use[t]]
        /\ wq' = [wq EXCEPT ![c] = Unlink(@, gone)]
        /\ WorkerGoto(c, "idle", 0, <<>>)
        /\ UNCHANGED <<refcount, dependency, work_count, loader, queue_ref_held, rcu_at, ran, stray, late>>

WorkerStep(c) ==
    \/ LookAgain(c) \/ StartPass(c) \/ ScanNode(c) \/ RunTask(c) \/ DropDependency(c) \/ MarkDependency(c)
    \/ DropOwn(c) \/ StoreState(c) \/ LowerCount(c) \/ NextNode(c) \/ Cleanup(c)

LoaderStep ==
    \/ ProbeModule \/ LoadModule \/ CountDependency \/ CountModuleTask \/ ReleaseModule \/ MarkModule
    \/ \E c \in Workers : AddModuleTask(c)

WorkNext ==
    /\ \/ LoaderStep
       \/ \E t \in RcuTasks : RcuCount(t) \/ \E c \in Workers : RcuAdd(t, c)
       \/ \E c \in Workers : WorkerStep(c)
    /\ UNCHANGED broken

(* The workers are threads of the scheduler, and no task runs for ever;    *)
(* whoever adds a task returns from vxAddWorkqueueTask.                    *)
WorkFairness ==
    /\ \A c \in Workers : WF_workVars(WorkerStep(c))
    /\ WF_workVars(CountModuleTask)
    /\ \A t \in RcuTasks : WF_workVars(RcuCount(t))

WorkSpec == WorkInit /\ [][WorkNext]_<<workVars, broken>> /\ WorkFairness

-----------------------------------------------------------------------------
WorkTypeOK ==
    /\ in_use \in [WorkTasks -> {"none", "busy", "finished", "empty", "freed"}]
    /\ refcount \in [WorkTasks -> Nat]
    /\ dependency \in [WorkTasks -> Seq(Modules)]
    /\ work_count \in [Workers -> 0 .. CountWidth - 1]

(* A task runs once, and after the tasks it depends on have run, on        *)
(* whatever cores they are: their nodes say so until the reference counted *)
(* for it is dropped.                                                      *)
DependenciesFirst ==
    \A t \in WorkTasks :
        /\ ran[t] <= 1
        /\ t \in Modules /\ ran[t] = 1 => \A d \in Range(Requires[t]) : ran[d] = 1

(* Who still has a reference to the node of t.                             *)
WorkerOwns(t) ==
    /\ in_use[t] = "busy"
    /\ \A c \in Workers : ~(worker[c].node = t /\ worker[c].at \in {"empty", "finished"})

CallerOwns(t) == t \in RcuTasks \/ t \in queue_ref_held \/ (loader.at = "count" /\ Current = t)

Dependents(t) ==
    {m \in Modules :
        /\ t \in Range(dependency[m])
        /\ \A c \in Workers :
              /\ worker[c].node = m /\ worker[c].at = "drop" => t \in Range(worker[c].todo)
              /\ worker[c].node = m /\ worker[c].at = "mark" => t \in Range(Tail(worker[c].todo))}
Loading(t) == loader.at = "depend" /\ t \in Counted

One(b) == IF b THEN 1 ELSE 0

(* A node's count is the number of its owners, and a node is freed when    *)
(* there is none, nobody is about to mark it and no worker stands on it.   *)
NodesOwned ==
    \A t \in WorkTasks :
        /\ in_use[t] # "none" =>
              refcount[t] = One(WorkerOwns(t)) + One(CallerOwns(t)) + Cardinality(Dependents(t))
                            + One(Loading(t)) + stray[t]
        /\ in_use[t] = "freed" =>
              /\ refcount[t] = 0
              /\ ~(loader.at = "mark" /\ Current = t)
              /\ \A c \in Workers : worker[c].node # t
              /\ \A c \in Workers : worker[c].at = "mark" => Head(worker[c].todo) # t

(* A finished node without an owner is about to be marked empty, and so    *)
(* freed, unless the loader gave it back too early.                        *)
FinishedMarked ==
    \A t \in WorkTasks \ late :
        /\ in_use[t] = "finished"
        /\ refcount[t] = 0
        => \/ loader.at = "mark" /\ Current = t
           \/ \E c \in Workers : worker[c].at = "mark" /\ Head(worker[c].todo) = t

(* What the work queues promise whatever the cores do: order, one run, and *)
(* exact ownership of the nodes.                                           *)
WorkExact == DependenciesFirst /\ NodesOwned /\ FinishedMarked

(* Every task that is added is run, also one that has to wait for tasks of *)
(* another core.                                                           *)
EveryTaskRuns == \A t \in WorkTasks : in_use[t] = "busy" ~> ran[t] = 1
=============================================================================
