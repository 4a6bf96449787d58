-------------------------- MODULE WorkQueueProofs ---------------------------
(***************************************************************************)
(* The work queues, for every number of cores, modules and calls of        *)
(* call_rcu: the inductive invariant WorkInv behind WorkExact; what the    *)
(* operations on a worker's list do; the steps of a worker with a task in  *)
(* hand (workqueue_process), of the loader of driver modules (voxmo.c) and *)
(* of call_rcu (rcu.c), one lemma each.                                    *)
(***************************************************************************)
EXTENDS WorkQueue, TLAPS

(* A module's place in the order of dependencies.                          *)
Rank == CHOOSE rank \in [Modules -> Modules] :
           \A m \in Modules : \A d \in Range(Requires[m]) : rank[d] < rank[m]

(* What a task depends on: a module on those of its header, call_rcu on    *)
(* nothing.                                                                *)
Needs(t) == IF t \in Modules THEN Requires[t] ELSE <<>>

(* The program points of workqueue_process; those with a task in hand; the *)
(* states of a node whose task has run.                                    *)
WorkerPoints ==
    {"idle", "scan", "run", "drop", "mark", "empty", "finished", "lower", "next"}
InHand == {"run", "drop", "mark", "empty", "finished"}
Past == {"finished", "empty", "freed"}

(* What every variable is.                                                 *)
WorkTypes ==
    /\ in_use \in [WorkTasks -> {"none", "busy", "finished", "empty", "freed"}]
    /\ refcount \in [WorkTasks -> Nat]
    /\ dependency \in [WorkTasks -> Seq(Modules)]
    /\ wq \in [Workers -> Seq(WorkTasks)]
    /\ worker \in [Workers -> [at : WorkerPoints, node : WorkTasks \cup {0}, todo : Seq(Modules)]]
    /\ loader \in [at : {"probe", "depend", "count", "mark"},
                   calls : Seq({"probe", "load", "release"} \X Modules),
                   todo : Seq(Modules), core : Workers \cup {0}]
    /\ queue_ref_held \subseteq Modules
    /\ rcu_at \in [RcuTasks -> Workers \cup {"idle", "done"}]
    /\ ran \in [WorkTasks -> Nat]
    /\ stray \in [WorkTasks -> Nat]

(* A node in use is in one list, once.                                     *)
NodesListed ==
    /\ \A c \in Workers : IsInjective(wq[c])
    /\ \A c, d \in Workers : c # d => Range(wq[c]) \cap Range(wq[d]) = {}
    /\ \A c \in Workers : \A t \in Range(wq[c]) : in_use[t] \notin {"none", "freed"}

(* A worker stands on a node of its own list; the task in its hand is      *)
(* busy, and those it depends on are past.                                 *)
WorkersExact ==
    \A c \in Workers :
        LET w == worker[c] IN
        /\ w.node # 0 => w.node \in Range(wq[c])
        /\ w.at \in InHand \cup {"lower", "next"} => w.node # 0
        /\ w.at \in InHand => in_use[w.node] = "busy"
        /\ w.at \in {"run", "drop", "mark"} =>
              \A d \in Range(dependency[w.node]) : in_use[d] \in Past
        /\ w.at \in {"drop", "mark"} => IsInjective(w.todo) /\ Range(w.todo) \subseteq Range(dependency[w.node])
        /\ w.at = "mark" => w.todo # <<>>
        /\ w.at = "empty" => refcount[w.node] = 0

(* Where the worker has run the task but not yet said so.                  *)
Running(t) ==
    \E c \in Workers : worker[c].node = t /\ worker[c].at \in {"drop", "mark", "empty", "finished"}

(* A task has run exactly when its node or its worker says so; the node    *)
(* keeps its dependencies while the worker has its reference.              *)
TasksRun ==
    \A t \in WorkTasks :
        /\ ran[t] = IF in_use[t] \in Past \/ (in_use[t] = "busy" /\ Running(t)) THEN 1 ELSE 0
        /\ in_use[t] = "none" => stray[t] = 0
        /\ dependency[t] = IF WorkerOwns(t) THEN Needs(t) ELSE <<>>
        /\ t \in Modules /\ ran[t] = 1 => \A d \in Range(Requires[t]) : ran[d] = 1
        /\ \A d \in Range(dependency[t]) : in_use[d] # "none"

(* The count of a node in use is the number of its owners.                 *)
RefsExact ==
    \A t \in WorkTasks :
        /\ in_use[t] # "none" =>
              refcount[t] = One(WorkerOwns(t)) + One(CallerOwns(t)) + Cardinality(Dependents(t))
                            + One(Loading(t)) + stray[t]
        /\ in_use[t] \in {"empty", "freed"} => refcount[t] = 0

(* Who is about to mark a node empty.                                      *)
LoaderMarks(t) == loader.at = "mark" /\ Current = t
WorkerMarks(c, t) == worker[c].at = "mark" /\ Head(worker[c].todo) = t

(* One marks a node at a time, and only one without an owner; a finished   *)
(* node without an owner has somebody who is about to mark it.             *)
MarksExact ==
    \A t \in WorkTasks :
        /\ LoaderMarks(t) => refcount[t] = 0 /\ in_use[t] \in {"busy", "finished"}
        /\ \A c \in Workers :
              /\ WorkerMarks(c, t) => /\ refcount[t] = 0 /\ in_use[t] = "finished" /\ ~LoaderMarks(t)
                                      /\ \A d \in Workers : WorkerMarks(d, t) => c = d
              /\ worker[c].node = t /\ worker[c].at = "empty" => ~LoaderMarks(t)
              /\ worker[c].node = t /\ worker[c].at = "finished" /\ refcount[t] = 0 /\ t \notin late
                    => LoaderMarks(t)
        /\ in_use[t] = "finished" /\ refcount[t] = 0 /\ t \notin late =>
              LoaderMarks(t) \/ \E c \in Workers : WorkerMarks(c, t)

(* The calls the loader has still to make: what is to be loaded has no     *)
(* node yet, and everything in front of it is lower in the order.          *)
LoaderExact ==
    LET q == loader.calls IN
    /\ loader.at # "probe" => q # <<>>
    /\ loader.at \in {"depend", "count"} => q[1][1] = "load"
    /\ loader.at = "mark" => Len(q) = 1
    /\ loader.at # "mark" /\ q # <<>> =>
          \A m \in Modules : in_use[m] = "none" \/ m \in queue_ref_held \/ (loader.at = "count" /\ Current = m)
    /\ \A i \in 1 .. Len(q) :
          q[i][1] = "load" /\ ~(i = 1 /\ loader.at = "count") => in_use[q[i][2]] = "none"
    /\ \A i, j \in 1 .. Len(q) : i < j /\ q[j][1] = "load" => Rank[q[i][2]] < Rank[q[j][2]]
    /\ loader.at = "count" => in_use[Current] # "none"
    /\ loader.at = "depend" => /\ IsInjective(loader.todo)
                               /\ Range(loader.todo) \subseteq Range(Requires[Current])
                               /\ Counted \subseteq queue_ref_held
    /\ \A m \in queue_ref_held : in_use[m] # "none"
    /\ \A t \in RcuTasks : rcu_at[t] = "idle" => in_use[t] = "none"

(* The inductive invariant.                                                *)
WorkInv == WorkTypes /\ NodesListed /\ WorkersExact /\ TasksRun /\ RefsExact /\ MarksExact /\ LoaderExact

(* The number of a node's dependents moves by one with each of them. (What *)
(* the library of finite sets says of Cardinality, for sets of modules:    *)
(* WorkQueueCountProofs proves it, and the lemmas that need it say so.)    *)
CountFacts ==
    /\ Cardinality({}) = 0
    /\ \A S \in SUBSET Modules :
          /\ Cardinality(S) \in Nat
          /\ Cardinality(S) = 0 => S = {}
          /\ \A m \in Modules \ S : Cardinality(S \cup {m}) = Cardinality(S) + 1
          /\ \A m \in S : Cardinality(S \ {m}) = Cardinality(S) - 1

(* The elements of a sequence, by their index.                             *)
LEMMA RangeFacts ==
    ASSUME NEW S, NEW s \in Seq(S)
    PROVE  /\ Len(s) \in Nat /\ DOMAIN s = 1 .. Len(s)
           /\ \A x : x \in Range(s) <=> \E i \in 1 .. Len(s) : s[i] = x
           /\ Range(s) \subseteq S
           /\ IsInjective(s) <=> \A i, j \in 1 .. Len(s) : s[i] = s[j] => i = j
  BY DEF Range, IsInjective

(* The empty list.                                                         *)
LEMMA EmptyFacts == Range(<<>>) = {} /\ IsInjective(<<>>)
  BY DEF Range, IsInjective

(* A walk along a sequence leaves its first element behind.                *)
LEMMA TailFacts ==
    ASSUME NEW S, NEW s \in Seq(S), s # <<>>
    PROVE  /\ Head(s) = s[1] /\ Head(s) \in Range(s) /\ Head(s) \in S /\ Tail(s) \in Seq(S)
           /\ IsInjective(s) => /\ IsInjective(Tail(s))
                                /\ Range(Tail(s)) = Range(s) \ {Head(s)}
<1>1. /\ Len(s) \in Nat \ {0} /\ Head(s) = s[1] /\ Tail(s) \in Seq(S) /\ Len(Tail(s)) = Len(s) - 1
      /\ \A i \in 1 .. Len(s) - 1 : Tail(s)[i] = s[i + 1]
  OBVIOUS
<1>2. 1 \in 1 .. Len(s)
  BY <1>1
<1>3. Head(s) \in Range(s) /\ Head(s) \in S
  BY Zenon, <1>1, <1>2, RangeFacts
<1>4. ASSUME IsInjective(s)
      PROVE  IsInjective(Tail(s)) /\ Range(Tail(s)) = Range(s) \ {Head(s)}
  <2>. DEFINE n == Len(s)
              w == Tail(s)
  <2>1. \A i, j \in 1 .. n : s[i] = s[j] => i = j
    BY Zenon, <1>4, RangeFacts
  <2>. HIDE DEF n, w
  <2>2. n \in Nat \ {0} /\ \A i \in 1 .. n - 1 : w[i] = s[i + 1] /\ i + 1 \in 1 .. n
    BY <1>1 DEF n, w
  <2>3. \A i, j \in 1 .. n - 1 : w[i] = w[j] => i = j
    BY <2>1, <2>2
  <2>0. w \in Seq(S) /\ Len(w) = n - 1
    BY Zenon, <1>1 DEF n, w
  <2>4. \A x : x \in Range(w) <=> \E i \in 1 .. n - 1 : w[i] = x
    BY Zenon, <2>0, RangeFacts
  <2>5. \A x : x \in Range(s) <=> \E i \in 1 .. n : s[i] = x
    BY Zenon, RangeFacts DEF n
  <2>6. ASSUME NEW x \in Range(w) PROVE x \in Range(s) \ {s[1]}
    <3>1. PICK i \in 1 .. n - 1 : w[i] = x
      BY Zenon, <2>4
    <3>2. s[i + 1] = x /\ i + 1 \in 1 .. n /\ i + 1 # 1 /\ 1 \in 1 .. n
      BY <2>2, <3>1
    <3>. QED  BY Zenon, <2>1, <2>5, <3>2
  <2>7. ASSUME NEW x \in Range(s), x # s[1] PROVE x \in Range(w)
    <3>1. PICK i \in 1 .. n : s[i] = x
      BY Zenon, <2>5
    <3>2. i - 1 \in 1 .. n - 1 /\ (i - 1) + 1 = i
      BY <2>2, <2>7, <3>1
    <3>3. w[i - 1] = x
      BY Zenon, <2>2, <3>1, <3>2
    <3>. QED  BY Zenon, <2>4, <3>2, <3>3
  <2>8. Range(w) = Range(s) \ {s[1]}
    BY Zenon, <2>6, <2>7
  <2>10. IsInjective(w)
    BY Zenon, <2>0, <2>3, RangeFacts
  <2>. QED  BY Zenon, <1>1, <2>8, <2>10 DEF w
<1>. QED  BY Zenon, <1>1, <1>3, <1>4

(* vxAddWorkqueueTask appends a node that is in no list.                   *)
LEMMA AppendFacts ==
    ASSUME NEW S, NEW s \in Seq(S), NEW t \in S, t \notin Range(s)
    PROVE  /\ Append(s, t) \in Seq(S) /\ Range(Append(s, t)) = Range(s) \cup {t}
           /\ IsInjective(s) => IsInjective(Append(s, t))
<1>. DEFINE n == Len(s)
            w == Append(s, t)
<1>1. /\ n \in Nat /\ w \in Seq(S) /\ Len(w) = n + 1
      /\ \A i \in 1 .. n : w[i] = s[i]
      /\ w[n + 1] = t
  OBVIOUS
<1>2. \A x : x \in Range(s) <=> \E i \in 1 .. n : s[i] = x
  BY Zenon, RangeFacts
<1>. HIDE DEF n, w
<1>3. \A x : x \in Range(w) <=> \E i \in 1 .. n + 1 : w[i] = x
  BY <1>1, RangeFacts
<1>4. \A i : i \in 1 .. n + 1 <=> i \in 1 .. n \/ i = n + 1
  BY <1>1
<1>5. Range(w) = Range(s) \cup {t}
  BY <1>1, <1>2, <1>3, <1>4
<1>6. ASSUME IsInjective(s) PROVE IsInjective(w)
  <2>1. \A i, j \in 1 .. n : s[i] = s[j] => i = j
    BY Zenon, <1>6, RangeFacts DEF n
  <2>2. \A i \in 1 .. n : s[i] # t
    BY Zenon, <1>2
  <2>3. \A i, j \in 1 .. n + 1 : w[i] = w[j] => i = j
    BY Zenon, <1>1, <1>4, <2>1, <2>2
  <2>. QED  BY Zenon, <1>1, <2>3, RangeFacts
<1>. QED  BY Zenon, <1>1, <1>5, <1>6 DEF w

(* The node after t in the list, or the null pointer at its end.           *)
LEMMA AfterFacts ==
    ASSUME NEW c \in Workers, wq[c] \in Seq(WorkTasks), NEW t \in Range(wq[c])
    PROVE  After(c, t) \in Range(wq[c]) \cup {0}
<1>1. PICK i0 \in 1 .. Len(wq[c]) : wq[c][i0] = t
  BY Zenon, RangeFacts
<1>. DEFINE i == CHOOSE j \in 1 .. Len(wq[c]) : wq[c][j] = t
<1>2. i \in 1 .. Len(wq[c]) /\ Len(wq[c]) \in Nat
  BY <1>1
<1>. HIDE DEF i
<1>3. i < Len(wq[c]) => i + 1 \in 1 .. Len(wq[c])
  BY <1>2
<1>4. i < Len(wq[c]) => wq[c][i + 1] \in Range(wq[c])
  BY Zenon, <1>3, RangeFacts
<1>. QED  BY Zenon, <1>4 DEF After, i

(* The order of dependencies of WorkAssumption.                            *)
LEMMA RankFacts ==
    /\ \A m \in Modules : Rank[m] \in Nat /\ Requires[m] \in Seq(Modules) /\ IsInjective(Requires[m])
    /\ \A m \in Modules : \A d \in Range(Requires[m]) : d \in Modules /\ Rank[d] < Rank[m]
<1>1. /\ Rank \in [Modules -> Modules]
      /\ \A m \in Modules : \A d \in Range(Requires[m]) : Rank[d] < Rank[m]
  BY Zenon, WorkAssumption DEF Rank
<1>2. \A m \in Modules : m \in Nat
  BY WorkAssumption DEF Modules
<1>3. \A m \in Modules : Requires[m] \in Seq(Modules) /\ IsInjective(Requires[m])
  BY Zenon, WorkAssumption
<1>4. \A m \in Modules : \A d \in Range(Requires[m]) : d \in Modules
  BY Zenon, <1>3, RangeFacts
<1>. QED  BY Zenon, <1>1, <1>2, <1>3, <1>4

(* Before the first call every list is empty and all modules are probed.   *)
LEMMA InitWorkInv == WorkInit => WorkInv
<1>. SUFFICES ASSUME WorkInit PROVE WorkInv
  BY Zenon
<1>. USE DEF WorkInit
<1>0. LastModule \in Nat /\ \A m \in Modules : <<"probe", m>> \in {"probe", "load", "release"} \X Modules
  BY Zenon, WorkAssumption
<1>1. loader.calls \in Seq({"probe", "load", "release"} \X Modules)
  BY <1>0 DEF Probe, Modules
<1>2. WorkTypes
  BY <1>1 DEF WorkTypes, WorkerPoints, Asleep
<1>3. NodesListed
  BY Zenon, EmptyFacts DEF NodesListed
<1>4. WorkersExact
  BY Zenon DEF WorkersExact, InHand, Asleep
<1>5. TasksRun
  BY EmptyFacts DEF TasksRun, WorkerOwns, Past
<1>6. RefsExact
  BY Zenon DEF RefsExact
<1>7. MarksExact
  BY Zenon DEF MarksExact, LoaderMarks, WorkerMarks, Asleep
<1>8. LoaderExact
  BY <1>0, <1>1 DEF LoaderExact, Probe, Modules, WorkTasks
<1>. QED  BY Zenon, <1>2, <1>3, <1>4, <1>5, <1>6, <1>7, <1>8 DEF WorkInv

(* What the invariant is for.                                              *)
LEMMA WorkInvImplies == WorkInv => WorkExact
<1>. SUFFICES ASSUME WorkInv PROVE WorkExact
  BY Zenon
<1>1. DependenciesFirst
  BY DEF DependenciesFirst, WorkInv, TasksRun
<1>2. ASSUME NEW t \in WorkTasks, in_use[t] = "freed"
      PROVE  /\ refcount[t] = 0
             /\ ~(loader.at = "mark" /\ Current = t)
             /\ \A c \in Workers : worker[c].node # t
             /\ \A c \in Workers : worker[c].at = "mark" => Head(worker[c].todo) # t
  <2>1. refcount[t] = 0
    BY Zenon, <1>2 DEF WorkInv, RefsExact
  <2>2. ~LoaderMarks(t) /\ \A c \in Workers : ~WorkerMarks(c, t)
    BY Zenon, <1>2 DEF WorkInv, MarksExact
  <2>3. t # 0
    BY WorkAssumption DEF WorkTasks, Modules
  <2>4. \A c \in Workers : worker[c].node # t
    BY <1>2, <2>3 DEF WorkInv, WorkersExact, NodesListed
  <2>. QED  BY Zenon, <2>1, <2>2, <2>4 DEF LoaderMarks, WorkerMarks
<1>3. NodesOwned
  BY Zenon, <1>2 DEF NodesOwned, WorkInv, RefsExact
<1>4. FinishedMarked
  BY Zenon DEF FinishedMarked, WorkInv, MarksExact, LoaderMarks, WorkerMarks
<1>. QED  BY Zenon, <1>1, <1>3, <1>4 DEF WorkExact

(* No two workers stand on one node.                                       *)
LEMMA OneWorker ==
    ASSUME WorkInv, NEW c \in Workers, worker[c].node # 0
    PROVE  /\ worker[c].node \in WorkTasks /\ worker[c].node \in Range(wq[c])
           /\ in_use[worker[c].node] \notin {"none", "freed"}
           /\ \A d \in Workers : worker[d].node = worker[c].node => d = c
<1>1. worker[c].node \in WorkTasks
  BY Zenon DEF WorkInv, WorkTypes
<1>2. worker[c].node \in Range(wq[c])
  BY Zenon DEF WorkInv, WorkersExact
<1>. QED  BY ZenonT(30), <1>1, <1>2 DEF WorkInv, WorkersExact, NodesListed

(* Whether c is among those that have given back t's reference for m.      *)
Keeps(c, m, t) ==
    /\ worker[c].node = m /\ worker[c].at = "drop" => t \in Range(worker[c].todo)
    /\ worker[c].node = m /\ worker[c].at = "mark" => t \in Range(Tail(worker[c].todo))

(* The owners among the dependents, by what each worker has given back.    *)
LEMMA DependentsAre ==
    \A t : Dependents(t) = {m \in Modules : t \in Range(dependency[m]) /\ \A c \in Workers : Keeps(c, m, t)}
  BY Zenon DEF Dependents, Keeps

(* A step of a worker that has no task in its hand.                        *)
LEMMA QuietStep ==
    ASSUME WorkInv, NEW c \in Workers, worker[c].at \in {"idle", "scan", "next", "lower"},
           NEW l \in {"scan", "run", "next"}, NEW n \in Range(wq[c]) \cup {0},
           l # "scan" => n # 0,
           l = "run" => in_use[n] = "busy" /\ Ready(n),
           WorkerGoto(c, l, n, <<>>),
           UNCHANGED <<in_use, refcount, dependency, wq, loader, queue_ref_held, rcu_at, ran, stray, late>>
    PROVE  WorkInv'
<1>1. /\ worker'[c].at = l /\ worker'[c].node = n /\ worker'[c].todo = <<>>
      /\ \A d \in Workers : d # c => worker'[d] = worker[d]
      /\ wq[c] \in Seq(WorkTasks)
  BY Zenon DEF WorkerGoto, WorkInv, WorkTypes
<1>2. n \in WorkTasks \cup {0}
  BY <1>1, RangeFacts
<1>3. WorkTypes'
  BY <1>2 DEF WorkInv, WorkTypes, WorkerGoto, WorkerPoints
<1>4. NodesListed'
  BY Zenon DEF WorkInv, NodesListed
<1>5. WorkersExact'
  BY <1>1 DEF WorkInv, WorkersExact, InHand, Ready, Past
<1>6. \A t : /\ (\E d \in Workers : worker'[d].node = t /\ worker'[d].at \in {"drop", "mark", "empty", "finished"})
                   <=> Running(t)
             /\ WorkerOwns(t)' <=> WorkerOwns(t)
             /\ \A d \in Workers : WorkerMarks(d, t)' <=> WorkerMarks(d, t)
  BY Zenon, <1>1 DEF Running, WorkerOwns, WorkerMarks
<1>7. \A t : Dependents(t)' = Dependents(t)
  BY <1>1 DEF Dependents
<1>8. \A t : (CallerOwns(t)' <=> CallerOwns(t)) /\ (Loading(t)' <=> Loading(t)) /\ (LoaderMarks(t)' <=> LoaderMarks(t))
  BY Zenon DEF CallerOwns, Loading, Counted, Current, LoaderMarks
<1>9. TasksRun'
  BY <1>6 DEF WorkInv, TasksRun, Running
<1>10. RefsExact'
  BY Zenon, <1>6, <1>7, <1>8 DEF WorkInv, RefsExact, One
<1>11. MarksExact'
  <2>1. \A d \in Workers : \A m \in {"empty", "finished"} : worker'[d].at = m => worker'[d] = worker[d]
    BY Zenon, <1>1
  <2>. SUFFICES ASSUME NEW t \in WorkTasks PROVE MarksExact!(t)'
    BY Zenon DEF MarksExact
  <2>2. MarksExact!(t)
    BY Zenon DEF WorkInv, MarksExact
  <2>. QED  BY ZenonT(30), <1>6, <1>8, <2>1, <2>2
<1>12. LoaderExact'
  BY Zenon DEF WorkInv, LoaderExact, Counted, Current
<1>. QED  BY Zenon, <1>3, <1>4, <1>5, <1>9, <1>10, <1>11, <1>12 DEF WorkInv

(* The task a worker is about to run, or has in its hand, still owns its   *)
(* references.                                                             *)
LEMMA HandFacts ==
    ASSUME WorkInv, NEW c \in Workers, worker[c].at \in {"run", "drop", "mark"}
    PROVE  LET t == worker[c].node IN
           /\ t \in WorkTasks /\ t # 0 /\ in_use[t] = "busy" /\ WorkerOwns(t)
           /\ dependency[t] = Needs(t) /\ dependency[t] \in Seq(Modules) /\ IsInjective(dependency[t])
           /\ \A d \in Range(dependency[t]) : d \in WorkTasks /\ d \in Modules /\ d # t /\ in_use[d] \in Past
<1>. DEFINE t == worker[c].node
<1>1. t # 0 /\ in_use[t] = "busy" /\ \A d \in Range(dependency[t]) : in_use[d] \in Past
  BY Zenon DEF WorkInv, WorkersExact, InHand
<1>2. t \in WorkTasks /\ \A d \in Workers : worker[d].node = t => d = c
  BY Zenon, <1>1, OneWorker
<1>3. WorkerOwns(t)
  BY Zenon, <1>1, <1>2 DEF WorkerOwns
<1>4. dependency[t] = Needs(t) /\ dependency[t] \in Seq(Modules)
  BY Zenon, <1>2, <1>3 DEF WorkInv, TasksRun, WorkTypes
<1>5. IsInjective(dependency[t])
  BY Zenon, <1>4, RankFacts, EmptyFacts DEF Needs
<1>6. \A d \in Range(dependency[t]) : d \in Modules
  BY Zenon, <1>4, RangeFacts
<1>. QED  BY Zenon, <1>1, <1>2, <1>3, <1>4, <1>5, <1>6 DEF WorkTasks, Past

(* The task's function runs.                                               *)
LEMMA RunTaskInv ==
    ASSUME WorkInv, NEW c \in Workers, RunTask(c)
    PROVE  WorkInv'
<1>. DEFINE t == worker[c].node
<1>1. /\ worker[c].at = "run" /\ ran' = [ran EXCEPT ![t] = @ + 1]
      /\ UNCHANGED <<in_use, refcount, dependency, wq, loader, queue_ref_held, rcu_at, stray, late>>
      /\ worker'[c].at = "drop" /\ worker'[c].node = t /\ worker'[c].todo = dependency[t]
      /\ \A d \in Workers : d # c => worker'[d] = worker[d]
  BY Zenon DEF RunTask, WorkerGoto, WorkInv, WorkTypes
<1>2. /\ t \in WorkTasks /\ t # 0 /\ in_use[t] = "busy" /\ WorkerOwns(t) /\ dependency[t] = Needs(t)
      /\ dependency[t] \in Seq(Modules) /\ IsInjective(dependency[t])
      /\ \A d \in Range(dependency[t]) : d \in WorkTasks /\ d # t /\ in_use[d] \in Past
  BY Zenon, <1>1, HandFacts
<1>0. t # 0
  BY Zenon, <1>2
<1>3. \A d \in Workers : worker[d].node = t => d = c
  BY Zenon, <1>0, OneWorker
<1>4. ran[t] = 0 /\ ran'[t] = 1 /\ \A u \in WorkTasks : u # t => ran'[u] = ran[u]
  <2>1. ~Running(t)
    BY Zenon, <1>1, <1>3 DEF Running
  <2>2. t \in WorkTasks /\ in_use[t] = "busy"
    BY Zenon, <1>2
  <2>3. ran[t] = 0 /\ ran \in [WorkTasks -> Nat]
    BY Zenon, <2>1, <2>2 DEF WorkInv, TasksRun, WorkTypes, Past
  <2>. QED  BY <1>1, <2>2, <2>3
<1>5. WorkTypes'
  <2>1. [at |-> "drop", node |-> t, todo |-> dependency[t]]
           \in [at : WorkerPoints, node : WorkTasks \cup {0}, todo : Seq(Modules)]
    BY Zenon, <1>2 DEF WorkerPoints
  <2>2. worker' \in [Workers -> [at : WorkerPoints, node : WorkTasks \cup {0}, todo : Seq(Modules)]]
    BY Zenon, <2>1 DEF RunTask, WorkerGoto, WorkInv, WorkTypes
  <2>3. ran' \in [WorkTasks -> Nat]
    BY <1>1, <1>4 DEF WorkInv, WorkTypes
  <2>. QED  BY Zenon, <1>1, <2>2, <2>3 DEF WorkInv, WorkTypes
<1>6. NodesListed'
  BY Zenon, <1>1 DEF WorkInv, NodesListed
<1>7. WorkersExact'
  BY <1>1, <1>2 DEF WorkInv, WorkersExact, InHand
<1>8. \A u : /\ Running(u)' <=> Running(u) \/ u = t
             /\ WorkerOwns(u)' <=> WorkerOwns(u)
             /\ \A d \in Workers : WorkerMarks(d, u)' <=> WorkerMarks(d, u)
  BY Zenon, <1>1, <1>3 DEF Running, WorkerOwns, WorkerMarks
<1>9. \A u : Dependents(u)' = Dependents(u)
  BY <1>1 DEF Dependents
<1>10. \A u : (CallerOwns(u)' <=> CallerOwns(u)) /\ (Loading(u)' <=> Loading(u)) /\ (LoaderMarks(u)' <=> LoaderMarks(u))
  BY Zenon, <1>1 DEF CallerOwns, Loading, Counted, Current, LoaderMarks
<1>11. TasksRun'
  <2>. SUFFICES ASSUME NEW u \in WorkTasks PROVE TasksRun!(u)'
    BY Zenon DEF TasksRun
  <2>1. \A d \in WorkTasks : in_use[d] \in Past => ran[d] = 1
    BY Zenon DEF WorkInv, TasksRun
  <2>2. \A d \in WorkTasks : ran[d] = 1 => d # t /\ ran'[d] = 1
    BY <1>4
  <2>3. u \in Modules => \A d \in Range(Requires[u]) : d \in WorkTasks
    BY Zenon, RankFacts DEF WorkTasks
  <2>4. CASE u = t
    BY ZenonT(30), <1>1, <1>2, <1>4, <1>8, <2>1, <2>2, <2>3, <2>4 DEF WorkInv, TasksRun, Needs
  <2>5. CASE u # t
    BY <1>1, <1>4, <1>8, <2>2, <2>3, <2>5 DEF WorkInv, TasksRun
  <2>. QED  BY Zenon, <2>4, <2>5
<1>12. RefsExact'
  BY Zenon, <1>1, <1>8, <1>9, <1>10 DEF WorkInv, RefsExact, One
<1>13. MarksExact'
  <2>1. \A d \in Workers : \A m \in {"empty", "finished"} : worker'[d].at = m => worker'[d] = worker[d]
    BY Zenon, <1>1
  <2>. SUFFICES ASSUME NEW u \in WorkTasks PROVE MarksExact!(u)'
    BY Zenon DEF MarksExact
  <2>. QED  BY <1>1, <1>8, <1>10, <2>1 DEF WorkInv, MarksExact
<1>14. LoaderExact'
  BY Zenon, <1>1 DEF WorkInv, LoaderExact, Counted, Current
<1>. QED  BY Zenon, <1>5, <1>6, <1>7, <1>11, <1>12, <1>13, <1>14 DEF WorkInv

(* The references counted for t that are not dropped yet: finitely many.   *)
LEMMA DependentsFinite ==
    ASSUME CountFacts
    PROVE  \A t : Dependents(t) \subseteq Modules /\ Cardinality(Dependents(t)) \in Nat
<1>1. \A t : Dependents(t) \subseteq Modules
  BY Zenon DEF Dependents
<1>. QED  BY Zenon, <1>1 DEF CountFacts

(* Every owner of a node is counted.                                       *)
LEMMA OwnedCount ==
    ASSUME CountFacts, WorkInv, NEW t \in WorkTasks, in_use[t] # "none"
    PROVE  /\ WorkerOwns(t) => refcount[t] >= 1
           /\ CallerOwns(t) => refcount[t] >= 1
           /\ Dependents(t) # {} => refcount[t] >= 1
           /\ WorkerOwns(t) /\ CallerOwns(t) => refcount[t] >= 2
<1>1. /\ refcount[t] = One(WorkerOwns(t)) + One(CallerOwns(t)) + Cardinality(Dependents(t))
                       + One(Loading(t)) + stray[t]
      /\ stray[t] \in Nat
  BY Zenon DEF WorkInv, RefsExact, WorkTypes
<1>2. Dependents(t) \subseteq Modules /\ Cardinality(Dependents(t)) \in Nat
  BY Zenon, DependentsFinite
<1>3. Dependents(t) # {} => Cardinality(Dependents(t)) # 0
  BY Zenon, <1>2 DEF CountFacts
<1>. QED  BY <1>1, <1>2, <1>3 DEF One

(* The worker drops the reference to the first dependency that is left.    *)
LEMMA DropDependencyInv ==
    ASSUME CountFacts, WorkInv, NEW c \in Workers, DropDependency(c)
    PROVE  WorkInv'
<1>. SUFFICES ASSUME NEW t, NEW todo, NEW d, t = worker[c].node, todo = worker[c].todo, d = Head(todo)
              PROVE  WorkInv'
  BY Zenon
<1>a. /\ worker[c].at = "drop" /\ todo # <<>> /\ refcount' = [refcount EXCEPT ![d] = @ - 1]
      /\ UNCHANGED <<in_use, dependency, wq, loader, queue_ref_held, rcu_at, ran, stray, late>>
      /\ \E l, q : /\ worker' = [worker EXCEPT ![c] = [at |-> l, node |-> t, todo |-> q]]
                   /\ refcount[d] = 1 => l = "mark" /\ q = todo
                   /\ refcount[d] # 1 => l = "drop" /\ q = Tail(todo)
  BY Zenon DEF DropDependency, WorkerGoto
<1>b. /\ worker \in [Workers -> [at : WorkerPoints, node : WorkTasks \cup {0}, todo : Seq(Modules)]]
      /\ todo \in Seq(Modules) /\ refcount \in [WorkTasks -> Nat]
  BY Zenon DEF WorkInv, WorkTypes
<1>c. PICK l, q : /\ worker' = [worker EXCEPT ![c] = [at |-> l, node |-> t, todo |-> q]]
                  /\ refcount[d] = 1 => l = "mark" /\ q = todo
                  /\ refcount[d] # 1 => l = "drop" /\ q = Tail(todo)
  BY Zenon, <1>a
<1>1. /\ worker[c].at = "drop" /\ todo # <<>> /\ refcount' = [refcount EXCEPT ![d] = @ - 1]
      /\ UNCHANGED <<in_use, dependency, wq, loader, queue_ref_held, rcu_at, ran, stray, late>>
      /\ worker'[c].node = t /\ worker'[c].at = l /\ worker'[c].todo = q
      /\ refcount[d] = 1 => l = "mark" /\ q = todo
      /\ refcount[d] # 1 => l = "drop" /\ q = Tail(todo)
      /\ \A e \in Workers : e # c => worker'[e] = worker[e]
      /\ todo \in Seq(Modules)
  BY Zenon, <1>a, <1>b, <1>c
<1>2. t \in WorkTasks /\ t # 0 /\ in_use[t] = "busy" /\ \A e \in Range(dependency[t]) : e \in WorkTasks /\ e # t /\ in_use[e] \in Past
  BY Zenon, <1>1, HandFacts
<1>0. t # 0
  BY Zenon, <1>2
<1>3. \A e \in Workers : worker[e].node = t => e = c
  BY Zenon, <1>0, OneWorker
<1>4. IsInjective(todo) /\ Range(todo) \subseteq Range(dependency[t])
  BY Zenon, <1>1 DEF WorkInv, WorkersExact
<1>5. /\ d \in Range(todo) /\ d \in Modules /\ Tail(todo) \in Seq(Modules)
      /\ IsInjective(Tail(todo)) /\ Range(Tail(todo)) = Range(todo) \ {d}
  BY Zenon, <1>1, <1>4, TailFacts
<1>6. d \in WorkTasks /\ d \in Range(dependency[t]) /\ d # t /\ in_use[d] \in Past /\ in_use[d] # "none"
  BY Zenon, <1>2, <1>4, <1>5 DEF Past
<1>7. t \in Modules
  <2>1. dependency[t] = Needs(t)
    BY Zenon, <1>1, HandFacts
  <2>. QED  BY Zenon, <1>6, <2>1, EmptyFacts DEF Needs
<1>8. t \in Dependents(d)
  BY Zenon, <1>1, <1>3, <1>5, <1>6, <1>7 DEF Dependents
<1>9. refcount[d] \in Nat /\ refcount[d] >= 1
  BY Zenon, <1>6, <1>8, OwnedCount DEF WorkInv, WorkTypes
<1>10. /\ refcount'[d] = refcount[d] - 1 /\ \A u \in WorkTasks : u # d => refcount'[u] = refcount[u]
       /\ refcount' \in [WorkTasks -> Nat]
  BY <1>b, <1>1, <1>6, <1>9
<1>11. q \in Seq(Modules) /\ l \in {"drop", "mark"}
  BY Zenon, <1>1, <1>5
<1>12. WorkTypes'
  <2>1. worker' \in [Workers -> [at : WorkerPoints, node : WorkTasks \cup {0}, todo : Seq(Modules)]]
    BY Zenon, <1>b, <1>c, <1>2, <1>11 DEF WorkerPoints
  <2>. QED  BY Zenon, <1>1, <1>10, <2>1 DEF WorkInv, WorkTypes
<1>13. NodesListed'
  BY ZenonT(30), <1>1 DEF WorkInv, NodesListed
<1>14. WorkersExact'
  <2>. SUFFICES ASSUME NEW e \in Workers PROVE WorkersExact!(e)'
    BY Zenon DEF WorkersExact
  <2>1. CASE e = c
    <3>1. t \in Range(wq[c]) /\ \A x \in Range(dependency[t]) : in_use[x] \in Past
      BY Zenon, <1>0, <1>1 DEF WorkInv, WorkersExact
    <3>2. IsInjective(worker'[c].todo) /\ Range(worker'[c].todo) \subseteq Range(dependency[t])
      BY ZenonT(30), <1>1, <1>4, <1>5
    <3>. QED  BY Zenon, <1>0, <1>1, <1>2, <1>11, <2>1, <3>1, <3>2 DEF InHand
  <2>2. CASE e # c
    <3>1. worker'[e] = worker[e] /\ WorkersExact!(e)
      BY Zenon, <1>1, <2>2 DEF WorkInv, WorkersExact
    <3>2. worker[e].at = "empty" => worker[e].node # d
      BY Zenon, <1>6, <3>1 DEF InHand, Past
    <3>3. worker[e].at = "empty" => worker[e].node \in WorkTasks
      BY Zenon, <3>1 DEF InHand, WorkInv, WorkTypes
    <3>. QED  BY Zenon, <1>1, <1>10, <3>1, <3>2, <3>3 DEF InHand
  <2>. QED  BY Zenon, <2>1, <2>2
<1>15. \A u : (Running(u)' <=> Running(u)) /\ (WorkerOwns(u)' <=> WorkerOwns(u))
  BY Zenon, <1>1, <1>11 DEF Running, WorkerOwns
<1>16. \A u : Dependents(u)' = IF u = d THEN Dependents(u) \ {t} ELSE Dependents(u)
  <2>1. \A e \in Workers : \A m, u : e # c \/ m # t => (Keeps(e, m, u)' <=> Keeps(e, m, u))
    BY ZenonT(30), <1>1 DEF Keeps
  <2>2. \A u : Keeps(c, t, u)' <=> u \in Range(todo) \ {d}
    BY Zenon, <1>1, <1>5 DEF Keeps
  <2>3. \A u : Keeps(c, t, u) <=> u \in Range(todo)
    BY Zenon, <1>1 DEF Keeps
  <2>4. \A u : Dependents(u)' = {m \in Modules : u \in Range(dependency[m]) /\ \A e \in Workers : Keeps(e, m, u)'}
    BY Zenon, <1>1 DEF Dependents, Keeps
  <2>5. \A m \in Modules : \A u : (\A e \in Workers : Keeps(e, m, u)') <=>
                                 (\A e \in Workers : Keeps(e, m, u)) /\ ~(m = t /\ u = d)
    BY Zenon, <2>1, <2>2, <2>3
  <2>. QED  BY Zenon, <2>4, <2>5, DependentsAre
<1>17. \A u : (CallerOwns(u)' <=> CallerOwns(u)) /\ (Loading(u)' <=> Loading(u)) /\ (LoaderMarks(u)' <=> LoaderMarks(u))
  BY Zenon, <1>1 DEF CallerOwns, Loading, Counted, Current, LoaderMarks
<1>18. TasksRun'
  BY Zenon, <1>1, <1>15 DEF WorkInv, TasksRun
<1>19. RefsExact'
  <2>. SUFFICES ASSUME NEW u \in WorkTasks PROVE RefsExact!(u)'
    BY Zenon DEF RefsExact
  <2>1. CASE u = d
    <3>1. Cardinality(Dependents(u)') = Cardinality(Dependents(u)) - 1 /\ Cardinality(Dependents(u)) \in Nat
      BY Zenon, <1>8, <1>16, <2>1, DependentsFinite DEF CountFacts
    <3>2. in_use[u] \notin {"empty", "freed"}
      BY <1>6, <1>9, <2>1 DEF WorkInv, RefsExact
    <3>3. /\ refcount[u] = One(WorkerOwns(u)) + One(CallerOwns(u)) + Cardinality(Dependents(u))
                            + One(Loading(u)) + stray[u]
          /\ stray[u] \in Nat
      BY Zenon, <1>6, <2>1 DEF WorkInv, RefsExact, WorkTypes
    <3>4. refcount'[u] = refcount[u] - 1
      BY Zenon, <1>10, <2>1
    <3>5. /\ One(WorkerOwns(u))' = One(WorkerOwns(u)) /\ One(WorkerOwns(u)) \in Nat
          /\ One(CallerOwns(u))' = One(CallerOwns(u)) /\ One(CallerOwns(u)) \in Nat
          /\ One(Loading(u))' = One(Loading(u)) /\ One(Loading(u)) \in Nat
      BY Zenon, <1>15, <1>17 DEF One
    <3>6. stray'[u] = stray[u] /\ in_use'[u] = in_use[u]
      BY Zenon, <1>1
    <3>. QED  BY <3>1, <3>2, <3>3, <3>4, <3>5, <3>6
  <2>2. CASE u # d
    BY Zenon, <1>1, <1>10, <1>15, <1>16, <1>17, <2>2 DEF WorkInv, RefsExact, One
  <2>. QED  BY Zenon, <2>1, <2>2
<1>20. MarksExact'
  <2>. SUFFICES ASSUME NEW u \in WorkTasks PROVE MarksExact!(u)'
    BY Zenon DEF MarksExact
  <2>1. CASE u = d
    <3>0. refcount[u] >= 1 /\ refcount[u] \in Nat /\ refcount'[u] = refcount[u] - 1 /\ in_use[u] \in Past
      BY Zenon, <1>6, <1>9, <1>10, <2>1
    <3>1. in_use[u] = "finished"
      BY <3>0 DEF WorkInv, RefsExact, Past
    <3>2. ~LoaderMarks(u) /\ \A e \in Workers : ~WorkerMarks(e, u)
      BY <3>0 DEF WorkInv, MarksExact
    <3>3. \A e \in Workers : worker[e].node = u => worker[e].at \notin {"empty", "finished"}
      BY Zenon, <3>1 DEF WorkInv, WorkersExact, InHand
    <3>4. \A e \in Workers : worker'[e].node = u => worker'[e].at \notin {"empty", "finished"}
      BY Zenon, <1>1, <1>11, <3>3
    <3>5. \A e \in Workers : WorkerMarks(e, u)' <=> e = c /\ refcount[u] = 1
      <4>1. \A e \in Workers : e # c => ~WorkerMarks(e, u)'
        BY Zenon, <1>1, <3>2 DEF WorkerMarks
      <4>2. WorkerMarks(c, u)' <=> refcount[u] = 1
        BY Zenon, <1>1, <2>1 DEF WorkerMarks
      <4>. QED  BY Zenon, <4>1, <4>2
    <3>. QED  BY <1>1, <1>17, <3>0, <3>1, <3>2, <3>4, <3>5
  <2>2. CASE u # d
    <3>1. \A e \in Workers : WorkerMarks(e, u)' <=> WorkerMarks(e, u)
      BY Zenon, <1>1, <2>2 DEF WorkerMarks
    <3>2. \A e \in Workers : \A m \in {"empty", "finished"} :
             worker'[e].at = m /\ worker'[e].node = u <=> worker[e].at = m /\ worker[e].node = u
      BY Zenon, <1>1, <1>11
    <3>3. MarksExact!(u)
      BY Zenon DEF WorkInv, MarksExact
    <3>. QED  BY Zenon, <1>1, <1>10, <1>17, <2>2, <3>1, <3>2, <3>3
  <2>. QED  BY Zenon, <2>1, <2>2
<1>21. LoaderExact'
  BY Zenon, <1>1 DEF WorkInv, LoaderExact, Counted, Current
<1>. QED  BY Zenon, <1>12, <1>13, <1>14, <1>18, <1>19, <1>20, <1>21 DEF WorkInv

(* The calls of the loader are records of voxmo_modules.                   *)
LEMMA CallFacts ==
    ASSUME WorkInv
    PROVE  /\ loader.calls \in Seq({"probe", "load", "release"} \X Modules)
           /\ \A i \in 1 .. Len(loader.calls) : loader.calls[i][2] \in Modules
           /\ loader.calls # <<>> => /\ Len(loader.calls) \in Nat \ {0} /\ 1 \in 1 .. Len(loader.calls)
                                     /\ Current = loader.calls[1][2] /\ Current \in Modules
<1>1. loader.calls \in Seq({"probe", "load", "release"} \X Modules)
  BY Zenon DEF WorkInv, WorkTypes
<1>2. \A i \in 1 .. Len(loader.calls) : loader.calls[i] \in {"probe", "load", "release"} \X Modules
  BY <1>1
<1>3. \A i \in 1 .. Len(loader.calls) : loader.calls[i][2] \in Modules
  BY Zenon, <1>2
<1>4. loader.calls # <<>> => Len(loader.calls) \in Nat \ {0} /\ Head(loader.calls) = loader.calls[1]
  BY <1>1
<1>5. loader.calls # <<>> => 1 \in 1 .. Len(loader.calls)
  BY <1>4
<1>. QED  BY Zenon, <1>1, <1>3, <1>4, <1>5 DEF Current

(* A step that moves neither the loader nor call_rcu.                      *)
LEMMA LoaderKept ==
    ASSUME WorkInv, UNCHANGED <<loader, queue_ref_held, rcu_at>>,
           \A u \in WorkTasks : in_use'[u] = "none" <=> in_use[u] = "none"
    PROVE  LoaderExact'
<1>0. LoaderExact /\ queue_ref_held \subseteq Modules /\ Modules \subseteq WorkTasks /\ RcuTasks \subseteq WorkTasks
  BY Zenon DEF WorkInv, WorkTypes, WorkTasks
<1>1. \A i \in 1 .. Len(loader.calls) :
         loader.calls[i][1] = "load" /\ ~(i = 1 /\ loader.at = "count") => in_use'[loader.calls[i][2]] = "none"
  BY Zenon, <1>0, CallFacts DEF LoaderExact
<1>2. loader.at = "count" => in_use'[Current] # "none"
  BY Zenon, <1>0, CallFacts DEF LoaderExact
<1>3. \A m \in queue_ref_held : in_use'[m] # "none"
  BY Zenon, <1>0 DEF LoaderExact
<1>4. \A t \in RcuTasks : rcu_at[t] = "idle" => in_use'[t] = "none"
  BY Zenon, <1>0 DEF LoaderExact
<1>5. loader.at # "mark" /\ loader.calls # <<>> =>
         \A m \in Modules : in_use'[m] = "none" \/ m \in queue_ref_held \/ (loader.at = "count" /\ Current = m)
  BY Zenon, <1>0 DEF LoaderExact
<1>. QED  BY Zenon, <1>0, <1>1, <1>2, <1>3, <1>4, <1>5 DEF LoaderExact, Counted, Current

(* The last reference to a dependency is gone, its node is marked empty.   *)
LEMMA MarkDependencyInv ==
    ASSUME WorkInv, NEW c \in Workers, MarkDependency(c)
    PROVE  WorkInv'
<1>. SUFFICES ASSUME NEW t, NEW todo, NEW d, t = worker[c].node, todo = worker[c].todo, d = Head(todo)
              PROVE  WorkInv'
  BY Zenon
<1>a. /\ worker[c].at = "mark" /\ todo # <<>> /\ IsInjective(todo) /\ Range(todo) \subseteq Range(dependency[t])
      /\ UNCHANGED <<refcount, dependency, wq, loader, queue_ref_held, rcu_at, ran, stray, late>>
      /\ worker' = [worker EXCEPT ![c] = [at |-> "drop", node |-> t, todo |-> Tail(todo)]]
      /\ in_use' = [in_use EXCEPT ![d] = IF @ = "finished" THEN "empty" ELSE @]
  BY Zenon DEF MarkDependency, WorkerGoto, WorkInv, WorkersExact
<1>b. /\ worker \in [Workers -> [at : WorkerPoints, node : WorkTasks \cup {0}, todo : Seq(Modules)]]
      /\ todo \in Seq(Modules) /\ in_use \in [WorkTasks -> {"none", "busy", "finished", "empty", "freed"}]
  BY Zenon DEF WorkInv, WorkTypes
<1>1. /\ worker'[c].node = t /\ worker'[c].at = "drop" /\ worker'[c].todo = Tail(todo)
      /\ \A e \in Workers : e # c => worker'[e] = worker[e]
  BY Zenon, <1>a, <1>b
<1>2. /\ t \in WorkTasks /\ t # 0 /\ in_use[t] = "busy"
      /\ \A e \in Range(dependency[t]) : e \in WorkTasks /\ e \in Modules /\ e # t /\ in_use[e] \in Past
  BY Zenon, <1>a, HandFacts
<1>3. /\ d \in Range(todo) /\ d \in Modules /\ Tail(todo) \in Seq(Modules)
      /\ IsInjective(Tail(todo)) /\ Range(Tail(todo)) = Range(todo) \ {d}
  BY Zenon, <1>a, <1>b, TailFacts
<1>4. d \in WorkTasks /\ d # t
  BY Zenon, <1>a, <1>2, <1>3
<1>5. WorkerMarks(c, d)
  BY Zenon, <1>a DEF WorkerMarks
<1>6. /\ refcount[d] = 0 /\ in_use[d] = "finished" /\ ~LoaderMarks(d)
      /\ \A e \in Workers : WorkerMarks(e, d) => c = e
  BY Zenon, <1>4, <1>5 DEF WorkInv, MarksExact
<1>7. in_use'[d] = "empty" /\ \A u \in WorkTasks : u # d => in_use'[u] = in_use[u]
  BY Zenon, <1>a, <1>b, <1>4, <1>6
<1>8. WorkTypes'
  <2>1. worker' \in [Workers -> [at : WorkerPoints, node : WorkTasks \cup {0}, todo : Seq(Modules)]]
    BY Zenon, <1>a, <1>b, <1>2, <1>3 DEF WorkerPoints
  <2>2. in_use' \in [WorkTasks -> {"none", "busy", "finished", "empty", "freed"}]
    BY Zenon, <1>a, <1>b
  <2>. QED  BY Zenon, <1>a, <2>1, <2>2 DEF WorkInv, WorkTypes
<1>9. /\ \A u \in WorkTasks : /\ in_use'[u] = "none" <=> in_use[u] = "none"
                              /\ in_use'[u] = "busy" <=> in_use[u] = "busy"
                              /\ in_use'[u] = "freed" <=> in_use[u] = "freed"
                              /\ in_use'[u] \in Past <=> in_use[u] \in Past
  BY Zenon, <1>6, <1>7 DEF Past
<1>10. NodesListed'
  <2>1. \A e \in Workers : \A u \in Range(wq[e]) : u \in WorkTasks
    BY Zenon, RangeFacts DEF WorkInv, WorkTypes
  <2>. QED  BY Zenon, <1>a, <1>9, <2>1 DEF WorkInv, NodesListed
<1>11. WorkersExact'
  <2>. SUFFICES ASSUME NEW e \in Workers PROVE WorkersExact!(e)'
    BY Zenon DEF WorkersExact
  <2>1. worker[e].node # 0 => worker[e].node \in WorkTasks
    BY Zenon, <1>b
  <2>2. WorkersExact!(e)
    BY Zenon DEF WorkInv, WorkersExact
  <2>3. worker[e].at \in InHand => worker[e].node # 0
    BY Zenon, <2>2
  <2>4. worker[e].at \in {"run", "drop", "mark"} => \A x \in Range(dependency[worker[e].node]) : x \in WorkTasks
    BY Zenon, HandFacts

  <2>0. UNCHANGED <<wq, dependency, refcount>>
    BY Zenon, <1>a
  <2>5. CASE e = c
    <3>1. t \in Range(wq[e]) /\ in_use'[t] = "busy"
      BY Zenon, <1>2, <1>9, <2>2, <2>5
    <3>2. \A x \in Range(dependency[t]) : in_use'[x] \in Past
      BY Zenon, <1>2, <1>9
    <3>3. Range(Tail(todo)) \subseteq Range(dependency[t]) /\ IsInjective(Tail(todo))
      BY Zenon, <1>a, <1>3
    <3>. QED  BY Zenon, <1>1, <1>2, <2>0, <2>5, <3>1, <3>2, <3>3
  <2>6. CASE e # c
    <3>1. worker'[e] = worker[e]
      BY Zenon, <1>1, <2>6
    <3>2. worker[e].at \in InHand => in_use'[worker[e].node] = "busy"
      BY Zenon, <1>9, <2>1, <2>2, <2>3
    <3>3. worker[e].at \in {"run", "drop", "mark"} =>
             \A x \in Range(dependency[worker[e].node]) : in_use'[x] \in Past
      BY Zenon, <1>9, <2>2, <2>4
    <3>. QED  BY Zenon, <2>0, <2>2, <3>1, <3>2, <3>3
  <2>. QED  BY Zenon, <2>5, <2>6
<1>12. \A u \in WorkTasks : (Running(u)' <=> Running(u)) /\ (WorkerOwns(u)' <=> WorkerOwns(u))
  BY <1>a, <1>1, <1>9 DEF Running, WorkerOwns
<1>13. \A u : Dependents(u)' = Dependents(u)
  <2>1. \A e \in Workers : \A m, u : Keeps(e, m, u)' <=> Keeps(e, m, u)
    BY ZenonT(30), <1>a, <1>1 DEF Keeps
  <2>2. \A u : Dependents(u)' = {m \in Modules : u \in Range(dependency[m]) /\ \A e \in Workers : Keeps(e, m, u)'}
    BY Zenon, <1>a DEF Dependents, Keeps
  <2>. QED  BY ZenonT(30), <2>1, <2>2, DependentsAre
<1>14. \A u : (CallerOwns(u)' <=> CallerOwns(u)) /\ (Loading(u)' <=> Loading(u)) /\ (LoaderMarks(u)' <=> LoaderMarks(u))
  BY Zenon, <1>a DEF CallerOwns, Loading, Counted, Current, LoaderMarks
<1>15. TasksRun'
  <2>. SUFFICES ASSUME NEW u \in WorkTasks PROVE TasksRun!(u)'
    BY Zenon DEF TasksRun
  <2>1. \A x \in Range(dependency[u]) : x \in WorkTasks
    BY Zenon, RangeFacts DEF WorkInv, WorkTypes, WorkTasks
  <2>2. TasksRun!(u)
    BY Zenon DEF WorkInv, TasksRun
  <2>. QED  BY Zenon, <1>a, <1>9, <1>12, <2>1, <2>2
<1>16. RefsExact'
  <2>. SUFFICES ASSUME NEW u \in WorkTasks PROVE RefsExact!(u)'
    BY Zenon DEF RefsExact
  <2>1. RefsExact!(u)
    BY Zenon DEF WorkInv, RefsExact
  <2>2. u # d => in_use'[u] = in_use[u]
    BY Zenon, <1>7
  <2>. QED  BY Zenon, <1>a, <1>6, <1>9, <1>12, <1>13, <1>14, <2>1, <2>2 DEF One
<1>17. MarksExact'
  <2>. SUFFICES ASSUME NEW u \in WorkTasks PROVE MarksExact!(u)'
    BY Zenon DEF MarksExact
  <2>1. \A e \in Workers : \A m \in {"empty", "finished"} :
           worker'[e].at = m /\ worker'[e].node = u <=> worker[e].at = m /\ worker[e].node = u
    BY Zenon, <1>a, <1>1
  <2>2. MarksExact!(u)
    BY Zenon DEF WorkInv, MarksExact
  <2>3. CASE u = d
    <3>1. \A e \in Workers : ~WorkerMarks(e, u)'
      BY Zenon, <1>1, <1>6, <2>3 DEF WorkerMarks
    <3>2. ~LoaderMarks(u) /\ in_use'[u] = "empty"
      BY Zenon, <1>6, <1>7, <2>3
    <3>. QED  BY Zenon, <1>a, <1>14, <2>1, <2>2, <3>1, <3>2
  <2>4. CASE u # d
    <3>1. \A e \in Workers : WorkerMarks(e, u)' <=> WorkerMarks(e, u)
      BY Zenon, <1>a, <1>1, <2>4 DEF WorkerMarks
    <3>. QED  BY Zenon, <1>a, <1>7, <1>14, <2>1, <2>2, <2>4, <3>1
  <2>. QED  BY Zenon, <2>3, <2>4
<1>18. LoaderExact'
  BY Zenon, <1>a, <1>9, LoaderKept
<1>. QED  BY Zenon, <1>8, <1>10, <1>11, <1>15, <1>16, <1>17, <1>18 DEF WorkInv

(* The worker drops its own reference.                                     *)
LEMMA DropOwnInv ==
    ASSUME CountFacts, WorkInv, NEW c \in Workers, DropOwn(c)
    PROVE  WorkInv'
<1>. SUFFICES ASSUME NEW t, t = worker[c].node PROVE WorkInv'
  BY Zenon
<1>a. /\ worker[c].at = "drop" /\ worker[c].todo = <<>>
      /\ dependency' = [dependency EXCEPT ![t] = <<>>] /\ refcount' = [refcount EXCEPT ![t] = @ - 1]
      /\ UNCHANGED <<in_use, wq, loader, queue_ref_held, rcu_at, ran, stray, late>>
      /\ \E x \in {"empty", "finished"} :
            /\ worker' = [worker EXCEPT ![c] = [at |-> x, node |-> t, todo |-> <<>>]]
            /\ refcount[t] = 1 <=> x = "empty"
  BY Zenon DEF DropOwn, WorkerGoto
<1>b. /\ worker \in [Workers -> [at : WorkerPoints, node : WorkTasks \cup {0}, todo : Seq(Modules)]]
      /\ refcount \in [WorkTasks -> Nat] /\ dependency \in [WorkTasks -> Seq(Modules)]
  BY Zenon DEF WorkInv, WorkTypes
<1>c. PICK l \in {"empty", "finished"} :
         /\ worker' = [worker EXCEPT ![c] = [at |-> l, node |-> t, todo |-> <<>>]]
         /\ refcount[t] = 1 <=> l = "empty"
  BY Zenon, <1>a
<1>1. /\ worker'[c].node = t /\ worker'[c].at = l /\ worker'[c].todo = <<>>
      /\ \A e \in Workers : e # c => worker'[e] = worker[e]
  BY Zenon, <1>b, <1>c
<1>2. t \in WorkTasks /\ t # 0 /\ in_use[t] = "busy" /\ WorkerOwns(t)
  BY Zenon, <1>a, HandFacts
<1>3. \A e \in Workers : worker[e].node = t => e = c
  BY Zenon, <1>2, OneWorker
<1>4. refcount[t] \in Nat /\ refcount[t] >= 1
  BY Zenon, <1>b, <1>2, OwnedCount
<1>5. /\ refcount'[t] = refcount[t] - 1 /\ dependency'[t] = <<>>
      /\ \A u \in WorkTasks : u # t => refcount'[u] = refcount[u] /\ dependency'[u] = dependency[u]
  BY Zenon, <1>a, <1>b, <1>2
<1>6. WorkTypes'
  <2>1. worker' \in [Workers -> [at : WorkerPoints, node : WorkTasks \cup {0}, todo : Seq(Modules)]]
    BY <1>b, <1>c, <1>2 DEF WorkerPoints
  <2>2. refcount[t] - 1 \in Nat
    BY <1>4
  <2>3. refcount' \in [WorkTasks -> Nat] /\ dependency' \in [WorkTasks -> Seq(Modules)]
    BY Zenon, <1>a, <1>b, <2>2
  <2>. QED  BY Zenon, <1>a, <2>1, <2>3 DEF WorkInv, WorkTypes
<1>7. NodesListed'
  BY Zenon, <1>a DEF WorkInv, NodesListed
<1>8. WorkersExact'
  <2>. SUFFICES ASSUME NEW e \in Workers PROVE WorkersExact!(e)'
    BY Zenon DEF WorkersExact
  <2>1. WorkersExact!(e)
    BY Zenon DEF WorkInv, WorkersExact
  <2>2. CASE e = c
    BY <1>a, <1>1, <1>2, <1>4, <1>5, <1>c, <2>1, <2>2 DEF InHand
  <2>3. CASE e # c
    <3>1. worker[e].node # 0 => worker[e].node \in WorkTasks /\ worker[e].node # t
      BY Zenon, <1>b, <1>3, <2>3
    <3>. QED  BY ZenonT(30), <1>a, <1>1, <1>5, <2>1, <2>3, <3>1 DEF InHand
  <2>. QED  BY Zenon, <2>2, <2>3
<1>9. \A u \in WorkTasks : /\ Running(u)' <=> Running(u)
                           /\ WorkerOwns(u)' <=> WorkerOwns(u) /\ u # t
  BY <1>a, <1>1, <1>c DEF Running, WorkerOwns
<1>10. \A e \in Workers, u \in WorkTasks : WorkerMarks(e, u)' <=> WorkerMarks(e, u)
  BY Zenon, <1>a, <1>1, <1>c DEF WorkerMarks
<1>11. \A u : Dependents(u)' = Dependents(u)
  <2>. TAKE u
  <2>1. \A m \in Modules : (\A e \in Workers : Keeps(e, m, u)) => m # t
    BY Zenon, <1>a, EmptyFacts DEF Keeps
  <2>2. \A m \in Modules : m # t => (dependency'[m] = dependency[m] /\ \A e \in Workers : Keeps(e, m, u)' <=> Keeps(e, m, u))
    BY Zenon, <1>1, <1>5 DEF Keeps, WorkTasks
  <2>3. Dependents(u)' = {m \in Modules : u \in Range(dependency'[m]) /\ \A e \in Workers : Keeps(e, m, u)'}
    BY Zenon DEF Dependents, Keeps
  <2>4. \A m \in Modules : u \in Range(dependency'[m]) => m # t
    BY Zenon, <1>5, EmptyFacts
  <2>. QED  BY Zenon, <2>1, <2>2, <2>3, <2>4, DependentsAre
<1>12. \A u : (CallerOwns(u)' <=> CallerOwns(u)) /\ (Loading(u)' <=> Loading(u)) /\ (LoaderMarks(u)' <=> LoaderMarks(u))
  BY Zenon, <1>a DEF CallerOwns, Loading, Counted, Current, LoaderMarks
<1>13. TasksRun'
  <2>. SUFFICES ASSUME NEW u \in WorkTasks PROVE TasksRun!(u)'
    BY Zenon DEF TasksRun
  <2>1. TasksRun!(u)
    BY Zenon DEF WorkInv, TasksRun
  <2>2. CASE u = t
    <3>1. dependency'[u] = <<>> /\ ~WorkerOwns(u)'
      BY Zenon, <1>5, <1>9, <2>2
    <3>. QED  BY Zenon, <1>a, <1>9, <2>1, <3>1, EmptyFacts
  <2>3. CASE u # t
    BY Zenon, <1>a, <1>5, <1>9, <2>1, <2>3
  <2>. QED  BY Zenon, <2>2, <2>3
<1>14. RefsExact'
  <2>. SUFFICES ASSUME NEW u \in WorkTasks PROVE RefsExact!(u)'
    BY Zenon DEF RefsExact
  <2>1. RefsExact!(u)
    BY Zenon DEF WorkInv, RefsExact
  <2>2. /\ One(CallerOwns(u))' = One(CallerOwns(u)) /\ One(Loading(u))' = One(Loading(u))
        /\ Cardinality(Dependents(u))' = Cardinality(Dependents(u)) /\ stray'[u] = stray[u]
        /\ in_use'[u] = in_use[u]
        /\ One(CallerOwns(u)) \in Nat /\ One(Loading(u)) \in Nat /\ Cardinality(Dependents(u)) \in Nat
        /\ stray[u] \in Nat
    BY Zenon, <1>a, <1>11, <1>12, DependentsFinite DEF One, WorkInv, WorkTypes
  <2>3. CASE u = t
    <3>1. One(WorkerOwns(u))' = 0 /\ One(WorkerOwns(u)) = 1 /\ refcount'[u] = refcount[u] - 1 /\ in_use[u] = "busy"
      BY Zenon, <1>2, <1>5, <1>9, <2>3 DEF One
    <3>. QED  BY <2>1, <2>2, <3>1
  <2>4. CASE u # t
    <3>1. One(WorkerOwns(u))' = One(WorkerOwns(u)) /\ refcount'[u] = refcount[u]
      BY Zenon, <1>5, <1>9, <2>4 DEF One
    <3>. QED  BY Zenon, <2>1, <2>2, <3>1
  <2>. QED  BY Zenon, <2>3, <2>4
<1>15. MarksExact'
  <2>. SUFFICES ASSUME NEW u \in WorkTasks PROVE MarksExact!(u)'
    BY Zenon DEF MarksExact
  <2>1. MarksExact!(u)
    BY Zenon DEF WorkInv, MarksExact
  <2>2. CASE u = t
    <3>1. /\ ~LoaderMarks(u) /\ (\A e \in Workers : ~WorkerMarks(e, u))
          /\ in_use'[u] = "busy"
      BY <1>a, <1>2, <1>4, <2>1, <2>2
    <3>2. \A e \in Workers : worker'[e].node = u /\ worker'[e].at = "finished" => refcount'[u] # 0
      BY <1>1, <1>3, <1>4, <1>5, <1>c, <2>2
    <3>. QED  BY Zenon, <1>10, <1>12, <3>1, <3>2
  <2>3. CASE u # t
    <3>1. \A e \in Workers : \A m \in {"empty", "finished"} :
             worker'[e].node = u /\ worker'[e].at = m => worker[e].node = u /\ worker[e].at = m
      BY Zenon, <1>1, <2>3
    <3>2. refcount'[u] = refcount[u]
      BY Zenon, <1>5, <2>3
    <3>. QED  BY Zenon, <1>a, <1>10, <1>12, <2>1, <3>1, <3>2
  <2>. QED  BY Zenon, <2>2, <2>3
<1>16. LoaderExact'
  BY Zenon, <1>a, LoaderKept
<1>. QED  BY Zenon, <1>6, <1>7, <1>8, <1>13, <1>14, <1>15, <1>16 DEF WorkInv

(* The worker says what became of its task.                                *)
LEMMA StoreStateInv ==
    ASSUME WorkInv, NEW c \in Workers, StoreState(c)
    PROVE  WorkInv'
<1>. SUFFICES ASSUME NEW t, NEW l \in {"empty", "finished"}, t = worker[c].node, l = worker[c].at PROVE WorkInv'
  BY Zenon DEF StoreState
<1>a. /\ in_use' = [in_use EXCEPT ![t] = l]
      /\ UNCHANGED <<refcount, dependency, wq, loader, queue_ref_held, rcu_at, ran, stray, late>>
      /\ worker' = [worker EXCEPT ![c] = [at |-> "lower", node |-> t, todo |-> <<>>]]
  BY Zenon DEF StoreState, WorkerGoto
<1>b. /\ worker \in [Workers -> [at : WorkerPoints, node : WorkTasks \cup {0}, todo : Seq(Modules)]]
      /\ in_use \in [WorkTasks -> {"none", "busy", "finished", "empty", "freed"}]
  BY Zenon DEF WorkInv, WorkTypes
<1>1. /\ worker'[c].node = t /\ worker'[c].at = "lower" /\ worker'[c].todo = <<>>
      /\ \A e \in Workers : e # c => worker'[e] = worker[e]
  BY Zenon, <1>a, <1>b
<1>0. t # 0 /\ in_use[t] = "busy" /\ (l = "empty" => refcount[t] = 0)
  BY Zenon DEF WorkInv, WorkersExact, InHand
<1>2. t \in WorkTasks /\ t \in Range(wq[c]) /\ \A e \in Workers : worker[e].node = t => e = c
  BY Zenon, <1>0, OneWorker
<1>3. in_use'[t] = l /\ \A u \in WorkTasks : u # t => in_use'[u] = in_use[u]
  BY Zenon, <1>a, <1>b, <1>2
<1>4. /\ \A u \in WorkTasks : /\ in_use'[u] = "none" <=> in_use[u] = "none"
                              /\ in_use'[u] = "freed" <=> in_use[u] = "freed"
                              /\ in_use'[u] \in Past <=> in_use[u] \in Past \/ u = t
                              /\ in_use'[u] = "busy" <=> in_use[u] = "busy" /\ u # t
  BY Zenon, <1>0, <1>3 DEF Past
<1>5. WorkTypes'
  <2>1. worker' \in [Workers -> [at : WorkerPoints, node : WorkTasks \cup {0}, todo : Seq(Modules)]]
    BY <1>a, <1>b, <1>2 DEF WorkerPoints
  <2>2. in_use' \in [WorkTasks -> {"none", "busy", "finished", "empty", "freed"}]
    BY Zenon, <1>a, <1>b
  <2>. QED  BY Zenon, <1>a, <2>1, <2>2 DEF WorkInv, WorkTypes
<1>6. NodesListed'
  <2>1. \A e \in Workers : \A u \in Range(wq[e]) : u \in WorkTasks
    BY ZenonT(30), RangeFacts DEF WorkInv, WorkTypes
  <2>. QED  BY Zenon, <1>a, <1>4, <2>1 DEF WorkInv, NodesListed
<1>7. WorkersExact'
  <2>. SUFFICES ASSUME NEW e \in Workers PROVE WorkersExact!(e)'
    BY Zenon DEF WorkersExact
  <2>1. WorkersExact!(e)
    BY Zenon DEF WorkInv, WorkersExact
  <2>2. CASE e = c
    BY Zenon, <1>a, <1>0, <1>1, <1>2, <2>2 DEF InHand
  <2>3. CASE e # c
    <3>1. worker[e].node # 0 => worker[e].node \in WorkTasks /\ worker[e].node # t
      BY Zenon, <1>b, <1>2, <2>3
    <3>2. worker[e].at \in {"run", "drop", "mark"} => \A x \in Range(dependency[worker[e].node]) : x \in WorkTasks
      BY Zenon, HandFacts
    <3>. QED  BY <1>a, <1>1, <1>4, <2>1, <2>3, <3>1, <3>2 DEF InHand
  <2>. QED  BY Zenon, <2>2, <2>3
<1>8. \A u \in WorkTasks : /\ Running(u)' <=> Running(u) /\ u # t
                           /\ WorkerOwns(u)' <=> WorkerOwns(u)
  BY <1>1, <1>2, <1>4 DEF Running, WorkerOwns
<1>9. Running(t)
  BY Zenon DEF Running
<1>10. \A e \in Workers, u \in WorkTasks : WorkerMarks(e, u)' <=> WorkerMarks(e, u)
  BY Zenon, <1>1 DEF WorkerMarks
<1>11. \A u : Dependents(u)' = Dependents(u)
  <2>1. \A e \in Workers : \A m, u : Keeps(e, m, u)' <=> Keeps(e, m, u)
    BY Zenon, <1>1 DEF Keeps
  <2>2. \A u : Dependents(u)' = {m \in Modules : u \in Range(dependency[m]) /\ \A e \in Workers : Keeps(e, m, u)'}
    BY Zenon, <1>a DEF Dependents, Keeps
  <2>. QED  BY Zenon, <2>1, <2>2, DependentsAre
<1>12. \A u : (CallerOwns(u)' <=> CallerOwns(u)) /\ (Loading(u)' <=> Loading(u)) /\ (LoaderMarks(u)' <=> LoaderMarks(u))
  BY Zenon, <1>a DEF CallerOwns, Loading, Counted, Current, LoaderMarks
<1>13. TasksRun'
  <2>. SUFFICES ASSUME NEW u \in WorkTasks PROVE TasksRun!(u)'
    BY Zenon DEF TasksRun
  <2>1. TasksRun!(u)
    BY Zenon DEF WorkInv, TasksRun
  <2>2. \A x \in Range(dependency[u]) : x \in WorkTasks
    BY Zenon, RangeFacts DEF WorkInv, WorkTypes, WorkTasks
  <2>3. ran[u] = IF in_use'[u] \in Past \/ (in_use'[u] = "busy" /\ Running(u)') THEN 1 ELSE 0
    BY Zenon, <1>0, <1>4, <1>8, <1>9, <2>1
  <2>. QED  BY Zenon, <1>a, <1>4, <1>8, <2>1, <2>2, <2>3
<1>14. RefsExact'
  <2>. SUFFICES ASSUME NEW u \in WorkTasks PROVE RefsExact!(u)'
    BY Zenon DEF RefsExact
  <2>1. RefsExact!(u)
    BY Zenon DEF WorkInv, RefsExact
  <2>2. in_use'[u] \in {"empty", "freed"} => refcount[u] = 0
    BY Zenon, <1>0, <1>3, <2>1
  <2>. QED  BY Zenon, <1>a, <1>4, <1>8, <1>11, <1>12, <2>1, <2>2 DEF One
<1>15. MarksExact'
  <2>. SUFFICES ASSUME NEW u \in WorkTasks PROVE MarksExact!(u)'
    BY Zenon DEF MarksExact
  <2>1. MarksExact!(u)
    BY Zenon DEF WorkInv, MarksExact
  <2>2. CASE u = t
    <3>1. /\ \A e \in Workers : ~WorkerMarks(e, u)
          /\ LoaderMarks(u) => refcount[u] = 0 /\ in_use'[u] = "finished"
          /\ in_use'[u] = "finished" /\ refcount[u] = 0 /\ u \notin late => LoaderMarks(u)
      BY Zenon, <1>0, <1>3, <2>1, <2>2
    <3>2. \A e \in Workers : worker'[e].node = u => worker'[e].at \notin {"empty", "finished"}
      BY Zenon, <1>1, <1>2, <2>2
    <3>. QED  BY Zenon, <1>a, <1>10, <1>12, <3>1, <3>2
  <2>3. CASE u # t
    <3>1. \A e \in Workers : \A m \in {"empty", "finished"} :
             worker'[e].node = u /\ worker'[e].at = m => worker[e].node = u /\ worker[e].at = m
      BY Zenon, <1>1, <2>3
    <3>2. in_use'[u] = in_use[u]
      BY Zenon, <1>3, <2>3
    <3>. QED  BY Zenon, <1>a, <1>10, <1>12, <2>1, <3>1, <3>2
  <2>. QED  BY Zenon, <2>2, <2>3
<1>16. LoaderExact'
  BY Zenon, <1>a, <1>4, LoaderKept
<1>. QED  BY Zenon, <1>5, <1>6, <1>7, <1>13, <1>14, <1>15, <1>16 DEF WorkInv

-----------------------------------------------------------------------------
(* The loader goes on between two calls: no task is touched.               *)
LEMMA LoaderMoves ==
    ASSUME WorkInv, UNCHANGED <<in_use, refcount, dependency, wq, worker, queue_ref_held, rcu_at, ran, stray, late>>,
           loader.at = "probe", loader'.at \in {"probe", "depend"},
           loader' \in [at : {"probe", "depend", "count", "mark"},
                        calls : Seq({"probe", "load", "release"} \X Modules),
                        todo : Seq(Modules), core : Workers \cup {0}],
           loader'.at = "depend" => Counted' = {},
           LoaderExact'
    PROVE  WorkInv'
<1>1. WorkTypes' /\ NodesListed' /\ WorkersExact'
  BY Zenon DEF WorkInv, WorkTypes, NodesListed, WorkersExact
<1>2. \A t : /\ Running(t)' <=> Running(t)
             /\ WorkerOwns(t)' <=> WorkerOwns(t)
             /\ Dependents(t)' = Dependents(t)
             /\ \A c \in Workers : WorkerMarks(c, t)' <=> WorkerMarks(c, t)
  BY Zenon DEF Running, WorkerOwns, Dependents, WorkerMarks
<1>3. \A t : /\ CallerOwns(t)' <=> CallerOwns(t)
             /\ ~Loading(t) /\ ~Loading(t)'
             /\ ~LoaderMarks(t) /\ ~LoaderMarks(t)'
  BY Zenon DEF CallerOwns, Loading, LoaderMarks
<1>4. TasksRun'
  BY Zenon, <1>2 DEF WorkInv, TasksRun
<1>5. RefsExact'
  BY Zenon, <1>2, <1>3 DEF WorkInv, RefsExact, One
<1>6. MarksExact'
  BY ZenonT(30), <1>2, <1>3 DEF WorkInv, MarksExact
<1>. QED  BY Zenon, <1>1, <1>4, <1>5, <1>6 DEF WorkInv

(* The loader returns from a call.                                         *)
LEMMA NextCallFacts ==
    ASSUME WorkInv, loader.calls # <<>>, NextCall, rcu_at' = rcu_at,
           \A u \in WorkTasks : in_use'[u] = "none" <=> in_use[u] = "none",
           \A m \in queue_ref_held' : in_use'[m] # "none",
           loader.at # "mark" => queue_ref_held' = queue_ref_held \cup (IF loader.at = "count" THEN {Current} ELSE {})
    PROVE  /\ loader' \in [at : {"probe", "depend", "count", "mark"},
                           calls : Seq({"probe", "load", "release"} \X Modules),
                           todo : Seq(Modules), core : Workers \cup {0}]
           /\ loader'.at = "probe" /\ LoaderExact'
<1>. SUFFICES ASSUME NEW q, NEW n, q = loader.calls, n = Len(q) PROVE
           /\ loader' \in [at : {"probe", "depend", "count", "mark"},
                           calls : Seq({"probe", "load", "release"} \X Modules),
                           todo : Seq(Modules), core : Workers \cup {0}]
           /\ loader'.at = "probe" /\ LoaderExact'
  BY Zenon
<1>1. loader' = [at |-> "probe", calls |-> Tail(q), todo |-> <<>>, core |-> 0]
  BY Zenon DEF NextCall, LoaderGoto
<1>2. /\ q \in Seq({"probe", "load", "release"} \X Modules) /\ n \in Nat \ {0}
      /\ \A i \in 1 .. n : q[i][2] \in Modules
  BY Zenon, CallFacts
<1>3. /\ Tail(q) \in Seq({"probe", "load", "release"} \X Modules) /\ Len(Tail(q)) = n - 1
      /\ \A i \in 1 .. n - 1 : Tail(q)[i] = q[i + 1]
  BY <1>2
<1>4. /\ \A i \in 1 .. n : q[i][1] = "load" /\ ~(i = 1 /\ loader.at = "count") => in_use[q[i][2]] = "none"
      /\ \A i, j \in 1 .. n : i < j /\ q[j][1] = "load" => Rank[q[i][2]] < Rank[q[j][2]]
      /\ \A t \in RcuTasks : rcu_at[t] = "idle" => in_use[t] = "none"
      /\ loader.at # "mark" =>
            \A m \in Modules : in_use[m] = "none" \/ m \in queue_ref_held \/ (loader.at = "count" /\ Current = m)
      /\ loader.at = "mark" => n = 1
  BY Zenon DEF WorkInv, LoaderExact
<1>5. \A i \in 1 .. n - 1 : i + 1 \in 1 .. n /\ i + 1 # 1
  BY <1>2
<1>6. \A i \in 1 .. n - 1 : Tail(q)[i][1] = "load" => in_use'[Tail(q)[i][2]] = "none"
  <2>. SUFFICES ASSUME NEW i \in 1 .. n - 1, Tail(q)[i][1] = "load" PROVE in_use'[Tail(q)[i][2]] = "none"
    BY Zenon
  <2>1. Tail(q)[i] = q[i + 1] /\ i + 1 \in 1 .. n /\ i + 1 # 1
    BY Zenon, <1>3, <1>5
  <2>2. q[i + 1][2] \in WorkTasks /\ in_use[q[i + 1][2]] = "none"
    BY Zenon, <1>2, <1>4, <2>1 DEF WorkTasks
  <2>. QED  BY Zenon, <2>1, <2>2
<1>7. \A i, j \in 1 .. n - 1 : i < j /\ Tail(q)[j][1] = "load" => Rank[Tail(q)[i][2]] < Rank[Tail(q)[j][2]]
  <2>. SUFFICES ASSUME NEW i \in 1 .. n - 1, NEW j \in 1 .. n - 1
                PROVE  i < j /\ Tail(q)[j][1] = "load" => Rank[Tail(q)[i][2]] < Rank[Tail(q)[j][2]]
    BY Zenon
  <2>1. i < j => i + 1 < j + 1
    BY <1>2
  <2>2. Tail(q)[i] = q[i + 1] /\ Tail(q)[j] = q[j + 1] /\ i + 1 \in 1 .. n /\ j + 1 \in 1 .. n
    BY Zenon, <1>3, <1>5
  <2>3. \A k, l \in 1 .. n : k < l /\ q[l][1] = "load" => Rank[q[k][2]] < Rank[q[l][2]]
    BY Zenon, <1>4
  <2>4. i + 1 < j + 1 /\ q[j + 1][1] = "load" => Rank[q[i + 1][2]] < Rank[q[j + 1][2]]
    BY Zenon, <2>2, <2>3
  <2>. QED  BY Zenon, <2>1, <2>2, <2>4
<1>8. Tail(q) # <<>> => \A m \in Modules : in_use'[m] = "none" \/ m \in queue_ref_held'
  <2>. SUFFICES ASSUME Tail(q) # <<>>, NEW m \in Modules PROVE in_use'[m] = "none" \/ m \in queue_ref_held'
    BY Zenon
  <2>1. loader.at # "mark"
    BY <1>2, <1>3, <1>4
  <2>. QED  BY Zenon, <1>4, <2>1 DEF WorkTasks
<1>9. /\ loader'.at = "probe" /\ loader'.calls = Tail(q) /\ loader'.todo = <<>> /\ loader'.core = 0
      /\ \A t \in RcuTasks : rcu_at'[t] = "idle" => in_use'[t] = "none"
  BY Zenon, <1>1, <1>4 DEF WorkTasks
<1>10. LoaderExact'
  BY <1>3, <1>6, <1>7, <1>8, <1>9 DEF LoaderExact
<1>. QED  BY <1>1, <1>3, <1>9, <1>10

(* The calls of vxVoxmoProbe in place of the first of q: those it makes    *)
(* itself, then the load.                                                  *)
Recursed(S, r, x, q) ==
    /\ r \o <<x>> \o Tail(q) \in Seq(S)
    /\ Len(r \o <<x>> \o Tail(q)) = Len(r) + Len(q)
    /\ \A i \in 1 .. Len(r) : (r \o <<x>> \o Tail(q))[i] = r[i]
    /\ (r \o <<x>> \o Tail(q))[Len(r) + 1] = x
    /\ \A i \in Len(r) + 2 .. Len(r) + Len(q) : (r \o <<x>> \o Tail(q))[i] = q[i - Len(r)]

(* vxVoxmoProbe's recursion leaves the other calls in their order.         *)
LEMMA RecursedHolds ==
    ASSUME NEW S, NEW q \in Seq(S), q # <<>>, NEW r \in Seq(S), NEW x \in S
    PROVE  Recursed(S, r, x, q)
  BY DEF Recursed

(* What the calls of the loader are after vxVoxmoProbe of m.               *)
LEMMA ProbeIs ==
    ASSUME NEW m \in Modules, NEW q \in Seq({"probe", "load", "release"} \X Modules), q # <<>>
    PROVE  LET k == Len(Requires[m])
               n == Len(q)
               w == [i \in 1 .. k |-> <<"probe", Requires[m][i]>>] \o <<<<"load", m>>>> \o Tail(q) IN
           /\ w \in Seq({"probe", "load", "release"} \X Modules) /\ Len(w) = k + n
           /\ \A i \in 1 .. k : w[i] = <<"probe", Requires[m][i]>>
           /\ w[k + 1] = <<"load", m>>
           /\ \A i \in k + 2 .. k + n : w[i] = q[i - k]
<1>. DEFINE Calls == {"probe", "load", "release"} \X Modules
            k == Len(Requires[m])
            r == [i \in 1 .. k |-> <<"probe", Requires[m][i]>>]
            x == <<"load", m>>
<1>1. k \in Nat /\ \A i \in 1 .. k : Requires[m][i] \in Modules
  BY Zenon, RankFacts, RangeFacts
<1>2. x \in Calls /\ q \in Seq(Calls)
  BY Zenon
<1>. HIDE DEF k
<1>3. r \in Seq(Calls) /\ Len(r) = k /\ \A i \in 1 .. k : r[i] = <<"probe", Requires[m][i]>>
  BY <1>1
<1>. HIDE DEF Calls, r, x
<1>4. Recursed(Calls, r, x, q)
  BY Zenon, <1>2, <1>3, RecursedHolds
<1>. DEFINE w == r \o <<x>> \o Tail(q)
<1>. HIDE DEF w
<1>5. /\ w \in Seq(Calls) /\ Len(w) = Len(r) + Len(q)
      /\ \A i \in 1 .. Len(r) : w[i] = r[i]
      /\ w[Len(r) + 1] = x
      /\ \A i \in Len(r) + 2 .. Len(r) + Len(q) : w[i] = q[i - Len(r)]
  BY Zenon, <1>4 DEF w, Recursed
<1>6. /\ w \in Seq(Calls) /\ Len(w) = k + Len(q)
      /\ \A i \in 1 .. k : w[i] = <<"probe", Requires[m][i]>>
      /\ w[k + 1] = <<"load", m>>
      /\ \A i \in k + 2 .. k + Len(q) : w[i] = q[i - k]
  BY Zenon, <1>3, <1>5 DEF x
<1>. QED  BY Zenon, <1>6 DEF w, r, x, k, Calls

(* The n calls of q in order: the modules to load are among N, and what is *)
(* called before is lower in the order of dependencies.                    *)
InOrder(q, n, N) ==
    /\ \A i \in 1 .. n : q[i][1] = "load" => q[i][2] \in N
    /\ \A i, j \in 1 .. n : i < j /\ q[j][1] = "load" => Rank[q[i][2]] < Rank[q[j][2]]

(* The calls w are the n calls q after vxVoxmoProbe of m, the first of q.  *)
Probed(w, q, n, m, k) ==
    /\ q[1][2] = m /\ \A i \in 1 .. n : q[i][2] \in Modules
    /\ \A i \in 1 .. k : w[i] = <<"probe", Requires[m][i]>> /\ Requires[m][i] \in Range(Requires[m])
    /\ w[k + 1] = <<"load", m>>
    /\ \A i \in k + 2 .. k + n : w[i] = q[i - k]

(* The order of the calls survives vxVoxmoProbe: what m depends on is      *)
(* called before m is loaded.                                              *)
LEMMA ProbeOrder ==
    ASSUME NEW N, NEW m \in Modules, m \in N, NEW k \in Nat, NEW n \in Nat \ {0}, NEW q, NEW w,
           InOrder(q, n, N), Probed(w, q, n, m, k)
    PROVE  InOrder(w, k + n, N)
<1>. USE DEF InOrder, Probed
<1>1. Rank[m] \in Nat /\ \A i \in 1 .. k : Rank[Requires[m][i]] \in Nat /\ Rank[Requires[m][i]] < Rank[m]
  BY Zenon, RankFacts
<1>2. /\ \A i \in 1 .. k : w[i][1] = "probe" /\ w[i][2] = Requires[m][i]
      /\ w[k + 1][1] = "load" /\ w[k + 1][2] = m
  OBVIOUS
<1>3. \A i \in 1 .. k + n : i \in 1 .. k \/ i = k + 1 \/ (i \in k + 2 .. k + n /\ i - k \in 2 .. n /\ i - k \in 1 .. n)
  OBVIOUS
<1>4. ASSUME NEW i \in 1 .. k + n, w[i][1] = "load" PROVE w[i][2] \in N
  <2>1. CASE i \in 1 .. k
    BY Zenon, <1>2, <1>4, <2>1
  <2>2. CASE i = k + 1
    BY Zenon, <1>2, <2>2
  <2>3. CASE i \in k + 2 .. k + n /\ i - k \in 1 .. n
    BY Zenon, <1>4, <2>3
  <2>. QED  BY Zenon, <1>3, <2>1, <2>2, <2>3
<1>5. \A j \in 1 .. n : j \in 2 .. n /\ q[j][1] = "load" => Rank[m] < Rank[q[j][2]] /\ Rank[q[j][2]] \in Nat
  <2>1. 1 \in 1 .. n /\ \A j \in 2 .. n : 1 < j
    OBVIOUS
  <2>. QED  BY Zenon, <2>1, RankFacts
<1>6. ASSUME NEW i \in 1 .. k + n, NEW j \in 1 .. k + n, i < j, w[j][1] = "load"
      PROVE  Rank[w[i][2]] < Rank[w[j][2]]
  <2>1. CASE j \in 1 .. k
    BY Zenon, <1>2, <1>6, <2>1
  <2>2. CASE j = k + 1
    <3>1. i \in 1 .. k
      BY <1>6, <2>2
    <3>. QED  BY Zenon, <1>1, <1>2, <2>2, <3>1
  <2>3. CASE j \in k + 2 .. k + n /\ j - k \in 2 .. n /\ j - k \in 1 .. n
    <3>1. w[j] = q[j - k] /\ q[j - k][1] = "load"
      BY Zenon, <1>6, <2>3
    <3>2. Rank[m] < Rank[w[j][2]] /\ Rank[w[j][2]] \in Nat
      BY Zenon, <1>5, <2>3, <3>1
    <3>3. CASE i \in 1 .. k
      <4>1. Rank[w[i][2]] < Rank[m] /\ Rank[w[i][2]] \in Nat
        BY Zenon, <1>1, <1>2, <3>3
      <4>. QED  BY <1>1, <3>2, <4>1
    <3>4. CASE i = k + 1
      BY Zenon, <1>2, <3>2, <3>4
    <3>5. CASE i \in k + 2 .. k + n /\ i - k \in 1 .. n
      <4>1. i - k < j - k
        BY <1>6
      <4>2. w[i] = q[i - k]
        BY Zenon, <3>5
      <4>. QED  BY Zenon, <2>3, <3>1, <3>5, <4>1, <4>2
    <3>. QED  BY Zenon, <1>3, <3>3, <3>4, <3>5
  <2>. QED  BY Zenon, <1>3, <2>1, <2>2, <2>3
<1>. QED  BY Zenon, <1>4, <1>6

(* vxVoxmoProbe of a module: nothing if it is loaded, else the calls for   *)
(* its dependencies and then its load.                                     *)
LEMMA ProbeModuleInv ==
    ASSUME WorkInv, ProbeModule
    PROVE  WorkInv'
<1>. SUFFICES ASSUME NEW q, NEW n, NEW m, q = loader.calls, n = Len(q), m = Current PROVE WorkInv'
  BY Zenon
<1>. DEFINE Calls == {"probe", "load", "release"} \X Modules
<1>1. /\ loader.at = "probe" /\ q # <<>> /\ loader.calls # <<>>
      /\ UNCHANGED <<in_use, refcount, dependency, wq, worker, queue_ref_held, rcu_at, ran, stray, late>>
      /\ m \in queue_ref_held => NextCall
      /\ m \notin queue_ref_held =>
            loader' = [at |-> "probe", todo |-> <<>>, core |-> 0,
                       calls |-> [i \in 1 .. Len(Requires[m]) |-> <<"probe", Requires[m][i]>>]
                                     \o <<<<"load", m>>>> \o Tail(q)]
  BY Zenon DEF ProbeModule, LoaderGoto, Probe
<1>2. /\ q \in Seq(Calls) /\ n \in Nat \ {0} /\ (\A i \in 1 .. n : q[i][2] \in Modules)
      /\ 1 \in 1 .. n /\ m = q[1][2] /\ m \in Modules
  BY Zenon, <1>1, CallFacts
<1>3. /\ \A i \in 1 .. n : q[i][1] = "load" => in_use[q[i][2]] = "none"
      /\ \A i, j \in 1 .. n : i < j /\ q[j][1] = "load" => Rank[q[i][2]] < Rank[q[j][2]]
      /\ \A d \in queue_ref_held : in_use[d] # "none"
      /\ \A t \in RcuTasks : rcu_at[t] = "idle" => in_use[t] = "none"
      /\ \A d \in Modules : in_use[d] = "none" \/ d \in queue_ref_held
  BY Zenon, <1>1 DEF WorkInv, LoaderExact
<1>4. CASE m \in queue_ref_held
  <2>1. /\ loader' \in [at : {"probe", "depend", "count", "mark"}, calls : Seq(Calls),
                        todo : Seq(Modules), core : Workers \cup {0}]
        /\ loader'.at = "probe" /\ LoaderExact'
    BY Zenon, <1>1, <1>3, <1>4, NextCallFacts
  <2>. QED  BY Zenon, <1>1, <2>1, LoaderMoves
<1>5. CASE m \notin queue_ref_held
  <2>. DEFINE k == Len(Requires[m])
              w == [i \in 1 .. k |-> <<"probe", Requires[m][i]>>] \o <<<<"load", m>>>> \o Tail(q)
              N == {d \in Modules : in_use[d] = "none"}
  <2>1. k \in Nat /\ \A i \in 1 .. k : Requires[m][i] \in Range(Requires[m])
    BY <1>2, RankFacts, RangeFacts
  <2>2. /\ w \in Seq(Calls) /\ Len(w) = k + n
        /\ \A i \in 1 .. k : w[i] = <<"probe", Requires[m][i]>>
        /\ w[k + 1] = <<"load", m>>
        /\ \A i \in k + 2 .. k + n : w[i] = q[i - k]
    BY Zenon, <1>1, <1>2, ProbeIs
  <2>3. loader' = [at |-> "probe", todo |-> <<>>, core |-> 0, calls |-> w]
    BY Zenon, <1>1, <1>5
  <2>4. m \in N /\ \A i \in 1 .. n : q[i][1] = "load" => q[i][2] \in N
    BY Zenon, <1>2, <1>3, <1>5
  <2>. HIDE DEF k, w, N
  <2>5. InOrder(w, k + n, N)
    <3>1. InOrder(q, n, N)
      BY Zenon, <1>3, <2>4 DEF InOrder
    <3>2. Probed(w, q, n, m, k)
      BY Zenon, <1>2, <2>1, <2>2 DEF Probed
    <3>. QED  BY Zenon, <1>2, <2>1, <2>4, <3>1, <3>2, ProbeOrder
  <2>. HIDE DEF Calls
  <2>6. /\ loader'.at = "probe" /\ loader'.calls = w
        /\ loader' \in [at : {"probe", "depend", "count", "mark"}, calls : Seq(Calls),
                        todo : Seq(Modules), core : Workers \cup {0}]
    BY <2>2, <2>3
  <2>7. LoaderExact'
    BY Zenon, <1>1, <1>3, <2>2, <2>5, <2>6 DEF LoaderExact, InOrder, N
  <2>. QED  BY Zenon, <1>1, <2>6, <2>7, LoaderMoves DEF Calls
<1>. QED  BY Zenon, <1>4, <1>5

(* The load of a module gives up at once or starts on its dependencies.    *)
LEMMA LoadModuleInv ==
    ASSUME WorkInv, LoadModule
    PROVE  WorkInv'
<1>. SUFFICES ASSUME NEW q, NEW m, q = loader.calls, m = Current PROVE WorkInv'
  BY Zenon
<1>. DEFINE Calls == {"probe", "load", "release"} \X Modules
<1>1. /\ loader.at = "probe" /\ loader.calls # <<>> /\ Head(loader.calls)[1] = "load"
      /\ UNCHANGED <<in_use, refcount, dependency, wq, worker, queue_ref_held, rcu_at, ran, stray, late>>
      /\ NextCall \/ loader' = [at |-> "depend", calls |-> q, todo |-> Requires[m], core |-> 0]
  BY Zenon DEF LoadModule, LoaderGoto
<1>2. \A d \in queue_ref_held : in_use[d] # "none"
  BY Zenon DEF WorkInv, LoaderExact
<1>3. CASE NextCall
  <2>1. /\ loader' \in [at : {"probe", "depend", "count", "mark"}, calls : Seq(Calls),
                        todo : Seq(Modules), core : Workers \cup {0}]
        /\ loader'.at = "probe" /\ LoaderExact'
    BY Zenon, <1>1, <1>2, <1>3, NextCallFacts
  <2>. QED  BY Zenon, <1>1, <2>1, LoaderMoves
<1>4. CASE loader' = [at |-> "depend", calls |-> q, todo |-> Requires[m], core |-> 0]
  <2>1. q \in Seq(Calls) /\ Len(q) \in Nat \ {0} /\ Head(q) = q[1] /\ m \in Modules
    BY <1>1, CallFacts
  <2>2. Requires[m] \in Seq(Modules) /\ IsInjective(Requires[m])
    BY Zenon, <2>1, RankFacts
  <2>3. /\ loader'.at = "depend" /\ loader'.calls = q /\ loader'.todo = Requires[m]
        /\ loader' \in [at : {"probe", "depend", "count", "mark"}, calls : Seq(Calls),
                        todo : Seq(Modules), core : Workers \cup {0}]
    BY Zenon, <1>4, <2>1, <2>2
  <2>4. Current' = m /\ Counted' = {}
    BY Zenon, <2>3 DEF Current, Counted
  <2>5. LoaderExact'
    BY Zenon, <1>1, <2>1, <2>2, <2>3, <2>4 DEF WorkInv, LoaderExact
  <2>. QED  BY Zenon, <1>1, <2>3, <2>4, <2>5, LoaderMoves
<1>. QED  BY Zenon, <1>1, <1>3, <1>4

(* The module is marked loaded: the caller's reference is the list's now.  *)
LEMMA CountModuleTaskInv ==
    ASSUME WorkInv, CountModuleTask
    PROVE  WorkInv'
<1>. SUFFICES ASSUME NEW m, m = Current PROVE WorkInv'
  BY Zenon
<1>1. /\ loader.at = "count" /\ NextCall /\ queue_ref_held' = queue_ref_held \cup {m}
      /\ UNCHANGED <<in_use, refcount, dependency, wq, worker, rcu_at, ran, stray, late>>
  BY Zenon DEF CountModuleTask
<1>2. /\ loader.calls # <<>> /\ in_use[m] # "none" /\ \A d \in queue_ref_held : in_use[d] # "none"
  BY Zenon, <1>1 DEF WorkInv, LoaderExact
<1>3. m \in Modules
  BY Zenon, <1>2, CallFacts
<1>4. /\ loader' \in [at : {"probe", "depend", "count", "mark"},
                      calls : Seq({"probe", "load", "release"} \X Modules),
                      todo : Seq(Modules), core : Workers \cup {0}]
      /\ loader'.at = "probe" /\ LoaderExact'
  BY Zenon, <1>1, <1>2, NextCallFacts
<1>5. WorkTypes' /\ NodesListed' /\ WorkersExact'
  BY ZenonT(30), <1>1, <1>3, <1>4 DEF WorkInv, WorkTypes, NodesListed, WorkersExact
<1>6. \A t : /\ Running(t)' <=> Running(t)
             /\ WorkerOwns(t)' <=> WorkerOwns(t)
             /\ Dependents(t)' = Dependents(t)
             /\ \A c \in Workers : WorkerMarks(c, t)' <=> WorkerMarks(c, t)
  BY Zenon, <1>1 DEF Running, WorkerOwns, Dependents, WorkerMarks
<1>7. \A t : /\ CallerOwns(t)' <=> CallerOwns(t)
             /\ ~Loading(t) /\ ~Loading(t)'
             /\ ~LoaderMarks(t) /\ ~LoaderMarks(t)'
  BY Zenon, <1>1, <1>4 DEF CallerOwns, Loading, LoaderMarks
<1>8. TasksRun'
  BY Zenon, <1>1, <1>6 DEF WorkInv, TasksRun
<1>9. RefsExact'
  BY Zenon, <1>1, <1>6, <1>7 DEF WorkInv, RefsExact, One
<1>10. MarksExact'
  BY Zenon, <1>1, <1>6, <1>7 DEF WorkInv, MarksExact
<1>. QED  BY Zenon, <1>4, <1>5, <1>8, <1>9, <1>10 DEF WorkInv

(* The last reference was the list's: the finished node is marked empty.   *)
LEMMA MarkModuleInv ==
    ASSUME WorkInv, MarkModule
    PROVE  WorkInv'
<1>. SUFFICES ASSUME NEW m, m = Current PROVE WorkInv'
  BY Zenon
<1>1. /\ loader.at = "mark" /\ NextCall
      /\ in_use' = [in_use EXCEPT ![m] = IF in_use[m] = "finished" THEN "empty" ELSE in_use[m]]
      /\ late' = IF in_use[m] = "finished" THEN late ELSE late \cup {m}
      /\ UNCHANGED <<refcount, dependency, wq, worker, queue_ref_held, rcu_at, ran, stray>>
  BY Zenon DEF MarkModule
<1>2. loader.calls # <<>> /\ \A d \in queue_ref_held : in_use[d] # "none" /\ d \in WorkTasks
  BY Zenon, <1>1 DEF WorkInv, LoaderExact, WorkTypes, WorkTasks
<1>3. m \in Modules /\ m \in WorkTasks
  BY Zenon, <1>2, CallFacts DEF WorkTasks
<1>4. LoaderMarks(m) /\ \A u : LoaderMarks(u) => u = m
  BY Zenon, <1>1 DEF LoaderMarks
<1>5. /\ refcount[m] = 0 /\ in_use[m] \in {"busy", "finished"} /\ \A c \in Workers : ~WorkerMarks(c, m)
      /\ \A c \in Workers : ~(worker[c].node = m /\ worker[c].at = "empty")
  BY Zenon, <1>3, <1>4 DEF WorkInv, MarksExact
<1>6. in_use \in [WorkTasks -> {"none", "busy", "finished", "empty", "freed"}]
  BY Zenon DEF WorkInv, WorkTypes
<1>7. /\ \A u \in WorkTasks : u # m => in_use'[u] = in_use[u]
      /\ in_use[m] = "finished" => in_use'[m] = "empty"
      /\ in_use[m] = "busy" => in_use'[m] = "busy" /\ m \in late'
      /\ late \subseteq late'
  BY Zenon, <1>1, <1>3, <1>6
<1>8. /\ \A u \in WorkTasks : /\ in_use'[u] = "none" <=> in_use[u] = "none"
                              /\ in_use'[u] = "busy" <=> in_use[u] = "busy"
                              /\ in_use'[u] = "freed" <=> in_use[u] = "freed"
                              /\ in_use'[u] \in Past <=> in_use[u] \in Past
  BY Zenon, <1>5, <1>7 DEF Past
<1>9. /\ loader' \in [at : {"probe", "depend", "count", "mark"},
                      calls : Seq({"probe", "load", "release"} \X Modules),
                      todo : Seq(Modules), core : Workers \cup {0}]
      /\ loader'.at = "probe" /\ LoaderExact'
  BY Zenon, <1>1, <1>2, <1>8, NextCallFacts
<1>10. WorkTypes'
  <2>1. in_use' \in [WorkTasks -> {"none", "busy", "finished", "empty", "freed"}]
    BY Zenon, <1>1, <1>5, <1>6
  <2>. QED  BY Zenon, <1>1, <1>9, <2>1 DEF WorkInv, WorkTypes
<1>11. NodesListed'
  <2>1. \A e \in Workers : \A u \in Range(wq[e]) : u \in WorkTasks
    BY Zenon, RangeFacts DEF WorkInv, WorkTypes
  <2>. QED  BY Zenon, <1>1, <1>8, <2>1 DEF WorkInv, NodesListed
<1>12. WorkersExact'
  <2>. SUFFICES ASSUME NEW e \in Workers PROVE WorkersExact!(e)'
    BY Zenon DEF WorkersExact
  <2>1. worker[e].node # 0 => worker[e].node \in WorkTasks
    BY Zenon DEF WorkInv, WorkTypes
  <2>2. WorkersExact!(e)
    BY Zenon DEF WorkInv, WorkersExact
  <2>3. worker[e].at \in {"run", "drop", "mark"} => \A x \in Range(dependency[worker[e].node]) : x \in WorkTasks
    BY Zenon, HandFacts
  <2>. QED  BY Zenon, <1>1, <1>8, <2>1, <2>2, <2>3 DEF InHand
<1>13. \A u \in WorkTasks : /\ Running(u)' <=> Running(u)
                            /\ WorkerOwns(u)' <=> WorkerOwns(u)
                            /\ Dependents(u)' = Dependents(u)
                            /\ \A c \in Workers : WorkerMarks(c, u)' <=> WorkerMarks(c, u)
  BY Zenon, <1>1, <1>8 DEF Running, WorkerOwns, Dependents, WorkerMarks
<1>14. \A u : /\ CallerOwns(u)' <=> CallerOwns(u)
              /\ ~Loading(u) /\ ~Loading(u)' /\ ~LoaderMarks(u)'
  BY Zenon, <1>1, <1>9 DEF CallerOwns, Loading, LoaderMarks
<1>15. TasksRun'
  <2>. SUFFICES ASSUME NEW u \in WorkTasks PROVE TasksRun!(u)'
    BY Zenon DEF TasksRun
  <2>1. \A x \in Range(dependency[u]) : x \in WorkTasks
    BY Zenon, RangeFacts DEF WorkInv, WorkTypes, WorkTasks
  <2>2. TasksRun!(u)
    BY Zenon DEF WorkInv, TasksRun
  <2>. QED  BY Zenon, <1>1, <1>8, <1>13, <2>1, <2>2
<1>16. RefsExact'
  <2>. SUFFICES ASSUME NEW u \in WorkTasks PROVE RefsExact!(u)'
    BY Zenon DEF RefsExact
  <2>1. RefsExact!(u)
    BY Zenon DEF WorkInv, RefsExact
  <2>2. in_use'[u] \in {"empty", "freed"} => refcount[u] = 0
    BY Zenon, <1>5, <1>7, <2>1
  <2>. QED  BY Zenon, <1>1, <1>8, <1>13, <1>14, <2>1, <2>2 DEF One
<1>17. MarksExact'
  <2>. SUFFICES ASSUME NEW u \in WorkTasks PROVE MarksExact!(u)'
    BY Zenon DEF MarksExact
  <2>1. MarksExact!(u)
    BY Zenon DEF WorkInv, MarksExact
  <2>2. CASE u = m
    <3>1. \A c \in Workers : worker[c].node = u /\ worker[c].at = "finished" => in_use[u] = "busy"
      BY Zenon, <1>3, <2>2, WorkAssumption DEF WorkInv, WorkersExact, InHand
    <3>2. /\ in_use'[u] # "finished" /\ (in_use[u] = "busy" => u \in late')
          /\ \A c \in Workers : ~WorkerMarks(c, u)
      BY Zenon, <1>5, <1>7, <2>2
    <3>. QED  BY Zenon, <1>1, <1>13, <1>14, <2>1, <3>1, <3>2
  <2>3. CASE u # m
    <3>1. in_use'[u] = in_use[u] /\ ~LoaderMarks(u) /\ (u \notin late' => u \notin late)
      BY Zenon, <1>4, <1>7, <2>3
    <3>. QED  BY Zenon, <1>1, <1>13, <1>14, <2>1, <3>1
  <2>. QED  BY Zenon, <2>2, <2>3
<1>. QED  BY Zenon, <1>9, <1>10, <1>11, <1>12, <1>15, <1>16, <1>17 DEF WorkInv

(* A step of the loader that changes the count of d, on which no mark and  *)
(* no free is under way: what the workers see stays as it is.              *)
LEMMA CountMoves ==
    ASSUME WorkInv, NEW d \in WorkTasks, NEW x \in Nat, refcount' = [refcount EXCEPT ![d] = x], refcount[d] # 0,
           UNCHANGED <<in_use, dependency, wq, worker, ran>>
    PROVE  /\ NodesListed' /\ WorkersExact'
           /\ refcount' \in [WorkTasks -> Nat] /\ refcount'[d] = x
           /\ \A u \in WorkTasks : u # d => refcount'[u] = refcount[u]
           /\ \A u : /\ Running(u)' <=> Running(u)
                     /\ WorkerOwns(u)' <=> WorkerOwns(u)
                     /\ Dependents(u)' = Dependents(u)
                     /\ \A c \in Workers : WorkerMarks(c, u)' <=> WorkerMarks(c, u)
           /\ in_use[d] \notin {"empty", "freed"} /\ ~LoaderMarks(d)
           /\ \A c \in Workers : ~WorkerMarks(c, d) /\ ~(worker[c].node = d /\ worker[c].at = "empty")
<1>1. refcount \in [WorkTasks -> Nat]
  BY Zenon DEF WorkInv, WorkTypes
<1>2. refcount' \in [WorkTasks -> Nat] /\ refcount'[d] = x /\ \A u \in WorkTasks : u # d => refcount'[u] = refcount[u]
  BY Zenon, <1>1
<1>3. NodesListed'
  BY Zenon DEF WorkInv, NodesListed
<1>4. \A c \in Workers : ~(worker[c].node = d /\ worker[c].at = "empty")
  BY Zenon DEF WorkInv, WorkersExact
<1>5. WorkersExact'
  <2>. SUFFICES ASSUME NEW e \in Workers PROVE WorkersExact!(e)'
    BY Zenon DEF WorkersExact
  <2>1. worker[e].node # 0 => worker[e].node \in WorkTasks
    BY Zenon DEF WorkInv, WorkTypes
  <2>2. WorkersExact!(e)
    BY Zenon DEF WorkInv, WorkersExact
  <2>3. worker[e].at = "empty" => refcount'[worker[e].node] = 0
    BY Zenon, <1>2, <1>4, <2>1, <2>2 DEF InHand
  <2>. QED  BY Zenon, <2>2, <2>3
<1>6. \A u : /\ Running(u)' <=> Running(u)
             /\ WorkerOwns(u)' <=> WorkerOwns(u)
             /\ Dependents(u)' = Dependents(u)
             /\ \A c \in Workers : WorkerMarks(c, u)' <=> WorkerMarks(c, u)
  BY Zenon DEF Running, WorkerOwns, Dependents, WorkerMarks
<1>7. in_use[d] \notin {"empty", "freed"} /\ ~LoaderMarks(d) /\ \A c \in Workers : ~WorkerMarks(c, d)
  BY Zenon DEF WorkInv, RefsExact, MarksExact
<1>. QED  BY Zenon, <1>2, <1>3, <1>4, <1>5, <1>6, <1>7

(* The list gives the caller's reference back.                             *)
LEMMA ReleaseModuleInv ==
    ASSUME CountFacts, WorkInv, ReleaseModule
    PROVE  WorkInv'
<1>1. PICK m \in queue_ref_held :
        /\ refcount' = [refcount EXCEPT ![m] = @ - 1]
        /\ queue_ref_held' = queue_ref_held \ {m}
        /\ \/ refcount[m] = 1 /\ loader' = [at |-> "mark", calls |-> <<<<"release", m>>>>, todo |-> <<>>, core |-> 0]
           \/ refcount[m] # 1 /\ loader' = loader
  BY Zenon DEF ReleaseModule, LoaderGoto
<1>2. /\ loader.at = "probe" /\ loader.calls = <<>>
      /\ UNCHANGED <<in_use, dependency, wq, worker, rcu_at, ran, stray, late>>
  BY Zenon DEF ReleaseModule
<1>3. /\ m \in Modules /\ m \in WorkTasks /\ m \notin RcuTasks /\ in_use[m] # "none" /\ CallerOwns(m)
      /\ refcount[m] \in Nat
  BY Zenon, WorkAssumption DEF WorkInv, WorkTypes, WorkTasks, LoaderExact, CallerOwns
<1>4. refcount[m] >= 1
  BY Zenon, <1>3, OwnedCount
<1>5. refcount[m] - 1 \in Nat /\ refcount[m] # 0
  BY <1>3, <1>4
<1>6. /\ NodesListed' /\ WorkersExact'
      /\ refcount' \in [WorkTasks -> Nat] /\ refcount'[m] = refcount[m] - 1
      /\ \A u \in WorkTasks : u # m => refcount'[u] = refcount[u]
      /\ \A u : /\ Running(u)' <=> Running(u)
                /\ WorkerOwns(u)' <=> WorkerOwns(u)
                /\ Dependents(u)' = Dependents(u)
                /\ \A c \in Workers : WorkerMarks(c, u)' <=> WorkerMarks(c, u)
      /\ in_use[m] \notin {"empty", "freed"}
      /\ \A c \in Workers : ~WorkerMarks(c, m) /\ ~(worker[c].node = m /\ worker[c].at = "empty")
  BY Zenon, <1>1, <1>2, <1>3, <1>5, CountMoves
<1>7. <<"release", m>> \in {"probe", "load", "release"} \X Modules
  BY Zenon, <1>3
<1>8. /\ loader'.at \in {"probe", "mark"}
      /\ loader'.at = "mark" <=> refcount[m] = 1
      /\ loader'.at = "mark" => loader'.calls = <<<<"release", m>>>>
      /\ loader'.at = "probe" => loader'.calls = <<>>
  BY <1>1, <1>2
<1>9. loader' \in [at : {"probe", "depend", "count", "mark"},
                   calls : Seq({"probe", "load", "release"} \X Modules),
                   todo : Seq(Modules), core : Workers \cup {0}]
  <2>1. \A S : \A x \in S : <<x>> \in Seq(S)
    OBVIOUS
  <2>2. <<<<"release", m>>>> \in Seq({"probe", "load", "release"} \X Modules)
    BY Zenon, <1>7, <2>1
  <2>3. CASE loader' = loader
    BY Zenon, <2>3 DEF WorkInv, WorkTypes
  <2>4. CASE loader' = [at |-> "mark", calls |-> <<<<"release", m>>>>, todo |-> <<>>, core |-> 0]
    <3>. DEFINE q == <<<<"release", m>>>>
    <3>1. q \in Seq({"probe", "load", "release"} \X Modules) /\ loader' = [at |-> "mark", calls |-> q, todo |-> <<>>, core |-> 0]
      BY Zenon, <2>2, <2>4
    <3>. HIDE DEF q
    <3>. QED  BY <3>1
  <2>. QED  BY Zenon, <1>1, <2>3, <2>4
<1>10. WorkTypes'
  BY Zenon, <1>1, <1>2, <1>6, <1>9 DEF WorkInv, WorkTypes
<1>11. \A u \in WorkTasks :
          /\ CallerOwns(u)' <=> CallerOwns(u) /\ u # m
          /\ ~Loading(u) /\ ~Loading(u)' /\ ~LoaderMarks(u)
          /\ LoaderMarks(u)' <=> u = m /\ refcount[m] = 1
  BY <1>1, <1>2, <1>3, <1>8 DEF CallerOwns, Loading, LoaderMarks, Current
<1>12. TasksRun'
  BY Zenon, <1>2, <1>6 DEF WorkInv, TasksRun
<1>13. RefsExact'
  <2>. SUFFICES ASSUME NEW u \in WorkTasks PROVE RefsExact!(u)'
    BY Zenon DEF RefsExact
  <2>1. RefsExact!(u)
    BY Zenon DEF WorkInv, RefsExact
  <2>2. /\ One(WorkerOwns(u))' = One(WorkerOwns(u)) /\ One(Loading(u))' = One(Loading(u))
        /\ Cardinality(Dependents(u))' = Cardinality(Dependents(u)) /\ stray'[u] = stray[u]
        /\ in_use'[u] = in_use[u]
        /\ One(WorkerOwns(u)) \in Nat /\ One(Loading(u)) \in Nat /\ Cardinality(Dependents(u)) \in Nat
        /\ stray[u] \in Nat
    BY ZenonT(30), <1>2, <1>6, <1>11, DependentsFinite DEF One, WorkInv, WorkTypes
  <2>3. CASE u = m
    <3>1. One(CallerOwns(u))' = 0 /\ One(CallerOwns(u)) = 1 /\ refcount'[u] = refcount[u] - 1
      BY Zenon, <1>3, <1>6, <1>11, <2>3 DEF One
    <3>2. in_use[u] \notin {"empty", "freed"}
      BY Zenon, <1>6, <2>3
    <3>. QED  BY <2>1, <2>2, <3>1, <3>2
  <2>4. CASE u # m
    <3>1. One(CallerOwns(u))' = One(CallerOwns(u)) /\ refcount'[u] = refcount[u]
      BY Zenon, <1>6, <1>11, <2>4 DEF One
    <3>. QED  BY Zenon, <2>1, <2>2, <3>1
  <2>. QED  BY Zenon, <2>3, <2>4
<1>14. MarksExact'
  <2>. SUFFICES ASSUME NEW u \in WorkTasks PROVE MarksExact!(u)'
    BY Zenon DEF MarksExact
  <2>1. MarksExact!(u)
    BY Zenon DEF WorkInv, MarksExact
  <2>2. CASE u = m
    <3>1. /\ refcount'[u] = 0 <=> refcount[m] = 1
          /\ LoaderMarks(u)' <=> refcount[m] = 1
      BY <1>3, <1>6, <1>11, <2>2
    <3>2. in_use[u] \in {"busy", "finished"}
      BY Zenon, <1>3, <1>6, <2>2 DEF WorkInv, WorkTypes
    <3>3. \A c \in Workers : ~WorkerMarks(c, u)' /\ ~(worker[c].node = u /\ worker[c].at = "empty")
      BY Zenon, <1>6, <2>2
    <3>. QED  BY Zenon, <1>2, <3>1, <3>2, <3>3
  <2>3. CASE u # m
    BY Zenon, <1>2, <1>6, <1>11, <2>1, <2>3
  <2>. QED  BY Zenon, <2>2, <2>3
<1>15. LoaderExact'
  <2>1. /\ \A d \in queue_ref_held' : in_use'[d] # "none"
        /\ \A t \in RcuTasks : rcu_at'[t] = "idle" => in_use'[t] = "none"
    BY Zenon, <1>1, <1>2 DEF WorkInv, LoaderExact
  <2>2. CASE loader'.at = "probe"
    BY <1>8, <2>1, <2>2 DEF LoaderExact
  <2>3. CASE loader'.at = "mark"
    <3>1. loader'.calls = <<<<"release", m>>>>
      BY Zenon, <1>8, <2>3
    <3>2. Len(loader'.calls) = 1 /\ loader'.calls # <<>> /\ loader'.calls[1][1] = "release"
      BY <3>1
    <3>. QED  BY <2>1, <2>3, <3>2 DEF LoaderExact
  <2>. QED  BY Zenon, <1>8, <2>2, <2>3
<1>. QED  BY Zenon, <1>6, <1>10, <1>12, <1>13, <1>14, <1>15 DEF WorkInv

(* proccess_elf counts a reference, or gives up and leaves those counted.  *)
LEMMA CountDependencyInv ==
    ASSUME CountFacts, WorkInv, CountDependency
    PROVE  WorkInv'
<1>. SUFFICES ASSUME NEW m, NEW todo, NEW d, m = Current, todo = loader.todo, d = Head(todo) PROVE WorkInv'
  BY Zenon
<1>1. /\ loader.at = "depend" /\ todo # <<>>
      /\ UNCHANGED <<in_use, dependency, wq, worker, queue_ref_held, rcu_at, ran, late>>
      /\ \/ /\ d \in queue_ref_held /\ refcount' = [refcount EXCEPT ![d] = @ + 1] /\ stray' = stray
            /\ loader' = [at |-> "depend", calls |-> loader.calls, todo |-> Tail(todo), core |-> 0]
         \/ /\ d \notin queue_ref_held /\ refcount' = refcount /\ NextCall
            /\ stray' = [t \in WorkTasks |-> IF t \in Counted THEN stray[t] + 1 ELSE stray[t]]
  BY Zenon DEF CountDependency, LoaderGoto
<1>2. /\ loader.calls # <<>> /\ IsInjective(todo) /\ Range(todo) \subseteq Range(Requires[m])
      /\ Counted \subseteq queue_ref_held /\ \A x \in queue_ref_held : in_use[x] # "none"
  BY Zenon, <1>1 DEF WorkInv, LoaderExact
<1>3. /\ todo \in Seq(Modules) /\ refcount \in [WorkTasks -> Nat] /\ stray \in [WorkTasks -> Nat]
      /\ queue_ref_held \subseteq Modules
  BY Zenon DEF WorkInv, WorkTypes
<1>4. /\ d \in Range(todo) /\ d \in Modules /\ Tail(todo) \in Seq(Modules)
      /\ IsInjective(Tail(todo)) /\ Range(Tail(todo)) = Range(todo) \ {d}
  BY Zenon, <1>1, <1>2, <1>3, TailFacts
<1>5. d \in WorkTasks
  BY Zenon, <1>4 DEF WorkTasks
<1>6. \A u : Loading(u) <=> u \in Range(Requires[m]) \ Range(todo)
  BY Zenon, <1>1 DEF Loading, Counted
<1>7. CASE d \in queue_ref_held
  <2>0. /\ refcount' = [refcount EXCEPT ![d] = @ + 1] /\ stray' = stray
        /\ loader' = [at |-> "depend", calls |-> loader.calls, todo |-> Tail(todo), core |-> 0]
    BY Zenon, <1>1, <1>7
  <2>1. refcount[d] >= 1 /\ refcount[d] \in Nat
    BY Zenon, <1>2, <1>3, <1>5, <1>7, OwnedCount DEF CallerOwns
  <2>2. refcount[d] + 1 \in Nat /\ refcount[d] # 0
    BY <2>1
  <2>3. /\ NodesListed' /\ WorkersExact'
        /\ refcount' \in [WorkTasks -> Nat] /\ refcount'[d] = refcount[d] + 1
        /\ \A u \in WorkTasks : u # d => refcount'[u] = refcount[u]
        /\ \A u : /\ Running(u)' <=> Running(u)
                  /\ WorkerOwns(u)' <=> WorkerOwns(u)
                  /\ Dependents(u)' = Dependents(u)
                  /\ \A c \in Workers : WorkerMarks(c, u)' <=> WorkerMarks(c, u)
        /\ in_use[d] \notin {"empty", "freed"}
        /\ \A c \in Workers : ~WorkerMarks(c, d) /\ ~(worker[c].node = d /\ worker[c].at = "empty")
    BY ZenonT(30), <1>1, <1>5, <2>0, <2>2, CountMoves
  <2>4. loader'.at = "depend" /\ loader'.calls = loader.calls /\ loader'.todo = Tail(todo) /\ Current' = m
    BY Zenon, <2>0 DEF Current
  <2>5. \A u : Loading(u)' <=> Loading(u) \/ u = d
    BY Zenon, <1>2, <1>4, <1>6, <2>4 DEF Loading, Counted
  <2>6. \A u : (CallerOwns(u)' <=> CallerOwns(u)) /\ ~LoaderMarks(u) /\ ~LoaderMarks(u)'
    BY Zenon, <1>1, <2>4 DEF CallerOwns, LoaderMarks
  <2>7. WorkTypes'
    <3>1. loader' \in [at : {"probe", "depend", "count", "mark"},
                       calls : Seq({"probe", "load", "release"} \X Modules),
                       todo : Seq(Modules), core : Workers \cup {0}]
      BY Zenon, <1>4, <2>0 DEF WorkInv, WorkTypes
    <3>. QED  BY Zenon, <1>1, <2>0, <2>3, <3>1 DEF WorkInv, WorkTypes
  <2>8. TasksRun'
    BY Zenon, <1>1, <2>0, <2>3 DEF WorkInv, TasksRun
  <2>9. RefsExact'
    <3>. SUFFICES ASSUME NEW u \in WorkTasks PROVE RefsExact!(u)'
      BY Zenon DEF RefsExact
    <3>1. RefsExact!(u)
      BY Zenon DEF WorkInv, RefsExact
    <3>2. /\ One(WorkerOwns(u))' = One(WorkerOwns(u)) /\ One(CallerOwns(u))' = One(CallerOwns(u))
          /\ Cardinality(Dependents(u))' = Cardinality(Dependents(u)) /\ stray'[u] = stray[u]
          /\ in_use'[u] = in_use[u]
          /\ One(WorkerOwns(u)) \in Nat /\ One(CallerOwns(u)) \in Nat /\ Cardinality(Dependents(u)) \in Nat
          /\ stray[u] \in Nat
      BY Zenon, <1>1, <1>3, <2>0, <2>3, <2>6, DependentsFinite DEF One
    <3>3. CASE u = d
      <4>1. One(Loading(u))' = 1 /\ One(Loading(u)) = 0 /\ refcount'[u] = refcount[u] + 1
        BY Zenon, <1>4, <1>6, <2>3, <2>5, <3>3 DEF One
      <4>2. in_use[u] \notin {"empty", "freed"}
        BY Zenon, <2>3, <3>3
      <4>. QED  BY <3>1, <3>2, <4>1, <4>2
    <3>4. CASE u # d
      <4>1. One(Loading(u))' = One(Loading(u)) /\ refcount'[u] = refcount[u]
        BY Zenon, <2>3, <2>5, <3>4 DEF One
      <4>. QED  BY Zenon, <3>1, <3>2, <4>1
    <3>. QED  BY Zenon, <3>3, <3>4
  <2>10. MarksExact'
    <3>. SUFFICES ASSUME NEW u \in WorkTasks PROVE MarksExact!(u)'
      BY Zenon DEF MarksExact
    <3>1. MarksExact!(u)
      BY Zenon DEF WorkInv, MarksExact
    <3>2. CASE u = d
      <4>1. refcount'[u] # 0 /\ \A c \in Workers : ~WorkerMarks(c, u)'
        <5>1. refcount[d] + 1 # 0
          BY <2>1
        <5>. QED  BY Zenon, <2>3, <3>2, <5>1
      <4>. QED  BY Zenon, <2>6, <4>1
    <3>3. CASE u # d
      BY ZenonT(30), <1>1, <2>3, <2>6, <3>1, <3>3
    <3>. QED  BY Zenon, <3>2, <3>3
  <2>11. LoaderExact'
    <3>1. Counted' \subseteq queue_ref_held
      BY Zenon, <1>2, <1>4, <1>6, <1>7, <2>4, <2>5 DEF Loading
    <3>2. Range(Tail(todo)) \subseteq Range(Requires[m])
      BY Zenon, <1>2, <1>4
    <3>. QED  BY ZenonT(30), <1>1, <1>4, <2>4, <3>1, <3>2 DEF WorkInv, LoaderExact
  <2>. QED  BY Zenon, <2>3, <2>7, <2>8, <2>9, <2>10, <2>11 DEF WorkInv
<1>8. CASE d \notin queue_ref_held
  <2>1. /\ refcount' = refcount /\ NextCall
        /\ stray' = [t \in WorkTasks |-> IF Loading(t) THEN stray[t] + 1 ELSE stray[t]]
    BY Zenon, <1>1, <1>8 DEF Loading
  <2>2. /\ loader' \in [at : {"probe", "depend", "count", "mark"},
                        calls : Seq({"probe", "load", "release"} \X Modules),
                        todo : Seq(Modules), core : Workers \cup {0}]
        /\ loader'.at = "probe" /\ LoaderExact'
    BY Zenon, <1>1, <1>2, <2>1, NextCallFacts
  <2>3. stray' \in [WorkTasks -> Nat]
    BY <1>3, <2>1
  <2>4. WorkTypes' /\ NodesListed' /\ WorkersExact'
    BY ZenonT(30), <1>1, <2>1, <2>2, <2>3 DEF WorkInv, WorkTypes, NodesListed, WorkersExact
  <2>5. \A u : /\ Running(u)' <=> Running(u)
               /\ WorkerOwns(u)' <=> WorkerOwns(u)
               /\ Dependents(u)' = Dependents(u)
               /\ \A c \in Workers : WorkerMarks(c, u)' <=> WorkerMarks(c, u)
    BY Zenon, <1>1 DEF Running, WorkerOwns, Dependents, WorkerMarks
  <2>6. \A u : (CallerOwns(u)' <=> CallerOwns(u)) /\ ~LoaderMarks(u) /\ ~LoaderMarks(u)' /\ ~Loading(u)'
    BY Zenon, <1>1, <2>2 DEF CallerOwns, LoaderMarks, Loading
  <2>7. \A u \in WorkTasks : in_use[u] = "none" => ~Loading(u)
    BY Zenon, <1>2 DEF Loading
  <2>8. TasksRun'
    BY Zenon, <1>1, <2>1, <2>5, <2>7 DEF WorkInv, TasksRun
  <2>9. RefsExact'
    <3>. SUFFICES ASSUME NEW u \in WorkTasks PROVE RefsExact!(u)'
      BY Zenon DEF RefsExact
    <3>1. RefsExact!(u)
      BY Zenon DEF WorkInv, RefsExact
    <3>2. /\ One(WorkerOwns(u))' = One(WorkerOwns(u)) /\ One(CallerOwns(u))' = One(CallerOwns(u))
          /\ Cardinality(Dependents(u))' = Cardinality(Dependents(u)) /\ refcount'[u] = refcount[u]
          /\ in_use'[u] = in_use[u]
          /\ One(WorkerOwns(u)) \in Nat /\ One(CallerOwns(u)) \in Nat /\ Cardinality(Dependents(u)) \in Nat
          /\ stray[u] \in Nat
      BY Zenon, <1>1, <1>3, <2>1, <2>5, <2>6, DependentsFinite DEF One
    <3>3. stray'[u] = stray[u] + One(Loading(u)) /\ One(Loading(u)) \in Nat /\ One(Loading(u))' = 0
      BY <1>3, <2>1, <2>6 DEF One
    <3>. QED  BY <3>1, <3>2, <3>3
  <2>10. MarksExact'
    BY Zenon, <1>1, <2>1, <2>5, <2>6 DEF WorkInv, MarksExact
  <2>. QED  BY Zenon, <2>2, <2>4, <2>8, <2>9, <2>10 DEF WorkInv
<1>. QED  BY Zenon, <1>7, <1>8

(* vxAddWorkqueueTask of a task that has no node yet: nobody knows of it.  *)
LEMMA AddNodeFacts ==
    ASSUME WorkInv, NEW t \in WorkTasks, NEW deps, deps = Needs(t), deps \in Seq(Modules), NEW c \in Workers,
           in_use[t] = "none", t \notin Range(deps), \A d \in Range(deps) : in_use[d] # "none",
           AddNode(t, deps, c), UNCHANGED <<worker, ran, stray, late>>
    PROVE  /\ NodesListed' /\ WorkersExact' /\ TasksRun'
           /\ in_use' \in [WorkTasks -> {"none", "busy", "finished", "empty", "freed"}]
           /\ refcount' \in [WorkTasks -> Nat] /\ dependency' \in [WorkTasks -> Seq(Modules)]
           /\ wq' \in [Workers -> Seq(WorkTasks)]
           /\ in_use'[t] = "busy" /\ refcount'[t] = 2 /\ stray'[t] = 0
           /\ WorkerOwns(t)' /\ Dependents(t)' = {}
           /\ \A u \in WorkTasks : u # t => /\ in_use'[u] = in_use[u] /\ refcount'[u] = refcount[u]
                                            /\ WorkerOwns(u)' <=> WorkerOwns(u)
           /\ \A u \in WorkTasks : Dependents(u)' = Dependents(u) \cup (IF u \in Range(deps) THEN {t} ELSE {})
           /\ t \notin Dependents(t) /\ \A u : t \notin Dependents(u)
           /\ \A e \in Workers : /\ worker[e].node # t /\ ~WorkerMarks(e, t) /\ ~WorkerMarks(e, t)'
                                 /\ \A u : WorkerMarks(e, u)' <=> WorkerMarks(e, u)
<1>0. /\ in_use' = [in_use EXCEPT ![t] = "busy"] /\ refcount' = [refcount EXCEPT ![t] = 2]
      /\ dependency' = [dependency EXCEPT ![t] = deps] /\ wq' = [wq EXCEPT ![c] = Append(wq[c], t)]
  BY Zenon DEF AddNode
<1>1. /\ in_use \in [WorkTasks -> {"none", "busy", "finished", "empty", "freed"}]
      /\ refcount \in [WorkTasks -> Nat] /\ dependency \in [WorkTasks -> Seq(Modules)]
      /\ wq \in [Workers -> Seq(WorkTasks)]
      /\ \A e \in Workers : worker[e].node \in WorkTasks \cup {0}
  BY Zenon DEF WorkInv, WorkTypes
<1>2. /\ \A e \in Workers : /\ IsInjective(wq[e]) /\ t \notin Range(wq[e])
                            /\ \A u \in Range(wq[e]) : u \in WorkTasks /\ in_use[u] \notin {"none", "freed"}
      /\ \A e, f \in Workers : e # f => Range(wq[e]) \cap Range(wq[f]) = {}
  BY Zenon, <1>1, RangeFacts DEF WorkInv, NodesListed
<1>3. t # 0
  BY WorkAssumption DEF WorkTasks, Modules
<1>4. \A e \in Workers : worker[e].node # t /\ ~WorkerMarks(e, t)
  BY <1>2, <1>3 DEF WorkInv, WorkersExact, MarksExact
<1>5. /\ in_use'[t] = "busy" /\ refcount'[t] = 2 /\ dependency'[t] = deps
      /\ \A u \in WorkTasks : u # t => in_use'[u] = in_use[u] /\ refcount'[u] = refcount[u] /\ dependency'[u] = dependency[u]
  BY Zenon, <1>0, <1>1
<1>6. /\ Append(wq[c], t) \in Seq(WorkTasks) /\ IsInjective(Append(wq[c], t))
      /\ Range(Append(wq[c], t)) = Range(wq[c]) \cup {t}
  BY <1>1, <1>2, AppendFacts
<1>7. wq'[c] = Append(wq[c], t) /\ \A e \in Workers : e # c => wq'[e] = wq[e]
  BY Zenon, <1>0, <1>1
<1>8. /\ in_use' \in [WorkTasks -> {"none", "busy", "finished", "empty", "freed"}]
      /\ refcount' \in [WorkTasks -> Nat] /\ dependency' \in [WorkTasks -> Seq(Modules)]
      /\ wq' \in [Workers -> Seq(WorkTasks)]
  BY Zenon, <1>0, <1>1, <1>6
<1>9. \A e \in Workers : IsInjective(wq'[e]) /\ Range(wq'[e]) = Range(wq[e]) \cup (IF e = c THEN {t} ELSE {})
  BY Zenon, <1>2, <1>6, <1>7
<1>10. NodesListed'
  <2>1. \A e, f \in Workers : e # f => Range(wq'[e]) \cap Range(wq'[f]) = {}
    <3>. TAKE e, f \in Workers
    <3>. HAVE e # f
    <3>1. Range(wq[e]) \cap Range(wq[f]) = {} /\ t \notin Range(wq[e]) /\ t \notin Range(wq[f])
      BY Zenon, <1>2
    <3>2. CASE e = c
      <4>1. Range(wq'[e]) = Range(wq[e]) \cup {t} /\ Range(wq'[f]) = Range(wq[f])
        BY Zenon, <1>9, <3>2
      <4>. QED  BY Zenon, <3>1, <4>1
    <3>3. CASE e # c
      <4>1. Range(wq'[e]) = Range(wq[e]) /\ Range(wq'[f]) \subseteq Range(wq[f]) \cup {t}
        BY Zenon, <1>9, <3>3
      <4>. QED  BY Zenon, <3>1, <4>1
    <3>. QED  BY Zenon, <3>2, <3>3
  <2>2. \A e \in Workers : \A u \in Range(wq'[e]) : in_use'[u] \notin {"none", "freed"}
    BY <1>2, <1>5, <1>9
  <2>. QED  BY Zenon, <1>9, <2>1, <2>2 DEF NodesListed
<1>11. \A u \in WorkTasks : ran[u] = 1 => u # t
  BY DEF WorkInv, TasksRun, Past
<1>12. WorkersExact'
  <2>. SUFFICES ASSUME NEW e \in Workers PROVE WorkersExact!(e)'
    BY Zenon DEF WorkersExact
  <2>1. WorkersExact!(e)
    BY Zenon DEF WorkInv, WorkersExact
  <2>2. worker[e].at \in {"run", "drop", "mark"} =>
           \A x \in Range(dependency[worker[e].node]) : x \in WorkTasks /\ x # t
    BY Zenon, HandFacts DEF Past
  <2>3. worker[e].node # 0 => worker[e].node \in WorkTasks /\ worker[e].node # t
    BY Zenon, <1>1, <1>4
  <2>4. worker[e].node # 0 => worker[e].node \in Range(wq'[e])
    BY Zenon, <1>9, <2>1
  <2>. QED  BY Zenon, <1>5, <2>1, <2>2, <2>3, <2>4 DEF InHand
<1>13. \A u \in WorkTasks : Running(u)' <=> Running(u)
  BY Zenon DEF Running
<1>14. /\ WorkerOwns(t)' /\ ~WorkerOwns(t)
       /\ \A u \in WorkTasks : u # t => (WorkerOwns(u)' <=> WorkerOwns(u))
  BY Zenon, <1>4, <1>5 DEF WorkerOwns
<1>15. /\ dependency[t] = <<>> /\ stray[t] = 0
       /\ \A u \in WorkTasks : t \notin Range(dependency[u])
  BY Zenon, <1>14 DEF WorkInv, TasksRun
<1>16. TasksRun'
  <2>. SUFFICES ASSUME NEW u \in WorkTasks PROVE TasksRun!(u)'
    BY Zenon DEF TasksRun
  <2>1. TasksRun!(u)
    BY Zenon DEF WorkInv, TasksRun
  <2>2. \A x \in Range(dependency[u]) : x \in WorkTasks
    BY ZenonT(30), RangeFacts DEF WorkInv, WorkTypes, WorkTasks
  <2>3. CASE u = t
    <3>1. in_use'[u] = "busy" /\ ~Running(u)' /\ ran[u] = 0 /\ dependency'[u] = Needs(u) /\ WorkerOwns(u)'
      <4>1. ~Running(t) /\ ran[t] = 0
        BY Zenon, <1>4 DEF Running, WorkInv, TasksRun, Past
      <4>. QED  BY Zenon, <1>5, <1>13, <1>14, <2>3, <4>1
    <3>2. \A x \in Range(dependency'[u]) : x \in WorkTasks /\ x # t /\ in_use'[x] # "none"
      <4>1. \A x \in Range(deps) : x \in Modules
        BY Zenon, RangeFacts
      <4>. QED  BY Zenon, <1>5, <2>3, <4>1 DEF WorkTasks
    <3>. QED  BY <3>1, <3>2 DEF Past
  <2>4. CASE u # t
    <3>1. \A x \in Range(dependency[u]) : in_use'[x] # "none"
      BY Zenon, <1>5, <1>15, <2>1, <2>2
    <3>2. in_use'[u] = in_use[u] /\ dependency'[u] = dependency[u] /\ (WorkerOwns(u)' <=> WorkerOwns(u))
      BY Zenon, <1>5, <1>14, <2>4
    <3>. QED  BY Zenon, <1>13, <2>1, <3>1, <3>2
  <2>. QED  BY Zenon, <2>3, <2>4
<1>17. \A u \in WorkTasks : Dependents(u)' = Dependents(u) \cup (IF u \in Range(deps) THEN {t} ELSE {})
  <2>. TAKE u \in WorkTasks
  <2>1. \A m \in Modules : m # t => dependency'[m] = dependency[m]
    BY Zenon, <1>5 DEF WorkTasks
  <2>2. \A e \in Workers : \A m : Keeps(e, m, u)' <=> Keeps(e, m, u)
    BY Zenon DEF Keeps
  <2>3. \A e \in Workers : Keeps(e, t, u)
    BY Zenon, <1>4 DEF Keeps
  <2>4. Dependents(u)' = {m \in Modules : u \in Range(dependency'[m]) /\ \A e \in Workers : Keeps(e, m, u)'}
    BY Zenon DEF Dependents, Keeps
  <2>5. u \in Range(deps) => t \in Modules
    BY Zenon, EmptyFacts DEF Needs
  <2>6. Dependents(u) = {m \in Modules : u \in Range(dependency[m]) /\ \A e \in Workers : Keeps(e, m, u)}
    BY Zenon, DependentsAre
  <2>7. u \notin Range(dependency[t])
    BY Zenon, <1>15, EmptyFacts
  <2>. QED  BY Zenon, <1>5, <2>1, <2>2, <2>3, <2>4, <2>5, <2>6, <2>7
<1>18. \A u : t \notin Dependents(u)
  BY Zenon, <1>15, EmptyFacts DEF Dependents
<1>19. Dependents(t)' = {}
  <2>1. Dependents(t) = {}
    BY Zenon, <1>15 DEF Dependents, WorkTasks
  <2>. QED  BY Zenon, <1>17, <2>1
<1>20. \A e \in Workers : \A u : WorkerMarks(e, u)' <=> WorkerMarks(e, u)
  BY Zenon DEF WorkerMarks
<1>21. stray'[t] = 0 /\ \A e \in Workers : worker[e].node # t /\ ~WorkerMarks(e, t) /\ ~WorkerMarks(e, t)'
  BY Zenon, <1>4, <1>15, <1>20
<1>. QED  BY Zenon, <1>5, <1>8, <1>10, <1>12, <1>14, <1>16, <1>17, <1>18, <1>19, <1>20, <1>21

(* proccess_elf adds the module's task: the references counted for the load *)
(* become the dependents' of the node.                                     *)
LEMMA AddModuleTaskInv ==
    ASSUME CountFacts, WorkInv, NEW c \in Workers, AddModuleTask(c)
    PROVE  WorkInv'
<1>. SUFFICES ASSUME NEW t, t = Current, NEW deps, deps = Requires[t] PROVE WorkInv'
  BY Zenon
<1>1. /\ loader.at = "depend" /\ loader.todo = <<>> /\ AddNode(t, deps, c)
      /\ loader' = [at |-> "count", calls |-> loader.calls, todo |-> <<>>, core |-> c]
      /\ UNCHANGED <<worker, queue_ref_held, rcu_at, ran, stray, late>>
  BY Zenon DEF AddModuleTask, LoaderGoto
<1>2. loader.calls # <<>> /\ loader.calls[1][1] = "load"
  BY Zenon, <1>1 DEF WorkInv, LoaderExact
<1>3. /\ t \in Modules /\ t \in WorkTasks /\ loader.calls[1][2] = t
      /\ loader.calls \in Seq({"probe", "load", "release"} \X Modules) /\ Len(loader.calls) \in Nat
      /\ 1 \in 1 .. Len(loader.calls)
  <2>1. loader.calls \in Seq({"probe", "load", "release"} \X Modules)
    BY Zenon DEF WorkInv, WorkTypes
  <2>2. Len(loader.calls) \in Nat /\ 1 \in 1 .. Len(loader.calls) /\ loader.calls[1] = Head(loader.calls)
    BY <1>2, <2>1
  <2>3. t \in Modules
    BY Zenon, <1>2, CallFacts
  <2>. QED  BY Zenon, <2>1, <2>2, <2>3 DEF Current, WorkTasks
<1>4. in_use[t] = "none"
  BY Zenon, <1>1, <1>2, <1>3 DEF WorkInv, LoaderExact
<1>5. deps = Needs(t) /\ deps \in Seq(Modules) /\ t \notin Range(deps)
  BY <1>3, RankFacts DEF Needs
<1>6. Counted = Range(deps) /\ Range(deps) \subseteq queue_ref_held /\ \A d \in queue_ref_held : in_use[d] # "none"
  BY Zenon, <1>1, EmptyFacts DEF WorkInv, LoaderExact, Counted
<1>7. \A d \in Range(deps) : in_use[d] # "none"
  BY Zenon, <1>6
<1>8. /\ NodesListed' /\ WorkersExact' /\ TasksRun'
      /\ in_use' \in [WorkTasks -> {"none", "busy", "finished", "empty", "freed"}]
      /\ refcount' \in [WorkTasks -> Nat] /\ dependency' \in [WorkTasks -> Seq(Modules)]
      /\ wq' \in [Workers -> Seq(WorkTasks)]
      /\ in_use'[t] = "busy" /\ refcount'[t] = 2 /\ stray'[t] = 0
      /\ WorkerOwns(t)' /\ Dependents(t)' = {}
      /\ \A u \in WorkTasks : u # t => /\ in_use'[u] = in_use[u] /\ refcount'[u] = refcount[u]
                                       /\ WorkerOwns(u)' <=> WorkerOwns(u)
      /\ \A u \in WorkTasks : Dependents(u)' = Dependents(u) \cup (IF u \in Range(deps) THEN {t} ELSE {})
      /\ \A u : t \notin Dependents(u)
      /\ \A e \in Workers : /\ worker[e].node # t /\ ~WorkerMarks(e, t) /\ ~WorkerMarks(e, t)'
                            /\ \A u : WorkerMarks(e, u)' <=> WorkerMarks(e, u)
  BY Zenon, <1>1, <1>3, <1>4, <1>5, <1>7, AddNodeFacts
<1>9. /\ loader'.at = "count" /\ loader'.calls = loader.calls /\ loader'.todo = <<>> /\ Current' = t
  BY Zenon, <1>1 DEF Current
<1>10. WorkTypes'
  <2>1. loader' \in [at : {"probe", "depend", "count", "mark"},
                     calls : Seq({"probe", "load", "release"} \X Modules),
                     todo : Seq(Modules), core : Workers \cup {0}]
    BY <1>1, <1>3
  <2>. QED  BY Zenon, <1>1, <1>8, <2>1 DEF WorkInv, WorkTypes
<1>11. \A u \in WorkTasks : /\ CallerOwns(u)' <=> CallerOwns(u) \/ u = t
                            /\ ~Loading(u)' /\ (Loading(u) <=> u \in Range(deps))
                            /\ ~LoaderMarks(u) /\ ~LoaderMarks(u)'
  BY Zenon, <1>1, <1>6, <1>9 DEF CallerOwns, Loading, LoaderMarks
<1>12. RefsExact'
  <2>. SUFFICES ASSUME NEW u \in WorkTasks PROVE RefsExact!(u)'
    BY Zenon DEF RefsExact
  <2>1. RefsExact!(u)
    BY Zenon DEF WorkInv, RefsExact
  <2>2. CASE u = t
    <3>1. WorkerOwns(u)' /\ CallerOwns(u)' /\ Cardinality(Dependents(u)') = 0 /\ ~Loading(u)' /\ stray'[u] = 0
      BY Zenon, <1>8, <1>11, <2>2 DEF CountFacts
    <3>2. refcount'[u] = 2 /\ in_use'[u] = "busy"
      BY Zenon, <1>8, <2>2
    <3>. QED  BY <3>1, <3>2 DEF One
  <2>3. CASE u # t
    <3>1. /\ in_use'[u] = in_use[u] /\ refcount'[u] = refcount[u] /\ stray'[u] = stray[u]
          /\ One(WorkerOwns(u))' = One(WorkerOwns(u)) /\ One(WorkerOwns(u)) \in Nat
          /\ One(CallerOwns(u))' = One(CallerOwns(u)) /\ One(CallerOwns(u)) \in Nat
      BY Zenon, <1>1, <1>8, <1>11, <2>3 DEF One
    <3>2. Dependents(u) \subseteq Modules /\ Cardinality(Dependents(u)) \in Nat
      BY Zenon, DependentsFinite
    <3>3. Cardinality(Dependents(u)') + One(Loading(u))' = Cardinality(Dependents(u)) + One(Loading(u))
      <4>1. CASE u \in Range(deps)
        <5>1. Dependents(u)' = Dependents(u) \cup {t} /\ t \notin Dependents(u)
          BY Zenon, <1>8, <4>1
        <5>2. Cardinality(Dependents(u)') = Cardinality(Dependents(u)) + 1
          BY Zenon, <1>3, <3>2, <5>1 DEF CountFacts
        <5>3. One(Loading(u))' = 0 /\ One(Loading(u)) = 1
          BY Zenon, <1>11, <4>1 DEF One
        <5>. QED  BY <3>2, <5>2, <5>3
      <4>2. CASE u \notin Range(deps)
        <5>1. Dependents(u)' = Dependents(u)
          BY ZenonT(30), <1>8, <4>2
        <5>2. One(Loading(u))' = 0 /\ One(Loading(u)) = 0
          BY Zenon, <1>11, <4>2 DEF One
        <5>. QED  BY Zenon, <5>1, <5>2
      <4>. QED  BY Zenon, <4>1, <4>2
    <3>4. One(Loading(u))' \in Nat /\ One(Loading(u)) \in Nat /\ Cardinality(Dependents(u)') \in Nat /\ stray[u] \in Nat
      <4>1. One(Loading(u))' \in Nat /\ One(Loading(u)) \in Nat
        BY Zenon DEF One
      <4>2. Dependents(u)' \subseteq Modules
        BY Zenon DEF Dependents
      <4>. QED  BY Zenon, <4>1, <4>2 DEF CountFacts, WorkInv, WorkTypes
    <3>. QED  BY <2>1, <3>1, <3>2, <3>3, <3>4
  <2>. QED  BY Zenon, <2>2, <2>3
<1>13. MarksExact'
  <2>. SUFFICES ASSUME NEW u \in WorkTasks PROVE MarksExact!(u)'
    BY Zenon DEF MarksExact
  <2>1. MarksExact!(u)
    BY Zenon DEF WorkInv, MarksExact
  <2>2. CASE u = t
    BY Zenon, <1>1, <1>8, <1>11, <2>2
  <2>3. CASE u # t
    <3>1. in_use'[u] = in_use[u] /\ refcount'[u] = refcount[u] /\ ~LoaderMarks(u) /\ ~LoaderMarks(u)'
      BY Zenon, <1>8, <1>11, <2>3
    <3>. QED  BY ZenonT(30), <1>1, <1>8, <2>1, <3>1
  <2>. QED  BY Zenon, <2>2, <2>3
<1>14. LoaderExact'
  <2>0. \A i \in 1 .. Len(loader.calls) : loader.calls[i][2] \in Modules
    BY <1>3
  <2>1. \A i \in 1 .. Len(loader.calls) : i # 1 /\ loader.calls[i][1] = "load" =>
           in_use[loader.calls[i][2]] = "none" /\ loader.calls[i][2] # t
    <3>. SUFFICES ASSUME NEW i \in 1 .. Len(loader.calls), i # 1, loader.calls[i][1] = "load"
                  PROVE  in_use[loader.calls[i][2]] = "none" /\ loader.calls[i][2] # t
      BY Zenon
    <3>1. in_use[loader.calls[i][2]] = "none" /\ Rank[loader.calls[1][2]] < Rank[loader.calls[i][2]]
      BY <1>3 DEF WorkInv, LoaderExact
    <3>. QED  BY <1>3, <3>1, RankFacts
  <2>2. \A i \in 1 .. Len(loader.calls) : i # 1 /\ loader.calls[i][1] = "load" => in_use'[loader.calls[i][2]] = "none"
    BY Zenon, <1>8, <2>0, <2>1 DEF WorkTasks
  <2>3. \A m \in Modules : in_use[m] = "none" \/ m \in queue_ref_held
    BY Zenon, <1>1, <1>2 DEF WorkInv, LoaderExact
  <2>4. \A m \in Modules : in_use'[m] = "none" \/ m \in queue_ref_held \/ m = t
    BY ZenonT(30), <1>8, <2>3 DEF WorkTasks
  <2>5. \A m \in queue_ref_held : in_use'[m] # "none"
    BY Zenon, <1>6, <1>8 DEF WorkInv, WorkTypes, WorkTasks
  <2>6. \A u \in RcuTasks : rcu_at[u] = "idle" => in_use'[u] = "none"
    BY ZenonT(30), <1>3, <1>8, WorkAssumption DEF WorkInv, LoaderExact, WorkTasks
  <2>7. \A i, j \in 1 .. Len(loader.calls) : i < j /\ loader.calls[j][1] = "load" => Rank[loader.calls[i][2]] < Rank[loader.calls[j][2]]
    BY Zenon DEF WorkInv, LoaderExact
  <2>8. /\ loader'.at = "count" /\ loader'.calls = loader.calls /\ Current' = t /\ in_use'[t] # "none"
        /\ queue_ref_held' = queue_ref_held /\ rcu_at' = rcu_at
    BY Zenon, <1>1, <1>8, <1>9
  <2>. QED  BY Zenon, <1>2, <2>2, <2>4, <2>5, <2>6, <2>7, <2>8 DEF LoaderExact
<1>. QED  BY Zenon, <1>8, <1>10, <1>12, <1>13, <1>14 DEF WorkInv

(* call_rcu adds a task that depends on nothing, and never gives back the  *)
(* caller's reference.                                                     *)
LEMMA RcuAddInv ==
    ASSUME CountFacts, WorkInv, NEW t \in RcuTasks, NEW c \in Workers, RcuAdd(t, c)
    PROVE  WorkInv'
<1>1. /\ rcu_at[t] = "idle" /\ AddNode(t, <<>>, c) /\ rcu_at' = [rcu_at EXCEPT ![t] = c]
      /\ UNCHANGED <<worker, loader, queue_ref_held, ran, stray, late>>
  BY Zenon DEF RcuAdd
<1>2. t \in WorkTasks /\ t \notin Modules /\ c \notin {"idle", "done"}
  BY Zenon, WorkAssumption DEF WorkTasks
<1>3. in_use[t] = "none"
  BY Zenon, <1>1 DEF WorkInv, LoaderExact
<1>4. <<>> = Needs(t) /\ <<>> \in Seq(Modules) /\ Range(<<>>) = {}
  BY <1>2, EmptyFacts DEF Needs
<1>5. /\ NodesListed' /\ WorkersExact' /\ TasksRun'
      /\ in_use' \in [WorkTasks -> {"none", "busy", "finished", "empty", "freed"}]
      /\ refcount' \in [WorkTasks -> Nat] /\ dependency' \in [WorkTasks -> Seq(Modules)]
      /\ wq' \in [Workers -> Seq(WorkTasks)]
      /\ in_use'[t] = "busy" /\ refcount'[t] = 2 /\ stray'[t] = 0
      /\ WorkerOwns(t)' /\ Dependents(t)' = {}
      /\ \A u \in WorkTasks : u # t => /\ in_use'[u] = in_use[u] /\ refcount'[u] = refcount[u]
                                       /\ WorkerOwns(u)' <=> WorkerOwns(u)
      /\ \A u \in WorkTasks : Dependents(u)' = Dependents(u) \cup (IF u \in Range(<<>>) THEN {t} ELSE {})
      /\ \A e \in Workers : /\ worker[e].node # t /\ ~WorkerMarks(e, t) /\ ~WorkerMarks(e, t)'
                            /\ \A u : WorkerMarks(e, u)' <=> WorkerMarks(e, u)
  <2>1. t \notin Range(<<>>) /\ \A d \in Range(<<>>) : in_use[d] # "none"
    BY Zenon, <1>4
  <2>. QED  BY Zenon, <1>1, <1>2, <1>3, <1>4, <2>1, AddNodeFacts
<1>6. \A u \in WorkTasks : Dependents(u)' = Dependents(u)
  BY ZenonT(30), <1>4, <1>5
<1>7. rcu_at' \in [RcuTasks -> Workers \cup {"idle", "done"}] /\ \A u \in RcuTasks : rcu_at'[u] = "idle" => rcu_at[u] = "idle" /\ u # t
  BY Zenon, <1>1, <1>2 DEF WorkInv, WorkTypes
<1>8. WorkTypes'
  BY Zenon, <1>1, <1>5, <1>7 DEF WorkInv, WorkTypes
<1>9. \A u : (CallerOwns(u)' <=> CallerOwns(u)) /\ (Loading(u)' <=> Loading(u)) /\ (LoaderMarks(u)' <=> LoaderMarks(u))
  BY Zenon, <1>1 DEF CallerOwns, Loading, Counted, Current, LoaderMarks
<1>10. CallerOwns(t) /\ ~Loading(t) /\ ~LoaderMarks(t)
  <2>1. CallerOwns(t)
    BY Zenon DEF CallerOwns
  <2>2. loader.at \in {"depend", "mark"} => loader.calls # <<>>
    BY Zenon DEF WorkInv, LoaderExact
  <2>3. loader.at \in {"depend", "mark"} => Current \in Modules
    BY Zenon, <2>2, CallFacts
  <2>4. loader.at = "depend" => Counted \subseteq Modules
    BY Zenon, <2>3, RankFacts DEF Counted
  <2>. QED  BY Zenon, <1>2, <2>1, <2>3, <2>4 DEF Loading, LoaderMarks
<1>11. RefsExact'
  <2>. SUFFICES ASSUME NEW u \in WorkTasks PROVE RefsExact!(u)'
    BY Zenon DEF RefsExact
  <2>1. RefsExact!(u)
    BY Zenon DEF WorkInv, RefsExact
  <2>2. CASE u = t
    <3>1. WorkerOwns(u)' /\ CallerOwns(u)' /\ Cardinality(Dependents(u)') = 0 /\ ~Loading(u)' /\ stray'[u] = 0
      BY Zenon, <1>5, <1>9, <1>10, <2>2 DEF CountFacts
    <3>2. refcount'[u] = 2 /\ in_use'[u] = "busy"
      BY Zenon, <1>5, <2>2
    <3>. QED  BY <3>1, <3>2 DEF One
  <2>3. CASE u # t
    <3>1. /\ in_use'[u] = in_use[u] /\ refcount'[u] = refcount[u] /\ stray'[u] = stray[u]
          /\ Dependents(u)' = Dependents(u)
          /\ One(WorkerOwns(u))' = One(WorkerOwns(u))
          /\ One(CallerOwns(u))' = One(CallerOwns(u))
          /\ One(Loading(u))' = One(Loading(u))
      BY Zenon, <1>1, <1>5, <1>6, <1>9, <2>3 DEF One
    <3>. QED  BY Zenon, <2>1, <3>1
  <2>. QED  BY Zenon, <2>2, <2>3
<1>12. MarksExact'
  <2>. SUFFICES ASSUME NEW u \in WorkTasks PROVE MarksExact!(u)'
    BY Zenon DEF MarksExact
  <2>1. MarksExact!(u)
    BY Zenon DEF WorkInv, MarksExact
  <2>2. CASE u = t
    BY Zenon, <1>1, <1>5, <1>9, <1>10, <2>2
  <2>3. CASE u # t
    <3>1. in_use'[u] = in_use[u] /\ refcount'[u] = refcount[u] /\ (LoaderMarks(u)' <=> LoaderMarks(u))
      BY Zenon, <1>5, <1>9, <2>3
    <3>. QED  BY Zenon, <1>1, <1>5, <2>1, <3>1
  <2>. QED  BY Zenon, <2>2, <2>3
<1>13. \A m \in Modules : in_use'[m] = in_use[m]
  BY Zenon, <1>2, <1>5 DEF WorkTasks
<1>14. LoaderExact'
  <2>0. loader.at # "probe" => Current \in Modules
    BY Zenon, CallFacts DEF WorkInv, LoaderExact
  <2>1. \A i \in 1 .. Len(loader.calls) : loader.calls[i][2] \in Modules
    BY DEF WorkInv, WorkTypes
  <2>2. \A i \in 1 .. Len(loader.calls) :
           loader.calls[i][1] = "load" /\ ~(i = 1 /\ loader.at = "count") => in_use'[loader.calls[i][2]] = "none"
    BY Zenon, <1>13, <2>1 DEF WorkInv, LoaderExact
  <2>3. \A u \in RcuTasks : rcu_at'[u] = "idle" => in_use'[u] = "none"
    BY ZenonT(30), <1>5, <1>7 DEF WorkInv, LoaderExact, WorkTasks
  <2>4. \A m \in queue_ref_held : in_use'[m] # "none"
    BY ZenonT(30), <1>13 DEF WorkInv, LoaderExact, WorkTypes
  <2>5. loader.at = "count" => in_use'[Current] # "none"
    BY Zenon, <1>13, <2>0 DEF WorkInv, LoaderExact
  <2>6. Current' = Current /\ Counted' = Counted
    BY Zenon, <1>1 DEF Current, Counted
  <2>. QED  BY Zenon, <1>1, <1>13, <2>2, <2>3, <2>4, <2>5, <2>6 DEF WorkInv, LoaderExact
<1>. QED  BY Zenon, <1>5, <1>8, <1>11, <1>12, <1>14 DEF WorkInv
=============================================================================
