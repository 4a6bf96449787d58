------------------------ MODULE WorkQueueCountProofs ------------------------
(***************************************************************************)
(* The work queues, where nodes are counted. The sets of modules are       *)
(* finite, the cleanup pass compacts a list, and with the lemmas of        *)
(* WorkQueueProofs every step keeps WorkInv: the theorem.                  *)
(***************************************************************************)
EXTENDS WorkQueueProofs, FiniteSetTheorems

(* The library's facts about finite sets, for the sets of modules.         *)
LEMMA CountFactsHold == CountFacts
<1>1. IsFiniteSet(Modules)
  BY WorkAssumption, FS_Interval DEF Modules
<1>2. IsFiniteSet({}) /\ Cardinality({}) = 0
  BY Zenon, FS_EmptySet
<1>3. ASSUME NEW S \in SUBSET Modules
      PROVE  /\ Cardinality(S) \in Nat
             /\ Cardinality(S) = 0 => S = {}
             /\ \A m \in Modules \ S : Cardinality(S \cup {m}) = Cardinality(S) + 1
             /\ \A m \in S : Cardinality(S \ {m}) = Cardinality(S) - 1
  <2>1. IsFiniteSet(S)
    BY Zenon, <1>1, FS_Subset
  <2>2. Cardinality(S) \in Nat
    BY Zenon, <2>1, FS_CardinalityType
  <2>3. Cardinality(S) = 0 => S = {}
    BY Zenon, <2>1, FS_EmptySet
  <2>4. \A m \in Modules \ S : Cardinality(S \cup {m}) = Cardinality(S) + 1
    BY Zenon, <2>1, FS_AddElement
  <2>5. \A m \in S : Cardinality(S \ {m}) = Cardinality(S) - 1
    BY Zenon, <2>1, FS_RemoveElement
  <2>. QED  BY Zenon, <2>2, <2>3, <2>4, <2>5
<1>. QED  BY Zenon, <1>2, <1>3 DEF CountFacts

(* The cleanup pass keeps the nodes it does not unlink, each once.         *)
LEMMA UnlinkFacts ==
    ASSUME NEW S, NEW s \in Seq(S), IsInjective(s), NEW gone
    PROVE  /\ Unlink(s, gone) \in Seq(S) /\ IsInjective(Unlink(s, gone))
           /\ Range(Unlink(s, gone)) = Range(s) \ gone
<1>. DEFINE left == {i \in 1 .. Len(s) : s[i] \notin gone}
            Below(i) == {j \in left : j < i}
            k == Cardinality(left)
            R == 0 .. k - 1
            r == [i \in left |-> Cardinality(Below(i))]
            Nth(n) == CHOOSE i \in left : Cardinality(Below(i)) = n - 1
            w == Unlink(s, gone)
<1>1. /\ Len(s) \in Nat /\ IsFiniteSet(1 .. Len(s)) /\ \A i \in left : i \in Nat
  BY FS_Interval
<1>2. IsFiniteSet(left) /\ k \in Nat
  BY Zenon, <1>1, FS_Subset, FS_CardinalityType
<1>3. ASSUME NEW i \in left
      PROVE  /\ IsFiniteSet(Below(i)) /\ Cardinality(Below(i)) \in Nat
             /\ Cardinality(Below(i)) < k
  <2>1. Below(i) \subseteq left \ {i} /\ Below(i) \subseteq left
    BY <1>1
  <2>2. IsFiniteSet(left \ {i}) /\ Cardinality(left \ {i}) = k - 1
    BY Zenon, <1>2, FS_RemoveElement
  <2>3. IsFiniteSet(Below(i)) /\ Cardinality(Below(i)) <= k - 1
    BY <2>1, <2>2, FS_Subset
  <2>4. Cardinality(Below(i)) \in Nat
    BY Zenon, <2>3, FS_CardinalityType
  <2>. HIDE DEF Below, k
  <2>. QED  BY <1>2, <2>3, <2>4
<1>4. ASSUME NEW i \in left, NEW j \in left, i < j
      PROVE  Cardinality(Below(i)) < Cardinality(Below(j))
  <2>1. Below(i) \cup {i} \subseteq Below(j) /\ i \notin Below(i)
    BY <1>1, <1>4
  <2>2. IsFiniteSet(Below(i) \cup {i}) /\ Cardinality(Below(i) \cup {i}) = Cardinality(Below(i)) + 1
    BY Zenon, <1>3, <2>1, FS_AddElement
  <2>3. Cardinality(Below(i) \cup {i}) <= Cardinality(Below(j))
    BY Zenon, <1>3, <2>1, FS_Subset
  <2>. HIDE DEF Below, left
  <2>. QED  BY <1>3, <1>4, <2>2, <2>3
<1>5. w = [n \in 1 .. k |-> s[Nth(n)]]
  BY Zenon DEF Unlink
<1>. HIDE DEF Below, k, w
<1>6. r \in Injection(left, R)
  <2>. HIDE DEF left
  <2>1. r \in [left -> R]
    BY <1>2, <1>3
  <2>2. \A i, j \in left : i < j => r[i] < r[j]
    BY Zenon, <1>4
  <2>3. \A i \in left : r[i] \in Nat
    BY Zenon, <1>3
  <2>. HIDE DEF r
  <2>4. \A i, j \in left : r[i] = r[j] => i = j
    BY <1>1, <2>2, <2>3
  <2>. QED  BY Zenon, <2>1, <2>4 DEF Injection, IsInjective
<1>7. IsFiniteSet(R) /\ Cardinality(R) = k
  <2>1. 0 \in Int /\ k - 1 \in Int
    BY <1>2
  <2>2. IsFiniteSet(R) /\ Cardinality(R) = IF 0 > k - 1 THEN 0 ELSE (k - 1) - 0 + 1
    BY Zenon, <2>1, FS_Interval
  <2>. QED  BY <1>2, <2>2
<1>8. r \in Surjection(left, R)
  <2>. HIDE DEF r, R, left
  <2>. QED  BY Zenon, <1>2, <1>6, <1>7, FS_Injection DEF k
<1>9. /\ \A i \in left : r[i] \in R /\ r[i] = Cardinality(Below(i))
      /\ \A i, j \in left : r[i] = r[j] => i = j
      /\ \A x \in R : \E i \in left : r[i] = x
  BY Zenon, <1>6, <1>8 DEF Injection, IsInjective, Surjection
<1>. HIDE DEF r
<1>10. \A n \in 1 .. k : Nth(n) \in left /\ r[Nth(n)] = n - 1
  <2>. HIDE DEF left
  <2>. SUFFICES ASSUME NEW n \in 1 .. k PROVE Nth(n) \in left /\ r[Nth(n)] = n - 1
    BY Zenon
  <2>1. n - 1 \in R
    BY <1>2
  <2>2. \E i \in left : Cardinality(Below(i)) = n - 1
    BY Zenon, <1>9, <2>1
  <2>. QED  BY Zenon, <1>9, <2>2
<1>. HIDE DEF Nth
<1>11. \A i \in left : r[i] + 1 \in 1 .. k /\ Nth(r[i] + 1) = i
  <2>. HIDE DEF left
  <2>. TAKE i \in left
  <2>1. r[i] \in R
    BY Zenon, <1>9
  <2>2. r[i] + 1 \in 1 .. k /\ (r[i] + 1) - 1 = r[i]
    BY <1>2, <2>1
  <2>. QED  BY ZenonT(30), <1>9, <1>10, <2>2
<1>12. \A i \in 1 .. Len(s) : s[i] \in S /\ \A j \in 1 .. Len(s) : s[i] = s[j] => i = j
  BY Zenon, RangeFacts
<1>13. w \in Seq(S) /\ Len(w) = k
  BY <1>2, <1>5, <1>10, <1>12
<1>14. IsInjective(w)
  <2>1. ASSUME NEW i \in 1 .. k, NEW j \in 1 .. k, w[i] = w[j] PROVE i = j
    <3>1. Nth(i) = Nth(j)
      BY Zenon, <1>5, <1>10, <1>12, <2>1
    <3>2. i - 1 = j - 1
      BY Zenon, <1>10, <3>1
    <3>. QED  BY <3>2
  <2>. QED  BY Zenon, <1>13, <2>1, RangeFacts
<1>15. Range(w) = Range(s) \ gone
  <2>1. \A x : x \in Range(w) <=> \E i \in 1 .. k : w[i] = x
    BY Zenon, <1>13, RangeFacts
  <2>2. \A x : x \in Range(s) <=> \E i \in 1 .. Len(s) : s[i] = x
    BY Zenon, RangeFacts
  <2>3. ASSUME NEW x \in Range(w) PROVE x \in Range(s) \ gone
    BY Zenon, <1>5, <1>10, <2>1, <2>2, <2>3
  <2>4. ASSUME NEW x \in Range(s), x \notin gone PROVE x \in Range(w)
    <3>1. PICK i \in 1 .. Len(s) : s[i] = x
      BY Zenon, <2>2, <2>4
    <3>2. i \in left
      BY Zenon, <2>4, <3>1
    <3>3. w[r[i] + 1] = x /\ r[i] + 1 \in 1 .. k
      BY Zenon, <1>5, <1>11, <3>1, <3>2
    <3>. QED  BY Zenon, <2>1, <3>3
  <2>. QED  BY Zenon, <2>3, <2>4
<1>. QED  BY Zenon, <1>13, <1>14, <1>15 DEF w

(* The cleanup pass frees the empty nodes of its list.                     *)
LEMMA CleanupInv ==
    ASSUME WorkInv, NEW c \in Workers, Cleanup(c)
    PROVE  WorkInv'
<1>. SUFFICES ASSUME NEW gone, gone = {t \in Range(wq[c]) : in_use[t] = "empty" /\ refcount[t] = 0} PROVE WorkInv'
  BY Zenon
<1>a. /\ worker[c].at = "scan"
      /\ in_use' = [t \in WorkTasks |-> IF t \in gone THEN "freed" ELSE in_use[t]]
      /\ wq' = [wq EXCEPT ![c] = Unlink(wq[c], gone)]
      /\ worker' = [worker EXCEPT ![c] = [at |-> "idle", node |-> 0, todo |-> <<>>]]
      /\ UNCHANGED <<refcount, dependency, loader, queue_ref_held, rcu_at, ran, stray, late>>
  BY Zenon DEF Cleanup, WorkerGoto
<1>b. /\ worker \in [Workers -> [at : WorkerPoints, node : WorkTasks \cup {0}, todo : Seq(Modules)]]
      /\ in_use \in [WorkTasks -> {"none", "busy", "finished", "empty", "freed"}]
      /\ wq \in [Workers -> Seq(WorkTasks)]
  BY Zenon DEF WorkInv, WorkTypes
<1>c. /\ \A e \in Workers : IsInjective(wq[e]) /\ \A u \in Range(wq[e]) : u \in WorkTasks /\ in_use[u] \notin {"none", "freed"}
      /\ \A e, f \in Workers : e # f => Range(wq[e]) \cap Range(wq[f]) = {}
  BY Zenon, <1>b, RangeFacts DEF WorkInv, NodesListed
<1>1. /\ worker'[c].node = 0 /\ worker'[c].at = "idle" /\ worker'[c].todo = <<>>
      /\ \A e \in Workers : e # c => worker'[e] = worker[e]
  BY Zenon, <1>a, <1>b
<1>2. /\ Unlink(wq[c], gone) \in Seq(WorkTasks) /\ IsInjective(Unlink(wq[c], gone))
      /\ Range(Unlink(wq[c], gone)) = Range(wq[c]) \ gone
  BY ZenonT(30), <1>b, <1>c, UnlinkFacts
<1>3. wq'[c] = Unlink(wq[c], gone) /\ \A e \in Workers : e # c => wq'[e] = wq[e]
  BY Zenon, <1>a, <1>b
<1>4. \A u \in gone : u \in WorkTasks /\ in_use[u] = "empty" /\ refcount[u] = 0 /\ u \in Range(wq[c])
  BY Zenon, <1>c
<1>5. \A u \in WorkTasks : /\ u \in gone => in_use'[u] = "freed"
                           /\ u \notin gone => in_use'[u] = in_use[u]
  BY Zenon, <1>a
<1>6. /\ \A u \in WorkTasks : /\ in_use'[u] = "none" <=> in_use[u] = "none"
                              /\ in_use'[u] = "busy" <=> in_use[u] = "busy"
                              /\ in_use'[u] = "finished" <=> in_use[u] = "finished"
                              /\ in_use'[u] \in Past <=> in_use[u] \in Past
                              /\ in_use'[u] \in {"empty", "freed"} => in_use[u] \in {"empty", "freed"}
  BY Zenon, <1>4, <1>5 DEF Past
<1>7. WorkTypes'
  <2>1. worker' \in [Workers -> [at : WorkerPoints, node : WorkTasks \cup {0}, todo : Seq(Modules)]]
    BY <1>a, <1>b DEF WorkerPoints
  <2>2. in_use' \in [WorkTasks -> {"none", "busy", "finished", "empty", "freed"}]
    BY Zenon, <1>a, <1>b
  <2>3. wq' \in [Workers -> Seq(WorkTasks)]
    BY Zenon, <1>a, <1>b, <1>2
  <2>. QED  BY Zenon, <1>a, <2>1, <2>2, <2>3 DEF WorkInv, WorkTypes
<1>8. \A e \in Workers : IsInjective(wq'[e]) /\ Range(wq'[e]) = Range(wq[e]) \ gone
  <2>. TAKE e \in Workers
  <2>1. CASE e = c
    BY Zenon, <1>2, <1>3, <2>1
  <2>2. CASE e # c
    <3>1. Range(wq[e]) \cap Range(wq[c]) = {}
      BY Zenon, <1>c, <2>2
    <3>. QED  BY Zenon, <1>c, <1>3, <1>4, <2>2, <3>1
  <2>. QED  BY Zenon, <2>1, <2>2
<1>9. NodesListed'
  BY Zenon, <1>c, <1>5, <1>8 DEF NodesListed
<1>10. WorkersExact'
  <2>. SUFFICES ASSUME NEW e \in Workers PROVE WorkersExact!(e)'
    BY Zenon DEF WorkersExact
  <2>1. WorkersExact!(e)
    BY Zenon DEF WorkInv, WorkersExact
  <2>2. CASE e = c
    BY Zenon, <1>1, <2>2 DEF InHand
  <2>3. CASE e # c
    <3>1. worker[e].node # 0 => worker[e].node \in WorkTasks /\ worker[e].node \in Range(wq'[e])
      BY Zenon, <1>b, <1>3, <2>1, <2>3
    <3>2. worker[e].at \in {"run", "drop", "mark"} => \A x \in Range(dependency[worker[e].node]) : x \in WorkTasks
      BY Zenon, HandFacts
    <3>. QED  BY Zenon, <1>a, <1>1, <1>6, <2>1, <2>3, <3>1, <3>2 DEF InHand
  <2>. QED  BY Zenon, <2>2, <2>3
<1>11. \A u \in WorkTasks : (Running(u)' <=> Running(u)) /\ (WorkerOwns(u)' <=> WorkerOwns(u))
  BY ZenonT(30), <1>a, <1>1, <1>6 DEF Running, WorkerOwns
<1>12. \A e \in Workers, u \in WorkTasks : WorkerMarks(e, u)' <=> WorkerMarks(e, u)
  BY Zenon, <1>a, <1>1 DEF WorkerMarks
<1>13. \A u : Dependents(u)' = Dependents(u)
  <2>1. \A e \in Workers : \A m, u : Keeps(e, m, u)' <=> Keeps(e, m, u)
    BY Zenon, <1>a, <1>1 DEF Keeps
  <2>2. \A u : Dependents(u)' = {m \in Modules : u \in Range(dependency[m]) /\ \A e \in Workers : Keeps(e, m, u)'}
    BY Zenon, <1>a DEF Dependents, Keeps
  <2>. QED  BY Zenon, <2>1, <2>2, DependentsAre
<1>14. \A u : (CallerOwns(u)' <=> CallerOwns(u)) /\ (Loading(u)' <=> Loading(u)) /\ (LoaderMarks(u)' <=> LoaderMarks(u))
  BY Zenon, <1>a DEF CallerOwns, Loading, Counted, Current, LoaderMarks
<1>15. TasksRun'
  <2>. SUFFICES ASSUME NEW u \in WorkTasks PROVE TasksRun!(u)'
    BY Zenon DEF TasksRun
  <2>1. TasksRun!(u)
    BY Zenon DEF WorkInv, TasksRun
  <2>2. \A x \in Range(dependency[u]) : x \in WorkTasks
    BY Zenon, RangeFacts DEF WorkInv, WorkTypes, WorkTasks
  <2>. QED  BY Zenon, <1>a, <1>6, <1>11, <2>1, <2>2
<1>16. RefsExact'
  <2>. SUFFICES ASSUME NEW u \in WorkTasks PROVE RefsExact!(u)'
    BY Zenon DEF RefsExact
  <2>1. RefsExact!(u)
    BY Zenon DEF WorkInv, RefsExact
  <2>. QED  BY Zenon, <1>a, <1>6, <1>11, <1>13, <1>14, <2>1 DEF One
<1>17. MarksExact'
  <2>. SUFFICES ASSUME NEW u \in WorkTasks PROVE MarksExact!(u)'
    BY Zenon DEF MarksExact
  <2>1. MarksExact!(u)
    BY Zenon DEF WorkInv, MarksExact
  <2>2. \A e \in Workers : \A m \in {"empty", "finished"} :
           worker'[e].node = u /\ worker'[e].at = m => worker[e].node = u /\ worker[e].at = m
    BY Zenon, <1>1
  <2>. QED  BY Zenon, <1>a, <1>6, <1>12, <1>14, <2>1, <2>2
<1>18. LoaderExact'
  BY Zenon, <1>a, <1>6, LoaderKept
<1>. QED  BY Zenon, <1>7, <1>9, <1>10, <1>15, <1>16, <1>17, <1>18 DEF WorkInv

(* A step that moves counts and call_rcu only.                             *)
LEMMA CountStep ==
    ASSUME WorkInv, UNCHANGED <<in_use, refcount, dependency, wq, worker, loader, queue_ref_held, ran, stray, late>>,
           rcu_at' \in [RcuTasks -> Workers \cup {"idle", "done"}],
           \A t \in RcuTasks : rcu_at'[t] = "idle" => rcu_at[t] = "idle"
    PROVE  WorkInv'
<1>1. WorkTypes' /\ NodesListed' /\ WorkersExact'
  BY ZenonT(30) DEF WorkInv, WorkTypes, NodesListed, WorkersExact
<1>2. \A t : /\ Running(t)' <=> Running(t)
             /\ WorkerOwns(t)' <=> WorkerOwns(t)
             /\ Dependents(t)' = Dependents(t)
             /\ CallerOwns(t)' <=> CallerOwns(t)
             /\ Loading(t)' <=> Loading(t)
             /\ LoaderMarks(t)' <=> LoaderMarks(t)
             /\ \A c \in Workers : WorkerMarks(c, t)' <=> WorkerMarks(c, t)
  BY Zenon DEF Running, WorkerOwns, Dependents, CallerOwns, Loading, Counted, Current, LoaderMarks, WorkerMarks
<1>3. TasksRun'
  BY Zenon, <1>2 DEF WorkInv, TasksRun
<1>4. RefsExact'
  BY ZenonT(30), <1>2 DEF WorkInv, RefsExact, One
<1>5. MarksExact'
  BY ZenonT(30), <1>2 DEF WorkInv, MarksExact
<1>6. LoaderExact'
  BY Zenon DEF WorkInv, LoaderExact, Counted, Current
<1>. QED  BY Zenon, <1>1, <1>3, <1>4, <1>5, <1>6 DEF WorkInv

(* The steps of a worker, one by one.                                      *)
LEMMA WorkerStepInv ==
    ASSUME WorkInv, NEW c \in Workers, WorkerStep(c)
    PROVE  WorkInv'
<1>0. wq[c] \in Seq(WorkTasks)
  BY Zenon DEF WorkInv, WorkTypes
<1>1. CASE LookAgain(c)
  BY ZenonT(30), <1>1, CountStep DEF LookAgain, workVars, WorkInv, WorkTypes
<1>2. CASE StartPass(c)
  <2>1. PICK n \in Range(wq[c]) \cup {0} : WorkerGoto(c, "scan", n, <<>>)
    BY Zenon, <1>0, <1>2, TailFacts DEF StartPass
  <2>. QED  BY Zenon, <1>2, <2>1, QuietStep DEF StartPass
<1>3. CASE ScanNode(c)
  <2>1. worker[c].node \in Range(wq[c])
    BY Zenon, <1>3 DEF ScanNode, WorkInv, WorkersExact
  <2>. QED  BY Zenon, <1>3, <2>1, QuietStep DEF ScanNode
<1>4. CASE RunTask(c)
  BY Zenon, <1>4, RunTaskInv
<1>5. CASE DropDependency(c)
  BY Zenon, <1>5, DropDependencyInv, CountFactsHold
<1>6. CASE MarkDependency(c)
  BY Zenon, <1>6, MarkDependencyInv
<1>7. CASE DropOwn(c)
  BY Zenon, <1>7, DropOwnInv, CountFactsHold
<1>8. CASE StoreState(c)
  BY Zenon, <1>8, StoreStateInv
<1>9. CASE LowerCount(c)
  <2>1. worker[c].node \in Range(wq[c]) /\ worker[c].node # 0
    BY Zenon, <1>9 DEF LowerCount, WorkInv, WorkersExact
  <2>. QED  BY Zenon, <1>9, <2>1, QuietStep DEF LowerCount
<1>10. CASE NextNode(c)
  <2>1. worker[c].node \in Range(wq[c])
    BY Zenon, <1>10 DEF NextNode, WorkInv, WorkersExact
  <2>2. After(c, worker[c].node) \in Range(wq[c]) \cup {0}
    BY Zenon, <1>0, <2>1, AfterFacts
  <2>. QED  BY Zenon, <1>10, <2>2, QuietStep DEF NextNode
<1>11. CASE Cleanup(c)
  BY Zenon, <1>11, CleanupInv
<1>. QED  BY Zenon, <1>1, <1>2, <1>3, <1>4, <1>5, <1>6, <1>7, <1>8, <1>9, <1>10, <1>11 DEF WorkerStep

(* The steps of the loader, one by one.                                    *)
LEMMA LoaderStepInv ==
    ASSUME WorkInv, LoaderStep
    PROVE  WorkInv'
<1>1. CASE ProbeModule  BY Zenon, <1>1, ProbeModuleInv
<1>2. CASE LoadModule  BY Zenon, <1>2, LoadModuleInv
<1>3. CASE CountDependency  BY Zenon, <1>3, CountDependencyInv, CountFactsHold
<1>4. CASE CountModuleTask  BY Zenon, <1>4, CountModuleTaskInv
<1>5. CASE ReleaseModule  BY Zenon, <1>5, ReleaseModuleInv, CountFactsHold
<1>6. CASE MarkModule  BY Zenon, <1>6, MarkModuleInv
<1>7. CASE \E c \in Workers : AddModuleTask(c)  BY Zenon, <1>7, AddModuleTaskInv, CountFactsHold
<1>. QED  BY Zenon, <1>1, <1>2, <1>3, <1>4, <1>5, <1>6, <1>7 DEF LoaderStep

(* call_rcu: the count is raised after the node is in the list.            *)
LEMMA RcuCountInv ==
    ASSUME WorkInv, NEW t \in RcuTasks, RcuCount(t)
    PROVE  WorkInv'
<1>1. /\ rcu_at' = [rcu_at EXCEPT ![t] = "done"]
      /\ UNCHANGED <<in_use, refcount, dependency, wq, worker, loader, queue_ref_held, ran, stray, late>>
  BY Zenon DEF RcuCount
<1>2. /\ rcu_at' \in [RcuTasks -> Workers \cup {"idle", "done"}]
      /\ \A u \in RcuTasks : rcu_at'[u] = "idle" => rcu_at[u] = "idle"
  BY Zenon, <1>1 DEF WorkInv, WorkTypes
<1>. QED  BY Zenon, <1>1, <1>2, CountStep

(* Every step of the work queues keeps the invariant.                      *)
LEMMA NextWorkInv == WorkInv /\ [WorkNext]_<<workVars, broken>> => WorkInv'
<1>. SUFFICES ASSUME WorkInv, [WorkNext]_<<workVars, broken>> PROVE WorkInv'
  BY Zenon
<1>1. CASE LoaderStep
  BY Zenon, <1>1, LoaderStepInv
<1>2. CASE \E t \in RcuTasks : RcuCount(t)
  BY Zenon, <1>2, RcuCountInv
<1>3. CASE \E t \in RcuTasks, c \in Workers : RcuAdd(t, c)
  BY Zenon, <1>3, RcuAddInv, CountFactsHold
<1>4. CASE \E c \in Workers : WorkerStep(c)
  BY Zenon, <1>4, WorkerStepInv
<1>5. CASE UNCHANGED <<workVars, broken>>
  BY Zenon, <1>5, CountStep DEF workVars, WorkInv, WorkTypes
<1>. QED  BY Zenon, <1>1, <1>2, <1>3, <1>4, <1>5 DEF WorkNext

(* Whatever the cores, the loader and the callers of call_rcu do, a task   *)
(* runs once and after those it depends on, the count of every node is the *)
(* number of its owners, a node is freed only without one, and a finished  *)
(* node without one is about to be marked empty (workqueue.c, voxmo.c).    *)
THEOREM WorkQueueCorrect == WorkSpec => []WorkExact
<1>1. WorkSpec => []WorkInv
  BY InitWorkInv, NextWorkInv, PTL DEF WorkSpec
<1>. QED  BY <1>1, WorkInvImplies, PTL
=============================================================================
