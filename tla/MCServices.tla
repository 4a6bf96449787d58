----------------------------- MODULE MCServices -----------------------------
(***************************************************************************)
(* The services the rest of the kernel waits on: the spinlock and the      *)
(* sections under it, the work queues, and the futex table.  A behaviour   *)
(* is one of one of them.  Three cores and four ticket values, so that the *)
(* counters wrap; two kernel threads of one core and one of another; two   *)
(* worker cores and three modules; two threads and one word.               *)
(***************************************************************************)
EXTENDS Spinlock, LockSection, WorkQueue, Futex, TLC

CONSTANTS c1, c2, c3, k1, k2, k3, r1, t1, t2, u1
MCCpus == {c1, c2, c3}
MCTasks == {k1, k2, k3}
MCHome == k1 :> c1 @@ k2 :> c1 @@ k3 :> c2
MCWorkers == {c2, c3}
MCRcuTasks == {r1}
MCThreads == {t1, t2}
MCAddresses == {u1}
MCRequires == <<<<2>>, <<>>, <<2, 1>>>>

VARIABLE subject
servicesVars == <<subject, lockVars, sectionVars, workVars, broken, vars>>

ServicesInit ==
    /\ LockInit /\ SectionInit /\ WorkInit /\ Init
    /\ subject \in {"lock", "section", "work", "futex"}
    /\ subject # "section" => which = "frames" /\ cur[c1] = k1
    /\ IF subject = "work" THEN broken \in {{}, {1}} ELSE broken = {}

(* Bound: call_rcu is called where a module is broken.                     *)
ServicesNext ==
    \/ /\ subject = "lock"
       /\ LockNext
       /\ UNCHANGED <<subject, sectionVars, workVars, broken, vars>>
    \/ /\ subject = "section"
       /\ SectionNext
       /\ UNCHANGED <<subject, lockVars, workVars, broken, vars>>
    \/ /\ subject = "work"
       /\ WorkNext
       /\ broken = {} => rcu_at' = rcu_at
       /\ UNCHANGED <<subject, lockVars, sectionVars, vars>>
    \/ /\ subject = "futex"
       /\ Next
       /\ UNCHANGED <<subject, lockVars, sectionVars, workVars, broken>>

ServicesSpec ==
    /\ ServicesInit /\ [][ServicesNext]_servicesVars
    /\ LockFairness /\ WorkFairness /\ Fairness
=============================================================================
