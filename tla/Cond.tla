-------------------------------- MODULE Cond --------------------------------
(***************************************************************************)
(* pthread_cond_wait, timedwait, signal and broadcast on a private         *)
(* condition variable (musl/src/thread/pthread_cond_timedwait.c) with a    *)
(* normal mutex.  The waiters form a list of nodes on their own stacks, so *)
(* nobody may return while another thread can still reach its node.  What  *)
(* is done under _c_lock is one step: its holders never wait, and what the *)
(* others do to a node meanwhile commutes with it.                         *)
(***************************************************************************)
EXTENDS Mutex

Head == <<"_c_head", 0>>
Tail == <<"_c_tail", 0>>
BarrierOf(t) == <<"barrier", t>>     \* node.barrier
RefOf(t) == <<"ref", t>>             \* the ref of __private_cond_signal

(* struct waiter, its barrier aside; "DEAD" outside the call.              *)
NoNode == [state |-> "DEAD", prev |-> "null", next |-> "null", notify |-> "null"]

CondRegs == MutexRegs @@ [node |-> NoNode, first |-> "null", cur |-> 0, back |-> "out"]

Node(t) == reg[t].node
Live(t) == Node(t).state # "DEAD"

CondInit ==
    /\ ContractInit
    /\ word = MutexWords("normal") @@ Head :> "null" @@ Tail :> "null"
              @@ [a \in {BarrierOf(t) : t \in Threads} \cup {RefOf(t) : t \in Threads} |-> 0]
    /\ at = [t \in Threads |-> "out"]
    /\ reg = [t \in Threads |-> CondRegs]
    /\ misled = FALSE

-----------------------------------------------------------------------------
(* __pthread_cond_timedwait: into the list at the head, and out of the     *)
(* mutex.                                                                  *)
CondEnter(t) ==
    LET h == word[Head] IN
    /\ at[t] = "held"
    /\ word' = [word EXCEPT ![BarrierOf(t)] = 2, ![Head] = t,
                            ![Tail] = IF @ = "null" THEN t ELSE @]
    /\ reg' = [u \in Threads |->
                  CASE u = t -> [reg[u] EXCEPT !.node = [NoNode EXCEPT !.state = "WAITING", !.next = h]]
                    [] word[Tail] # "null" /\ u = h -> [reg[u] EXCEPT !.node.prev = t]
                    [] OTHER -> reg[u]]
    /\ Goto(t, "queued")
    /\ UNCHANGED <<waiting, misled>>

CondUnlock(t) ==
    /\ at[t] = "queued"
    /\ CallUnlock(t, "cond wait")
    /\ UNCHANGED <<contractVars, misled>>

(* The wait on node.barrier.  A timed one may end at any time, and it does *)
(* not matter here whether the kernel says so truthfully.                  *)
CondWait(t) ==
    \/ Wait(t, "cond wait", BarrierOf(t), 2, "cond asleep", "cond cas")
    \/ WaitEnds(t, "cond asleep", "cond wait")
    \/ WaitEnds(t, "cond asleep", "cond cas")

CondCas(t) ==
    /\ at[t] = "cond cas"
    /\ IF Node(t).state = "WAITING"
       THEN Goto(t, "cond leave") /\ Keep(t, [reg[t] EXCEPT !.node.state = "LEAVING"])
       ELSE Goto(t, "bar lock") /\ UNCHANGED reg
    /\ UNCHANGED <<contractVars, misled>>

(* A waiter that nobody signalled takes its node out of the list it is in, *)
(* which may be one that a signal has detached ...                         *)
CondLeave(t) ==
    LET p == Node(t).prev
        n == Node(t).next
    IN  /\ at[t] = "cond leave"
        /\ word' = [word EXCEPT ![Head] = IF @ = t THEN n ELSE @,
                                ![Tail] = IF @ = t THEN p ELSE @]
        /\ reg' = [u \in Threads |->
                      CASE u = p /\ word[Head] # t -> [reg[u] EXCEPT !.node.next = n]
                        [] u = n /\ word[Tail] # t -> [reg[u] EXCEPT !.node.prev = p]
                        [] OTHER -> reg[u]]
        /\ Goto(t, "notify")
        /\ UNCHANGED <<waiting, misled>>

(* ... and tells the signaller that met it.                                *)
CondNotify(t) ==
    LET s == Node(t).notify IN
    \/ /\ at[t] = "notify"
       /\ \/ s = "null" /\ CallLock(t, FALSE, "done", "done") /\ UNCHANGED word
          \/ /\ s # "null"
             /\ Stored(RefOf(s), word[RefOf(s)] - 1)
             /\ IF word[RefOf(s)] = 1
                THEN Goto(t, "notify wake") /\ UNCHANGED reg
                ELSE CallLock(t, FALSE, "done", "done")
       /\ UNCHANGED <<waiting, misled>>
    \/ /\ at[t] = "notify wake"
       /\ WakeQueue(RefOf(s), 1)
       /\ CallLock(t, FALSE, "done", "done")
       /\ UNCHANGED <<word, misled>>

(* A signalled waiter first gets past its barrier: lock(&node.barrier).    *)
Relock(t) == CallLock(t, FALSE, "back", "back")

BarLock(t) ==
    LET b == word[BarrierOf(t)] IN
    \/ /\ at[t] = "bar lock"
       /\ IF b = 0
          THEN Stored(BarrierOf(t), 1) /\ Relock(t)
          ELSE Goto(t, "bar mark") /\ UNCHANGED <<word, reg>>
       /\ UNCHANGED <<waiting, misled>>
    \/ /\ at[t] = "bar mark"
       /\ Stored(BarrierOf(t), IF b = 1 THEN 2 ELSE b)
       /\ Goto(t, "bar wait")
       /\ UNCHANGED <<waiting, reg, misled>>
    \/ Wait(t, "bar wait", BarrierOf(t), 2, "bar asleep", "bar take")
    \/ WaitEnds(t, "bar asleep", "bar wait")
    \/ /\ at[t] = "bar take"
       /\ IF b = 0
          THEN Stored(BarrierOf(t), 2) /\ Relock(t)
          ELSE Goto(t, "bar wait") /\ UNCHANGED <<word, reg>>
       /\ UNCHANGED <<waiting, misled>>

-----------------------------------------------------------------------------
(* With the mutex again.  The first of a group counts itself as a waiter   *)
(* of the mutex on behalf of the rest, the last takes that back; between   *)
(* them each lets the next one go, by moving it to the mutex's queue.      *)
CondBack(t) ==
    \/ /\ at[t] = "back"
       /\ Stored(Waiters, IF Node(t).next = "null" THEN word[Waiters] + 1 ELSE word[Waiters])
       /\ Goto(t, IF Node(t).prev = "null" THEN "back dec" ELSE "back load")
       /\ UNCHANGED <<waiting, reg, misled>>
    \/ /\ at[t] = "back dec"
       /\ Stored(Waiters, word[Waiters] - 1)
       /\ Goto(t, "done")
       /\ UNCHANGED <<waiting, reg, misled>>
    \/ /\ at[t] = "back load"
       /\ Keep(t, [reg[t] EXCEPT !.old = word[Lock]])
       /\ Goto(t, IF word[Lock].bit THEN "open" ELSE "back mark")
       /\ UNCHANGED <<contractVars, misled>>
    \/ /\ at[t] = "back mark"
       /\ Stored(Lock, IF word[Lock] = reg[t].old THEN Marked(reg[t].old) ELSE word[Lock])
       /\ Goto(t, "open")
       /\ UNCHANGED <<waiting, reg, misled>>

(* unlock_requeue.                                                         *)
OpenNext(t) ==
    LET b == BarrierOf(Node(t).prev) IN
    \/ /\ at[t] = "open"
       /\ Stored(b, 0)
       /\ Goto(t, "requeue")
       /\ UNCHANGED <<waiting, reg, misled>>
    \/ /\ at[t] = "requeue"
       /\ RequeueTo(b, Lock, 0, 1)
       /\ Goto(t, "done")
       /\ UNCHANGED <<word, reg, misled>>

(* The call returns and its node ends.                                     *)
CondReturn(t) ==
    /\ at[t] = "done"
    /\ Keep(t, CondRegs)
    /\ Goto(t, "held")
    /\ Stored(BarrierOf(t), 0)
    /\ UNCHANGED <<waiting, misled>>

-----------------------------------------------------------------------------
(* __private_cond_signal: the list from the tail, as the loop walks it.    *)
Walk ==
    LET w[k \in 0 .. Everyone] ==
            IF k = 0 THEN word[Tail] ELSE IF w[k - 1] = "null" THEN "null" ELSE Node(w[k - 1]).prev
    IN  w

(* The number of nodes the loop passes, n of which were waiting.           *)
Passed(w, n) ==
    LET signalled(k) == {i \in 0 .. k - 1 : Node(w[i]).state = "WAITING"}
        ends(k) == w[k] = "null" \/ Cardinality(signalled(k)) = n
    IN  CHOOSE k \in 0 .. Everyone : ends(k) /\ \A j \in 0 .. k - 1 : ~ends(j)

SignalSection(t, n) ==
    LET w == Walk
        k == Passed(w, n)
        group == {w[i] : i \in 0 .. k - 1}
        leaving == {u \in group : Node(u).state = "LEAVING"}
        signalled == group \ leaving
        first == IF signalled = {} THEN "null"
                 ELSE w[CHOOSE i \in 0 .. k - 1 :
                            w[i] \in signalled /\ \A j \in 0 .. i - 1 : w[j] \in leaving]
        p == w[k]
        after == IF p = "null" THEN "null" ELSE Node(p).next
        Met(u) == CASE u \in leaving -> [Node(u) EXCEPT !.notify = t]
                    [] u \in signalled -> [Node(u) EXCEPT !.state = "SIGNALED"]
                    [] OTHER -> Node(u)
        Split(u) == CASE u = p -> [Met(u) EXCEPT !.next = "null"]
                      [] u = after -> [Met(u) EXCEPT !.prev = "null"]
                      [] OTHER -> Met(u)
    IN  /\ word' = [word EXCEPT ![Head] = IF p = "null" THEN "null" ELSE @, ![Tail] = p,
                                ![RefOf(t)] = Cardinality(leaving)]
        /\ reg' = [u \in Threads |->
                      IF u = t THEN [reg[u] EXCEPT !.first = first, !.back = at[t], !.node = Split(u)]
                      ELSE [reg[u] EXCEPT !.node = Split(u)]]

(* pthread_cond_signal and pthread_cond_broadcast, with or without the     *)
(* mutex.                                                                  *)
CallSignal(t, n) ==
    /\ at[t] \in {"out", "held"}
    /\ SignalSection(t, n)
    /\ Goto(t, "sig load")
    /\ UNCHANGED <<waiting, misled>>

(* The nodes that were leaving must be out of the list first.              *)
SignalWaitNot(t) ==     \* mutant: the signaller does not wait for them
    /\ at[t] = "sig load"
    /\ Goto(t, "sig open")
    /\ UNCHANGED <<contractVars, reg, misled>>

SignalWait(t) ==
    \/ /\ at[t] = "sig load"
       /\ Goto(t, IF word[RefOf(t)] = 0 THEN "sig open" ELSE "sig wait")
       /\ Keep(t, [reg[t] EXCEPT !.cur = word[RefOf(t)]])
       /\ UNCHANGED <<contractVars, misled>>
    \/ Wait(t, "sig wait", RefOf(t), reg[t].cur, "sig asleep", "sig load")
    \/ WaitEnds(t, "sig asleep", "sig wait")

(* unlock(&first->barrier), and the return.                                *)
SignalReturn(t) == Goto(t, reg[t].back) /\ Keep(t, CondRegs)

SignalOpen(t) ==
    LET f == reg[t].first IN
    \/ /\ at[t] = "sig open"
       /\ \/ f = "null" /\ SignalReturn(t) /\ UNCHANGED word
          \/ /\ f # "null"
             /\ Stored(BarrierOf(f), 0)
             /\ IF word[BarrierOf(f)] = 2 THEN Goto(t, "sig wake") /\ UNCHANGED reg ELSE SignalReturn(t)
       /\ UNCHANGED <<waiting, misled>>
    \/ /\ at[t] = "sig wake"
       /\ WakeQueue(BarrierOf(f), 1)
       /\ SignalReturn(t)
       /\ UNCHANGED <<word, misled>>

(* The program takes and drops the mutex besides.                          *)
UseCond(t) ==
    /\ \/ at[t] = "out" /\ CallLock(t, FALSE, "held", "held")
       \/ at[t] = "held" /\ CallUnlock(t, "out")
    /\ UNCHANGED <<contractVars, misled>>

CondNext ==
    \E t \in Threads :
        \/ MutexStep(t) \/ UseCond(t)
        \/ CondEnter(t) \/ CondUnlock(t) \/ CondWait(t) \/ CondCas(t) \/ CondLeave(t) \/ CondNotify(t)
        \/ BarLock(t) \/ CondBack(t) \/ OpenNext(t) \/ CondReturn(t)
        \/ CallSignal(t, 1) \/ CallSignal(t, Everyone) \/ SignalWait(t) \/ SignalOpen(t)

-----------------------------------------------------------------------------
CondTypeOK ==
    /\ word[Head] \in Threads \cup {"null"} /\ word[Tail] \in Threads \cup {"null"}
    /\ word[Waiters] \in 0 .. Cardinality(Threads) + 1
    /\ \A t \in Threads :
          /\ Node(t) \in [state : {"DEAD", "WAITING", "SIGNALED", "LEAVING"},
                          prev : Threads \cup {"null"}, next : Threads \cup {"null"},
                          notify : Threads \cup {"null"}]
          /\ word[BarrierOf(t)] \in 0 .. 2
          /\ word[RefOf(t)] \in 0 .. Cardinality(Threads)

(* The nodes in the list of the condition variable.                        *)
Listed == LET w == Walk IN {w[k] : k \in 0 .. Everyone} \ {"null"}

(* The stack objects of other threads that the next step of t reads or     *)
(* writes.                                                                 *)
Reached(t) ==
    (CASE at[t] = "cond leave" -> {Node(t).prev, Node(t).next}
       [] at[t] = "open" -> {Node(t).prev}
       [] at[t] = "sig open" -> {reg[t].first}
       [] OTHER -> {}) \ {"null"}

(* A node is not reached after the call it belongs to has returned: from   *)
(* the list of the condition variable, from a detached list, by the        *)
(* signaller or by the waiter before it; nor is the counter of a signaller *)
(* that has returned.                                                      *)
NodesLive ==
    /\ \A u \in Listed \cup ({word[Head]} \ {"null"}) : Live(u)
    /\ \A t \in Threads : \A u \in Reached(t) : Live(u)
    /\ \A t \in Threads :
          at[t] = "notify" /\ Node(t).notify # "null" =>
              at[Node(t).notify] \in {"sig load", "sig wait", "sig asleep"}

(* The mutex is free while a thread waits and held when the call returns,  *)
(* and the threads nobody has signalled are exactly the waiting ones of    *)
(* the list, so that a signal always finds one.                            *)
CondExact ==
    /\ \A t, u \in Threads : {at[t], at[u]} \subseteq {"held", "queued", "done"} => t = u
    /\ \A t \in Threads : at[t] \in {"held", "queued", "done"} => word[Lock].own = "EBUSY"
    /\ {t \in Threads : Node(t).state = "WAITING"} = {u \in Listed : Node(u).state = "WAITING"}

(* When the mutex is free and nobody is on the way to do anything, only    *)
(* threads that were not signalled sleep: a broadcast hands the mutex to   *)
(* all of its group in turn, whether or not waits time out.                *)
CondNotStuck ==
    word[Lock] = Unlocked /\ Quiet({"out"}) =>
        \A t \in Threads : waiting[t] # Nowhere => waiting[t] = BarrierOf(t) /\ Node(t).state = "WAITING"
=============================================================================
