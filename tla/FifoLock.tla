------------------------------ MODULE FifoLock ------------------------------
(***************************************************************************)
(* What the callers of a spinlock rely on: at most one owner, and the lock *)
(* is handed over in order of arrival.                                     *)
(***************************************************************************)
EXTENDS Sequences

CONSTANT Cpus

VARIABLES
    queue,   \* the cores in the lock, the owner included, in order of arrival
    owner    \* the set of cores that hold the lock

Init == queue = <<>> /\ owner = {}

Arrive(c) ==
    /\ \A i \in DOMAIN queue : queue[i] # c
    /\ queue' = Append(queue, c)
    /\ UNCHANGED owner

Grant(c) ==
    /\ owner = {}
    /\ queue # <<>>
    /\ c = Head(queue)
    /\ owner' = {c}
    /\ UNCHANGED queue

Release(c) ==
    /\ owner = {c}
    /\ queue' = Tail(queue)
    /\ owner' = {}

Next == \E c \in Cpus : Arrive(c) \/ Grant(c) \/ Release(c)

Spec == Init /\ [][Next]_<<queue, owner>>
=============================================================================
