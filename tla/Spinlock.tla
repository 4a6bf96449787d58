------------------------------ MODULE Spinlock ------------------------------
(***************************************************************************)
(* The kernel's ticket spinlock (kernel/hal/cpu/spinlock.c), the lock      *)
(* under every per-core run queue, the allocators, the VFS cache, the page *)
(* tables and the workqueues.                                              *)
(*                                                                         *)
(* Each atomic access of the C code is one step: the fetch-and-add of      *)
(* next_ticket, each load of now_serving, and the store of the release.    *)
(* The counters are 16 bits wide in the code; Tickets is 2^16 there.       *)
(***************************************************************************)
EXTENDS Integers, FiniteSets

CONSTANTS
    Cpus,      \* the cores that use the lock
    Tickets    \* the number of ticket values (2^16 for the code's uint16_t)

ASSUME CpusAssumption == IsFiniteSet(Cpus)

ASSUME TicketsAssumption ==
    /\ Tickets \in Nat
    /\ Cardinality(Cpus) < Tickets

VARIABLES
    now_serving,   \* the ticket that owns the lock
    next_ticket,   \* the ticket the next arrival draws
    my_ticket,     \* my_ticket[c]: the local of spin_acquire on core c
    next,          \* next[c]: the local of spin_release on core c
    lock_at        \* "idle", "spin", "held" or "store"

lockVars == <<now_serving, next_ticket, my_ticket, next, lock_at>>

Succ(t) == (t + 1) % Tickets      \* uint16_t arithmetic

LockInit ==
    /\ now_serving = 0
    /\ next_ticket = 0
    /\ my_ticket = [c \in Cpus |-> 0]
    /\ next = [c \in Cpus |-> 0]
    /\ lock_at = [c \in Cpus |-> "idle"]

(***************************************************************************)
(* spin_acquire: draw a ticket ...                                         *)
(***************************************************************************)
Draw(c) ==
    /\ lock_at[c] = "idle"
    /\ my_ticket' = [my_ticket EXCEPT ![c] = next_ticket]
    /\ next_ticket' = Succ(next_ticket)
    /\ lock_at' = [lock_at EXCEPT ![c] = "spin"]
    /\ UNCHANGED <<now_serving, next>>

(***************************************************************************)
(* ... and spin until it is served.  A load that sees another ticket is a  *)
(* stuttering step.                                                        *)
(***************************************************************************)
EnterUnordered(c) ==     \* mutant: "while (now_serving < my_ticket)", wrong at the wrap
    /\ lock_at[c] = "spin"
    /\ my_ticket[c] <= now_serving
    /\ lock_at' = [lock_at EXCEPT ![c] = "held"]
    /\ UNCHANGED <<now_serving, next_ticket, my_ticket, next>>

EnterUnfair(c) ==     \* mutant: takes a lock that is free, whoever's turn it is
    /\ lock_at[c] = "spin"
    /\ \A d \in Cpus : lock_at[d] \in {"idle", "spin"}
    /\ lock_at' = [lock_at EXCEPT ![c] = "held"]
    /\ UNCHANGED <<now_serving, next_ticket, my_ticket, next>>

Enter(c) ==
    /\ lock_at[c] = "spin"
    /\ now_serving = my_ticket[c]
    /\ lock_at' = [lock_at EXCEPT ![c] = "held"]
    /\ UNCHANGED <<now_serving, next_ticket, my_ticket, next>>

(***************************************************************************)
(* spin_release: a load of now_serving and, as a separate access, the      *)
(* store of its successor.                                                 *)
(***************************************************************************)
ReleaseLoad(c) ==
    /\ lock_at[c] = "held"
    /\ next' = [next EXCEPT ![c] = Succ(now_serving)]
    /\ lock_at' = [lock_at EXCEPT ![c] = "store"]
    /\ UNCHANGED <<now_serving, next_ticket, my_ticket>>

ReleaseStore(c) ==
    /\ lock_at[c] = "store"
    /\ now_serving' = next[c]
    /\ lock_at' = [lock_at EXCEPT ![c] = "idle"]
    /\ UNCHANGED <<next_ticket, my_ticket, next>>

LockNext ==
    \E c \in Cpus : Draw(c) \/ Enter(c) \/ ReleaseLoad(c) \/ ReleaseStore(c)

LockSpec == LockInit /\ [][LockNext]_lockVars

(***************************************************************************)
(* Every core that spins keeps loading, and every critical section is      *)
(* finite: interrupts are off while a lock is held.                        *)
(***************************************************************************)
LockFairness ==
    \A c \in Cpus :
        WF_lockVars(Enter(c)) /\ WF_lockVars(ReleaseLoad(c)) /\ WF_lockVars(ReleaseStore(c))

LockFairSpec == LockSpec /\ LockFairness

-----------------------------------------------------------------------------
(* Every variable keeps its type; tickets stay below the wrap.             *)
LockTypeOK ==
    /\ now_serving \in 0 .. Tickets - 1
    /\ next_ticket \in 0 .. Tickets - 1
    /\ my_ticket \in [Cpus -> 0 .. Tickets - 1]
    /\ next \in [Cpus -> 0 .. Tickets - 1]
    /\ lock_at \in [Cpus -> {"idle", "spin", "held", "store"}]

Holds(c) == lock_at[c] \in {"held", "store"}

(* Two cores are never between spin_acquire's return and spin_release's    *)
(* store at once, across any number of wraps of the 16-bit counters.       *)
MutualExclusion ==
    \A c, d \in Cpus : Holds(c) /\ Holds(d) => c = d

(* A core that has drawn a ticket is served: no core is starved by later   *)
(* arrivals.                                                               *)
Served == \A c \in Cpus : lock_at[c] = "spin" ~> lock_at[c] = "held"

-----------------------------------------------------------------------------
(* The inductive invariant: the tickets from now_serving up to, and        *)
(* without, next_ticket (around the wrap) are exactly the tickets of the   *)
(* cores in the lock, each held by one core.                               *)
InLock(c) == lock_at[c] # "idle"

Outstanding ==
    IF now_serving <= next_ticket
    THEN now_serving .. next_ticket - 1
    ELSE (now_serving .. Tickets - 1) \cup (0 .. next_ticket - 1)

OneCorePerTicket ==
    \A c, d \in Cpus : InLock(c) /\ InLock(d) /\ my_ticket[c] = my_ticket[d] => c = d

TicketsOutstanding ==
    \A c \in Cpus : InLock(c) => my_ticket[c] \in Outstanding

EveryTicketDrawn ==
    \A t \in Outstanding : \E c \in Cpus : InLock(c) /\ my_ticket[c] = t

HolderIsServed ==
    \A c \in Cpus :
        /\ Holds(c) => my_ticket[c] = now_serving
        /\ lock_at[c] = "store" => next[c] = Succ(now_serving)

IndInv ==
    /\ LockTypeOK
    /\ OneCorePerTicket
    /\ TicketsOutstanding
    /\ EveryTicketDrawn
    /\ HolderIsServed

-----------------------------------------------------------------------------
(* What a caller relies on: a first-come first-served lock.  queue is the  *)
(* order in which the tickets were drawn, read off the counters.           *)
Distance(c) == (my_ticket[c] - now_serving) % Tickets

ArrivalOrder ==
    [i \in 1 .. Cardinality({c \in Cpus : InLock(c)}) |->
        CHOOSE c \in Cpus : InLock(c) /\ Distance(c) = i - 1]

Abstract == INSTANCE FifoLock WITH
    queue <- ArrivalOrder,
    owner <- {c \in Cpus : Holds(c)}

(* The ticket lock implements the first-come first-served lock.            *)
ImplementsFifoLock == Abstract!Spec

=============================================================================
