------------------------------ MODULE FdTable ------------------------------
(***************************************************************************)
(* Descriptor tables (kernel/sys/fd.c and the open, close, dup, fcntl,     *)
(* accept, fork, execve and destroy_process users of it).  A descriptor    *)
(* object is shared by every table slot that dup or fork made for it and   *)
(* is freed by the close that takes its count to zero.  The tables have no *)
(* lock: each call is one step, as it is when the threads that share a     *)
(* table run on one core.                                                  *)
(***************************************************************************)
EXTENDS Integers, FiniteSets

CONSTANTS
    Tasks,      \* processes
    Files,      \* descriptor objects
    NoFile,     \* the null descriptor
    MaxFds      \* max_fds

ASSUME FdAssumption == NoFile \notin Files /\ MaxFds \in Nat \ {0}

VARIABLES
    alive,      \* the processes that exist
    fds,        \* fdtable->fds
    fd_flags,   \* fdtable->fd_flags: close-on-exec
    count,      \* file_descriptor.count; 0 when the object is free
    asked       \* the close-on-exec flags that match what the caller asked for

fdVars == <<alive, fds, fd_flags, count, asked>>

Fds == 0 .. MaxFds - 1
EmptyTable == [i \in Fds |-> NoFile]
NoFlags == [i \in Fds |-> FALSE]
NoWish == [i \in Fds |-> BOOLEAN]
FdSlots(f) == {s \in alive \X Fds : fds[s[1]][s[2]] = f}

FdInit ==
    /\ \E p \in Tasks : alive = {p}
    /\ fds = [p \in Tasks |-> EmptyTable]
    /\ fd_flags = [p \in Tasks |-> NoFlags]
    /\ count = [f \in Files |-> 0]
    /\ asked = [p \in Tasks |-> NoWish]

-----------------------------------------------------------------------------
(* The lowest free slot from `start' on; MaxFds if there is none (EMFILE). *)
LowestFrom(p, start) ==
    LET free == {i \in Fds : i >= start /\ fds[p][i] = NoFile}
    IN  IF free = {} THEN MaxFds ELSE CHOOSE i \in free : \A j \in free : i <= j

Put(p, i, f, flag, wish) ==
    /\ fds' = [fds EXCEPT ![p][i] = f]
    /\ fd_flags' = [fd_flags EXCEPT ![p][i] = flag]
    /\ asked' = [asked EXCEPT ![p][i] = wish]

(* open, socket: a new descriptor in the lowest slot.                      *)
OpenFd(p, f, cloexec) ==
    LET i == LowestFrom(p, 0) IN
    /\ count[f] = 0 /\ i # MaxFds
    /\ Put(p, i, f, cloexec, {cloexec})
    /\ count' = [count EXCEPT ![f] = 1]
    /\ UNCHANGED alive

(* accept leaves the close-on-exec flag of the slot as it was.             *)
AcceptFd(p, f) ==
    LET i == LowestFrom(p, 0) IN
    /\ count[f] = 0 /\ i # MaxFds
    /\ Put(p, i, f, fd_flags[p][i], BOOLEAN)
    /\ count' = [count EXCEPT ![f] = 1]
    /\ UNCHANGED alive

(* dup (start 0), fcntl F_DUPFD and F_DUPFD_CLOEXEC.                       *)
DupKeepsFlag(p, i, start, cloexec) ==     \* mutant: the flag of the slot is left as it was
    LET j == LowestFrom(p, start) IN
    /\ fds[p][i] # NoFile /\ j # MaxFds
    /\ Put(p, j, fds[p][i], fd_flags[p][j], {cloexec})
    /\ count' = [count EXCEPT ![fds[p][i]] = @ + 1]
    /\ UNCHANGED alive

DupFd(p, i, start, cloexec) ==
    LET j == LowestFrom(p, start) IN
    /\ fds[p][i] # NoFile /\ j # MaxFds
    /\ Put(p, j, fds[p][i], cloexec, {cloexec})
    /\ count' = [count EXCEPT ![fds[p][i]] = @ + 1]
    /\ UNCHANGED alive

(* fcntl F_SETFD.                                                          *)
SetFd(p, i, cloexec) ==
    /\ fds[p][i] # NoFile
    /\ fd_flags' = [fd_flags EXCEPT ![p][i] = cloexec]
    /\ asked' = [asked EXCEPT ![p][i] = {cloexec}]
    /\ UNCHANGED <<alive, fds, count>>

(* What closing the slots of S does to the count of each descriptor.       *)
DroppedTwice(p, S) ==     \* mutant: counted down twice
    [f \in Files |-> count[f] - 2 * Cardinality({i \in S : fds[p][i] = f})]

Dropped(p, S) == [f \in Files |-> count[f] - Cardinality({i \in S : fds[p][i] = f})]

CloseSlots(p, S) ==
    /\ count' = Dropped(p, S)
    /\ fds' = [fds EXCEPT ![p] = [i \in Fds |-> IF i \in S THEN NoFile ELSE @[i]]]
    /\ asked' = [asked EXCEPT ![p] = [i \in Fds |-> IF i \in S THEN BOOLEAN ELSE @[i]]]

CloseFd(p, i) ==
    /\ fds[p][i] # NoFile
    /\ CloseSlots(p, {i})
    /\ UNCHANGED <<alive, fd_flags>>

(* dup2: what the new slot held is closed first.                           *)
Dup2(p, i, j) ==
    /\ fds[p][i] # NoFile /\ i # j
    /\ count' = [Dropped(p, {j}) EXCEPT ![fds[p][i]] = @ + 1]
    /\ Put(p, j, fds[p][i], FALSE, {FALSE})
    /\ UNCHANGED alive

(* fork_process copies the table and counts every entry of it.             *)
ForkTable(p, q) ==
    /\ q \notin alive
    /\ alive' = alive \cup {q}
    /\ fds' = [fds EXCEPT ![q] = fds[p]]
    /\ fd_flags' = [fd_flags EXCEPT ![q] = [i \in Fds |-> fds[p][i] # NoFile /\ fd_flags[p][i]]]
    /\ count' = [f \in Files |-> count[f] + Cardinality({i \in Fds : fds[p][i] = f})]
    /\ asked' = [asked EXCEPT ![q] = asked[p]]

(* execve closes the slots marked close-on-exec.                           *)
ExecFds(p) ==
    /\ CloseSlots(p, {i \in Fds : fd_flags[p][i]})
    /\ UNCHANGED <<alive, fd_flags>>

(* destroy_process: free_fdtable closes every slot.                        *)
FreeFdtable(p) ==
    /\ alive' = alive \ {p}
    /\ CloseSlots(p, Fds)
    /\ fd_flags' = [fd_flags EXCEPT ![p] = NoFlags]

-----------------------------------------------------------------------------
FdNext ==
    \E p \in alive :
        \/ \E f \in Files : AcceptFd(p, f) \/ \E c \in BOOLEAN : OpenFd(p, f, c)
        \/ \E i, j \in Fds : Dup2(p, i, j) \/ \E c \in BOOLEAN : DupFd(p, i, j, c)
        \/ \E i \in Fds : CloseFd(p, i) \/ \E c \in BOOLEAN : SetFd(p, i, c)
        \/ \E q \in Tasks : ForkTable(p, q)
        \/ ExecFds(p)
        \/ alive # {p} /\ FreeFdtable(p)

FdSpec == FdInit /\ [][FdNext]_fdVars

-----------------------------------------------------------------------------
FdTypeOK ==
    /\ alive \subseteq Tasks
    /\ fds \in [Tasks -> [Fds -> Files \cup {NoFile}]]
    /\ fd_flags \in [Tasks -> [Fds -> BOOLEAN]]
    /\ count \in [Files -> Nat]
    /\ asked \in [Tasks -> [Fds -> SUBSET BOOLEAN]]

(* The count of a descriptor is the number of table slots that hold it,    *)
(* over all processes: it is freed exactly when nothing refers to it any   *)
(* more, whatever sequence of dup, dup2, fork, exec and exit came before.  *)
CountExact == \A f \in Files : count[f] = Cardinality(FdSlots(f))

(* An open descriptor has the close-on-exec flag its creator asked for,    *)
(* not what an earlier user of the slot left (close does not clear it);    *)
(* accept is the exception.                                                *)
CloexecAsAsked ==
    \A p \in alive, i \in Fds : fds[p][i] # NoFile => fd_flags[p][i] \in asked[p][i]
(* The descriptor tables are exact: counts and close-on-exec flags.        *)
DescriptorsExact == CountExact /\ CloexecAsAsked
=============================================================================
