-------------------------------- MODULE Pipe --------------------------------
(***************************************************************************)
(* A pipe (kernel/sys/syscall/pipe.c) between one reading and one writing  *)
(* thread: the byte ring, the two waiter slots, the two ends and the       *)
(* references to their descriptors.  A system call runs with interrupts    *)
(* off, so the calls of two threads of one core interleave only where they *)
(* sleep; on different cores they interleave at every shared access.       *)
(***************************************************************************)
EXTENDS BlockWake, Integers, Sequences

CONSTANTS
    Reader, Writer,  \* the thread that uses each end
    Capacity,        \* PIPE_MAX_RING_BUFFER
    SizeT,           \* 2^64 scaled down, a multiple of Capacity: head and tail wrap here
    MaxLen,          \* bound: length of a read or write
    MaxRefs          \* bound: references to a descriptor

ASSUME PipeAssumption ==
    /\ Reader \in Threads /\ Writer \in Threads /\ Reader # Writer
    /\ Capacity \in Nat \ {0} /\ MaxLen \in Nat /\ MaxRefs \in Nat
    /\ \E k \in 2 .. SizeT : SizeT = k * Capacity
    /\ NoThread \notin Threads

VARIABLES
    same_core,    \* the two threads were attached to one core
    pos,          \* pos["read"] = ring.tail, pos["write"] = ring.head
    buf,          \* ring.buf
    waiter,       \* waiter["read"] = reader_waiter, waiter["write"] = writer_waiter
    end_count,    \* reader_count and writer_count
    refs,         \* file_descriptor.count of each end
    frees,        \* kfree2 calls on this pipe
    at,           \* the program point of the call on each end
    left, seen,   \* bytes the call still has to move; head and tail as it loaded them
    nonblock,     \* O_NONBLOCK in the flags of the descriptor
    got,          \* the bytes copied out by pipe_ring_read
    total         \* bytes read and written so far, modulo SizeT

pipeVars == <<same_core, pos, buf, waiter, end_count, refs, frees, at, left, seen, nonblock, got, total>>

Ends == {"read", "write"}
Other(e) == IF e = "read" THEN "write" ELSE "read"
User(e) == IF e = "read" THEN Reader ELSE Writer
Plus(i, j) == (i + j) % SizeT
Minus(i, j) == (i - j) % SizeT
Smaller(i, j) == IF i < j THEN i ELSE j
NothingSeen == [e \in Ends |-> 0]

(* syscall_pipe2: an empty ring, one descriptor of each end.               *)
Fresh ==
    [pos |-> NothingSeen, buf |-> [i \in 0 .. Capacity - 1 |-> 0],
     waiter |-> [e \in Ends |-> NoThread], ones |-> [e \in Ends |-> 1]]

PipeInit ==
    /\ SleepInit
    /\ same_core \in BOOLEAN
    /\ pos = Fresh.pos /\ buf = Fresh.buf /\ waiter = Fresh.waiter
    /\ end_count = Fresh.ones /\ refs = Fresh.ones
    /\ frees = 0
    /\ at = [e \in Ends |-> "user"]
    /\ left = [e \in Ends |-> 0]
    /\ seen = [e \in Ends |-> NothingSeen]
    /\ nonblock = [e \in Ends |-> FALSE]
    /\ got = <<>>
    /\ total = NothingSeen

-----------------------------------------------------------------------------
InKernel(e) == at[e] \notin {"user", "asleep"}

(* The user of end e executes at point l of its call.                      *)
PipeRuns(e, l) ==
    /\ at[e] = l
    /\ Awake(User(e))
    /\ same_core => ~InKernel(Other(e))

PipeGoto(e, l) == at' = [at EXCEPT ![e] = l]

(* Back to user mode: the local variables of the call are gone.            *)
PipeReturn(e) ==
    /\ PipeGoto(e, "user")
    /\ left' = [left EXCEPT ![e] = 0]
    /\ seen' = [seen EXCEPT ![e] = NothingSeen]
    /\ nonblock' = [nonblock EXCEPT ![e] = FALSE]
    /\ got' = IF e = "read" THEN <<>> ELSE got

Locals == <<left, seen, nonblock, got>>
Ring == <<pos, buf, total>>
Object == <<end_count, refs, frees, same_core>>

(* Bytes that end e can move, given the counters c.                        *)
Avail(e, c) ==
    LET used == Minus(c["write"], c["read"]) IN IF e = "read" THEN used ELSE Capacity - used

(* pipe_read or pipe_write is entered; a write without readers is EPIPE.   *)
PipeCall(e, len, flag) ==
    /\ PipeRuns(e, "user")
    /\ refs[e] > 0
    /\ e = "write" => end_count["read"] > 0 /\ len > 0
    /\ PipeGoto(e, "load")
    /\ left' = [left EXCEPT ![e] = len]
    /\ nonblock' = [nonblock EXCEPT ![e] = flag]
    /\ UNCHANGED <<sleepVars, Ring, waiter, Object, seen, got>>

(* pipe_ring_read, pipe_ring_write: load head and tail ...                 *)
PipeLoad(e) ==
    /\ PipeRuns(e, "load")
    /\ IF Smaller(left[e], Avail(e, pos)) > 0
       THEN seen' = [seen EXCEPT ![e] = pos] /\ PipeGoto(e, "copy")
       ELSE UNCHANGED seen /\ PipeGoto(e, "stall")
    /\ UNCHANGED <<sleepVars, Ring, waiter, Object, left, nonblock, got>>

Moves(e) == Smaller(left[e], Avail(e, seen[e]))

(* ... copy, in two parts where the ring wraps ...                         *)
PipeCopyOnePart(e) ==     \* mutant: no second copy at the start of the ring
    /\ PipeRuns(e, "copy")
    /\ IF e = "read"
       THEN /\ got' = [i \in 1 .. Moves(e) |-> buf[Plus(seen[e][e], i - 1) % Capacity]]
            /\ UNCHANGED buf
       ELSE /\ buf' = [j \in 0 .. Capacity - 1 |->
                  LET i == j - (seen[e][e] % Capacity)
                  IN  IF i \in 0 .. Moves(e) - 1 THEN Plus(total[e], i) ELSE buf[j]]
            /\ UNCHANGED got
    /\ PipeGoto(e, "store")
    /\ UNCHANGED <<sleepVars, pos, total, waiter, Object, left, seen, nonblock>>

PipeCopy(e) ==
    /\ PipeRuns(e, "copy")
    /\ IF e = "read"
       THEN /\ got' = [i \in 1 .. Moves(e) |-> buf[Plus(seen[e][e], i - 1) % Capacity]]
            /\ UNCHANGED buf
       ELSE /\ buf' = [j \in 0 .. Capacity - 1 |->
                  LET i == (j - seen[e][e]) % Capacity
                  IN  IF i < Moves(e) THEN Plus(total[e], i) ELSE buf[j]]
            /\ UNCHANGED got
    /\ PipeGoto(e, "store")
    /\ UNCHANGED <<sleepVars, pos, total, waiter, Object, left, seen, nonblock>>

(* ... and store the new tail or head.                                     *)
PipeStore(e) ==
    /\ PipeRuns(e, "store")
    /\ pos' = [pos EXCEPT ![e] = Plus(seen[e][e], Moves(e))]
    /\ total' = [total EXCEPT ![e] = Plus(@, Moves(e))]
    /\ left' = [left EXCEPT ![e] = @ - Moves(e)]
    /\ seen' = [seen EXCEPT ![e] = NothingSeen]
    /\ got' = IF e = "read" THEN <<>> ELSE got
    /\ PipeGoto(e, "wake")
    /\ UNCHANGED <<sleepVars, buf, waiter, Object, nonblock>>

(* After a transfer a read returns, a write goes on until it is done.      *)
Transferred(e) ==
    IF e = "read" \/ left[e] = 0 THEN PipeReturn(e) ELSE PipeGoto(e, "load") /\ UNCHANGED Locals

(* The waiter of the other end is woken, then its slot is cleared.         *)
PipeWakeOwn(e) ==     \* mutant: the waiter of the same end is woken
    /\ PipeRuns(e, "wake")
    /\ IF waiter[e] = NoThread
       THEN Transferred(e) /\ UNCHANGED sleepVars
       ELSE Wake({waiter[e]}) /\ PipeGoto(e, "clear") /\ UNCHANGED Locals
    /\ UNCHANGED <<Ring, waiter, Object>>

PipeWake(e) ==
    /\ PipeRuns(e, "wake")
    /\ IF waiter[Other(e)] = NoThread
       THEN Transferred(e) /\ UNCHANGED sleepVars
       ELSE Wake({waiter[Other(e)]}) /\ PipeGoto(e, "clear") /\ UNCHANGED Locals
    /\ UNCHANGED <<Ring, waiter, Object>>

PipeClear(e) ==
    /\ PipeRuns(e, "clear")
    /\ waiter' = [waiter EXCEPT ![Other(e)] = NoThread]
    /\ Transferred(e)
    /\ UNCHANGED <<sleepVars, Ring, Object>>

(* Nothing could be moved: end of file or EPIPE once the other end is      *)
(* closed, EAGAIN if non-blocking, else sleep.                             *)
PipeStall(e) ==
    /\ PipeRuns(e, "stall")
    /\ IF left[e] = 0 \/ end_count[Other(e)] = 0 \/ nonblock[e]
       THEN PipeReturn(e)
       ELSE PipeGoto(e, "wait") /\ UNCHANGED Locals
    /\ UNCHANGED <<sleepVars, Ring, waiter, Object>>

PipeWait(e) ==
    /\ PipeRuns(e, "wait")
    /\ waiter' = [waiter EXCEPT ![e] = User(e)]
    /\ PipeGoto(e, "block")
    /\ UNCHANGED <<sleepVars, Ring, Object, Locals>>

PipeBlock(e) ==
    /\ PipeRuns(e, "block")
    /\ \/ Consume(User(e)) /\ PipeGoto(e, "load")
       \/ Block(User(e)) /\ PipeGoto(e, "asleep")
    /\ UNCHANGED <<Ring, waiter, Object, Locals>>

PipeResume(e) ==
    /\ at[e] = "asleep"
    /\ Resume(User(e))
    /\ same_core => ~InKernel(Other(e))
    /\ PipeGoto(e, "load")
    /\ UNCHANGED <<Ring, waiter, Object, Locals>>

-----------------------------------------------------------------------------
(* dup, fcntl(F_DUPFD) and fork only count a reference.                    *)
PipeDup(e) ==
    /\ PipeRuns(e, "user")
    /\ refs[e] \in 1 .. MaxRefs - 1
    /\ refs' = [refs EXCEPT ![e] = @ + 1]
    /\ UNCHANGED <<sleepVars, Ring, waiter, end_count, frees, same_core, at, Locals>>

(* close: the last reference runs pipe_close_fd, whose steps follow.       *)
PipeCloseEvery(e) ==     \* mutant: every close, not the last one, runs pipe_close_fd
    /\ PipeRuns(e, "user")
    /\ refs[e] > 0
    /\ refs' = [refs EXCEPT ![e] = @ - 1]
    /\ PipeGoto(e, "close")
    /\ UNCHANGED <<sleepVars, Ring, waiter, end_count, frees, same_core, Locals>>

PipeClose(e) ==
    /\ PipeRuns(e, "user")
    /\ refs[e] > 0
    /\ refs' = [refs EXCEPT ![e] = @ - 1]
    /\ PipeGoto(e, IF refs[e] = 1 THEN "close" ELSE "user")
    /\ UNCHANGED <<sleepVars, Ring, waiter, end_count, frees, same_core, Locals>>

PipeCloseCount(e) ==
    /\ PipeRuns(e, "close")
    /\ end_count' = [end_count EXCEPT ![e] = @ - 1]
    /\ PipeGoto(e, IF end_count[e] = 1 THEN "close_wake" ELSE "free")
    /\ UNCHANGED <<sleepVars, Ring, waiter, refs, frees, same_core, Locals>>

PipeCloseWake(e) ==
    /\ PipeRuns(e, "close_wake")
    /\ IF waiter[Other(e)] = NoThread
       THEN PipeGoto(e, "free") /\ UNCHANGED sleepVars
       ELSE Wake({waiter[Other(e)]}) /\ PipeGoto(e, "close_clear")
    /\ UNCHANGED <<Ring, waiter, Object, Locals>>

PipeCloseClear(e) ==
    /\ PipeRuns(e, "close_clear")
    /\ waiter' = [waiter EXCEPT ![Other(e)] = NoThread]
    /\ PipeGoto(e, "free")
    /\ UNCHANGED <<sleepVars, Ring, Object, Locals>>

PipeFreeEither(e) ==     \* mutant: freed as soon as one end is closed
    /\ PipeRuns(e, "free")
    /\ frees' = frees + 1
    /\ PipeGoto(e, "user")
    /\ UNCHANGED <<sleepVars, Ring, waiter, end_count, refs, same_core, Locals>>

PipeFree(e) ==
    /\ PipeRuns(e, "free")
    /\ frees' = IF end_count = [f \in Ends |-> 0] THEN frees + 1 ELSE frees
    /\ PipeGoto(e, "user")
    /\ UNCHANGED <<sleepVars, Ring, waiter, end_count, refs, same_core, Locals>>

(* Both ends are gone and their threads make another pipe.                 *)
Pipe2 ==
    /\ refs = [e \in Ends |-> 0]
    /\ \A e \in Ends : PipeRuns(e, "user")
    /\ pos' = Fresh.pos /\ buf' = Fresh.buf /\ waiter' = Fresh.waiter
    /\ end_count' = Fresh.ones /\ refs' = Fresh.ones
    /\ frees' = 0
    /\ total' = NothingSeen
    /\ UNCHANGED <<sleepVars, same_core, at, Locals>>

-----------------------------------------------------------------------------
PipeStep(e) ==
    \/ PipeLoad(e) \/ PipeCopy(e) \/ PipeStore(e) \/ PipeWake(e) \/ PipeClear(e)
    \/ PipeStall(e) \/ PipeWait(e) \/ PipeBlock(e)
    \/ PipeCloseCount(e) \/ PipeCloseWake(e) \/ PipeCloseClear(e) \/ PipeFree(e)

PipeNext ==
    \/ \E e \in Ends :
          \/ PipeStep(e) \/ PipeResume(e) \/ PipeDup(e) \/ PipeClose(e)
          \/ \E len \in 0 .. MaxLen, flag \in BOOLEAN : PipeCall(e, len, flag)
    \/ Pipe2

PipeSpec == PipeInit /\ [][PipeNext]_<<sleepVars, pipeVars>>

-----------------------------------------------------------------------------
PipeTypeOK ==
    /\ SleepTypeOK
    /\ pos \in [Ends -> 0 .. SizeT - 1]
    /\ buf \in [0 .. Capacity - 1 -> 0 .. SizeT - 1]
    /\ waiter \in [Ends -> {Reader, Writer, NoThread}]
    /\ end_count \in [Ends -> 0 .. 1]
    /\ refs \in [Ends -> 0 .. MaxRefs]
    /\ left \in [Ends -> 0 .. MaxLen]
    /\ total \in [Ends -> 0 .. SizeT - 1]

(* The reader gets the bytes that were written, in order, none lost or     *)
(* twice, also when head and tail wrap and on two cores: pipe_ring_write   *)
(* publishes head only after the copy.                                     *)
BytesInOrder ==
    at["read"] = "store" => \A i \in 1 .. Len(got) : got[i] = Plus(total["read"], i - 1)

(* On one core no wake is lost: a thread asleep in pipe_read or pipe_write *)
(* although it could go on (bytes or room, or the other end closed) has    *)
(* been woken, or the other end's call is about to wake it.                *)
NoStuckPipe ==
    \A e \in Ends :
        /\ same_core
        /\ at[e] = "asleep" /\ ~Awake(User(e))
        /\ ~InKernel(Other(e))
        /\ Avail(e, pos) > 0 \/ end_count[Other(e)] = 0
        => wake_pending[User(e)]

(* On one core the pipe is freed once, after the last close of both ends,  *)
(* and no call is inside it then.                                          *)
FreedWhenUnused ==
    same_core /\ frees > 0 =>
        /\ frees = 1
        /\ \A e \in Ends : refs[e] = 0 /\ ~InKernel(e) /\ at[e] # "asleep"

(* A pipe carries its bytes in order and is freed exactly when unused.     *)
PipeExact == BytesInOrder /\ FreedWhenUnused
=============================================================================
