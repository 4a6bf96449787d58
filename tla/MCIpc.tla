------------------------------- MODULE MCIpc -------------------------------
(***************************************************************************)
(* Signals, a pipe, Unix sockets and the futex table, for three threads.   *)
(* A behaviour is one of the signals of one thread, of the pipe, of        *)
(* sockets being connected, of a connection in use, or of futex calls on   *)
(* two words; the variables of the others are absent.                      *)
(***************************************************************************)
EXTENDS Pipe, UnixSocket, Futex, Signal

CONSTANTS t1, t2, t3, u1, u2
MCThreads == {t1, t2, t3}
MCFamily == {t1, t2}
MCAddresses == {u1, u2}

VARIABLE subject
futexVars == <<word, futex_queue, waitVars>>
ipcVars == <<subject, sleepVars, pipeVars, sockVars, futexVars, sigVars>>

Off(v) == v = "absent"
Sockets == subject \in {"connect", "stream"}

PipeOff ==
    /\ Off(same_core) /\ Off(pos) /\ Off(buf) /\ Off(waiter) /\ Off(end_count) /\ Off(refs)
    /\ Off(frees) /\ Off(at) /\ Off(left) /\ Off(seen) /\ Off(nonblock) /\ Off(got) /\ Off(total)
SockOff == Off(socks) /\ Off(named) /\ Off(held) /\ Off(call) /\ Off(displaced)
FutexOff ==
    /\ Off(word) /\ Off(futex_queue)
    /\ Off(pc) /\ Off(uaddr) /\ Off(val) /\ Off(timeout) /\ Off(my_waiter) /\ Off(fate)
SigOff ==
    /\ Off(local) /\ Off(pending) /\ Off(mask) /\ Off(handler) /\ Off(depth) /\ Off(saved_reg)
    /\ Off(nested) /\ Off(step) /\ Off(input) /\ Off(tty_waiter) /\ Off(kill) /\ Off(kill_sig)
    /\ Off(irq) /\ Off(irq_wakes)

IpcInit ==
    /\ subject \in {"signal", "pipe", "connect", "stream", "futex"}
    /\ IF subject = "pipe" THEN PipeInit ELSE PipeOff
    /\ CASE subject = "stream" -> ConnectedInit(t3)
         [] subject = "connect" -> SockInit
         [] OTHER -> SockOff
    /\ IF subject = "futex" THEN Init ELSE FutexOff
    /\ IF subject = "signal" THEN SigInit ELSE SigOff

(* Bounds: no new socket once two are lost; one thread wakes and requeues  *)
(* the others, which wait for the value 0 of the futex that it changes,    *)
(* the first of them without a timeout.                                    *)
Waits(t) == uaddr[t] = u1 /\ val[t] = 0 /\ timeout[t] \in (IF t = t1 THEN {"none"} ELSE {"none", "long"})

IpcNext ==
    /\ UNCHANGED subject
    /\ \/ subject = "signal" /\ SigNext /\ UNCHANGED <<pipeVars, sockVars, futexVars>>
       \/ subject = "pipe" /\ PipeNext /\ UNCHANGED <<sockVars, futexVars, sigVars>>
       \/ /\ subject = "connect"
          /\ ConnectNext
          /\ Len(socks') > Len(socks) => Cardinality(Forgotten) <= 1
          /\ UNCHANGED <<pipeVars, futexVars, sigVars>>
       \/ subject = "stream" /\ StreamNext /\ UNCHANGED <<pipeVars, futexVars, sigVars>>
       \/ /\ subject = "futex"
          /\ \/ Waker(t3)
             \/ \E t \in Threads \ {t3} : Waiter(t) /\ (pc'[t] = "enqueue" => Waits(t)')
          /\ word'[u2] = 0
          /\ UNCHANGED <<pipeVars, sockVars, sigVars>>

IpcSpec == IpcInit /\ [][IpcNext]_ipcVars

-----------------------------------------------------------------------------
(* Each part keeps its types; in particular an end of the pipe is open or  *)
(* closed, never counted twice, and a signal number never leaves the set.  *)
IpcTypesOK ==
    /\ subject = "pipe" => PipeTypeOK
    /\ Sockets => SockTypeOK
    /\ subject = "futex" => TypeOK
    /\ subject = "signal" => SigTypeOK


(* Pipe!PipeExact: the reader gets the bytes in the order they were        *)
(* written, and the pipe is freed once, when nobody uses it.               *)
PipeInOrder == subject = "pipe" => PipeExact

(* Pipe!NoStuckPipe: no end sleeps while it could go on.                   *)
PipeAwake == subject = "pipe" => NoStuckPipe

(* UnixSocket!SocketsExact: connections are accepted in order, the ring    *)
(* holds the bytes sent and not yet received, and nobody sleeps although   *)
(* there is something to take.                                             *)
SocketsSound == Sockets => SocketsExact

=============================================================================
