----------------------------- MODULE UnixSocket -----------------------------
(***************************************************************************)
(* Unix domain sockets (kernel/net/socket.c and the system calls socket,   *)
(* bind, listen, connect, accept, sendto, recvfrom and close), on one core:*)
(* calls interleave where they sleep.  Sockets are numbered in the order   *)
(* they are made; the code never frees one.  There is one path, at which   *)
(* no file exists.                                                         *)
(***************************************************************************)
EXTENDS BlockWake, Integers, Sequences, FiniteSets
LOCAL INSTANCE FiniteSetsExt

CONSTANTS
    Family,        \* threads of one process, which share its descriptors
    MaxSockFds,    \* fdtable.max_fds
    SoMaxConn,     \* SOMAXCONN of listen.c
    BacklogMax,    \* UNIX_BACKLOG_MAX
    UnixBufSize,   \* UNIX_BUF_SIZE
    MaxOpened,     \* bound: syscall_socket is called while fewer sockets exist
    MaxBound,      \* bound: the sockets up to this one are bound
    MaxSockets,    \* bound: sockets made
    MaxBytes       \* bound: bytes sent in a behaviour

ASSUME SocketAssumption ==
    /\ Family \subseteq Threads
    /\ MaxSockFds \in Nat /\ MaxOpened \in Nat /\ MaxBound \in Nat /\ MaxSockets \in Nat /\ MaxBytes \in Nat
    /\ SoMaxConn \in Nat /\ SoMaxConn <= BacklogMax
    /\ BacklogMax \in Nat \ {0} /\ UnixBufSize \in Nat \ {0}

VARIABLES
    socks,      \* the struct unix_socket made so far
    named,      \* vnode_private of the path: a socket, or 0
    held,       \* the sockets each descriptor table refers to
    call,       \* the call each thread is in
    displaced   \* sleepers whose blocked_..._thread slot another thread has used

sockVars == <<socks, named, held, call, displaced>>

Table(t) == IF t \in Family THEN Family ELSE {t}
NoCall == [op |-> "user", sock |-> 0]

(* create_socket, and the zeroed server side that connect makes.  `in' and *)
(* `out' count the bytes stored in and taken from rbuf, `taken' is the     *)
(* listening socket accept dequeued this one from.                         *)
NewSocket(stream) ==
    [stream |-> stream, state |-> "closed", backlog |-> 0, peer |-> 0,
     pending |-> [i \in 0 .. BacklogMax - 1 |-> 0], phead |-> 0, ptail |-> 0, pcount |-> 0,
     rbuf |-> [i \in 0 .. UnixBufSize - 1 |-> 0], rhead |-> 0, rtail |-> 0, rcount |-> 0,
     accept |-> NoThread, recv |-> NoThread,     \* blocked_accept_thread, blocked_recv_thread
     in |-> 0, out |-> 0, taken |-> 0]

SockInit ==
    /\ SleepInit
    /\ socks = <<>>
    /\ named = 0
    /\ held = [p \in {Table(t) : t \in Threads} |-> {}]
    /\ call = [t \in Threads |-> NoCall]
    /\ displaced = {}

-----------------------------------------------------------------------------
(* Thread t executes; no other thread of the core is inside a call.        *)
SockRuns(t, op) ==
    /\ call[t].op = op
    /\ Awake(t)
    /\ \A u \in Threads \ {t} : call[u].op = "user" \/ ~Awake(u)

Uses(t, s) == SockRuns(t, "user") /\ s \in held[Table(t)]
FdRoom(t) == Cardinality(held[Table(t)]) < MaxSockFds
Made == 1 .. Len(socks)

(* syscall_socket: with the descriptor table full the new socket is lost.  *)
SockSocket(t, stream) ==
    /\ SockRuns(t, "user")
    /\ Len(socks) < MaxOpened
    /\ socks' = Append(socks, NewSocket(stream))
    /\ held' = IF FdRoom(t) THEN [held EXCEPT ![Table(t)] = @ \cup {Len(socks) + 1}] ELSE held
    /\ UNCHANGED <<sleepVars, named, call, displaced>>

(* syscall_bind: whatever the socket's state, and whoever had the path.    *)
SockBind(t, s) ==
    /\ Uses(t, s)
    /\ named' = s
    /\ socks' = [socks EXCEPT ![s].state = "bound"]
    /\ UNCHANGED <<sleepVars, held, call, displaced>>

SockListen(t, s, backlog) ==
    /\ Uses(t, s)
    /\ socks[s].state \in {"bound", "listening"}
    /\ socks[s].stream
    /\ socks' = [socks EXCEPT ![s].state = "listening",
                              ![s].backlog = IF backlog < 0 THEN 0
                                             ELSE IF backlog > SoMaxConn THEN SoMaxConn
                                             ELSE backlog]
    /\ UNCHANGED <<sleepVars, named, held, call, displaced>>

WakeSlot(t) == IF t = NoThread THEN UNCHANGED sleepVars ELSE Wake({t})

SockConnectQuiet(t, c) ==     \* mutant: the thread in accept is not woken
    LET new == Len(socks) + 1
        side == [NewSocket(socks[c].stream) EXCEPT
                    !.state = socks[c].state, !.backlog = socks[c].backlog, !.peer = c]
    IN  /\ Uses(t, c)
        /\ named # 0
        /\ socks[named].state = "listening"
        /\ socks[named].pcount < socks[named].backlog
        /\ new <= MaxSockets
        /\ socks' = Append([socks EXCEPT
                ![c].peer = new,
                ![named].pending[socks[named].ptail] = new,
                ![named].ptail = (@ + 1) % BacklogMax,
                ![named].pcount = @ + 1], side)
        /\ UNCHANGED sleepVars
        /\ UNCHANGED <<named, held, call, displaced>>

(* syscall_connect: a server side with the client's base is made, linked   *)
(* to the client and queued.                                               *)
SockConnect(t, c) ==
    LET new == Len(socks) + 1
        side == [NewSocket(socks[c].stream) EXCEPT
                    !.state = socks[c].state, !.backlog = socks[c].backlog, !.peer = c]
    IN  /\ Uses(t, c)
        /\ named # 0
        /\ socks[named].state = "listening"
        /\ socks[named].pcount < socks[named].backlog
        /\ new <= MaxSockets
        /\ socks' = Append([socks EXCEPT
                ![c].peer = new,
                ![named].pending[socks[named].ptail] = new,
                ![named].ptail = (@ + 1) % BacklogMax,
                ![named].pcount = @ + 1], side)
        /\ WakeSlot(socks[named].accept)
        /\ UNCHANGED <<named, held, call, displaced>>

(* A call that returns an error changes nothing, EAGAIN of a non-blocking  *)
(* descriptor included; the two that have changed something by then are    *)
(* socket and accept with the descriptor table full.                       *)
SockError(t) == SockRuns(t, "user") /\ UNCHANGED <<sleepVars, sockVars>>

(* syscall_close: of the socket only the descriptor goes.                  *)
SockClose(t, s) ==
    /\ Uses(t, s)
    /\ held' = [held EXCEPT ![Table(t)] = @ \ {s}]
    /\ UNCHANGED <<sleepVars, socks, named, call, displaced>>

-----------------------------------------------------------------------------
(* The socket whose queue or ring a call on s is about: sendto works on    *)
(* the peer it finds at its entry, or on s itself without a peer.          *)
Dest(op, s) == IF op = "send" /\ socks[s].peer # 0 THEN socks[s].peer ELSE s

(* The calls that may sleep: entry, with the tests made once.              *)
SockEnter(t, op, s) ==
    /\ Uses(t, s)
    /\ op = "accept" => socks[s].state = "listening"
    /\ call' = [call EXCEPT ![t] = [op |-> op, sock |-> Dest(op, s)]]
    /\ UNCHANGED <<sleepVars, socks, named, held, displaced>>

SockReturn(t) == call' = [call EXCEPT ![t] = NoCall]

(* Other threads asleep in the same call on the same socket: the slot is   *)
(* one pointer, which t has now stored or cleared.                         *)
Rivals(t) ==
    {u \in Threads \ {t} : ~Awake(u) /\ call[u].op = call[t].op /\ call[u].sock = call[t].sock}

(* One turn of the waiting loop of accept and recvfrom: thread_block       *)
(* either sleeps, or uses up a wake and returns to the clearing store.     *)
SockWait(t) ==
    /\ \/ Block(t) /\ socks' = [socks EXCEPT ![call[t].sock][call[t].op] = t]
       \/ Consume(t) /\ socks' = [socks EXCEPT ![call[t].sock][call[t].op] = NoThread]
    /\ displaced' = displaced \cup Rivals(t)
    /\ UNCHANGED <<named, held, call>>

(* thread_block returns: the slot is cleared, the loop looks again.        *)
SockResume(t) ==
    /\ call[t].op # "user"
    /\ Resume(t)
    /\ \A u \in Threads \ {t} : call[u].op = "user" \/ ~Awake(u)
    /\ IF call[t].op = "send"
       THEN UNCHANGED <<socks, displaced>>
       ELSE /\ socks' = [socks EXCEPT ![call[t].sock][call[t].op] = NoThread]
            /\ displaced' = (displaced \ {t}) \cup Rivals(t)
    /\ UNCHANGED <<named, held, call>>

(* syscall_accept: the oldest pending connection is taken off the queue,   *)
(* and only then a descriptor is looked for.                               *)
SockAccept(t) ==
    LET s == call[t].sock
        x == socks[s].pending[socks[s].phead]
    IN  /\ SockRuns(t, "accept")
        /\ IF socks[s].pcount = 0
           THEN SockWait(t)
           ELSE /\ socks' = [socks EXCEPT
                        ![s].phead = (@ + 1) % BacklogMax,
                        ![s].pcount = @ - 1,
                        ![x].taken = s,
                        ![x].state = IF FdRoom(t) THEN "connected" ELSE @]
                /\ held' = IF FdRoom(t) THEN [held EXCEPT ![Table(t)] = @ \cup {x}] ELSE held
                /\ SockReturn(t)
                /\ UNCHANGED <<sleepVars, named, displaced>>

Least(i, j) == IF i < j THEN i ELSE j

(* syscall_recvfrom: what there is, up to len bytes.                       *)
SockRecv(t, len) ==
    LET s == call[t].sock
        n == Least(len, socks[s].rcount)
    IN  /\ SockRuns(t, "recv")
        /\ IF socks[s].rcount = 0
           THEN SockWait(t)
           ELSE /\ socks' = [socks EXCEPT ![s].rhead = (@ + n) % UnixBufSize,
                                          ![s].rcount = @ - n, ![s].out = @ + n]
                /\ SockReturn(t)
                /\ UNCHANGED <<sleepVars, named, held, displaced>>

(* syscall_sendto: what fits is stored and the receiver woken.  A sender   *)
(* that waits for room leaves its name nowhere.                            *)
SockSend(t, len) ==
    LET d == call[t].sock
        n == Least(len, UnixBufSize - socks[d].rcount)
    IN  /\ SockRuns(t, "send")
        /\ IF socks[d].rcount >= UnixBufSize
           THEN /\ Block(t) \/ Consume(t)
                /\ UNCHANGED sockVars
           ELSE /\ socks' = [socks EXCEPT
                        ![d].rbuf = [i \in 0 .. UnixBufSize - 1 |->
                            LET k == (i - socks[d].rtail) % UnixBufSize
                            IN  IF k < n THEN socks[d].in + k ELSE @[i]],
                        ![d].rtail = (@ + n) % UnixBufSize,
                        ![d].rcount = @ + n, ![d].in = @ + n]
                /\ WakeSlot(socks[d].recv)
                /\ SockReturn(t)
                /\ UNCHANGED <<named, held, displaced>>

-----------------------------------------------------------------------------
BytesSent == MapThenSumSet(LAMBDA s : socks[s].in, Made)

Senders == {t \in Threads : call[t].op = "send"}

(* Making and taking connections ...                                       *)
ConnectNext ==
    \E t \in Threads :
        \/ SockAccept(t) \/ SockResume(t) \/ SockError(t)
        \/ \E stream \in BOOLEAN : SockSocket(t, stream)
        \/ \E s \in Made :
              \/ s <= MaxBound /\ SockBind(t, s)
              \/ SockConnect(t, s) \/ SockClose(t, s) \/ SockEnter(t, "accept", s)
              \/ \E backlog \in -1 .. SoMaxConn + 1 : SockListen(t, s, backlog)

(* ... and using them, while clients connect again.  A length is a local   *)
(* that is read at the end of its call only.                               *)
StreamNext ==
    \E t \in Threads :
        \/ SockResume(t)
        \/ \E len \in 1 .. UnixBufSize : SockRecv(t, len)
        \/ \E len \in 1 .. MaxBytes - BytesSent : SockSend(t, len)
        \/ \E s \in Made :
              \/ SockConnect(t, s) \/ SockEnter(t, "recv", s)
              \/ BytesSent + Cardinality(Senders) < MaxBytes /\ SockEnter(t, "send", s)

SockNext == ConnectNext \/ StreamNext

(* A reachable state: the family listens on socket 1, client t has         *)
(* connected socket 2, and the family has accepted the server side, 3.     *)
ConnectedInit(t) ==
    /\ SleepInit
    /\ socks = <<[NewSocket(TRUE) EXCEPT !.state = "listening", !.backlog = SoMaxConn,
                                         !.phead = 1 % BacklogMax, !.ptail = 1 % BacklogMax,
                                         !.pending[0] = 3],
                 [NewSocket(TRUE) EXCEPT !.peer = 3],
                 [NewSocket(TRUE) EXCEPT !.state = "connected", !.peer = 2, !.taken = 1]>>
    /\ named = 1
    /\ held = [p \in {Table(u) : u \in Threads} |->
                  IF p = Family THEN {1, 3} ELSE IF p = {t} THEN {2} ELSE {}]
    /\ call = [u \in Threads |-> NoCall]
    /\ displaced = {}

SockSpec == SockInit /\ [][SockNext]_<<sleepVars, sockVars>>

-----------------------------------------------------------------------------
SockTypeOK ==
    /\ SleepTypeOK
    /\ named \in 0 .. Len(socks)
    /\ \A p \in DOMAIN held : held[p] \subseteq Made
    /\ \A s \in Made :
          /\ socks[s].state \in {"closed", "bound", "listening", "connected"}
          /\ socks[s].peer \in 0 .. Len(socks)
          /\ socks[s].backlog \in 0 .. SoMaxConn
          /\ socks[s].phead \in 0 .. BacklogMax - 1 /\ socks[s].ptail \in 0 .. BacklogMax - 1

(* The connections waiting on socket s, oldest first.                      *)
Pending(s) ==
    [i \in 1 .. socks[s].pcount |-> socks[s].pending[(socks[s].phead + i - 1) % BacklogMax]]

(* Sockets nobody has a descriptor of or waits for.                        *)
Forgotten ==
    {s \in Made : \A p \in DOMAIN held : s \notin held[p]}
        \ UNION {{Pending(l)[i] : i \in 1 .. socks[l].pcount} : l \in Made}

(* A server side that connect made waits in one queue, once, until an      *)
(* accept takes it, and connections are taken in the order they were made; *)
(* also when the ring of pending connections is full or wraps.             *)
ConnectionsInOrder ==
    \A s \in Made :
        /\ \A i, j \in 1 .. socks[s].pcount : i < j => Pending(s)[i] < Pending(s)[j]
        /\ \A i \in 1 .. socks[s].pcount :
              LET x == Pending(s)[i]
              IN  /\ x \in Made /\ socks[x].taken = 0 /\ socks[x].peer # 0
                  /\ \A y \in Made : socks[y].taken = s => y < x
                  /\ \A r \in Made \ {s} : \A j \in 1 .. socks[r].pcount : Pending(r)[j] # x

(* The ring of a socket holds the bytes sent to it and not yet received,   *)
(* in order.                                                               *)
RingHoldsBytes ==
    \A s \in Made :
        /\ socks[s].rcount = socks[s].in - socks[s].out
        /\ socks[s].rcount \in 0 .. UnixBufSize
        /\ \A i \in 0 .. socks[s].rcount - 1 :
              socks[s].rbuf[(socks[s].rhead + i) % UnixBufSize] = socks[s].out + i

(* A thread asleep in accept or recvfrom although there is something to    *)
(* take has been woken, unless another thread has used the one waiter slot *)
(* of the socket since.                                                    *)
NoStuckSocket ==
    \A t \in Threads \ displaced :
        /\ ~Awake(t)
        /\ \/ call[t].op = "accept" /\ socks[call[t].sock].pcount > 0
           \/ call[t].op = "recv" /\ socks[call[t].sock].rcount > 0
        => wake_pending[t]

(* What unix sockets promise: connections and bytes arrive once and in     *)
(* order, and whoever waits for them is woken.                             *)
SocketsExact == ConnectionsInOrder /\ RingHoldsBytes /\ NoStuckSocket
=============================================================================
