-------------------------------- MODULE Pty ---------------------------------
(***************************************************************************)
(* A pseudo terminal (kernel/tty/pty.c): two byte rings between a terminal *)
(* program, the master, and a shell, the slave, with signal characters,    *)
(* end of file and one waiter on each side.  The two threads belong to one *)
(* core, so a call is one step unless it sleeps; a step of a sleeping call *)
(* is a resumption and the turn of the loop that follows it.               *)
(***************************************************************************)
EXTENDS BlockWake, Integers, Sequences, SequencesExt

CONSTANTS
    Sides,          \* the threads: a function of "master" and "slave"
    PtyRingSize,    \* PTY_MAX_RING_BUFFER, 4096
    PtyCounter,     \* 2^64 scaled down, a multiple of PtyRingSize
    PtyLen          \* bound: bytes of a read or write

ASSUME PtyAssumption ==
    /\ DOMAIN Sides = {"master", "slave"} /\ Sides["master"] # Sides["slave"]
    /\ PtyRingSize \in Nat \ {0} /\ PtyLen \in Nat
    /\ \E k \in 2 .. PtyCounter : PtyCounter = k * PtyRingSize
    /\ NoThread \notin Threads

VARIABLES
    pty,        \* struct internal_pty
    pty_call,   \* pty_call[x]: "user", or the call in which side x sleeps
    signals,    \* the pending signals of the slave's thread
    typed       \* what each ring should hold, as a sequence

ptyVars == <<pty, pty_call, signals, typed>>

Bytes == {"x", "intr", "eof"}      \* a letter, Ctrl-C and Ctrl-D
EmptyRing == [head |-> 0, tail |-> 0, buf |-> [i \in 0 .. PtyRingSize - 1 |-> "x"]]
SomeFlags == {{"ISIG", "ICANON", "ECHO"}, {}}

(* ptmx_open.                                                              *)
Opened ==
    [m2s |-> EmptyRing, s2m |-> EmptyRing, eof_pending |-> FALSE, foreground |-> "none",
     c_lflag |-> {"ISIG", "ICANON", "ECHO"}, waiter |-> [x \in DOMAIN Sides |-> NoThread]]

PtyInit ==
    /\ pty = Opened
    /\ pty_call = [x \in DOMAIN Sides |-> "user"]
    /\ signals = {}
    /\ typed = [m2s |-> <<>>, s2m |-> <<>>]

-----------------------------------------------------------------------------
RingUsed(r) == (r.head - r.tail) % PtyCounter
AtMost(i, j) == IF i < j THEN i ELSE j

(* pty_ring_write: as much of s as there is room for.                      *)
PtyRingWriteFull(r, s) ==     \* mutant: the room is not counted
    [r EXCEPT !.head = (r.head + Len(s)) % PtyCounter,
              !.buf = [i \in DOMAIN r.buf |->
                           LET k == (i - r.head) % PtyRingSize IN IF k < Len(s) THEN s[k + 1] ELSE r.buf[i]]]

PtyRingWrite(r, s) ==
    LET n == AtMost(Len(s), PtyRingSize - RingUsed(r))
    IN  [r EXCEPT !.head = (r.head + n) % PtyCounter,
                  !.buf = [i \in DOMAIN r.buf |->
                               LET k == (i - r.head) % PtyRingSize IN IF k < n THEN s[k + 1] ELSE r.buf[i]]]

(* pty_ring_read: n bytes, the oldest, are gone.                           *)
PtyRingRead(r, n) == [r EXCEPT !.tail = (r.tail + n) % PtyCounter]
Readable(r, len) == AtMost(len, RingUsed(r))

(* A ring as a sequence: the bytes a reader would get.                     *)
RingHolds(r) == [i \in 1 .. RingUsed(r) |-> r.buf[(r.tail + i - 1) % PtyRingSize]]

Queue(q, s) == q \o SubSeq(s, 1, AtMost(Len(s), PtyRingSize - Len(q)))

-----------------------------------------------------------------------------
(* One byte of pty_master_write.                                           *)
IsSignal(p, c) == c = "intr" /\ "ISIG" \in p.c_lflag
IsEof(p, c) == c = "eof" /\ "ICANON" \in p.c_lflag
Caret == [i \in 1 .. 4 |-> "^"]      \* ^C and a new line, four bytes
Echoed(p, c) == IF IsSignal(p, c) THEN Caret ELSE IF "ECHO" \in p.c_lflag THEN <<c>> ELSE <<>>

MasterByteKept(p, c) ==     \* mutant: Ctrl-C leaves what was typed before
    IF IsEof(p, c) THEN [p EXCEPT !.eof_pending = TRUE]
    ELSE [p EXCEPT !.m2s = IF IsSignal(p, c) THEN @ ELSE PtyRingWrite(@, <<c>>),
                   !.s2m = PtyRingWrite(@, Echoed(p, c))]

MasterByte(p, c) ==
    IF IsEof(p, c) THEN [p EXCEPT !.eof_pending = TRUE]
    ELSE [p EXCEPT !.m2s = IF IsSignal(p, c) THEN [@ EXCEPT !.head = p.m2s.tail] ELSE PtyRingWrite(@, <<c>>),
                   !.s2m = PtyRingWrite(@, Echoed(p, c))]

TypedByte(q, c) ==
    IF IsEof(pty, c) THEN q
    ELSE [m2s |-> IF IsSignal(pty, c) THEN <<>> ELSE Queue(q.m2s, <<c>>),
          s2m |-> Queue(q.s2m, Echoed(pty, c))]

Waiting == {pty.waiter[x] : x \in DOMAIN Sides} \ {NoThread}
NoWaiters == [x \in DOMAIN Sides |-> NoThread]
Runs(x) == pty_call[x] = "user" /\ Awake(Sides[x])

(* pgid_send_signal wakes the main thread of the foreground process.       *)
Signalled(s) == pty.foreground = "slave" /\ \E i \in DOMAIN s : IsSignal(pty, s[i])

MasterWrite(s) ==
    /\ Runs("master")
    /\ pty' = [FoldLeft(MasterByte, pty, s) EXCEPT !.waiter = NoWaiters]
    /\ typed' = FoldLeft(TypedByte, typed, s)
    /\ signals' = IF Signalled(s) THEN signals \cup {"INT"} ELSE signals
    /\ Wake(Waiting \cup IF Signalled(s) THEN {Sides["slave"]} ELSE {})
    /\ UNCHANGED pty_call

SlaveWrite(s) ==
    /\ Runs("slave")
    /\ pty' = [pty EXCEPT !.s2m = PtyRingWrite(@, s), !.waiter["master"] = NoThread]
    /\ typed' = [typed EXCEPT !.s2m = Queue(@, s)]
    /\ Wake({pty.waiter["master"]} \ {NoThread})
    /\ UNCHANGED <<pty_call, signals>>

-----------------------------------------------------------------------------
(* A call of side x ends, or its loop comes to thread_block, which uses up *)
(* a pending wake and, when the next turn finds nothing either, sleeps.    *)
Turn(x, call) ==
    \/ Runs(x)
    \/ pty_call[x] = call /\ ~Awake(Sides[x])

EndCall(x) ==
    /\ pty_call' = [pty_call EXCEPT ![x] = "user"]
    /\ IF Awake(Sides[x]) THEN UNCHANGED sleepVars ELSE Resume(Sides[x])

BlockCall(x, call) ==
    /\ pty_call' = [pty_call EXCEPT ![x] = call]
    /\ sleep' = [sleep EXCEPT ![Sides[x]] = "block"]
    /\ wake_pending' = [wake_pending EXCEPT ![Sides[x]] = FALSE]

WaitHere(x) == pty' = [pty EXCEPT !.waiter[x] = Sides[x]]

(* pty_slave_read.                                                         *)
SlaveRead(len) ==
    /\ Turn("slave", "read")
    /\ LET n == Readable(pty.m2s, len)
       IN  \/ /\ n > 0
              /\ pty' = [pty EXCEPT !.m2s = PtyRingRead(@, n), !.eof_pending = FALSE]
              /\ typed' = [typed EXCEPT !.m2s = SubSeq(@, n + 1, Len(@))]
              /\ EndCall("slave")
           \/ /\ n = 0 /\ pty.eof_pending
              /\ pty' = [pty EXCEPT !.eof_pending = FALSE]
              /\ EndCall("slave")
              /\ UNCHANGED typed
           \/ /\ n = 0 /\ ~pty.eof_pending /\ signals # {}
              /\ EndCall("slave")     \* -EINTR
              /\ UNCHANGED <<pty, typed>>
           \/ /\ n = 0 /\ ~pty.eof_pending /\ signals = {}
              /\ WaitHere("slave")
              /\ BlockCall("slave", "read")
              /\ UNCHANGED typed
    /\ UNCHANGED signals

(* pty_master_read, with and without O_NONBLOCK.                           *)
ForegroundPending == pty.foreground = "slave" /\ signals # {}

MasterRead(len, nonblock) ==
    /\ Turn("master", "read")
    /\ nonblock => Runs("master")
    /\ LET n == Readable(pty.s2m, len)
       IN  \/ /\ n > 0
              /\ pty' = [pty EXCEPT !.s2m = PtyRingRead(@, n)]
              /\ typed' = [typed EXCEPT !.s2m = SubSeq(@, n + 1, Len(@))]
              /\ EndCall("master")
           \/ /\ n = 0 /\ (ForegroundPending \/ nonblock)
              /\ EndCall("master")     \* -EINTR, -EAGAIN
              /\ UNCHANGED <<pty, typed>>
           \/ /\ n = 0 /\ ~ForegroundPending /\ ~nonblock
              /\ WaitHere("master")
              /\ BlockCall("master", "read")
              /\ UNCHANGED typed
    /\ UNCHANGED signals

(* select with pty_slave_poll or pty_master_poll.                          *)
Polled(x) == RingUsed(IF x = "slave" THEN pty.m2s ELSE pty.s2m) > 0

PtySelect(x) ==
    /\ Turn(x, "select")
    /\ \/ Polled(x) /\ EndCall(x) /\ UNCHANGED pty
       \/ /\ ~Polled(x)
          /\ WaitHere(x)
          /\ IF x = "slave" /\ signals # {} THEN EndCall(x) ELSE BlockCall(x, "select")
    /\ UNCHANGED <<signals, typed>>

-----------------------------------------------------------------------------
(* The calls that change the settings: TCSETS, TIOCSPGRP, and TIOCSWINSZ   *)
(* by some process of the terminal, which signals but does not wake.       *)
SetFlags(l) ==
    /\ Runs("slave")
    /\ pty.m2s = EmptyRing         \* bound: modes do not alternate while bytes are typed
    /\ pty' = [pty EXCEPT !.c_lflag = l]
    /\ UNCHANGED <<sleepVars, pty_call, signals, typed>>

SetForeground ==
    /\ Runs("slave")
    /\ pty' = [pty EXCEPT !.foreground = "slave"]
    /\ UNCHANGED <<sleepVars, pty_call, signals, typed>>

SetWindow ==
    /\ pty.foreground = "slave"
    /\ ~Awake(Sides["slave"])      \* bound: where the missing wake matters
    /\ signals' = signals \cup {"WINCH"}
    /\ UNCHANGED <<sleepVars, pty, pty_call, typed>>

(* Signals are delivered on the way back to user mode (Signal).            *)
HandleSignals ==
    /\ Runs("slave") /\ signals # {}
    /\ signals' = {}
    /\ UNCHANGED <<sleepVars, pty, pty_call, typed>>

(* Bounds: the master writes one byte at a time, as a keyboard types, and  *)
(* reads PtyLen, the slave the other way round; a Ctrl-D that is a byte    *)
(* like any other is not typed, a Ctrl-C may be.                           *)
PtyNext ==
    \/ \E c \in Bytes : (c = "eof" => IsEof(pty, c)) /\ MasterWrite(<<c>>)
    \/ SlaveWrite([i \in 1 .. PtyLen |-> "x"])
    \/ SlaveRead(1)
    \/ \E nonblock \in BOOLEAN : MasterRead(PtyLen, nonblock)
    \/ \E x \in DOMAIN Sides : PtySelect(x)
    \/ \E l \in SomeFlags : SetFlags(l)
    \/ SetForeground \/ SetWindow \/ HandleSignals

-----------------------------------------------------------------------------
PtyTypeOK ==
    /\ \A r \in {pty.m2s, pty.s2m} : RingUsed(r) \in 0 .. PtyRingSize
    /\ \A x \in DOMAIN Sides : pty.waiter[x] \in {Sides[x], NoThread}
    /\ signals \subseteq {"INT", "WINCH"}

(* Each ring hands out the bytes in the order they came, across the end of *)
(* the ring and of the counters: a Ctrl-C takes back what was typed and    *)
(* not yet read, bytes that find the ring full are dropped, nothing else   *)
(* is lost and nothing comes twice.                                        *)
PtyInOrder == RingHolds(pty.m2s) = typed.m2s /\ RingHolds(pty.s2m) = typed.s2m

Unwoken(x) == ~Awake(Sides[x]) /\ ~wake_pending[Sides[x]]

(* Neither side sleeps while there is something for it: bytes, and for the *)
(* slave a Ctrl-C meant for it; a Ctrl-D ends a read, though not a select. *)
PtyNotStuck ==
    /\ Unwoken("slave") => typed.m2s = <<>> /\ "INT" \notin signals
    /\ Unwoken("slave") /\ pty_call["slave"] = "read" => ~pty.eof_pending
    /\ Unwoken("master") => typed.s2m = <<>>

PtyExact == PtyInOrder /\ PtyNotStuck
=============================================================================
