------------------------------- MODULE Signal -------------------------------
(***************************************************************************)
(* Signals of one thread (kernel/sys/sig.c, the entry and exit of          *)
(* vxSyscallHandler, rt_sigreturn, kill) and select on a terminal          *)
(* (char_poll), which ends for input or for a signal.  Kill and input come *)
(* from the same core, between two system calls, or from another core, at  *)
(* any moment.                                                             *)
(***************************************************************************)
EXTENDS BlockWake, Integers, FiniteSets

CONSTANTS
    Owner,      \* the thread
    Signals,    \* signal numbers
    Fatal,      \* SIGINT, SIGQUIT, SIGKILL, SIGTERM: they end the process by default
    Faults,     \* SIGSEGV, SIGFPE, SIGILL: an exception of the program raises them
    MaxDepth    \* bound: handlers told apart; deeper ones count as this one

ASSUME SignalAssumption ==
    /\ Owner \in Threads
    /\ Signals \subseteq Nat /\ Signals # {} /\ Fatal \subseteq Signals /\ Faults \subseteq Signals
    /\ MaxDepth \in Nat

VARIABLES
    local,              \* kill and input come from the thread's own core
    pending, mask,      \* sig_han_t
    handler,            \* "dfl", "ign" or "user"
    depth,              \* the code that runs: 0 the program, n the n-th handler
    saved_reg,          \* what thread_t.saved_reg resumes; -1 when has_saved_reg is false
    nested,             \* a handler was interrupted by another since depth was 0
    step,               \* the program point of the thread
    input, tty_waiter,  \* the terminal: has_data, and whether priv->waiter is the thread
    kill, kill_sig,     \* the program point of a kill, its signal
    irq, irq_wakes      \* the program point of the input handler; it took the waiter

sigVars == <<local, pending, mask, handler, depth, saved_reg, nested, step, input, tty_waiter,
             kill, kill_sig, irq, irq_wakes>>

Lowest(S) == CHOOSE s \in S : \A r \in S : s <= r

SigInit ==
    /\ SleepInit
    /\ local \in BOOLEAN
    /\ pending = {} /\ mask = {}
    /\ handler = [s \in Signals |-> "dfl"]
    /\ depth = 0 /\ saved_reg = -1 /\ nested = FALSE
    /\ step = "user"
    /\ input = FALSE /\ tty_waiter = FALSE
    /\ kill = "idle" /\ kill_sig = Lowest(Signals)
    /\ irq = "idle" /\ irq_wakes = FALSE

-----------------------------------------------------------------------------
Handlers == <<mask, handler>>
Context == <<depth, saved_reg, nested>>
Terminal == <<input, tty_waiter>>
Others == <<local, kill, kill_sig, irq, irq_wakes>>

ThreadAt(l) ==
    /\ step = l
    /\ Awake(Owner)
    /\ local => (kill = "idle" /\ irq = "idle")

(* Where another thread or an interrupt handler of the core can run.       *)
Outside == local => step \in {"user", "asleep"}

(* The delivery loop at the entry and the exit of a system call, over the  *)
(* signals of S: ignored ones are cleared up to the first that ends the    *)
(* process or has a handler.  A handler's return address goes to the one   *)
(* saved_reg.                                                              *)
Acting(S) == {s \in S : handler[s] = "user" \/ (handler[s] = "dfl" /\ s \in Fatal)}
Ignored(S) == {s \in S : handler[s] = "ign"}

NoDelivery(S) ==
    /\ Acting(S) = {}
    /\ pending' = pending \ Ignored(S)
    /\ UNCHANGED Context


Saves(s) == depth

RunHandler(s) ==
    /\ step' = "user"
    /\ saved_reg' = Saves(s)
    /\ depth' = IF depth < MaxDepth THEN depth + 1 ELSE depth
    /\ nested' = (depth > 0)

EndProcess == step' = "dead" /\ UNCHANGED Context

Deliver(S) ==
    LET s == Lowest(Acting(S)) IN
    /\ Acting(S) # {}
    /\ pending' = (pending \ {s}) \ {r \in Ignored(S) : r < s}
    /\ IF handler[s] = "user" THEN RunHandler(s) ELSE EndProcess

(* An exception of the program: the handler, or the end, at once.          *)
Raise(s) ==
    /\ ThreadAt("user")
    /\ IF handler[s] = "user" THEN RunHandler(s) ELSE EndProcess
    /\ UNCHANGED <<sleepVars, pending, Handlers, Terminal, Others>>

(* A call other than exit, sigaction, sigprocmask and sigreturn.           *)
EnterCall(l) ==
    /\ ThreadAt("user")
    /\ \/ Deliver(pending)
       \/ NoDelivery(pending) /\ step' = l
    /\ UNCHANGED <<sleepVars, Handlers, Terminal, Others>>

LeaveCall ==
    /\ ThreadAt("leave")
    /\ \/ Deliver(pending \ mask)
       \/ NoDelivery(pending \ mask) /\ step' = "user"
    /\ UNCHANGED <<sleepVars, Handlers, Terminal, Others>>

(* rt_sigreturn: without a saved context the call just returns, into the   *)
(* code after it, which is not there.                                      *)
SigReturn ==
    /\ ThreadAt("user")
    /\ depth > 0
    /\ IF saved_reg >= 0
       THEN /\ depth' = saved_reg
            /\ saved_reg' = -1
            /\ nested' = (nested /\ saved_reg > 0)
            /\ UNCHANGED step
       ELSE step' = "lost" /\ UNCHANGED Context
    /\ UNCHANGED <<sleepVars, pending, Handlers, Terminal, Others>>

SetAction(s, how) ==
    /\ ThreadAt("user")
    /\ s \notin {9, 19}
    /\ handler' = [handler EXCEPT ![s] = how]
    /\ UNCHANGED <<sleepVars, pending, mask, Context, step, Terminal, Others>>

(* execve: caught signals get their default; mask and pending stay.        *)
ExecSignals ==
    /\ ThreadAt("user")
    /\ handler' = [s \in Signals |-> IF handler[s] = "user" THEN "dfl" ELSE handler[s]]
    /\ depth' = 0 /\ nested' = FALSE
    /\ UNCHANGED <<sleepVars, pending, mask, saved_reg, step, Terminal, Others>>

SetMask(m) ==
    /\ ThreadAt("user")
    /\ mask' = m
    /\ UNCHANGED <<sleepVars, pending, handler, Context, step, Terminal, Others>>

-----------------------------------------------------------------------------
(* select: char_poll leaves the waiter, looks for input and clears a stale *)
(* wake ...                                                                *)
PollWaiter ==
    /\ ThreadAt("poll")
    /\ tty_waiter' = TRUE
    /\ step' = "look"
    /\ UNCHANGED <<sleepVars, pending, Handlers, Context, input, Others>>

PollLook ==
    /\ ThreadAt("look")
    /\ step' = IF input THEN "ready" ELSE "stale"
    /\ UNCHANGED <<sleepVars, pending, Handlers, Context, Terminal, Others>>

PollClear ==
    /\ ThreadAt("stale")
    /\ wake_pending' = [wake_pending EXCEPT ![Owner] = FALSE]
    /\ step' = "signals"
    /\ UNCHANGED <<sleep, pending, Handlers, Context, Terminal, Others>>

(* ... then select returns EINTR for a deliverable signal, without the     *)
(* delivery at the exit of the call, or sleeps and polls again.            *)
SelectSignals ==
    /\ ThreadAt("signals")
    /\ \/ step' = IF pending \ mask # {} THEN "user" ELSE "block"
       \/ step' = "ready"          \* a timeout of zero
    /\ UNCHANGED <<sleepVars, pending, Handlers, Context, Terminal, Others>>

SelectBlock ==
    /\ ThreadAt("block")
    /\ \/ Consume(Owner) /\ step' = "poll"
       \/ Block(Owner) /\ step' = "asleep"
    /\ UNCHANGED <<pending, Handlers, Context, Terminal, Others>>

SelectResume ==
    /\ step = "asleep"
    /\ Resume(Owner)
    /\ local => (kill = "idle" /\ irq = "idle")
    /\ step' = "poll"
    /\ UNCHANGED <<pending, Handlers, Context, Terminal, Others>>

(* The second poll takes the waiter away; without input it then writes     *)
(* through the null waiter, and the exception in the kernel ends the       *)
(* process.                                                                *)
SelectReady ==
    /\ ThreadAt("ready")
    /\ tty_waiter' = FALSE
    /\ step' = IF input THEN "leave" ELSE "dead"
    /\ UNCHANGED <<sleepVars, pending, Handlers, Context, input, Others>>

(* The input is read, with a call of its own.                              *)
TakeInput ==
    /\ ThreadAt("user")
    /\ input' = FALSE
    /\ UNCHANGED <<sleepVars, pending, Handlers, Context, step, tty_waiter, Others>>

-----------------------------------------------------------------------------
(* kill: sig_send drops a masked signal, then vxThreadWake.                *)
KillSend(s) ==
    /\ Outside
    /\ kill = "idle" /\ (local => irq = "idle")
    /\ kill_sig' = s
    /\ kill' = IF s \in mask THEN "wake" ELSE "post"
    /\ UNCHANGED <<sleepVars, local, pending, Handlers, Context, step, Terminal, irq, irq_wakes>>

KillPost ==
    /\ kill = "post"
    /\ pending' = pending \cup {kill_sig}
    /\ kill' = "wake"
    /\ UNCHANGED <<sleepVars, local, Handlers, Context, step, Terminal, kill_sig, irq, irq_wakes>>

KillWake ==
    /\ kill = "wake"
    /\ Wake({Owner})
    /\ kill' = "idle" /\ kill_sig' = Lowest(Signals)
    /\ UNCHANGED <<local, pending, Handlers, Context, step, Terminal, irq, irq_wakes>>

(* Terminal input: dropped when no thread waits for it; else the data and  *)
(* the waiter under the lock, then the wake.                               *)
InputLook ==
    /\ Outside
    /\ irq = "idle" /\ (local => kill = "idle")
    /\ tty_waiter
    /\ irq' = "add"
    /\ UNCHANGED <<sleepVars, local, pending, Handlers, Context, step, Terminal, kill, kill_sig, irq_wakes>>

InputKeepsWaiter ==     \* mutant: the waiter that is registered is not taken
    /\ irq = "add"
    /\ input' = TRUE
    /\ irq' = "wake"
    /\ UNCHANGED <<sleepVars, local, pending, Handlers, Context, step, tty_waiter, kill, kill_sig, irq_wakes>>

InputAdd ==
    /\ irq = "add"
    /\ input' = TRUE
    /\ irq_wakes' = tty_waiter /\ tty_waiter' = FALSE
    /\ irq' = "wake"
    /\ UNCHANGED <<sleepVars, local, pending, Handlers, Context, step, kill, kill_sig>>

InputWake ==
    /\ irq = "wake"
    /\ IF irq_wakes THEN Wake({Owner}) ELSE UNCHANGED sleepVars
    /\ irq' = "idle" /\ irq_wakes' = FALSE
    /\ UNCHANGED <<local, pending, Handlers, Context, step, Terminal, kill, kill_sig>>

(* The thread has ended, or run into nowhere; another program starts.      *)
NewProgram ==
    /\ step \in {"dead", "lost"}
    /\ kill = "idle" /\ irq = "idle"
    /\ pending' = {} /\ mask' = {} /\ handler' = [s \in Signals |-> "dfl"]
    /\ depth' = 0 /\ saved_reg' = -1 /\ nested' = FALSE
    /\ step' = "user" /\ tty_waiter' = FALSE
    /\ wake_pending' = [wake_pending EXCEPT ![Owner] = FALSE]
    /\ UNCHANGED <<sleep, input, local, kill, kill_sig, irq, irq_wakes>>

-----------------------------------------------------------------------------
SigNext ==
    \/ EnterCall("poll") \/ EnterCall("leave") \/ LeaveCall
    \/ SigReturn \/ ExecSignals
    \/ \E s \in Faults : Raise(s)
    \/ \E s \in Signals : KillSend(s) \/ \E h \in {"dfl", "ign", "user"} : SetAction(s, h)
    \/ \E m \in SUBSET Signals : SetMask(m)
    \/ PollWaiter \/ PollLook \/ PollClear
    \/ SelectSignals \/ SelectBlock \/ SelectResume \/ SelectReady \/ TakeInput
    \/ KillPost \/ KillWake \/ InputLook \/ InputAdd \/ InputWake
    \/ NewProgram

SigSpec == SigInit /\ [][SigNext]_<<sleepVars, sigVars>>

-----------------------------------------------------------------------------
SigTypeOK ==
    /\ SleepTypeOK
    /\ pending \subseteq Signals /\ mask \subseteq Signals
    /\ handler \in [Signals -> {"dfl", "ign", "user"}]
    /\ depth \in 0 .. MaxDepth /\ saved_reg \in -1 .. MaxDepth
    /\ step \in {"user", "dead", "lost", "leave", "poll", "look", "stale", "signals", "block", "asleep", "ready"}

(* A signal that select can return for is never slept through, also when   *)
(* kill runs on another core and although char_poll clears the wake flag:  *)
(* sig_send comes before the wake, the look at the signals after the clear. *)
SignalEndsSelect ==
    /\ step = "asleep" /\ ~Awake(Owner)
    /\ pending \ mask # {} /\ kill = "idle"
    => wake_pending[Owner]

(* Input is never slept through when it comes from the thread's own core.  *)
(* From another core it can be: between the look and the clear.            *)
InputEndsSelect ==
    /\ local
    /\ step = "asleep" /\ ~Awake(Owner)
    /\ input /\ irq = "idle"
    => wake_pending[Owner]

(* A handler returns to the code it interrupted, unless it was interrupted *)
(* by another handler: there is one saved_reg.                             *)
HandlerReturns ==
    /\ step = "lost" => nested
    /\ depth = 1 /\ ~nested => saved_reg = 0

(* Neither a signal nor input is slept through by select.                  *)
SelectEnds == SignalEndsSelect /\ InputEndsSelect

(* A signal ends the wait of select, and its handler returns to the code   *)
(* it interrupted.                                                         *)
SignalsHandled == SelectEnds /\ HandlerReturns
=============================================================================
