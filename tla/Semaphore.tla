------------------------------ MODULE Semaphore ------------------------------
(***************************************************************************)
(* sem_post, sem_trywait and sem_timedwait (musl/src/thread).  __val[0] is *)
(* the value and the waiters bit 0x80000000, __val[1] counts the waiters.  *)
(***************************************************************************)
EXTENDS UserThreads, TLC

CONSTANT SemValueMax     \* SEM_VALUE_MAX

ASSUME SemAssumption == SemValueMax \in Nat \ {0}

Val == <<"__val", 0>>
SemWaiters == <<"__val", 1>>
Contended == [n |-> 0, bit |-> TRUE]     \* 0x80000000

SemRegs == [val |-> Contended, waiters |-> 0]
SemReturn(t) == Goto(t, "out") /\ Keep(t, SemRegs)

SemInit ==
    /\ ContractInit
    /\ word \in {Val :> [n |-> i, bit |-> FALSE] @@ SemWaiters :> 0 : i \in 0 .. SemValueMax}
    /\ at = [t \in Threads |-> "out"]
    /\ reg = [t \in Threads |-> SemRegs]
    /\ misled = FALSE

-----------------------------------------------------------------------------
(* sem_post: two loads and a compare-and-swap, repeated until it succeeds. *)
PostVal(t) ==
    /\ at[t] = "post"
    /\ IF word[Val].n = SemValueMax
       THEN SemReturn(t)     \* EOVERFLOW
       ELSE Goto(t, "post waiters") /\ Keep(t, [reg[t] EXCEPT !.val = word[Val]])
    /\ UNCHANGED <<contractVars, misled>>

PostWaiters(t) ==
    /\ at[t] = "post waiters"
    /\ Goto(t, "post cas")
    /\ Keep(t, [reg[t] EXCEPT !.waiters = word[SemWaiters]])
    /\ UNCHANGED <<contractVars, misled>>

Posted(val, waiters) == [n |-> val.n + 1, bit |-> val.bit /\ waiters > 1]

WakesCounted(val, waiters) == waiters > 0     \* mutant: the bit is not looked at

Wakes(val, waiters) == val.bit \/ waiters > 0

PostCas(t) ==
    /\ at[t] = "post cas"
    /\ IF word[Val] # reg[t].val
       THEN Goto(t, "post") /\ Keep(t, SemRegs) /\ UNCHANGED word
       ELSE /\ Stored(Val, Posted(reg[t].val, reg[t].waiters))
            /\ IF Wakes(reg[t].val, reg[t].waiters)
               THEN Goto(t, "post wake") /\ UNCHANGED reg
               ELSE SemReturn(t)
    /\ UNCHANGED <<waiting, misled>>

PostWake(t) ==
    /\ at[t] = "post wake"
    /\ WakeQueue(Val, IF reg[t].waiters > 1 THEN 1 ELSE Everyone)
    /\ SemReturn(t)
    /\ UNCHANGED <<word, misled>>

-----------------------------------------------------------------------------
(* sem_trywait: one step, as a swap that fails is repeated.                *)
SemTake(t) ==
    /\ word[Val].n > 0
    /\ Stored(Val, [word[Val] EXCEPT !.n = @ - 1])
    /\ SemReturn(t)

SemTry(t) ==
    /\ at[t] = "sem try"
    /\ \/ SemTake(t)
       \/ word[Val].n = 0 /\ Goto(t, "sem inc") /\ UNCHANGED <<word, reg>>
    /\ UNCHANGED <<waiting, misled>>

SemTryWait(t) ==
    /\ at[t] = "out"
    /\ SemTake(t)
    /\ UNCHANGED <<waiting, misled>>

SemInc(t) ==
    /\ at[t] = "sem inc"
    /\ Stored(SemWaiters, word[SemWaiters] + 1)
    /\ Goto(t, "sem mark")
    /\ UNCHANGED <<waiting, reg, misled>>

SemMark(t) ==
    /\ at[t] = "sem mark"
    /\ Stored(Val, IF word[Val] = [Contended EXCEPT !.bit = FALSE] THEN Contended ELSE word[Val])
    /\ Goto(t, "sem wait")
    /\ UNCHANGED <<waiting, reg, misled>>

SemWait(t) ==
    \/ Wait(t, "sem wait", Val, Contended, "sem asleep", "sem dec")
    \/ WaitEnds(t, "sem asleep", "sem dec")
    \/ WaitTimesOut(t, "sem asleep", "sem give up")

SemDec(t) ==
    /\ at[t] \in {"sem dec", "sem give up"}
    /\ Stored(SemWaiters, word[SemWaiters] - 1)
    /\ IF at[t] = "sem dec" THEN Goto(t, "sem try") /\ UNCHANGED reg ELSE SemReturn(t)
    /\ UNCHANGED <<waiting, misled>>

(* A wait without a timeout is one that does not time out.                 *)
UseSem(t) ==
    /\ at[t] = "out"
    /\ Goto(t, "post") \/ Goto(t, "sem try")
    /\ UNCHANGED <<contractVars, reg, misled>>

SemNext ==
    \E t \in Threads :
        \/ PostVal(t) \/ PostWaiters(t) \/ PostCas(t) \/ PostWake(t)
        \/ SemTry(t) \/ SemTryWait(t) \/ SemInc(t) \/ SemMark(t) \/ SemWait(t) \/ SemDec(t)
        \/ UseSem(t)

-----------------------------------------------------------------------------
SemTypeOK ==
    /\ word[Val] \in [n : 0 .. SemValueMax, bit : BOOLEAN]
    /\ word[SemWaiters] \in 0 .. Cardinality(Threads)
    /\ \A t \in Threads : waiting[t] \in {Nowhere, Val}

(* Nobody sleeps in sem_timedwait while the value is positive, whatever    *)
(* posts and timeouts came in between: unless the wake went to a thread    *)
(* that was told it had timed out.                                         *)
SemNotStuck == word[Val].n > 0 /\ Quiet({"out"}) /\ ~misled => WaitingOn(Val) = {}
=============================================================================
