-------------------------------- MODULE RwLock --------------------------------
(***************************************************************************)
(* The pthread_rwlock functions (musl/src/thread).  _rw_lock is a count of *)
(* readers, or Writer, and the waiters bit 0x80000000.                     *)
(***************************************************************************)
EXTENDS UserThreads, TLC

CONSTANT Writer     \* 0x7fffffff

ASSUME RwAssumption == Writer \in Nat /\ Writer > 1

RwWord == <<"_rw_lock", 0>>
RwWaiters == <<"_rw_waiters", 0>>
RwFree == [cnt |-> 0, bit |-> FALSE]

RwRegs == [val |-> RwFree, waiters |-> 0, mode |-> "rd"]
RwReturn(t, l) == Goto(t, l) /\ Keep(t, RwRegs)

RwInit ==
    /\ ContractInit
    /\ word = RwWord :> RwFree @@ RwWaiters :> 0
    /\ at = [t \in Threads |-> "out"]
    /\ reg = [t \in Threads |-> RwRegs]
    /\ misled = FALSE

-----------------------------------------------------------------------------
(* tryrdlock repeats its compare-and-swap until it succeeds or the load    *)
(* says EBUSY or EAGAIN; trywrlock tries once.                             *)
Readable == word[RwWord].cnt < Writer - 1
RwTake(t, mode) ==
    \/ /\ mode = "rd" /\ Readable
       /\ Stored(RwWord, [word[RwWord] EXCEPT !.cnt = @ + 1])
       /\ RwReturn(t, "reading")
    \/ /\ mode = "wr" /\ word[RwWord] = RwFree
       /\ Stored(RwWord, [cnt |-> Writer, bit |-> FALSE])
       /\ RwReturn(t, "writing")
    \/ /\ mode = "rd" /\ word[RwWord].cnt = Writer - 1     \* EAGAIN
       /\ RwReturn(t, "out")
       /\ UNCHANGED word

RwBusy(mode) == IF mode = "rd" THEN word[RwWord].cnt = Writer ELSE word[RwWord] # RwFree

RwTry(t) ==
    /\ at[t] = "rw try"
    /\ \/ RwTake(t, reg[t].mode)
       \/ RwBusy(reg[t].mode) /\ Goto(t, "rw load") /\ UNCHANGED <<word, reg>>
    /\ UNCHANGED <<waiting, misled>>

(* A reader waits only for a writer.  A wait without a timeout is one that *)
(* does not time out.                                                      *)
RwLoad(t) ==
    LET r == word[RwWord] IN
    /\ at[t] = "rw load"
    /\ IF r = RwFree \/ (reg[t].mode = "rd" /\ r.cnt # Writer)
       THEN Goto(t, "rw try") /\ UNCHANGED reg
       ELSE Goto(t, "rw inc") /\ Keep(t, [reg[t] EXCEPT !.val = r])
    /\ UNCHANGED <<contractVars, misled>>

RwInc(t) ==
    /\ at[t] = "rw inc"
    /\ Stored(RwWaiters, word[RwWaiters] + 1)
    /\ Goto(t, "rw mark")
    /\ UNCHANGED <<waiting, reg, misled>>

RwMarked(r) == [r EXCEPT !.bit = TRUE]

RwMark(t) ==
    /\ at[t] = "rw mark"
    /\ Stored(RwWord, IF word[RwWord] = reg[t].val THEN RwMarked(reg[t].val) ELSE word[RwWord])
    /\ Goto(t, "rw wait")
    /\ UNCHANGED <<waiting, reg, misled>>

RwWait(t) ==
    \/ Wait(t, "rw wait", RwWord, RwMarked(reg[t].val), "rw asleep", "rw dec")
    \/ WaitEnds(t, "rw asleep", "rw dec")
    \/ WaitTimesOut(t, "rw asleep", "rw give up")

RwDec(t) ==
    /\ at[t] \in {"rw dec", "rw give up"}
    /\ Stored(RwWaiters, word[RwWaiters] - 1)
    /\ IF at[t] = "rw dec"
       THEN Goto(t, "rw try") /\ Keep(t, [reg[t] EXCEPT !.val = RwFree])
       ELSE RwReturn(t, "out")
    /\ UNCHANGED <<waiting, misled>>

-----------------------------------------------------------------------------
(* __pthread_rwlock_unlock: two loads and a compare-and-swap.              *)
UnlockVal(t) ==
    /\ at[t] = "rw unlock"
    /\ Goto(t, "rw waiters")
    /\ Keep(t, [reg[t] EXCEPT !.val = word[RwWord]])
    /\ UNCHANGED <<contractVars, misled>>

UnlockWaiters(t) ==
    /\ at[t] = "rw waiters"
    /\ Goto(t, "rw cas")
    /\ Keep(t, [reg[t] EXCEPT !.waiters = word[RwWaiters]])
    /\ UNCHANGED <<contractVars, misled>>

Released(val) ==
    IF val.cnt \in {Writer, 1} THEN RwFree ELSE [val EXCEPT !.cnt = @ - 1]

RwUnlockCas(t) ==
    LET new == Released(reg[t].val) IN
    /\ at[t] = "rw cas"
    /\ IF word[RwWord] # reg[t].val
       THEN Goto(t, "rw unlock") /\ Keep(t, RwRegs) /\ UNCHANGED word
       ELSE /\ Stored(RwWord, new)
            /\ IF new = RwFree /\ (reg[t].waiters > 0 \/ reg[t].val.bit)
               THEN Goto(t, "rw wake") /\ UNCHANGED reg
               ELSE RwReturn(t, "out")
    /\ UNCHANGED <<waiting, misled>>

RwUnlockWake(t) ==
    /\ at[t] = "rw wake"
    /\ WakeQueue(RwWord, reg[t].val.cnt)
    /\ RwReturn(t, "out")
    /\ UNCHANGED <<word, misled>>

-----------------------------------------------------------------------------
UseRw(t) ==
    /\ \/ /\ at[t] = "out"
          /\ Goto(t, "rw try")
          /\ \E mode \in {"rd", "wr"} : Keep(t, [reg[t] EXCEPT !.mode = mode])
       \/ at[t] \in {"reading", "writing"} /\ Goto(t, "rw unlock") /\ UNCHANGED reg
    /\ UNCHANGED <<contractVars, misled>>

UseRwTry(t) ==
    /\ at[t] = "out"
    /\ \E mode \in {"rd", "wr"} : RwTake(t, mode)
    /\ UNCHANGED <<waiting, misled>>

RwNext ==
    \E t \in Threads :
        \/ RwTry(t) \/ RwLoad(t) \/ RwInc(t) \/ RwMark(t) \/ RwWait(t) \/ RwDec(t)
        \/ UnlockVal(t) \/ UnlockWaiters(t) \/ RwUnlockCas(t) \/ RwUnlockWake(t)
        \/ UseRw(t) \/ UseRwTry(t)

-----------------------------------------------------------------------------
RwTypeOK ==
    /\ word[RwWord] \in [cnt : 0 .. Writer, bit : BOOLEAN]
    /\ word[RwWaiters] \in 0 .. Cardinality(Threads)
    /\ \A t \in Threads : waiting[t] \in {Nowhere, RwWord}

Reading == {t \in Threads : at[t] = "reading"}
Writing == {t \in Threads : at[t] = "writing"}
Leaving == {t \in Threads : at[t] \in {"rw unlock", "rw waiters", "rw cas"}}

(* A writer is alone, and the count is that of the threads inside, those   *)
(* about to leave included.                                                *)
RwExclusion ==
    /\ Writing # {} => Cardinality(Writing) = 1 /\ Reading = {} /\ word[RwWord].cnt = Writer
    /\ word[RwWord].cnt # Writer =>
          word[RwWord].cnt = Cardinality(Reading) + Cardinality(Leaving)

(* Nobody sleeps on a free lock, and no reader while only readers are      *)
(* inside, unless the wake went to a thread told that it had timed out.    *)
RwNotStuck ==
    Quiet({"out", "reading"}) /\ word[RwWord].cnt # Writer /\ ~misled =>
        \A t \in WaitingOn(RwWord) : reg[t].mode = "wr" /\ Reading # {}
=============================================================================
