--------------------------------- MODULE Once ---------------------------------
(***************************************************************************)
(* pthread_once (musl/src/thread/pthread_once.c).                          *)
(***************************************************************************)
EXTENDS UserThreads, TLC

CONSTANT MaxUndone     \* bound: init routines that are cancelled

ASSUME OnceAssumption == MaxUndone \in Nat

Control == <<"control", 0>>
InitRuns == <<"init", 0>>     \* how often init has ended, how often it was cancelled
Undone == <<"init", 1>>

OnceInit ==
    /\ ContractInit
    /\ word = Control :> 0 @@ InitRuns :> 0 @@ Undone :> 0
    /\ at = [t \in Threads |-> "out"]
    /\ reg = [t \in Threads |-> 0]
    /\ misled = FALSE

-----------------------------------------------------------------------------
(* __pthread_once tests for 2 first; the compare-and-swap that would       *)
(* follow it sees the same value.                                          *)
OnceTry(t) ==
    /\ at[t] = "once"
    /\ Stored(Control, IF word[Control] = 0 THEN 1 ELSE word[Control])
    /\ Goto(t, CASE word[Control] = 0 -> "init"
                 [] word[Control] = 1 -> "once mark"
                 [] word[Control] = 2 -> "done"
                 [] word[Control] = 3 -> "once wait")
    /\ UNCHANGED <<waiting, reg, misled>>

OnceMark(t) ==
    /\ at[t] = "once mark"
    /\ Stored(Control, IF word[Control] = 1 THEN 3 ELSE word[Control])
    /\ Goto(t, "once wait")
    /\ UNCHANGED <<waiting, reg, misled>>

(* __wait returns only once it has seen another value.                     *)
OnceWait(t) ==
    \/ Wait(t, "once wait", Control, 3, "once asleep", "once")
    \/ WaitEnds(t, "once asleep", "once wait")

(* init returns, or the thread is cancelled in it and undo runs.           *)
RunInit(t) ==
    /\ at[t] = "init"
    /\ \/ Stored(InitRuns, word[InitRuns] + 1) /\ Goto(t, "finish")
       \/ word[Undone] < MaxUndone /\ Stored(Undone, word[Undone] + 1) /\ Goto(t, "undo")
    /\ UNCHANGED <<waiting, reg, misled>>

Undo(t) ==
    /\ at[t] = "undo"
    /\ Stored(Control, 0)
    /\ Goto(t, IF word[Control] = 3 THEN "undo wake" ELSE "out")
    /\ UNCHANGED <<waiting, reg, misled>>

Finish(t) ==
    /\ at[t] = "finish"
    /\ Stored(Control, 2)
    /\ Goto(t, IF word[Control] = 3 THEN "once wake" ELSE "done")
    /\ UNCHANGED <<waiting, reg, misled>>

OnceWake(t) ==
    \/ WakeStep(t, "once wake", Control, Everyone, "done")
    \/ WakeStep(t, "undo wake", Control, Everyone, "out")

UseOnce(t) == at[t] = "out" /\ Goto(t, "once") /\ UNCHANGED <<contractVars, reg, misled>>

OnceReturn(t) == at[t] = "done" /\ Goto(t, "out") /\ UNCHANGED <<contractVars, reg, misled>>

OnceNext ==
    \E t \in Threads :
        \/ OnceTry(t) \/ OnceMark(t) \/ OnceWait(t) \/ RunInit(t) \/ Undo(t) \/ Finish(t)
        \/ OnceWake(t) \/ UseOnce(t) \/ OnceReturn(t)

-----------------------------------------------------------------------------
OnceTypeOK ==
    /\ word[Control] \in 0 .. 3
    /\ \A t \in Threads : waiting[t] \in {Nowhere, Control}

(* The init routine completes once, one thread is in it at a time, and     *)
(* nobody returns before it has completed; also after a caller that ran it *)
(* was cancelled.                                                          *)
OnceExact ==
    /\ word[InitRuns] <= 1
    /\ \A t, u \in Threads : {at[t], at[u]} \subseteq {"init", "finish", "undo"} => t = u
    /\ \A t \in Threads : at[t] = "done" => word[InitRuns] = 1

(* Nobody waits for an init routine that nobody runs.                      *)
OnceNotStuck == Quiet({"out"}) => WaitingOn(Control) = {}
=============================================================================
