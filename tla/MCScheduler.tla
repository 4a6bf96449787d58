---------------------------- MODULE MCScheduler ----------------------------
(* Small instances of the scheduler. *)
EXTENDS Scheduler

CONSTANTS t1, t2, t3, c1, c2
OneCore == {c1}
TwoCores == {c1, c2}
TwoThreads == {t1, t2}
ThreeThreads == {t1, t2, t3}
=============================================================================
