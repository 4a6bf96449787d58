------------------------------ MODULE MCFutex ------------------------------
(* Small instances of the futex table. *)
EXTENDS Futex, TLC

CONSTANTS t1, t2, t3, u1
TwoThreads == {t1, t2}
ThreeThreads == {t1, t2, t3}
OneAddress == {u1}
ThreadSymmetry == Permutations(ThreeThreads)
=============================================================================
