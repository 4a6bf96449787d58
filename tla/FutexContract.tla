---------------------------- MODULE FutexContract ----------------------------
(***************************************************************************)
(* What the futex system call promises to user space: a thread is queued   *)
(* on a word only while the word has the value it expects, a wake takes as *)
(* many threads out of the queue as it may, and a thread may leave at any  *)
(* time, since a wait can time out or end for no reason.  Futex implements *)
(* it (Futex!ImplementsContract); the C library is written against it.     *)
(***************************************************************************)
EXTENDS Naturals, FiniteSets

CONSTANTS
    Threads,
    Nowhere     \* the address of no word

VARIABLES
    word,      \* the user words, by address
    waiting    \* waiting[t]: the address thread t is queued on, or Nowhere

contractVars == <<word, waiting>>

WaitingOn(a) == {t \in Threads : waiting[t] = a}

(* As many elements of W as there are, up to n.                            *)
UpTo(W, n) ==
    {S \in SUBSET W : Cardinality(S) = IF n < Cardinality(W) THEN n ELSE Cardinality(W)}

Out(S) == [t \in Threads |-> IF t \in S THEN Nowhere ELSE waiting[t]]

(* FUTEX_WAIT of the value v.                                              *)
EnterQueue(t, a, v) ==
    /\ waiting[t] = Nowhere
    /\ word[a] = v
    /\ waiting' = [waiting EXCEPT ![t] = a]

(* FUTEX_WAKE, and FUTEX_REQUEUE, which moves m of the rest to b.          *)
WakeQueue(a, n) == \E S \in UpTo(WaitingOn(a), n) : waiting' = Out(S)

RequeueTo(a, b, n, m) ==
    \E S \in UpTo(WaitingOn(a), n) :
        \E M \in UpTo(WaitingOn(a) \ S, m) :
            waiting' = [t \in Threads |-> IF t \in M THEN b ELSE Out(S)[t]]

LeaveQueue(t) == waiting' = Out({t})

(* User code changes one word.                                             *)
ChangeWord ==
    \E a \in DOMAIN word : \E v \in {word'[a]} : word' = [word EXCEPT ![a] = v]

ContractInit == waiting = [t \in Threads |-> Nowhere]

(* expects[t] is the value thread t passes with its call.                  *)
ContractNext(expects) ==
    \/ ChangeWord /\ UNCHANGED waiting
    \/ /\ \/ \E t \in Threads : LeaveQueue(t) \/ \E a \in DOMAIN word : EnterQueue(t, a, expects[t])
          \/ \E a \in DOMAIN word, n \in 0 .. Cardinality(Threads) : WakeQueue(a, n)
          \/ \E a, b \in DOMAIN word, n, m \in 0 .. Cardinality(Threads) : RequeueTo(a, b, n, m)
       /\ UNCHANGED word
=============================================================================
