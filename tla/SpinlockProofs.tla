--------------------------- MODULE SpinlockProofs ---------------------------
(***************************************************************************)
(* The ticket lock excludes mutually, and serves in order of arrival, for  *)
(* every number of cores below the number of ticket values; and which      *)
(* sections under a spinlock can trap a core, for any number of threads    *)
(* and cores.                                                              *)
(***************************************************************************)
EXTENDS Spinlock, LockSection, FiniteSetTheorems, TLAPS

(* The 16-bit successor of spin_acquire and spin_release: one more, or     *)
(* zero at the wrap.                                                       *)
LEMMA SuccValue ==
    ASSUME NEW t \in 0 .. Tickets - 1, Tickets \in Nat
    PROVE  Succ(t) = IF t = Tickets - 1 THEN 0 ELSE t + 1
<1>1. CASE t = Tickets - 1
  BY <1>1 DEF Succ
<1>2. CASE t # Tickets - 1
  <2>1. t + 1 \in 0 .. Tickets - 1
    BY <1>2
  <2>. QED  BY <2>1, <1>2 DEF Succ
<1>. QED  BY Zenon, <1>1, <1>2

(* The lock never runs out of tickets: while a core is outside the lock,   *)
(* the draw of one more ticket does not bring next_ticket back to          *)
(* now_serving.                                                            *)
LEMMA TicketsSuffice ==
    ASSUME IndInv, NEW c \in Cpus, ~InLock(c)
    PROVE  Succ(next_ticket) # now_serving
<1>. DEFINE T == 0 .. Tickets - 1
            f == [d \in Cpus |-> IF d = c THEN next_ticket ELSE my_ticket[d]]
<1>0. Tickets \in Nat /\ next_ticket \in T /\ now_serving \in T
  BY Zenon, TicketsAssumption DEF IndInv, LockTypeOK
<1>. SUFFICES ASSUME Succ(next_ticket) = now_serving
              PROVE  FALSE
  BY Zenon
<1>1. ASSUME NEW t \in T, t # next_ticket
      PROVE  t \in Outstanding
  <2>1. CASE next_ticket = Tickets - 1
    <3>1. now_serving = 0
      BY Zenon, <2>1, <1>0, SuccValue
    <3>. QED  BY <1>0, <1>1, <2>1, <3>1 DEF Outstanding
  <2>2. CASE next_ticket # Tickets - 1
    <3>1. now_serving = next_ticket + 1
      BY Zenon, <2>2, <1>0, SuccValue
    <3>. QED  BY <1>0, <1>1, <2>2, <3>1 DEF Outstanding
  <2>. QED  BY Zenon, <2>1, <2>2
<1>2. f \in [Cpus -> T]
  BY Zenon, <1>0 DEF IndInv, LockTypeOK
<1>3. ASSUME NEW t \in T
      PROVE  \E d \in Cpus : f[d] = t
  <2>1. CASE t = next_ticket
    BY Zenon, <2>1
  <2>2. CASE t # next_ticket
    <3>1. PICK d \in Cpus : InLock(d) /\ my_ticket[d] = t
      BY Zenon, <1>1, <2>2 DEF IndInv, EveryTicketDrawn
    <3>. QED  BY Zenon, <3>1
  <2>. QED  BY Zenon, <2>1, <2>2
<1>4. f \in Surjection(Cpus, T)
  BY Zenon, <1>2, <1>3 DEF Surjection
<1>5. Cardinality(T) <= Cardinality(Cpus)
  BY Zenon, <1>4, CpusAssumption, FS_Surjection
<1>6. Cardinality(T) = Tickets
  <2>1. 0 \in Int /\ Tickets - 1 \in Int
    BY <1>0
  <2>2. Cardinality(T) = IF 0 > Tickets - 1 THEN 0 ELSE (Tickets - 1) - 0 + 1
    BY Zenon, <2>1, FS_Interval
  <2>. QED  BY <2>2, <1>0
<1>7. Cardinality(Cpus) \in Nat
  BY Zenon, CpusAssumption, FS_CardinalityType
<1>. QED  BY <1>5, <1>6, <1>7, TicketsAssumption

(* The unlocked lock (both counters zero) satisfies the invariant.         *)
THEOREM InitIndInv == LockInit => IndInv
<1>. SUFFICES ASSUME LockInit
              PROVE  IndInv
  BY Zenon
<1>1. Tickets \in Nat /\ 0 \in 0 .. Tickets - 1
  BY TicketsAssumption, CpusAssumption, FS_CardinalityType
<1>2. LockTypeOK
  BY Zenon, <1>1 DEF LockInit, LockTypeOK
<1>3. Outstanding = {}
  BY <1>1 DEF LockInit, Outstanding
<1>. QED
  BY Zenon, <1>2, <1>3 DEF LockInit, IndInv, OneCorePerTicket, TicketsOutstanding,
                    EveryTicketDrawn, HolderIsServed, InLock, Holds

(* Every step of a core in spin_acquire or spin_release keeps the          *)
(* invariant.                                                              *)
THEOREM NextIndInv == IndInv /\ [LockNext]_lockVars => IndInv'
<1>. SUFFICES ASSUME IndInv, [LockNext]_lockVars
              PROVE  IndInv'
  BY Zenon
<1>. DEFINE T == 0 .. Tickets - 1
<1>0. /\ Tickets \in Nat
      /\ next_ticket \in T /\ now_serving \in T
      /\ my_ticket \in [Cpus -> T] /\ next \in [Cpus -> T]
      /\ lock_at \in [Cpus -> {"idle", "spin", "held", "store"}]
  BY Zenon, TicketsAssumption DEF IndInv, LockTypeOK
<1>s. \A t \in T : Succ(t) \in T /\ Succ(t) = IF t = Tickets - 1 THEN 0 ELSE t + 1
  BY <1>0, SuccValue
<1>1. ASSUME NEW c \in Cpus, Draw(c)
      PROVE  IndInv'
  <2>0. /\ lock_at[c] = "idle" /\ ~InLock(c)
        /\ my_ticket' = [my_ticket EXCEPT ![c] = next_ticket]
        /\ next_ticket' = Succ(next_ticket)
        /\ lock_at' = [lock_at EXCEPT ![c] = "spin"]
        /\ now_serving' = now_serving /\ next' = next
    BY Zenon, <1>1 DEF Draw, InLock
  <2>1. LockTypeOK'
    BY Zenon, <1>0, <1>s, <2>0 DEF LockTypeOK
  <2>2. Succ(next_ticket) # now_serving
    BY Zenon, <2>0, TicketsSuffice
  <2>3. Outstanding' = Outstanding \cup {next_ticket} /\ next_ticket \notin Outstanding
    BY SMTT(30), <1>0, <1>s, <2>0, <2>2 DEF Outstanding
  <2>4. \A d \in Cpus \ {c} : my_ticket'[d] = my_ticket[d] /\ lock_at'[d] = lock_at[d]
    BY Zenon, <1>0, <2>0
  <2>5. my_ticket'[c] = next_ticket /\ lock_at'[c] = "spin"
    BY Zenon, <1>0, <2>0
  <2>6. TicketsOutstanding' /\ OneCorePerTicket'
    BY <2>3, <2>4, <2>5 DEF IndInv, TicketsOutstanding, OneCorePerTicket, InLock
  <2>7. EveryTicketDrawn'
    BY <2>0, <2>3, <2>4, <2>5 DEF IndInv, EveryTicketDrawn, InLock
  <2>8. HolderIsServed'
    BY Zenon, <2>0, <2>4, <2>5 DEF IndInv, HolderIsServed, Holds, Succ
  <2>. QED  BY Zenon, <2>1, <2>6, <2>7, <2>8 DEF IndInv
<1>2. ASSUME NEW c \in Cpus, Enter(c)
      PROVE  IndInv'
  <2>1. LockTypeOK'
    BY Zenon, <1>0, <1>2 DEF Enter, LockTypeOK
  <2>2. \A d \in Cpus : InLock(d)' <=> InLock(d)
    BY Zenon, <1>0, <1>2 DEF Enter, InLock
  <2>3. Outstanding' = Outstanding /\ my_ticket' = my_ticket
    BY Zenon, <1>2 DEF Enter, Outstanding
  <2>4. TicketsOutstanding' /\ OneCorePerTicket' /\ EveryTicketDrawn'
    BY Zenon, <2>2, <2>3 DEF IndInv, TicketsOutstanding, OneCorePerTicket, EveryTicketDrawn
  <2>5. HolderIsServed'
    BY Zenon, <1>0, <1>2 DEF Enter, IndInv, HolderIsServed, Holds, Succ
  <2>. QED  BY Zenon, <2>1, <2>4, <2>5 DEF IndInv
<1>3. ASSUME NEW c \in Cpus, ReleaseLoad(c)
      PROVE  IndInv'
  <2>1. LockTypeOK'
    BY Zenon, <1>0, <1>s, <1>3 DEF ReleaseLoad, LockTypeOK
  <2>2. \A d \in Cpus : InLock(d)' <=> InLock(d)
    BY Zenon, <1>0, <1>3 DEF ReleaseLoad, InLock
  <2>3. Outstanding' = Outstanding /\ my_ticket' = my_ticket
    BY Zenon, <1>3 DEF ReleaseLoad, Outstanding
  <2>4. TicketsOutstanding' /\ OneCorePerTicket' /\ EveryTicketDrawn'
    BY Zenon, <2>2, <2>3 DEF IndInv, TicketsOutstanding, OneCorePerTicket, EveryTicketDrawn
  <2>5. HolderIsServed'
    BY Zenon, <1>0, <1>3 DEF ReleaseLoad, IndInv, HolderIsServed, Holds, Succ
  <2>. QED  BY Zenon, <2>1, <2>4, <2>5 DEF IndInv
<1>4. ASSUME NEW c \in Cpus, ReleaseStore(c)
      PROVE  IndInv'
  <2>0. /\ lock_at[c] = "store" /\ now_serving' = Succ(now_serving)
        /\ lock_at' = [lock_at EXCEPT ![c] = "idle"]
        /\ next_ticket' = next_ticket /\ my_ticket' = my_ticket /\ next' = next
    BY Zenon, <1>4 DEF ReleaseStore, IndInv, HolderIsServed
  <2>1. LockTypeOK'
    BY Zenon, <1>0, <1>s, <2>0 DEF LockTypeOK
  <2>2. InLock(c) /\ my_ticket[c] = now_serving
    BY Zenon, <2>0 DEF IndInv, HolderIsServed, Holds, InLock
  <2>3. now_serving \in Outstanding
    BY Zenon, <2>2 DEF IndInv, TicketsOutstanding
  <2>4. Outstanding' = Outstanding \ {now_serving}
    BY <1>0, <1>s, <2>0, <2>3 DEF Outstanding
  <2>5. \A d \in Cpus : InLock(d)' <=> InLock(d) /\ d # c
    BY Zenon, <1>0, <2>0 DEF InLock
  <2>6. \A d \in Cpus : InLock(d) /\ d # c => my_ticket[d] # now_serving
    BY Zenon, <2>2 DEF IndInv, OneCorePerTicket
  <2>7. TicketsOutstanding' /\ OneCorePerTicket' /\ EveryTicketDrawn'
    BY Zenon, <2>0, <2>2, <2>4, <2>5, <2>6
       DEF IndInv, TicketsOutstanding, OneCorePerTicket, EveryTicketDrawn
  <2>8. HolderIsServed'
    <3>1. \A d \in Cpus : ~Holds(d)'
      BY Zenon, <1>0, <2>0, <2>6 DEF IndInv, HolderIsServed, Holds, InLock
    <3>. QED  BY Zenon, <3>1 DEF HolderIsServed, Holds
  <2>. QED  BY Zenon, <2>1, <2>7, <2>8 DEF IndInv
<1>5. CASE UNCHANGED lockVars
  BY Zenon, <1>5 DEF lockVars, IndInv, LockTypeOK, OneCorePerTicket, TicketsOutstanding,
              EveryTicketDrawn, HolderIsServed, InLock, Holds, Outstanding, Succ
<1>. QED  BY Zenon, <1>1, <1>2, <1>3, <1>4, <1>5 DEF LockNext

(* The invariant holds in every reachable state of the lock.               *)
THEOREM Invariance == LockSpec => []IndInv
  BY InitIndInv, NextIndInv, PTL DEF LockSpec

(* Two cores never hold the lock at once, whatever the number of cores     *)
(* below the number of ticket values, and however often the 16-bit         *)
(* counters of spin_acquire and spin_release wrap.                         *)
THEOREM Exclusion == LockSpec => []MutualExclusion
<1>1. IndInv => MutualExclusion
  BY Zenon DEF IndInv, HolderIsServed, OneCorePerTicket, MutualExclusion, Holds, InLock
<1>. QED  BY <1>1, Invariance, PTL

-----------------------------------------------------------------------------
(* How many tickets are drawn and not given back.                          *)
Waiting ==
    IF now_serving <= next_ticket THEN next_ticket - now_serving
    ELSE Tickets - now_serving + next_ticket

InLocks == {c \in Cpus : InLock(c)}

(* The distance of a ticket modulo the number of tickets, without the      *)
(* modulus.                                                                *)
LEMMA DistanceValue ==
    ASSUME NEW a \in 0 .. Tickets - 1, NEW b \in 0 .. Tickets - 1, Tickets \in Nat
    PROVE  (a - b) % Tickets = IF b <= a THEN a - b ELSE a - b + Tickets
<1>1. CASE b <= a
  BY <1>1
<1>2. CASE ~(b <= a)
  <2>1. a - b + Tickets \in 0 .. Tickets - 1
    BY <1>2
  <2>. QED  BY <1>2, <2>1
<1>. QED  BY Zenon, <1>1, <1>2

(* The cores in the lock have the distances 0, 1, 2, ... from now_serving, *)
(* each its own.                                                           *)
LEMMA DistanceFacts ==
    ASSUME IndInv
    PROVE  /\ Waiting \in Nat
           /\ \A c \in Cpus : InLock(c) => Distance(c) \in 0 .. Waiting - 1
           /\ \A c, d \in Cpus : InLock(c) /\ InLock(d) /\ Distance(c) = Distance(d) => c = d
           /\ \A k \in 0 .. Waiting - 1 : \E c \in Cpus : InLock(c) /\ Distance(c) = k
<1>. DEFINE T == 0 .. Tickets - 1
<1>0. Tickets \in Nat /\ next_ticket \in T /\ now_serving \in T /\ \A c \in Cpus : my_ticket[c] \in T
  BY Zenon, TicketsAssumption DEF IndInv, LockTypeOK
<1>1. Waiting \in Nat
  BY <1>0 DEF Waiting
<1>2. \A c \in Cpus : Distance(c) = IF now_serving <= my_ticket[c] THEN my_ticket[c] - now_serving
                                    ELSE my_ticket[c] - now_serving + Tickets
  BY Zenon, <1>0, DistanceValue DEF Distance
<1>3. ASSUME NEW c \in Cpus, InLock(c) PROVE Distance(c) \in 0 .. Waiting - 1
  <2>1. my_ticket[c] \in Outstanding /\ my_ticket[c] \in T
    BY Zenon, <1>0, <1>3 DEF IndInv, TicketsOutstanding
  <2>. QED  BY <1>0, <1>2, <2>1 DEF Outstanding, Waiting
<1>4. ASSUME NEW c \in Cpus, NEW d \in Cpus, InLock(c), InLock(d), Distance(c) = Distance(d)
      PROVE  c = d
  <2>1. my_ticket[c] = my_ticket[d]
    <3>1. my_ticket[c] \in T /\ my_ticket[d] \in T
      BY Zenon, <1>0
    <3>. QED  BY <1>0, <1>2, <1>4, <3>1
  <2>. QED  BY Zenon, <1>4, <2>1 DEF IndInv, OneCorePerTicket
<1>5. ASSUME NEW k \in 0 .. Waiting - 1 PROVE \E c \in Cpus : InLock(c) /\ Distance(c) = k
  <2>. DEFINE t == IF now_serving + k < Tickets THEN now_serving + k ELSE now_serving + k - Tickets
  <2>1. t \in Outstanding /\ t \in T
    BY <1>0 DEF Outstanding, Waiting
  <2>2. k = IF now_serving <= t THEN t - now_serving ELSE t - now_serving + Tickets
    BY <1>0 DEF Waiting
  <2>. HIDE DEF t
  <2>3. PICK c \in Cpus : InLock(c) /\ my_ticket[c] = t
    BY Zenon, <2>1 DEF IndInv, EveryTicketDrawn
  <2>. QED  BY Zenon, <1>2, <2>2, <2>3
<1>. QED  BY Zenon, <1>1, <1>3, <1>4, <1>5

(* The order of arrival, read off the counters, is a line of all the cores *)
(* in the lock, each at its distance from now_serving.                     *)
OrderExact ==
    /\ Waiting \in Nat /\ ArrivalOrder \in Seq(Cpus) /\ Len(ArrivalOrder) = Waiting
    /\ \A i \in 1 .. Waiting : InLock(ArrivalOrder[i]) /\ Distance(ArrivalOrder[i]) = i - 1
    /\ \A c \in Cpus : InLock(c) => /\ Distance(c) + 1 \in 1 .. Waiting
                                    /\ ArrivalOrder[Distance(c) + 1] = c

(* The order read off the counters is exact.                               *)
LEMMA OrderFacts == IndInv => OrderExact
<1>. SUFFICES ASSUME IndInv PROVE OrderExact
  BY Zenon
<1>. DEFINE D == 0 .. Waiting - 1
            f == [c \in InLocks |-> Distance(c)]
<1>0. Waiting \in Nat
  BY Zenon, DistanceFacts
<1>1. Cardinality(InLocks) = Waiting
  <2>1. f \in Bijection(InLocks, D)
    <3>1. f \in [InLocks -> D]
      BY Zenon, DistanceFacts DEF InLocks
    <3>2. \A c, d \in InLocks : f[c] = f[d] => c = d
      BY Zenon, DistanceFacts DEF InLocks
    <3>3. \A k \in D : \E c \in InLocks : f[c] = k
      BY Zenon, DistanceFacts DEF InLocks
    <3>. HIDE DEF f, D
    <3>. QED  BY Zenon, <3>1, <3>2, <3>3 DEF Bijection, Injection, Surjection, IsInjective
  <2>2. IsFiniteSet(InLocks)
    BY Zenon, CpusAssumption, FS_Subset DEF InLocks
  <2>3. Cardinality(D) = Cardinality(InLocks)
    BY Zenon, <2>1, <2>2, FS_Bijection DEF ExistsBijection
  <2>4. 0 \in Int /\ Waiting - 1 \in Int
    BY <1>0
  <2>5. Cardinality(D) = IF 0 > Waiting - 1 THEN 0 ELSE (Waiting - 1) - 0 + 1
    BY Zenon, <2>4, FS_Interval
  <2>. QED  BY <1>0, <2>3, <2>5
<1>2. ArrivalOrder = [i \in 1 .. Waiting |-> CHOOSE c \in Cpus : InLock(c) /\ Distance(c) = i - 1]
  BY Zenon, <1>1 DEF ArrivalOrder, InLocks
<1>3. ASSUME NEW i \in 1 .. Waiting
      PROVE  ArrivalOrder[i] \in Cpus /\ InLock(ArrivalOrder[i]) /\ Distance(ArrivalOrder[i]) = i - 1
  <2>1. i - 1 \in D
    BY <1>0
  <2>2. \E c \in Cpus : InLock(c) /\ Distance(c) = i - 1
    BY Zenon, <2>1, DistanceFacts
  <2>. QED  BY Zenon, <1>2, <2>2
<1>4. ASSUME NEW c \in Cpus, InLock(c)
      PROVE  Distance(c) + 1 \in 1 .. Waiting /\ ArrivalOrder[Distance(c) + 1] = c
  <2>1. Distance(c) \in D
    BY Zenon, <1>4, DistanceFacts
  <2>2. Distance(c) + 1 \in 1 .. Waiting /\ (Distance(c) + 1) - 1 = Distance(c)
    BY <1>0, <2>1
  <2>3. /\ ArrivalOrder[Distance(c) + 1] \in Cpus /\ InLock(ArrivalOrder[Distance(c) + 1])
        /\ Distance(ArrivalOrder[Distance(c) + 1]) = Distance(c)
    BY Zenon, <1>3, <2>2
  <2>. QED  BY Zenon, <1>4, <2>2, <2>3, DistanceFacts
<1>5. ArrivalOrder \in Seq(Cpus) /\ Len(ArrivalOrder) = Waiting
  BY <1>0, <1>2, <1>3
<1>. QED  BY Zenon, <1>0, <1>3, <1>4, <1>5 DEF OrderExact

Owner == {c \in Cpus : Holds(c)}

(* The core whose turn it is shares the lock with nobody.                  *)
LEMMA HolderAlone ==
    ASSUME IndInv, NEW c \in Cpus, InLock(c), my_ticket[c] = now_serving
    PROVE  \A d \in Cpus : Holds(d) => d = c
  BY Zenon DEF IndInv, HolderIsServed, OneCorePerTicket, Holds, InLock

(* A step that moves no core in the line.                                  *)
LEMMA SameOrder ==
    ASSUME OrderExact, OrderExact', Waiting' = Waiting,
           \A d \in Cpus : InLock(d) => InLock(d)' /\ Distance(d)' = Distance(d)
    PROVE  UNCHANGED ArrivalOrder
<1>. DEFINE q == ArrivalOrder
<1>1. /\ Waiting \in Nat /\ q \in Seq(Cpus) /\ Len(q) = Waiting
      /\ \A i \in 1 .. Waiting : InLock(q[i]) /\ Distance(q[i]) = i - 1
      /\ q' \in Seq(Cpus) /\ Len(q') = Waiting
      /\ \A d \in Cpus : InLock(d)' => q'[Distance(d)' + 1] = d
  BY Zenon DEF OrderExact
<1>. HIDE DEF q
<1>2. \A i \in 1 .. Waiting : q'[i] = q[i]
  <2>. TAKE i \in 1 .. Waiting
  <2>1. q[i] \in Cpus /\ (i - 1) + 1 = i
    BY <1>1
  <2>. QED  BY Zenon, <1>1, <2>1
<1>3. q' = q
  BY <1>1, <1>2
<1>. QED  BY Zenon, <1>3 DEF q

(* spin_acquire draws a ticket: the core joins the end of the line.        *)
LEMMA DrawArrives ==
    ASSUME IndInv, IndInv', NEW c \in Cpus, Draw(c)
    PROVE  Abstract!Arrive(c)
<1>. DEFINE T == 0 .. Tickets - 1
            q == ArrivalOrder
<1>0. /\ Tickets \in Nat /\ next_ticket \in T /\ now_serving \in T
      /\ \A d \in Cpus : my_ticket[d] \in T
  BY Zenon, TicketsAssumption DEF IndInv, LockTypeOK
<1>1. /\ lock_at[c] = "idle" /\ ~InLock(c)
      /\ my_ticket' = [my_ticket EXCEPT ![c] = next_ticket]
      /\ next_ticket' = Succ(next_ticket)
      /\ lock_at' = [lock_at EXCEPT ![c] = "spin"]
      /\ now_serving' = now_serving
  BY Zenon DEF Draw, InLock
<1>2. /\ \A d \in Cpus \ {c} : my_ticket'[d] = my_ticket[d] /\ lock_at'[d] = lock_at[d]
      /\ my_ticket'[c] = next_ticket /\ lock_at'[c] = "spin"
  BY Zenon, <1>1 DEF IndInv, LockTypeOK
<1>3. Waiting' = Waiting + 1
  <2>1. Succ(next_ticket) # now_serving
    BY Zenon, <1>1, TicketsSuffice
  <2>2. Succ(next_ticket) = IF next_ticket = Tickets - 1 THEN 0 ELSE next_ticket + 1
    BY Zenon, <1>0, SuccValue
  <2>. QED  BY <1>0, <1>1, <2>1, <2>2 DEF Waiting
<1>4. \A d \in Cpus : InLock(d) => InLock(d)' /\ Distance(d)' = Distance(d)
  BY Zenon, <1>1, <1>2 DEF InLock, Distance
<1>5. InLock(c)' /\ Distance(c)' = Waiting
  <2>1. Distance(c)' = (next_ticket - now_serving) % Tickets
    BY Zenon, <1>1, <1>2 DEF Distance
  <2>2. Distance(c)' = Waiting
    BY <1>0, <2>1, DistanceValue DEF Waiting
  <2>. QED  BY Zenon, <1>2, <2>2 DEF InLock
<1>6. /\ Waiting \in Nat /\ q \in Seq(Cpus) /\ Len(q) = Waiting
      /\ \A i \in 1 .. Waiting : InLock(q[i]) /\ Distance(q[i]) = i - 1
  BY Zenon, OrderFacts DEF OrderExact
<1>7. /\ q' \in Seq(Cpus) /\ Len(q') = Waiting + 1
      /\ \A d \in Cpus : InLock(d)' => q'[Distance(d)' + 1] = d
  <2>1. OrderExact'
    BY OrderFacts, PTL
  <2>. QED  BY Zenon, <1>3, <2>1 DEF OrderExact
<1>. HIDE DEF q
<1>8. \A i \in 1 .. Waiting : q'[i] = q[i] /\ q[i] # c
  <2>. TAKE i \in 1 .. Waiting
  <2>1. q[i] \in Cpus
    BY <1>6
  <2>2. InLock(q[i]) /\ Distance(q[i]) = i - 1
    BY Zenon, <1>6
  <2>3. q'[(i - 1) + 1] = q[i]
    BY <1>4, <1>7, <2>1, <2>2
  <2>. QED  BY <1>1, <1>6, <2>2, <2>3
<1>9. q'[Waiting + 1] = c
  BY Zenon, <1>5, <1>7
<1>10. q' = Append(q, c)
  BY <1>6, <1>7, <1>8, <1>9
<1>11. \A i \in DOMAIN q : q[i] # c
  BY <1>6, <1>8
<1>12. UNCHANGED Owner
  BY Zenon, <1>1, <1>2 DEF Owner, Holds
<1>. QED  BY Zenon, <1>10, <1>11, <1>12 DEF Abstract!Arrive, q, Owner

(* The spin ends for the first one in the line.                            *)
LEMMA EnterGrants ==
    ASSUME IndInv, IndInv', NEW c \in Cpus, Enter(c)
    PROVE  Abstract!Grant(c)
<1>. DEFINE q == ArrivalOrder
<1>1. /\ lock_at[c] = "spin" /\ now_serving = my_ticket[c]
      /\ lock_at' = [lock_at EXCEPT ![c] = "held"]
      /\ UNCHANGED <<now_serving, next_ticket, my_ticket, next>>
  BY Zenon DEF Enter
<1>2. Tickets \in Nat /\ now_serving \in 0 .. Tickets - 1 /\ lock_at \in [Cpus -> {"idle", "spin", "held", "store"}]
  BY Zenon, TicketsAssumption DEF IndInv, LockTypeOK
<1>3. InLock(c) /\ Distance(c) = 0
  <2>1. Distance(c) = (now_serving - now_serving) % Tickets
    BY Zenon, <1>1 DEF Distance
  <2>2. Distance(c) = 0
    BY <1>2, <2>1, DistanceValue
  <2>. QED  BY Zenon, <1>1, <2>2 DEF InLock
<1>4. Owner = {} /\ Owner' = {c}
  <2>1. \A d \in Cpus : ~Holds(d)
    BY Zenon, <1>1, <1>3, HolderAlone DEF Holds
  <2>. QED  BY Zenon, <1>1, <1>2, <2>1 DEF Owner, Holds
<1>5. UNCHANGED q
  <2>1. \A d \in Cpus : /\ InLock(d)' <=> InLock(d)
                        /\ Distance(d)' = Distance(d)
    BY Zenon, <1>1, <1>2 DEF InLock, Distance
  <2>2. Waiting' = Waiting
    BY Zenon, <1>1 DEF Waiting
  <2>3. OrderExact /\ OrderExact'
    BY OrderFacts, PTL
  <2>. QED  BY Zenon, <2>1, <2>2, <2>3, SameOrder
<1>6. q # <<>> /\ c = Head(q)
  <2>1. q \in Seq(Cpus) /\ Len(q) \in Nat /\ Distance(c) + 1 \in 1 .. Len(q) /\ q[Distance(c) + 1] = c
    BY Zenon, <1>3, OrderFacts DEF OrderExact
  <2>. HIDE DEF q
  <2>2. 1 \in 1 .. Len(q) /\ q[1] = c
    BY <1>3, <2>1
  <2>. QED  BY <2>1, <2>2
<1>. QED  BY Zenon, <1>4, <1>5, <1>6 DEF Abstract!Grant, Owner

(* A failed look at now_serving moves nobody.                              *)
LEMMA LoadUnseen ==
    ASSUME IndInv, IndInv', NEW c \in Cpus, ReleaseLoad(c)
    PROVE  UNCHANGED <<ArrivalOrder, Owner>>
<1>1. /\ lock_at[c] = "held" /\ lock_at' = [lock_at EXCEPT ![c] = "store"]
      /\ UNCHANGED <<now_serving, next_ticket, my_ticket>>
  BY Zenon DEF ReleaseLoad
<1>2. lock_at \in [Cpus -> {"idle", "spin", "held", "store"}]
  BY Zenon DEF IndInv, LockTypeOK
<1>3. \A d \in Cpus : (InLock(d)' <=> InLock(d)) /\ (Holds(d)' <=> Holds(d)) /\ Distance(d)' = Distance(d)
  BY Zenon, <1>1, <1>2 DEF InLock, Holds, Distance
<1>4. Waiting' = Waiting
  BY Zenon, <1>1 DEF Waiting
<1>5. OrderExact /\ OrderExact'
  BY OrderFacts, PTL
<1>6. UNCHANGED ArrivalOrder
  BY Zenon, <1>3, <1>4, <1>5, SameOrder
<1>7. UNCHANGED Owner
  BY Zenon, <1>3 DEF Owner
<1>. QED  BY Zenon, <1>6, <1>7

(* spin_release: the first one leaves the line.                            *)
LEMMA StoreReleases ==
    ASSUME IndInv, IndInv', NEW c \in Cpus, ReleaseStore(c)
    PROVE  Abstract!Release(c)
<1>. DEFINE T == 0 .. Tickets - 1
            q == ArrivalOrder
<1>0. /\ Tickets \in Nat /\ next_ticket \in T /\ now_serving \in T
      /\ \A d \in Cpus : my_ticket[d] \in T
      /\ lock_at \in [Cpus -> {"idle", "spin", "held", "store"}]
  BY Zenon, TicketsAssumption DEF IndInv, LockTypeOK
<1>1. /\ lock_at[c] = "store" /\ now_serving' = Succ(now_serving)
      /\ lock_at' = [lock_at EXCEPT ![c] = "idle"]
      /\ UNCHANGED <<next_ticket, my_ticket, next>>
  BY Zenon DEF ReleaseStore, IndInv, HolderIsServed
<1>2. InLock(c) /\ my_ticket[c] = now_serving /\ my_ticket[c] \in Outstanding
  BY Zenon, <1>1 DEF IndInv, HolderIsServed, TicketsOutstanding, Holds, InLock
<1>3. Owner = {c} /\ Owner' = {}
  <2>1. \A d \in Cpus : Holds(d) <=> d = c
    BY Zenon, <1>1, <1>2, HolderAlone DEF Holds
  <2>. QED  BY Zenon, <1>0, <1>1, <2>1 DEF Owner, Holds
<1>4. Succ(now_serving) = IF now_serving = Tickets - 1 THEN 0 ELSE now_serving + 1
  BY Zenon, <1>0, SuccValue
<1>5. Waiting' = Waiting - 1
  BY <1>0, <1>1, <1>2, <1>4 DEF Waiting, Outstanding
<1>6. \A d \in Cpus \ {c} : InLock(d) => InLock(d)' /\ Distance(d)' = Distance(d) - 1
  <2>. SUFFICES ASSUME NEW d \in Cpus \ {c}, InLock(d)
                PROVE  InLock(d)' /\ Distance(d)' = Distance(d) - 1
    BY Zenon
  <2>1. InLock(d)'
    BY Zenon, <1>0, <1>1 DEF InLock
  <2>2. my_ticket[d] # now_serving /\ my_ticket[d] \in T
    BY Zenon, <1>0, <1>2 DEF IndInv, OneCorePerTicket
  <2>3. Distance(d) = IF now_serving <= my_ticket[d] THEN my_ticket[d] - now_serving
                      ELSE my_ticket[d] - now_serving + Tickets
    BY Zenon, <1>0, DistanceValue DEF Distance
  <2>4. Distance(d)' = (my_ticket[d] - Succ(now_serving)) % Tickets /\ Succ(now_serving) \in T
    BY <1>0, <1>1, <1>4 DEF Distance
  <2>5. Distance(d)' = IF Succ(now_serving) <= my_ticket[d] THEN my_ticket[d] - Succ(now_serving)
                       ELSE my_ticket[d] - Succ(now_serving) + Tickets
    BY Zenon, <1>0, <2>2, <2>4, DistanceValue
  <2>. QED  BY <1>0, <1>4, <2>1, <2>2, <2>3, <2>5
<1>7. Distance(c) = 0
  <2>1. Distance(c) = (now_serving - now_serving) % Tickets
    BY Zenon, <1>2 DEF Distance
  <2>. QED  BY <1>0, <2>1, DistanceValue
<1>8. /\ Waiting \in Nat /\ q \in Seq(Cpus) /\ Len(q) = Waiting
      /\ \A i \in 1 .. Waiting : InLock(q[i]) /\ Distance(q[i]) = i - 1
      /\ Distance(c) + 1 \in 1 .. Waiting
  BY Zenon, <1>2, OrderFacts DEF OrderExact
<1>9. /\ q' \in Seq(Cpus) /\ Len(q') = Waiting - 1
      /\ \A d \in Cpus : InLock(d)' => q'[Distance(d)' + 1] = d
  <2>1. OrderExact'
    BY OrderFacts, PTL
  <2>. QED  BY Zenon, <1>5, <2>1 DEF OrderExact
<1>. HIDE DEF q
<1>10. \A i \in 1 .. Waiting - 1 : q'[i] = q[i + 1]
  <2>. TAKE i \in 1 .. Waiting - 1
  <2>1. i + 1 \in 1 .. Waiting /\ q[i + 1] \in Cpus /\ i \in Nat /\ i # 0
    BY <1>8
  <2>2. InLock(q[i + 1]) /\ Distance(q[i + 1]) = (i + 1) - 1
    BY Zenon, <1>8, <2>1
  <2>3. q[i + 1] # c
    BY <1>7, <2>1, <2>2
  <2>4. PICK d \in Cpus : d = q[i + 1]
    BY Zenon, <2>1
  <2>5. InLock(d) /\ Distance(d) = i /\ d # c
    BY <2>1, <2>2, <2>3, <2>4
  <2>6. InLock(d)' /\ Distance(d)' = i - 1
    BY Zenon, <1>6, <2>5
  <2>7. q'[(i - 1) + 1] = d
    BY Zenon, <1>9, <2>6
  <2>. QED  BY <2>1, <2>4, <2>7
<1>11. q' = Tail(q)
  BY <1>7, <1>8, <1>9, <1>10
<1>. QED  BY Zenon, <1>3, <1>11 DEF Abstract!Release, q, Owner

(* The ticket lock implements the FIFO lock: cores enter in the order in   *)
(* which they drew their tickets, for any number of cores below the number *)
(* of ticket values, also across the wrap of the counters.                 *)
THEOREM FifoKept == LockSpec => ImplementsFifoLock
<1>1. LockInit => Abstract!Init
  <2>. SUFFICES ASSUME LockInit PROVE Abstract!Init
    BY Zenon
  <2>1. {c \in Cpus : InLock(c)} = {} /\ {c \in Cpus : Holds(c)} = {}
    BY Zenon DEF LockInit, InLock, Holds
  <2>2. Waiting = 0 /\ ArrivalOrder \in Seq(Cpus) /\ Len(ArrivalOrder) = Waiting
    BY InitIndInv, OrderFacts, TicketsAssumption DEF OrderExact, Waiting, LockInit
  <2>3. ArrivalOrder = <<>>
    BY <2>2
  <2>. QED  BY Zenon, <2>1, <2>3 DEF Abstract!Init
<1>2. IndInv /\ IndInv' /\ [LockNext]_lockVars => [Abstract!Next]_<<ArrivalOrder, Owner>>
  <2>. SUFFICES ASSUME IndInv, IndInv', [LockNext]_lockVars
                PROVE  Abstract!Next \/ UNCHANGED <<ArrivalOrder, Owner>>
    BY Zenon
  <2>1. CASE UNCHANGED lockVars
    BY <2>1 DEF lockVars, ArrivalOrder, Owner, InLock, Holds, Distance
  <2>2. ASSUME NEW c \in Cpus, Draw(c) \/ Enter(c) \/ ReleaseLoad(c) \/ ReleaseStore(c)
        PROVE  Abstract!Next \/ UNCHANGED <<ArrivalOrder, Owner>>
    BY Zenon, <2>2, DrawArrives, EnterGrants, LoadUnseen, StoreReleases DEF Abstract!Next
  <2>. QED  BY Zenon, <2>1, <2>2 DEF LockNext
<1>. QED  BY <1>1, <1>2, Invariance, PTL DEF LockSpec, ImplementsFifoLock, Abstract!Spec, Owner

-----------------------------------------------------------------------------
SectionTypes ==
    /\ phase \in [Tasks -> {"out", "spin", "held"}]
    /\ iflag \in [Tasks -> BOOLEAN]
    /\ flags \in [Tasks -> {"on", "off", "plain"}]
    /\ cur \in [Cores -> Tasks]
    /\ tick \in [Cores -> BOOLEAN]
    /\ \A c \in Cores : Home[cur[c]] = c

(* From irq_save to irq_restore a thread keeps its core: it has interrupts *)
(* off, it is the one its core executes, and no tick has interrupted it.   *)
KeepsCore(t) ==
    /\ phase[t] # "out"
    /\ ~iflag[t]
    /\ cur[Home[t]] = t
    /\ ~tick[Home[t]]

SectionInv ==
    /\ SectionTypes
    /\ \A t \in Tasks : flags[t] # "plain" => KeepsCore(t)

(* A context belongs to a core.                                            *)
LEMMA HomeIsCore == \A t \in Tasks : Home[t] \in Cores
  BY Zenon DEF Cores

(* At boot every thread is outside its sections.                           *)
LEMMA InitSectionInv == SectionInit => SectionInv
  BY DEF SectionInit, SectionInv, SectionTypes

(* A step of the thread t in or around its section.                        *)
LEMMA ThreadSectionInv ==
    ASSUME SectionInv, NEW t \in Tasks,
           \/ EnterKernel(t) \/ LeaveKernel(t) \/ AcquirePlain(t) \/ AcquireSaved(t)
           \/ Granted(t) \/ SpinOn(t) \/ Release(t)
    PROVE  SectionInv'
<1>. USE HomeIsCore DEF SectionInv, SectionTypes, KeepsCore, Runs
<1>1. CASE EnterKernel(t)
  BY <1>1 DEF EnterKernel
<1>2. CASE LeaveKernel(t)
  BY Zenon, <1>2 DEF LeaveKernel
<1>3. CASE AcquirePlain(t)
  BY Zenon, <1>3 DEF AcquirePlain, DrawTicket
<1>4. CASE AcquireSaved(t)
  BY Zenon, <1>4 DEF AcquireSaved, DrawTicket
<1>5. CASE Granted(t)
  BY Zenon, <1>5 DEF Granted
<1>6. CASE SpinOn(t)
  BY Zenon, <1>6 DEF SpinOn, sectionVars
<1>7. CASE Release(t)
  BY ZenonT(30), <1>7 DEF Release
<1>. QED  BY Zenon, <1>1, <1>2, <1>3, <1>4, <1>5, <1>6, <1>7

(* A tick interrupts no thread with interrupts off, and so no section      *)
(* between irq_save and irq_restore.                                       *)
LEMMA CoreSectionInv ==
    ASSUME SectionInv, NEW c \in Cores,
           \/ Tick(c) \/ TickSpinsOn(c)
           \/ \E t \in Tasks : Home[t] = c /\ Switch(c, t)
    PROVE  SectionInv'
<1>. USE HomeIsCore DEF SectionInv, SectionTypes, KeepsCore
<1>1. CASE Tick(c)
  BY <1>1 DEF Tick
<1>2. CASE TickSpinsOn(c)
  BY Zenon, <1>2 DEF TickSpinsOn, sectionVars
<1>3. ASSUME NEW t \in Tasks, Home[t] = c, Switch(c, t) PROVE SectionInv'
  BY <1>3 DEF Switch
<1>. QED  BY Zenon, <1>1, <1>2, <1>3

(* A core waits for ever for a lock only where a section that left         *)
(* interrupts on was interrupted: sections between irq_save and            *)
(* irq_restore (vxPhysBaseFree) never trap a core.                         *)
THEOREM SavedNeverTraps == SectionSpec => []TrappedOnlyPlain
<1>1. SectionInv /\ [SectionNext]_sectionVars => SectionInv'
  <2>. SUFFICES ASSUME SectionInv, [SectionNext]_sectionVars PROVE SectionInv'
    BY Zenon
  <2>1. CASE UNCHANGED sectionVars
    BY Zenon, <2>1 DEF sectionVars, SectionInv, SectionTypes, KeepsCore
  <2>. QED  BY Zenon, <2>1, HomeIsCore, ThreadSectionInv, CoreSectionInv DEF SectionNext
<1>2. SectionInv => TrappedOnlyPlain
  BY Zenon, HomeIsCore DEF SectionInv, KeepsCore, TrappedOnlyPlain, Trapped, SpinsFor
<1>. QED  BY <1>1, <1>2, InitSectionInv, PTL DEF SectionSpec
=============================================================================
