-------------------------- MODULE PhysMemoryProofs --------------------------
(***************************************************************************)
(* The frame allocator never hands out a frame twice, for any memory size  *)
(* and any set of reserved frames.                                         *)
(***************************************************************************)
EXTENDS PhysMemory, WellFoundedInduction, TLAPS

PhysInv == PhysTypeOK /\ BlocksDisjoint /\ BitmapExact

(* A place that FirstFit finds is a run of free frames.                    *)
LEMMA PlaceFits ==
    ASSUME NEW n \in 1 .. NFrames, Place(n) # 0
    PROVE  Place(n) \in Frames /\ Fits(Place(n), n)
<1> DEFINE S == {s \in Frames : Fits(s, n)}
<1>1. S # {}
  BY DEF Place, FirstFit
<1>2. S \in SUBSET Nat
  BY FramesAssumption DEF Frames
<1>3. \E s \in S : \A r \in S : s <= r
  <2> HIDE DEF S
  <2>1. PICK s \in S : \A r \in S : ~ (<<r, s>> \in OpToRel(<, Nat))
    BY <1>1, <1>2, WFMin, NatLessThanWellFounded
  <2>2. \A r \in S : ~ (r < s)
    BY <1>2, <2>1 DEF OpToRel
  <2> QED  BY <1>2, <2>2
<1>4. \E s \in Frames : Fits(s, n) /\ \A r \in Frames : Fits(r, n) => s <= r
  BY <1>3
<1>5. Place(n) = CHOOSE s \in Frames : Fits(s, n) /\ \A r \in Frames : Fits(r, n) => s <= r
  BY <1>1 DEF Place, FirstFit
<1> HIDE DEF S
<1> QED  BY <1>4, <1>5

(* Taking a run of free frames keeps the allocator's invariant.            *)
LEMMA AllocKeeps ==
    ASSUME PhysInv, NEW n \in 1 .. NFrames, PhysAlloc(n)
    PROVE  PhysInv'
<1> DEFINE p == Place(n)
           new == <<p, n>>
<1>1. p \in Frames /\ Run(p, n) \subseteq Frames \ bitmap
  BY PlaceFits DEF PhysAlloc, Fits
<1>2. Extent(new) = Run(p, n)
  BY DEF Extent
<1>3. bitmap' = bitmap \cup Extent(new) /\ blocks' = blocks \cup {new}
  BY <1>2 DEF PhysAlloc
<1>4. Extent(new) \cap Reserved = {} /\ \A b \in blocks : Extent(new) \cap Extent(b) = {}
  BY <1>1, <1>2 DEF PhysInv, BitmapExact
<1>5. new \in Frames \X (1 .. NFrames)
  BY <1>1
<1> HIDE DEF new, p
<1>6. PhysTypeOK'
  BY <1>1, <1>2, <1>3, <1>5 DEF PhysInv, PhysTypeOK
<1>7. BlocksDisjoint'
  BY <1>3, <1>4 DEF PhysInv, BlocksDisjoint
<1>8. BitmapExact'
  <2>1. UNION {Extent(b) : b \in blocks'} = (UNION {Extent(b) : b \in blocks}) \cup Extent(new)
    BY <1>3, Zenon
  <2> QED  BY <2>1, <1>3 DEF PhysInv, BitmapExact
<1> QED  BY <1>6, <1>7, <1>8 DEF PhysInv

(* Clearing the bits of one held block keeps the allocator's invariant:    *)
(* none of them belongs to another block or is reserved.                   *)
LEMMA FreeKeeps ==
    ASSUME PhysInv, NEW b \in blocks, PhysFree(b)
    PROVE  PhysInv'
<1>1. bitmap' = bitmap \ Extent(b) /\ blocks' = blocks \ {b}
  BY DEF PhysFree, Cleared
<1>2. PhysTypeOK'
  BY <1>1 DEF PhysInv, PhysTypeOK
<1>3. BlocksDisjoint'
  BY <1>1 DEF PhysInv, BlocksDisjoint
<1>4. BitmapExact'
  <2>1. UNION {Extent(a) : a \in blocks} = (UNION {Extent(a) : a \in blocks'}) \cup Extent(b)
    BY <1>1, Zenon
  <2>2. (UNION {Extent(a) : a \in blocks'}) \cap Extent(b) = {}
    BY <1>1 DEF PhysInv, BlocksDisjoint
  <2>3. Reserved \cap Extent(b) = {}
    BY DEF PhysInv, BlocksDisjoint
  <2> QED  BY <1>1, <2>1, <2>2, <2>3 DEF PhysInv, BitmapExact
<1> QED  BY <1>2, <1>3, <1>4 DEF PhysInv

(* phys_base_alloc and phys_base_free keep every frame with at most one    *)
(* holder, and the bitmap exact.                                           *)
THEOREM FramesOwned == PhysSpec => []FramesExact
<1>1. PhysInit => PhysInv
  BY FramesAssumption DEF PhysInit, PhysInv, PhysTypeOK, BlocksDisjoint, BitmapExact
<1>2. PhysInv /\ [PhysNext]_physVars => PhysInv'
  <2> SUFFICES ASSUME PhysInv, [PhysNext]_physVars PROVE PhysInv'
    OBVIOUS
  <2>1. CASE UNCHANGED physVars
    BY <2>1 DEF physVars, PhysInv, PhysTypeOK, BlocksDisjoint, BitmapExact
  <2>2. ASSUME NEW n \in 1 .. NFrames, PhysAlloc(n) PROVE PhysInv'
    BY <2>2, AllocKeeps
  <2>3. ASSUME NEW b \in blocks, PhysFree(b) PROVE PhysInv'
    BY <2>3, FreeKeeps
  <2> QED  BY <2>1, <2>2, <2>3 DEF PhysNext
<1>3. PhysInv => FramesExact
  BY DEF PhysInv, FramesExact
<1> QED  BY <1>1, <1>2, <1>3, PTL DEF PhysSpec
=============================================================================
