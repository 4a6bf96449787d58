----------------------------- MODULE PhysMemory -----------------------------
(***************************************************************************)
(* The physical frame allocator (kernel/memory/phys_base_allocator.c): a   *)
(* bitmap under pmm_lock, first fit for runs of frames.                    *)
(***************************************************************************)
EXTENDS Integers, FiniteSets

CONSTANTS
    NFrames,      \* higher_base_length_ / BLOCK_SIZE
    Reserved      \* frames of memory map entries that are not usable, and the bitmap's own

Frames == 0 .. NFrames - 1

ASSUME FramesAssumption ==
    /\ NFrames \in Nat \ {0}
    /\ Reserved \subseteq Frames
    /\ 0 \in Reserved          \* address 0 is what the allocator returns for `none'

VARIABLES
    bitmap,       \* bitmap_base_: the frames marked used
    blocks        \* what callers hold: <<first frame, number of frames>>

physVars == <<bitmap, blocks>>

Run(s, n) == s .. s + n - 1
Extent(b) == Run(b[1], b[2])

PhysInit ==
    /\ bitmap = Reserved
    /\ blocks = {}

(* The scan of phys_base_alloc: `consecutive' counts the free frames up to *)
(* each frame and starts again behind a used one; a word of used frames is *)
(* stepped over with the same effect.                                      *)
ScanOn(n) ==        \* mutant: the count survives a used frame
    LET consecutive[i \in 0 .. NFrames] ==
            IF i = 0 THEN 0
            ELSE IF i - 1 \in bitmap THEN consecutive[i - 1] ELSE consecutive[i - 1] + 1
        ends == {i \in 0 .. NFrames : i > 0 /\ consecutive[i] = n}
    IN  IF ends = {} THEN 0 ELSE (CHOOSE i \in ends : \A j \in ends : i <= j) - n

Scan(n) ==
    LET consecutive[i \in 0 .. NFrames] ==
            IF i = 0 \/ i - 1 \in bitmap THEN 0 ELSE consecutive[i - 1] + 1
        ends == {i \in 0 .. NFrames : i > 0 /\ consecutive[i] = n}
    IN  IF ends = {} THEN 0 ELSE (CHOOSE i \in ends : \A j \in ends : i <= j) - n

(* What the scan is for: the first run of n free frames, 0 if there is none. *)
Fits(s, n) == Run(s, n) \subseteq Frames \ bitmap
FirstFit(n) ==
    IF \E s \in Frames : Fits(s, n)
    THEN CHOOSE s \in Frames : Fits(s, n) /\ \A r \in Frames : Fits(r, n) => s <= r
    ELSE 0

PlaceByEnds(n) ==   \* mutant: the frames between the first and the last of the run are not looked at
    LET fits(s) == {s, s + n - 1} \subseteq Frames \ bitmap
    IN  IF \E s \in Frames : fits(s) THEN CHOOSE s \in Frames : fits(s) ELSE 0

Place(n) == FirstFit(n)

PhysAlloc(n) ==
    /\ Place(n) # 0
    /\ bitmap' = bitmap \cup Run(Place(n), n)
    /\ blocks' = blocks \cup {<<Place(n), n>>}

Cleared(b) == bitmap \ Extent(b)

PhysFree(b) ==
    /\ b \in blocks
    /\ bitmap' = Cleared(b)
    /\ blocks' = blocks \ {b}

PhysNext ==
    \/ \E n \in 1 .. NFrames : PhysAlloc(n)
    \/ \E b \in blocks : PhysFree(b)

PhysSpec == PhysInit /\ [][PhysNext]_physVars

-----------------------------------------------------------------------------
PhysTypeOK ==
    /\ bitmap \subseteq Frames
    /\ blocks \subseteq (Frames \X (1 .. NFrames))

(* No two callers of phys_base_alloc hold one frame, and none a reserved   *)
(* one.                                                                    *)
BlocksDisjoint ==
    /\ \A b \in blocks : Extent(b) \cap Reserved = {}
    /\ \A a, b \in blocks : a # b => Extent(a) \cap Extent(b) = {}

(* The bitmap marks the reserved and the held frames and nothing else:     *)
(* freeing gives back exactly what was taken.                              *)
BitmapExact == bitmap = Reserved \cup UNION {Extent(b) : b \in blocks}

(* phys_base_alloc and vxPhysBaseFree keep every frame with at most one    *)
(* holder, and no frame is lost.                                           *)
FramesExact == BlocksDisjoint /\ BitmapExact

(* The scan finds the first fit, for every length.                         *)
ScanFindsFirstFit == \A n \in 1 .. NFrames : Scan(n) = FirstFit(n)
=============================================================================
