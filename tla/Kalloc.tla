------------------------------- MODULE Kalloc -------------------------------
(***************************************************************************)
(* The kernel heap (kernel/memory/kalloc.c) on top of the frame allocator  *)
(* and of the growing bitmap of kernel addresses (libk/grow_bitmap.h).     *)
(* Sizes count the metadata and the red zones.  Small sizes come from a    *)
(* cache of the calling core, refilled a page at a time; large ones are    *)
(* mapped on their own.  Each call holds kalloc_global_lock or the lock of *)
(* its core's cache with interrupts off, and is one step here.             *)
(***************************************************************************)
EXTENDS PhysMemory, Sequences

CONSTANTS
    HeapCores,      \* cores, each with a kalloc_cpu_cache
    PageBytes,      \* BLOCK_SIZE
    Buckets,        \* the slot sizes, divisors of PageBytes
    Sizes,          \* sizes that callers ask for
    BlockPages,     \* GROW_BITMAP_BLOCK_PAGES
    MaxBlocks       \* max_blocks of kalloc_vaddr_bitmap

ASSUME HeapAssumption ==
    /\ PageBytes \in Nat \ {0} /\ BlockPages \in Nat \ {0} /\ MaxBlocks \in Nat \ {0}
    /\ \A b \in Buckets : b \in 1 .. PageBytes /\ PageBytes % b = 0

VARIABLES
    cache,          \* per core and bucket: the free slots, head first
    vbits,          \* kalloc_vaddr_bitmap: the kernel pages marked used
    tables,         \* blocks_phys: the frames that hold that bitmap
    kernel_vma,     \* what the heap registered: page |-> [phys, n]
    kernel_map,     \* the kernel page table: mapped page |-> frame
    held,           \* memory in the hands of callers: <<address, size>>
    starved         \* a call went on without the frames it asked for

heapVars == <<cache, vbits, tables, kernel_vma, kernel_map, held, starved>>

Pages == 1 .. BlockPages * MaxBlocks
PageCount(size) == (size + PageBytes - 1) \div PageBytes
Small(size) == \E b \in Buckets : size <= b
BucketOf(size) == CHOOSE b \in Buckets :
    size <= b /\ \A c \in Buckets : size <= c => b <= c

Without(f, S) == [x \in DOMAIN f \ S |-> f[x]]
With(f, g) == [x \in DOMAIN f \cup DOMAIN g |-> IF x \in DOMAIN g THEN g[x] ELSE f[x]]

KallocInit ==
    /\ PhysInit
    /\ cache = [c \in HeapCores |-> [b \in Buckets |-> <<>>]]
    /\ vbits = {} /\ kernel_vma = <<>> /\ kernel_map = <<>> /\ held = {}
    /\ tables = <<>>      \* grow_bitmap_init has yet to run
    /\ starved = FALSE

(* phys_base_alloc as the heap calls it: 0 is used as if it were a frame.  *)
Taken(used, s, n) == IF s = 0 THEN used ELSE used \cup Run(s, n)
BlockOf(s, n) == IF s = 0 THEN {} ELSE {<<s, n>>}

(* INIT(kalloc), grow_bitmap_init: one frame for the first block of bits.  *)
InitHeap ==
    /\ tables = <<>>
    /\ Place(1) # 0
    /\ PhysAlloc(1)
    /\ tables' = <<Place(1)>>
    /\ UNCHANGED <<cache, vbits, kernel_vma, kernel_map, held, starved>>

(* grow_bitmap_alloc_pages: the first run of clear bits inside one block;  *)
(* failing that, twice as many blocks, and the first of the new ones.      *)
BlockRange(k) == (k - 1) * BlockPages + 1 .. k * BlockPages
VirtFits(v, n) == \E k \in 1 .. Len(tables) : Run(v, n) \subseteq BlockRange(k) \ vbits
HasRoom(n) == \E v \in Pages : VirtFits(v, n)
FirstVirt(n) == CHOOSE v \in Pages : VirtFits(v, n) /\ \A w \in Pages : VirtFits(w, n) => v <= w
Grown(n) ==
    IF HasRoom(n) THEN 0
    ELSE IF 2 * Len(tables) > MaxBlocks THEN MaxBlocks - Len(tables) ELSE Len(tables)
VirtOf(n) == IF HasRoom(n) THEN FirstVirt(n) ELSE Len(tables) * BlockPages + 1
CanPlace(n) == n <= BlockPages /\ (HasRoom(n) \/ Len(tables) < MaxBlocks)

(* Frames for g new blocks of bits, one phys_base_alloc(1) each, from the  *)
(* frames that are free once `used' is: a sequence, 0 where none was left. *)
Least(S) == IF S = {} THEN 0 ELSE CHOOSE x \in S : \A y \in S : x <= y
NewTables(used, g) ==
    LET one[i \in 0 .. g] ==
            IF i = 0 THEN [used |-> used, got |-> <<>>]
            ELSE LET f == Least(Frames \ one[i - 1].used)
                 IN  [used |-> one[i - 1].used \cup ({f} \ {0}), got |-> Append(one[i - 1].got, f)]
    IN  one[g]

(* The part common to alloc_page_locked and a large kalloc: frames, then   *)
(* addresses, then the mapping and its record.                             *)
MapPages(n) ==
    LET phys == Place(n)
        virt == VirtOf(n)
        grow == NewTables(Taken(bitmap, phys, n), Grown(n))
    IN  /\ tables # <<>>
        /\ CanPlace(n)
        /\ bitmap' = grow.used
        /\ blocks' = blocks \cup BlockOf(phys, n)
                            \cup {<<f, 1>> : f \in {grow.got[i] : i \in DOMAIN grow.got} \ {0}}
        /\ tables' = tables \o grow.got
        /\ vbits' = vbits \cup Run(virt, n)
        /\ kernel_map' = With(kernel_map, [v \in Run(virt, n) |-> phys + (v - virt)])
        /\ kernel_vma' = With(kernel_vma, [v \in {virt} |-> [phys |-> phys, n |-> n]])
        /\ starved' = (starved \/ phys = 0 \/ \E i \in DOMAIN grow.got : grow.got[i] = 0)

Address(page, offset) == page * PageBytes + offset
PageOf(a) == a \div PageBytes

(* refill: the slots of a new page, pushed in order, so the last is first. *)
CarveOver(page, b) ==       \* mutant: <= for < in the loop
    [i \in 1 .. PageBytes \div b + 1 |-> Address(page, (PageBytes \div b + 1 - i) * b)]

Carve(page, b) == [i \in 1 .. PageBytes \div b |-> Address(page, (PageBytes \div b - i) * b)]

KallocSmall(c, size) ==
    LET b == BucketOf(size)
    IN  /\ Small(size)
        /\ IF cache[c][b] # <<>>
           THEN /\ cache' = [cache EXCEPT ![c][b] = Tail(@)]
                /\ held' = held \cup {<<Head(cache[c][b]), size>>}
                /\ UNCHANGED <<physVars, vbits, tables, kernel_vma, kernel_map, starved>>
           ELSE /\ MapPages(1)
                /\ cache' = [cache EXCEPT ![c][b] = Tail(Carve(VirtOf(1), b))]
                /\ held' = held \cup {<<Head(Carve(VirtOf(1), b)), size>>}

KallocLarge(size) ==
    /\ ~Small(size)
    /\ MapPages(PageCount(size))
    /\ held' = held \cup {<<Address(VirtOf(PageCount(size)), 0), size>>}
    /\ UNCHANGED cache

(* kfree and kfree2: a slot goes to the cache of the core that frees it.   *)
KfreeSmall(c, h) ==
    /\ Small(h[2])
    /\ held' = held \ {h}
    /\ cache' = [cache EXCEPT ![c][BucketOf(h[2])] = <<h[1]>> \o @]
    /\ UNCHANGED <<physVars, vbits, tables, kernel_vma, kernel_map, starved>>

KfreeLarge(h) ==
    LET page == PageOf(h[1])
        n == PageCount(h[2])
        phys == kernel_vma[page].phys
    IN  /\ ~Small(h[2])
        /\ held' = held \ {h}
        /\ bitmap' = bitmap \ Run(phys, n)
        /\ blocks' = blocks \ {<<phys, n>>}
        /\ kernel_map' = Without(kernel_map, Run(page, n))
        /\ kernel_vma' = Without(kernel_vma, {page})
        /\ vbits' = vbits \ Run(page, n)
        /\ UNCHANGED <<cache, tables, starved>>

(* Frames that other parts of the kernel take and give back.               *)
HeapBlocks == {<<kernel_vma[v].phys, kernel_vma[v].n>> : v \in DOMAIN kernel_vma}
              \cup {<<tables[i], 1>> : i \in DOMAIN tables}
OtherFrames ==
    /\ \/ blocks \subseteq HeapBlocks /\ PhysAlloc(1)
       \/ \E b \in blocks \ HeapBlocks : PhysFree(b)
    /\ UNCHANGED heapVars

KallocNext ==
    \/ InitHeap
    \/ \E c \in HeapCores, size \in Sizes : KallocSmall(c, size)
    \/ \E size \in Sizes : KallocLarge(size)
    \/ \E c \in HeapCores, h \in held : KfreeSmall(c, h)
    \/ \E h \in held : KfreeLarge(h)
    \/ OtherFrames

-----------------------------------------------------------------------------
KallocTypeOK ==
    /\ PhysTypeOK
    /\ DOMAIN cache = HeapCores /\ \A c \in HeapCores : DOMAIN cache[c] = Buckets
    /\ vbits \subseteq Pages /\ DOMAIN kernel_map \subseteq Pages
    /\ Len(tables) <= MaxBlocks /\ starved \in BOOLEAN
    /\ \A h \in held : h[1] \in Nat /\ h[2] \in Sizes

Bytes(a, size) == a .. a + size - 1
SlotsOf(c, b) == {cache[c][b][i] : i \in DOMAIN cache[c][b]}

(* As long as no call ran out of frames: no byte of the heap is handed out *)
(* twice, none that is handed out lies in a free slot, all of them are     *)
(* mapped, and no frame is mapped at two addresses or also serves as       *)
(* bitmap or belongs to somebody else.                                     *)
HeapDisjoint == ~starved =>
    /\ \A h, k \in held : h # k => Bytes(h[1], h[2]) \cap Bytes(k[1], k[2]) = {}
    /\ \A h \in held, c \in HeapCores, b \in Buckets : \A s \in SlotsOf(c, b) :
          Bytes(h[1], h[2]) \cap Bytes(s, b) = {}
    /\ \A h \in held : \A a \in Bytes(h[1], h[2]) : PageOf(a) \in DOMAIN kernel_map
    /\ \A v, w \in DOMAIN kernel_map : v # w => kernel_map[v] # kernel_map[w]
    /\ \A v \in DOMAIN kernel_map : \A b \in blocks \ {<<kernel_vma[w].phys, kernel_vma[w].n>> :
          w \in DOMAIN kernel_vma} : kernel_map[v] \notin Extent(b)

(* Nothing is lost either: every slot of a page that was carved up is held *)
(* or in exactly one cache, whichever core freed it, and a page, its       *)
(* record, its mapping and its bit come and go together.                   *)
HeapKept == ~starved =>
    /\ vbits = DOMAIN kernel_map
    /\ vbits = UNION {Run(v, kernel_vma[v].n) : v \in DOMAIN kernel_vma}
    /\ \A v \in DOMAIN kernel_vma, i \in 0 .. PageBytes - 1 :
          \/ \E h \in held : PageOf(h[1]) = v /\ ~Small(h[2])
          \/ \E h \in held : Small(h[2]) /\ Address(v, i) \in Bytes(h[1], BucketOf(h[2]))
          \/ \E c \in HeapCores, b \in Buckets : \E s \in SlotsOf(c, b) : Address(v, i) \in Bytes(s, b)
(* kalloc and kfree neither hand out a byte twice nor lose one.            *)
HeapExact == HeapDisjoint /\ HeapKept
=============================================================================
