---------------------------- MODULE AddressSpace ----------------------------
(***************************************************************************)
(* The user half of the address spaces: mmap, munmap, mprotect, brk, the   *)
(* copy-on-write clone of fork, the write fault that undoes it, and execve *)
(* (kernel/memory/vm_manager.c, kernel/hal/cpu/paging.c, interrupt.c and   *)
(* the system calls).  A page holds one value, the process that wrote it   *)
(* last or 0.  Every operation runs with interrupts off on behalf of a     *)
(* single-threaded process and is one step.  The frames of user pages are  *)
(* never given back by the code, so frames are numbered in order of use.   *)
(* MAP_FIXED and pages of 2 MB and more are not modelled.                  *)
(***************************************************************************)
EXTENDS Integers, FiniteSets

CONSTANTS
    Spaces,         \* processes, positive numbers
    HeapPages,      \* pages 1 .. HeapPages are the heap, heap_start is page 1
    LastPage,       \* HeapPages+1 .. LastPage lie behind USER_MMAP_BASE
    FrameLimit      \* frames that user pages may take

ASSUME SpacesAssumption ==
    /\ Spaces \subseteq Nat \ {0}
    /\ HeapPages \in Nat /\ LastPage \in Nat /\ FrameLimit \in Nat

MmapBase == HeapPages + 1
UserPages == 0 .. LastPage     \* page 0 stands for all that lies below the heap
Prots == {"none", "r", "rw"}

VARIABLES
    live,           \* processes that exist
    pt,             \* pt[p]: present user pages |-> [frame, w, cow] and, in sees, what p has to find there
    vma,            \* vma[p]: start page |-> [phys, n], the VMA tree
    zone,           \* zone[p]: end_address of the newest node of vma_tree_zone_user_mmap, 0 if none
    heap_end,       \* heap_end[p], the first page behind the heap
    mem,            \* frame |-> what it holds
    exposed,        \* frames that mprotect mapped without the shield of copy-on-write
    torn            \* processes that unmapped a part of a mapping

spaceVars == <<live, pt, vma, zone, heap_end, mem, exposed, torn>>

None == <<>>
Span(v, n) == v .. v + n - 1
Drop(f, S) == [x \in DOMAIN f \ S |-> f[x]]
Over(f, g) == [x \in DOMAIN f \cup DOMAIN g |-> IF x \in DOMAIN g THEN g[x] ELSE f[x]]

NextFrame == Cardinality(DOMAIN mem) + 1
FramesFor(n) == NextFrame + n - 1 <= FrameLimit     \* phys_base_alloc(n) finds some

SpaceInit ==
    /\ \E p \in Spaces : live = {p} /\ \A q \in Spaces : p <= q
    /\ pt = [p \in Spaces |-> None] /\ vma = [p \in Spaces |-> None]
    /\ zone = [p \in Spaces |-> 0] /\ heap_end = [p \in Spaces |-> 1]
    /\ mem = None /\ exposed = {} /\ torn = {}

Entry(f, prot, x) == [frame |-> f, w |-> prot = "rw", cow |-> FALSE, sees |-> x]
Covers(p, s, v) == s <= v /\ v < s + vma[p][s].n
Covered(p) == {v \in UserPages : \E s \in DOMAIN vma[p] : Covers(p, s, v)}

(* New zeroed frames for n pages from v on; with prot none the entries are *)
(* written without the present bit.  vma_register keeps an older record    *)
(* with the same start.                                                    *)
NewPages(p, v, n, prot) ==
    /\ mem' = Over(mem, [f \in Span(NextFrame, n) |-> 0])
    /\ pt' = [pt EXCEPT ![p] =
                 IF prot = "none" THEN Drop(@, Span(v, n))
                 ELSE Over(@, [x \in Span(v, n) |-> Entry(NextFrame + (x - v), prot, 0)])]
    /\ vma' = [vma EXCEPT ![p] = Over([s \in {v} |-> [phys |-> NextFrame, n |-> n]], @)]

(* vma_lookup_free_vaddr: from the end of the newest mapping upwards, past *)
(* every record in the way.                                                *)
LookupFromBase(p, n) ==     \* mutant: no regard to the records
    IF zone[p] = 0 THEN MmapBase ELSE zone[p]

Lookup(p, n) ==
    LET from == IF zone[p] = 0 THEN MmapBase ELSE zone[p]
        ok(v) == v >= from /\ Span(v, n) \cap Covered(p) = {}
    IN  CHOOSE v \in from .. LastPage + 1 : ok(v) /\ \A w \in from .. v - 1 : ~ok(w)

(* syscall_mmap with MAP_ANONYMOUS.  Without frames the address is spent.  *)
Mmap(p, n, prot) ==
    LET v == Lookup(p, n)
    IN  /\ v + n - 1 <= LastPage      \* bound: the model's addresses end here
        /\ zone' = [zone EXCEPT ![p] = v + n]
        /\ IF FramesFor(n) THEN NewPages(p, v, n, prot)
                           ELSE UNCHANGED <<mem, pt, vma>>
        /\ UNCHANGED <<live, heap_end, exposed, torn>>

(* SYSCALL_MUNMAP: the pages go, and the records that start among them.    *)
Munmap(p, v, n) ==
    LET gone == {s \in DOMAIN vma[p] : s \in Span(v, n)}
    IN  /\ pt' = [pt EXCEPT ![p] = Drop(@, Span(v, n))]
        /\ vma' = [vma EXCEPT ![p] = Drop(@, gone)]
        /\ torn' = IF \E s \in gone : ~(Span(s, vma[p][s].n) \subseteq Span(v, n))
                   THEN torn \cup {p} ELSE torn
        /\ UNCHANGED <<live, zone, heap_end, mem, exposed>>

(* syscall_mprotect: the frame of a present page stays; one that is not    *)
(* present is taken from a record that covers it, which the tree may miss  *)
(* where records overlap (0).  A copy-on-write page does not get writable. *)
Overlapped(p, s) == \E r \in DOMAIN vma[p] \ {s} :
    Span(r, vma[p][r].n) \cap Span(s, vma[p][s].n) # {}
RecordedFrames(p, v) ==
    LET around == {s \in DOMAIN vma[p] : Covers(p, s, v)}
    IN  {vma[p][s].phys + (v - s) : s \in around}
        \cup (IF around = {} \/ \E s \in around : Overlapped(p, s) THEN {0} ELSE {})

Reprotect(p, v, f, prot) ==
    IF v \notin DOMAIN pt[p] THEN Entry(f, prot, mem[f])
    ELSE [pt[p][v] EXCEPT !.w = ~pt[p][v].cow /\ prot = "rw"]

(* A frame is exposed when it becomes writable here although somebody else *)
(* maps it or holds a record of it, or is another than the page had.       *)
Known(q, f) == \/ \E v \in DOMAIN pt[q] : pt[q][v].frame = f
               \/ \E s \in DOMAIN vma[q] : f \in Span(vma[q][s].phys, vma[q][s].n)
Exposes(p, v, f) ==
    \/ v \notin DOMAIN pt[p]
    \/ ~pt[p][v].cow /\ ~pt[p][v].w /\ \E q \in live \ {p} : Known(q, f)

Mprotect(p, v, prot) ==
    \E f \in (IF v \in DOMAIN pt[p] THEN {pt[p][v].frame} ELSE RecordedFrames(p, v)) :
        /\ f # 0
        /\ pt' = [pt EXCEPT ![p] = IF prot = "none" THEN Drop(@, {v})
                                   ELSE Over(@, [x \in {v} |-> Reprotect(p, v, f, prot)])]
        /\ exposed' = IF prot # "none" /\ Exposes(p, v, f) THEN exposed \cup {f} ELSE exposed
        /\ UNCHANGED <<live, vma, zone, heap_end, mem, torn>>

(* syscall_brk; a lower break only moves heap_end.  In a forked process    *)
(* heap_end is 0 and a higher break maps new pages from address 0 on.      *)
Brk(p, e) ==
    /\ IF e > heap_end[p]
       THEN FramesFor(e - heap_end[p]) /\ NewPages(p, heap_end[p], e - heap_end[p], "rw")
       ELSE UNCHANGED <<mem, pt, vma>>
    /\ heap_end' = [heap_end EXCEPT ![p] = e]
    /\ UNCHANGED <<live, zone, exposed, torn>>


Share(e) == [e EXCEPT !.cow = @ \/ e.w, !.w = FALSE]

Fork(p, c) ==
    LET kept == DOMAIN pt[p] \cap Covered(p)
    IN  /\ c \notin live
        /\ live' = live \cup {c}
        /\ pt' = [pt EXCEPT ![p] = Over(@, [v \in kept |-> Share(@[v])]),
                            ![c] = [v \in kept |-> Share(pt[p][v])]]
        /\ vma' = [vma EXCEPT ![c] = vma[p]]
        /\ zone' = [zone EXCEPT ![c] = 0]
        /\ heap_end' = [heap_end EXCEPT ![c] = 0]       \* create_process clears it, fork does not set it
        /\ UNCHANGED <<mem, exposed, torn>>

(* A store to a present page.  A copy-on-write page is copied by the fault *)
(* handler; without a frame, or on a page that is only readable, the       *)
(* process gets SIGSEGV and nothing is stored.                             *)
CopyAndStore(p, v) ==
    /\ mem' = Over(mem, [f \in {NextFrame} |-> p])
    /\ pt' = [pt EXCEPT ![p][v] = Entry(NextFrame, "rw", p)]

StoreWord(p, v) ==
    /\ v \in DOMAIN pt[p]
    /\ \/ /\ pt[p][v].w
          /\ mem' = [mem EXCEPT ![pt[p][v].frame] = p]
          /\ pt' = [pt EXCEPT ![p][v].sees = p]
       \/ ~pt[p][v].w /\ pt[p][v].cow /\ FramesFor(1) /\ CopyAndStore(p, v)
    /\ UNCHANGED <<live, vma, zone, heap_end, exposed, torn>>

(* execve: vma_unmap_all unmaps what has a record; the zone of mmap stays. *)
Exec(p) ==
    /\ pt' = [pt EXCEPT ![p] = Drop(@, Covered(p))]
    /\ vma' = [vma EXCEPT ![p] = None]
    /\ heap_end' = [heap_end EXCEPT ![p] = 1]
    /\ UNCHANGED <<live, zone, mem, exposed, torn>>

(* The end of a process that its parent reaps; the first process has none. *)
(* Its frames are not given back.                                          *)
ProcessGone(p) ==
    /\ \E q \in Spaces : q < p
    /\ live' = live \ {p}
    /\ pt' = [pt EXCEPT ![p] = None] /\ vma' = [vma EXCEPT ![p] = None]
    /\ zone' = [zone EXCEPT ![p] = 0] /\ heap_end' = [heap_end EXCEPT ![p] = 1]
    /\ torn' = torn \ {p}
    /\ UNCHANGED <<mem, exposed>>

MappingCalls(p) ==
    \/ \E n \in 1 .. 2, prot \in Prots : Mmap(p, n, prot)
    \/ \E v \in UserPages, n \in 1 .. 2 : Munmap(p, v, n)
HeapCalls(p) == \E e \in 1 .. HeapPages + 1 : Brk(p, e)
OtherCalls(p) ==
    \/ \E v \in UserPages, prot \in Prots : Mprotect(p, v, prot)
    \/ \E c \in Spaces : Fork(p, c)
    \/ \E v \in UserPages : StoreWord(p, v)
    \/ Exec(p)
    \/ ProcessGone(p)

SpaceNext == \E p \in live : MappingCalls(p) \/ HeapCalls(p) \/ OtherCalls(p)

SpaceSpec == SpaceInit /\ [][SpaceNext]_spaceVars

-----------------------------------------------------------------------------
SpaceTypeOK ==
    /\ live \subseteq Spaces /\ torn \subseteq live
    /\ DOMAIN mem = 1 .. Cardinality(DOMAIN mem) /\ Cardinality(DOMAIN mem) <= FrameLimit
    /\ exposed \subseteq DOMAIN mem
    /\ \A p \in Spaces :
          /\ DOMAIN pt[p] \subseteq UserPages /\ DOMAIN vma[p] \subseteq UserPages
          /\ \A v \in DOMAIN pt[p] : pt[p][v].frame \in DOMAIN mem
          /\ heap_end[p] \in 0 .. HeapPages + 1 /\ zone[p] \in 0 .. LastPage + 1

(* A frame that one page can store into directly is mapped nowhere else,   *)
(* in no process, however forks, faults, exits and protections follow each *)
(* other, unless mprotect made it writable behind copy-on-write's back.    *)
WritableUnshared ==
    \A p, q \in live : \A v \in DOMAIN pt[p], w \in DOMAIN pt[q] :
        /\ pt[p][v].w /\ pt[p][v].frame = pt[q][w].frame
        /\ pt[p][v].frame \notin exposed
        => p = q /\ v = w

(* A process finds in its pages what it stored there, or what they held    *)
(* when it was forked, whatever its relatives store; pages that mprotect   *)
(* exposed excepted.                                                       *)
MemoryPrivate ==
    \A p \in live : \A v \in DOMAIN pt[p] :
        pt[p][v].frame \notin exposed => mem[pt[p][v].frame] = pt[p][v].sees

(* Copy-on-write: writable frames are unshared and pages private.          *)
CopyOnWrite == WritableUnshared /\ MemoryPrivate

(* A step of mmap: no mapping is placed over pages that are still mapped,  *)
(* in the child of a fork too, unless the process has unmapped a mapping   *)
(* in part.                                                                *)
MmapKeeps ==
    \A p \in live : zone'[p] > zone[p] /\ p \notin torn =>
        \A v \in DOMAIN pt[p] : pt'[p][v] = pt[p][v]

(* Nobody finds another's stores in the own pages, mprotect or not: what   *)
(* copy-on-write promises (mprotect.c:58-59).                              *)
StoresPrivate ==
    \A p \in live : \A v \in DOMAIN pt[p] : mem[pt[p][v].frame] = pt[p][v].sees
=============================================================================
