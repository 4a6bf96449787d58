----------------------------- MODULE MCProcess -----------------------------
(***************************************************************************)
(* Processes and the memory they live in, for small instances.  A          *)
(* behaviour is one of the frame allocator alone, of the heap on top of    *)
(* it, of a slab cache, of the tree of areas, of the user address spaces   *)
(* with mmap or with brk, of the process table, or of the descriptor       *)
(* tables; the variables of the others are absent.                         *)
(***************************************************************************)
EXTENDS Kalloc, Slab, AddressSpace, VmaTree, Process, FdTable

CONSTANTS t1, t2, t3, p1, p2, f1, f2
MCThreads == {t1, t2, t3}
MCTasks == {p1, p2}
MCFiles == {f1, f2}

VARIABLE subject
memoryVars == <<physVars, heapVars, slabVars, treeVars, spaceVars>>
processVars == <<sleepVars, procVars, fdVars>>

Off(v) == v = "absent"
UserSpaces == subject \in {"mmap", "brk"}


MemoryInit ==
    /\ IF subject = "heap" THEN KallocInit
       ELSE /\ PhysInit /\ Off(cache) /\ Off(vbits) /\ Off(tables) /\ Off(kernel_vma)
            /\ Off(kernel_map) /\ Off(held) /\ Off(starved)
    /\ IF subject = "slab" THEN SlabInit
       ELSE Off(total_slabs) /\ Off(links) /\ Off(free_list) /\ Off(free_objects) /\ Off(out)
    /\ IF subject = "tree" THEN TreeInit ELSE Off(tree) /\ Off(areas)
    /\ IF UserSpaces THEN SpaceInit
       ELSE /\ Off(live) /\ Off(pt) /\ Off(vma) /\ Off(zone) /\ Off(heap_end)
            /\ Off(mem) /\ Off(exposed) /\ Off(torn)

TasksInit ==
    /\ IF subject = "process" THEN ProcInit
       ELSE /\ Off(smp) /\ Off(proc) /\ Off(process_cache) /\ Off(process_list) /\ Off(first)
            /\ Off(next) /\ Off(prev) /\ Off(pid_bitmap) /\ Off(last_pid_index) /\ Off(where)
            /\ Off(child) /\ Off(wake_pending) /\ Off(sleep)
    /\ IF subject = "fd" THEN FdInit
       ELSE Off(alive) /\ Off(fds) /\ Off(fd_flags) /\ Off(count) /\ Off(asked)

MCInit ==
    /\ subject \in {"frames", "heap", "slab", "tree", "mmap", "brk", "process", "fd"}
    /\ MemoryInit
    /\ TasksInit

MemoryNext ==
    \/ subject = "frames" /\ PhysNext /\ UNCHANGED <<heapVars, slabVars, treeVars, spaceVars>>
    \/ subject = "heap" /\ KallocNext /\ UNCHANGED <<slabVars, treeVars, spaceVars>>
    \/ subject = "slab" /\ SlabNext /\ UNCHANGED <<physVars, heapVars, treeVars, spaceVars>>
    \/ subject = "tree" /\ TreeNext /\ UNCHANGED <<physVars, heapVars, slabVars, spaceVars>>
    \/ /\ UserSpaces
       /\ \E p \in live :
             \/ subject = "mmap" /\ MappingCalls(p)
             \/ subject = "brk" /\ HeapCalls(p)
             \/ OtherCalls(p)
       /\ UNCHANGED <<physVars, heapVars, slabVars, treeVars>>

TasksNext ==
    \/ subject = "process" /\ ProcNext /\ UNCHANGED fdVars
    \/ subject = "fd" /\ FdNext /\ UNCHANGED <<sleepVars, procVars>>

MCNext ==
    /\ UNCHANGED subject
    /\ \/ MemoryNext /\ UNCHANGED processVars
       \/ TasksNext /\ UNCHANGED memoryVars

MCSpec == MCInit /\ [][MCNext]_<<subject, memoryVars, processVars>>

-----------------------------------------------------------------------------




(* mmap never places a mapping over pages that are still mapped, in the    *)
(* child of a fork too, unless the process has unmapped a mapping in part  *)
(* (AddressSpace!MmapKeeps).                                               *)
MmapFresh == [][UserSpaces => MmapKeeps]_spaceVars

(* AddressSpace!StoresPrivate: nobody finds another's stores in the own    *)
(* pages, mprotect or not, as mprotect.c:58-59 has it.                     *)
SpacesApart == UserSpaces => StoresPrivate



(* FdTable!DescriptorsExact: counts and close-on-exec flags are exact.     *)
DescriptorsSound == subject = "fd" => DescriptorsExact

(* Where the search stops: behind the first call that ran out of frames,   *)
(* behind the first mprotect that went round copy-on-write, and at three   *)
(* blocks held from the heap and two free slots in its caches.             *)
CachedSlots == UNION {SlotsOf(c, b) : c \in HeapCores, b \in Buckets}
Bounded ==
    /\ subject = "heap" => ~starved /\ Cardinality(held) <= 3 /\ Cardinality(CachedSlots) <= 2
    /\ UserSpaces => exposed = {}
=============================================================================
