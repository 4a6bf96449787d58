-------------------------------- MODULE Slab --------------------------------
(***************************************************************************)
(* One slab cache (kernel/memory/slab.c): three doubly linked lists of     *)
(* slabs and, in each slab, a list of free objects.  Every call holds the  *)
(* cache's lock and is one step.  The pointers are kept as the code keeps  *)
(* them: 0 is NULL, and a link that is not written keeps its old value.    *)
(***************************************************************************)
EXTENDS Integers, Sequences, FiniteSets

CONSTANTS
    MaxSlabs,       \* bound: slabs that may be created
    ObjectsPerSlab  \* total_objects of every slab

ASSUME SlabAssumption == MaxSlabs \in Nat /\ ObjectsPerSlab \in Nat \ {0}

Slabs == 1 .. MaxSlabs
Lists == {"full", "partial", "free"}

VARIABLES
    total_slabs,    \* slabs 1 .. total_slabs exist
    links,          \* [head, next, prev]: slabs_full, slabs_partial, slabs_free and the links
    free_list,      \* free_list[s]: the free objects of slab s, head first
    free_objects,   \* free_objects[s]
    out             \* objects in the hands of callers: <<slab, index>>

slabVars == <<total_slabs, links, free_list, free_objects, out>>

NoLinks == [head |-> [l \in Lists |-> 0],
            next |-> [s \in Slabs |-> 0], prev |-> [s \in Slabs |-> 0]]
NoObjects == [s \in Slabs |-> <<>>]
NoCounts == [s \in Slabs |-> 0]

(* vxCreateSlabCache *)
SlabInit ==
    /\ total_slabs = 0 /\ out = {}
    /\ links = NoLinks /\ free_list = NoObjects /\ free_objects = NoCounts


Unlink(k, l, s) ==
    LET p == k.prev[s]
        n == k.next[s]
    IN  [head |-> IF p # 0 THEN k.head ELSE [k.head EXCEPT ![l] = n],
         next |-> IF p # 0 THEN [k.next EXCEPT ![p] = n] ELSE k.next,
         prev |-> IF n # 0 THEN [k.prev EXCEPT ![n] = p] ELSE k.prev]

Push(k, l, s) ==
    LET h == k.head[l]
    IN  [head |-> [k.head EXCEPT ![l] = s],
         next |-> [k.next EXCEPT ![s] = h],
         prev |-> [x \in Slabs |-> IF x = s THEN 0 ELSE IF x = h THEN s ELSE k.prev[x]]]

Move(k, from, to, s) == Push(Unlink(k, from, s), to, s)

(* The free list of a new slab, first object first.                        *)
Whole(s) == [i \in 1 .. ObjectsPerSlab |-> <<s, i>>]

(* vxSlabAlloc: the first partial slab, else the first free one, else a    *)
(* new one, which goes through the free list.                              *)
SlabAlloc ==
    LET new == total_slabs + 1
        grow == links.head["partial"] = 0 /\ links.head["free"] = 0
        k0 == IF grow THEN Push(links, "free", new) ELSE links
        lists == IF grow THEN [free_list EXCEPT ![new] = Whole(new)] ELSE free_list
        count == IF grow THEN [free_objects EXCEPT ![new] = ObjectsPerSlab] ELSE free_objects
        s == IF links.head["partial"] # 0 THEN links.head["partial"] ELSE k0.head["free"]
        k1 == IF links.head["partial"] # 0 THEN links ELSE Move(k0, "free", "partial", s)
    IN  /\ grow => new <= MaxSlabs
        /\ total_slabs' = IF grow THEN new ELSE total_slabs
        /\ IF lists[s] = <<>>
           THEN /\ links' = k1 /\ free_list' = lists      \* "has no free objects but in partial list"
                /\ free_objects' = count
                /\ UNCHANGED out
           ELSE /\ free_list' = [lists EXCEPT ![s] = Tail(@)]
                /\ free_objects' = [count EXCEPT ![s] = @ - 1]
                /\ links' = IF count[s] = 1 THEN Move(k1, "partial", "full", s) ELSE k1
                /\ out' = out \cup {Head(lists[s])}

(* slab_free: the first object freed makes a full slab partial, the last   *)
(* one makes a partial slab free.                                          *)
Reclass(s, n) ==
    IF n = 1 THEN Move(links, "full", "partial", s)
    ELSE IF n = ObjectsPerSlab THEN Move(links, "partial", "free", s)
    ELSE links

SlabFree(o) ==
    LET s == o[1]
    IN  /\ out' = out \ {o}
        /\ free_list' = [free_list EXCEPT ![s] = <<o>> \o @]
        /\ free_objects' = [free_objects EXCEPT ![s] = @ + 1]
        /\ links' = Reclass(s, free_objects[s] + 1)
        /\ UNCHANGED total_slabs

(* slab_cache_destroy, once nothing is out: the pages go, whatever list    *)
(* they are in.                                                            *)
SlabDestroy ==
    /\ out = {}
    /\ total_slabs' = 0
    /\ links' = NoLinks /\ free_list' = NoObjects /\ free_objects' = NoCounts
    /\ UNCHANGED out

SlabNext ==
    \/ SlabAlloc
    \/ \E o \in out : SlabFree(o)
    \/ SlabDestroy
-----------------------------------------------------------------------------
SlabTypeOK ==
    /\ total_slabs \in 0 .. MaxSlabs
    /\ links.head \in [Lists -> 0 .. MaxSlabs]
    /\ links.next \in [Slabs -> 0 .. MaxSlabs] /\ links.prev \in [Slabs -> 0 .. MaxSlabs]
    /\ free_objects \in [Slabs -> 0 .. ObjectsPerSlab]
    /\ out \subseteq (Slabs \X (1 .. ObjectsPerSlab))
    /\ \A s \in Slabs : \A i \in DOMAIN free_list[s] : free_list[s][i] \in Slabs \X (1 .. ObjectsPerSlab)

(* The slabs met from a list's head, in order; a walk that does not end is *)
(* cut after one slab too many.                                            *)
Walk(l) ==
    LET at[i \in 1 .. MaxSlabs + 1] ==
            IF i = 1 THEN links.head[l]
            ELSE IF at[i - 1] = 0 THEN 0 ELSE links.next[at[i - 1]]
        n == Cardinality({i \in 1 .. MaxSlabs + 1 : at[i] # 0})
    IN  [i \in 1 .. n |-> at[i]]

(* After any sequence of calls the three lists are disjoint, properly      *)
(* linked in both directions, hold every slab once, and each slab is in    *)
(* the list that its number of free objects says; a slab of one object is  *)
(* free while it is in the list of the partial ones.                       *)
ListsExact ==
    /\ \A s \in 1 .. total_slabs :
          Cardinality({<<l, i>> \in Lists \X (1 .. MaxSlabs + 1) :
              i \in DOMAIN Walk(l) /\ Walk(l)[i] = s}) = 1
    /\ \A l \in Lists : \A i \in DOMAIN Walk(l) :
          LET s == Walk(l)[i]
          IN  /\ links.prev[s] = IF i = 1 THEN 0 ELSE Walk(l)[i - 1]
              /\ (free_objects[s] = 0) = (l = "full")
              /\ ObjectsPerSlab > 1 => (free_objects[s] = ObjectsPerSlab) = (l = "free")

(* Every object is either out or exactly once in its slab's free list, and *)
(* the slab's count is the length of that list: no object is given out     *)
(* twice and none is lost.                                                 *)
ObjectsExact ==
    \A s \in 1 .. total_slabs :
        LET listed == {free_list[s][i] : i \in DOMAIN free_list[s]}
            taken == {o \in out : o[1] = s}
        IN  /\ Len(free_list[s]) = free_objects[s]
            /\ Cardinality(listed) = free_objects[s]
            /\ listed \cap taken = {}
            /\ listed \cup taken = {s} \X (1 .. ObjectsPerSlab)
(* slab_alloc and slab_free neither lose nor double an object, and the     *)
(* lists they search are exact.                                            *)
SlabExact == ObjectsExact /\ ListsExact
=============================================================================
