------------------------------- MODULE Dentry -------------------------------
(***************************************************************************)
(* Directory entries (kernel/vfs/dentry.c, cache.c, vfs.c) and their       *)
(* reference counts, on one core, where a system call is one step and the  *)
(* deferred frees of call_rcu run between calls.  The tree is the root, a  *)
(* directory m that a file system is mounted on, and files below m.        *)
(***************************************************************************)
EXTENDS Integers, Sequences, FiniteSets, SequencesExt

CONSTANTS
    Dentries,     \* dentry objects of the slab cache
    OnDisk,       \* files the mounted file system finds, below m
    Openings      \* open file descriptions

VARIABLES
    state,        \* dentry -> none, live, or queued for dentry_free_rcu
    name, parent, \* dentry -> its name; its parent, or TopDir
    refs,         \* dentry -> refcount
    cached,       \* dentries with DENTRY_IN_CACHE
    childList,    \* m's child_list, in order
    opened,       \* opening -> dentry of the file, or None
    cwd,          \* a process's working directory: m's dentry, or TopDir
    mounted       \* m's vnode->mountedhere is set

dentryVars == <<state, name, parent, refs, cached, childList, opened, cwd, mounted>>

TopDir == 0
None == -1
Mountpoint == "m"

DentryInit ==
    /\ state = [d \in Dentries |-> "none"]
    /\ name = [d \in Dentries |-> Mountpoint]
    /\ parent = [d \in Dentries |-> TopDir]
    /\ refs = [d \in Dentries |-> 0]
    /\ cached = {} /\ childList = <<>>
    /\ opened = [o \in Openings |-> None]
    /\ cwd = TopDir
    /\ mounted = FALSE

-----------------------------------------------------------------------------
(* The cached dentry of a name: cache_lookup.                              *)
Cached(n) == {d \in cached : name[d] = n}
MountDir == CHOOSE d \in cached : name[d] = Mountpoint

(* dentry_get and dentry_put on d, k times net; the root is not counted.   *)
Count(d, k) == [e \in Dentries |-> IF e = d THEN refs[e] + k ELSE refs[e]]

(* dentry_put queues the dentry when the count falls from 1 to 0.          *)
QueuedIf(gone) == [d \in Dentries |-> IF d \in gone THEN "queued" ELSE state[d]]

(* create_dentry of n below p, which it pins; vfs_cache_insert takes one   *)
(* reference and the caller gets `extra'.                                  *)
CreateCached(d, n, p, extra) ==
    /\ state' = [state EXCEPT ![d] = "live"]
    /\ name' = [name EXCEPT ![d] = n]
    /\ parent' = [parent EXCEPT ![d] = p]
    /\ refs' = [e \in Dentries |-> IF e = d THEN 1 + extra
                                   ELSE IF e = p THEN refs[e] + 1 ELSE refs[e]]
    /\ cached' = cached \cup {d}
    /\ childList' = IF p = TopDir THEN childList ELSE Append(childList, d)

-----------------------------------------------------------------------------
(* syscall_mount on m, which resolve_dentry finds in the cache or below    *)
(* the root; the references it takes are put before it returns.  vfs_mount *)
(* itself only counts the device's dentry.                                 *)
VfsMount == mounted' = TRUE     \* over an earlier mount too

Mount ==
    /\ VfsMount
    /\ \/ Cached(Mountpoint) # {} /\ UNCHANGED <<state, name, parent, refs, cached, childList>>
       \/ /\ Cached(Mountpoint) = {}
          /\ \E d \in Dentries : state[d] = "none" /\ CreateCached(d, Mountpoint, TopDir, 0)
    /\ UNCHANGED <<opened, cwd>>

(* syscall_open of a file below m: its dentry is in the cache ...          *)
OpenHit(o, n) ==
    /\ opened[o] = None
    /\ \E d \in Cached(n) :
          /\ refs' = Count(d, 1)
          /\ opened' = [opened EXCEPT ![o] = d]
    /\ UNCHANGED <<state, name, parent, cached, childList, cwd, mounted>>

(* ... or the file system finds the file and it is cached.  m's vnode      *)
(* keeps its fs_instance after an umount.                                  *)
OpenMiss(o, n) ==
    /\ opened[o] = None
    /\ Cached(Mountpoint) # {} /\ Cached(n) = {}
    /\ \E d \in Dentries :
          /\ state[d] = "none"
          /\ CreateCached(d, n, MountDir, 1)
          /\ opened' = [opened EXCEPT ![o] = d]
    /\ UNCHANGED <<cwd, mounted>>

(* An O_CREAT open whose file system refuses to create the file: the new   *)
(* dentry is never put, and its pin on m stays.                            *)
OpenCreateFails(n) ==
    /\ Cached(Mountpoint) # {} /\ Cached(n) = {}
    /\ \E d \in Dentries :
          /\ state[d] = "none"
          /\ state' = [state EXCEPT ![d] = "live"]
          /\ name' = [name EXCEPT ![d] = n]
          /\ parent' = [parent EXCEPT ![d] = MountDir]
          /\ refs' = [Count(MountDir, 1) EXCEPT ![d] = 0]
    /\ UNCHANGED <<cached, childList, opened, cwd, mounted>>


Evicts(d) == d \in cached /\ refs[d] - 1 = 1

Close(o) ==
    /\ opened[o] # None
    /\ LET d == opened[o]
       IN  IF Evicts(d)
           THEN /\ refs' = Count(d, -2)
                /\ cached' = cached \ {d}
                /\ childList' = Remove(childList, d)
                /\ state' = QueuedIf({e \in {d} : refs'[e] = 0})
           ELSE /\ refs' = Count(d, -1)
                /\ state' = QueuedIf({e \in {d} : refs'[e] = 0})
                /\ UNCHANGED <<cached, childList>>
    /\ opened' = [opened EXCEPT ![o] = None]
    /\ UNCHANGED <<name, parent, cwd, mounted>>

(* free_fdtable, when a process is reaped, puts without evicting.          *)
ExitCloses(o) ==
    /\ opened[o] # None
    /\ refs' = Count(opened[o], -1)
    /\ state' = QueuedIf({e \in {opened[o]} : refs'[e] = 0})
    /\ opened' = [opened EXCEPT ![o] = None]
    /\ UNCHANGED <<name, parent, cached, childList, cwd, mounted>>

(* syscall_chdir keeps the reference of its walk and puts the old one.     *)
ChdirIn ==
    /\ cwd = TopDir /\ Cached(Mountpoint) # {}
    /\ cwd' = MountDir
    /\ refs' = Count(MountDir, 1)
    /\ UNCHANGED <<state, name, parent, cached, childList, opened, mounted>>

ChdirOut ==
    /\ cwd # TopDir
    /\ refs' = Count(cwd, -1)
    /\ state' = QueuedIf({e \in {cwd} : refs'[e] = 0})
    /\ cwd' = TopDir
    /\ UNCHANGED <<name, parent, cached, childList, opened, mounted>>

-----------------------------------------------------------------------------
(* syscall_unmount of m.  vfs_umount clears mountedhere, puts its caller's *)
(* reference and removes the children from the cache, in order, until one  *)
(* is still in use, then m itself if nothing but the cache counts it.  A   *)
(* removed child is freed later, so it still pins m.  On success the call  *)
(* puts m once more than it got it.                                        *)
Removable(n) == <<n, SubSeq(childList, n + 1, Len(childList))>>

PutsOnSuccess == 2     \* cache_remove's, and syscall_unmount's own

Umount ==
    /\ mounted /\ Cached(Mountpoint) # {}
    /\ mounted' = FALSE
    /\ \E n \in 0 .. Len(childList) :
          /\ \A i \in 1 .. n : refs[childList[i]] <= 1
          /\ n < Len(childList) => refs[childList[n + 1]] > 1
          /\ LET gone == ToSet(SubSeq(childList, 1, n))
                 free == n = Len(childList) /\ refs[MountDir] <= 1
                 all  == gone \cup (IF free THEN {MountDir} ELSE {})
             IN  /\ cached' = cached \ all
                 /\ childList' = Removable(n)[2]
                 /\ refs' = [d \in Dentries |-> IF d \in gone THEN refs[d] - 1
                                                ELSE IF d \in all THEN refs[d] - PutsOnSuccess ELSE refs[d]]
                 /\ state' = QueuedIf(all)
    /\ UNCHANGED <<name, parent, opened, cwd>>

(* dentry_free_rcu, on the workqueue: the parent's pin is put.             *)
FreeKeepsPin(d) ==     \* mutant: the parent is not put
    /\ state[d] = "queued"
    /\ state' = [state EXCEPT ![d] = "none"]
    /\ refs' = [refs EXCEPT ![d] = 0]

FreeRcu(d) ==
    /\ state[d] = "queued"
    /\ refs' = [Count(parent[d], -1) EXCEPT ![d] = 0]
    /\ state' = [QueuedIf({p \in {parent[d]} \ {TopDir} : refs'[p] = 0}) EXCEPT ![d] = "none"]

RunQueued(d) ==
    /\ FreeRcu(d)
    /\ cached' = cached \ {d}
    /\ name' = [name EXCEPT ![d] = Mountpoint]
    /\ parent' = [parent EXCEPT ![d] = TopDir]
    /\ UNCHANGED <<childList, opened, cwd, mounted>>

DentryNext ==
    \/ Mount \/ Umount \/ ChdirIn \/ ChdirOut
    \/ \E o \in Openings, n \in OnDisk : OpenHit(o, n) \/ OpenMiss(o, n)
    \/ \E n \in OnDisk : OpenCreateFails(n)
    \/ \E o \in Openings : Close(o) \/ ExitCloses(o)
    \/ \E d \in Dentries : RunQueued(d)

DentrySpec == DentryInit /\ [][DentryNext]_dentryVars

-----------------------------------------------------------------------------
Children(d) == {c \in Dentries : state[c] # "none" /\ parent[c] = d}

(* The cache's lists are whole: m's child list is its cached children.     *)
DentryTypeOK ==
    /\ state \in [Dentries -> {"none", "live", "queued"}]
    /\ refs \in [Dentries -> Int]
    /\ cached \subseteq Dentries
    /\ IsInjective(childList)
    /\ ToSet(childList) = {d \in cached : parent[d] # TopDir}

(* A dentry's count is the number of its holders: the cache ("Cache holds  *)
(* one reference", cache.c:74), the open files, the working directory and  *)
(* the children that pin it (dentry.c:50).  It is queued to be freed only  *)
(* when it has none, so no holder is left with a freed dentry.             *)
RefcountExact ==
    \A d \in Dentries :
       LET holders == (IF d \in cached THEN 1 ELSE 0) + Cardinality({o \in Openings : opened[o] = d})
                      + (IF cwd = d THEN 1 ELSE 0) + Cardinality(Children(d))
       IN  /\ state[d] = "live" => refs[d] = holders
           /\ state[d] # "live" => holders = 0

(* All openings of a file share one dentry, and with it one vnode: two     *)
(* vnodes of a file would each keep a size and a first cluster.            *)
OneVnode ==
    \A o, p \in Openings :
       (opened[o] # None /\ opened[p] # None /\ name[opened[o]] = name[opened[p]])
          => opened[o] = opened[p]

(* After any sequence of opens, closes, mounts and deferred frees a dentry *)
(* lives as long as somebody holds it, and a file in use has one.          *)
DentriesExact == RefcountExact /\ OneVnode
=============================================================================
