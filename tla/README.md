# A verification of the voxia kernel in TLA+

Voxia is a multi-core x86_64 kernel written in C (`src/kernel`), with driver
modules (`src/modules`), a small user space (`src/userspace`) and a copy of musl
(`src/musl`). This directory models the parts of the kernel whose correctness
depends on the order in which things happen: sleeping and waking, processes,
memory, files. TLC checks the models on small instances and TLAPS proves the
central properties for all instances.

The repository has no behavioural documentation: `README.md` lists features, and
`docs/` configures Doxygen. Everything here is translated from the source;
where a comment or a message in the source says what the code should do, that
sentence is used as a property (see *Findings*).

## 1. Inventory

How the kernel runs shapes every model:

- System calls run with interrupts off (`syscall_init` clears IF), so on one
  core two calls interleave only where one of them sleeps or yields. Calls on
  different cores interleave at every shared access.
- A thread stays on the core it was attached to. Timer ticks interrupt user code
  and the scheduler's idle loops.
- Every blocking call is built from `thread_block`, `thread_sleep` and
  `vxThreadWake`. A blocked thread may also be resumed for no reason, by a tick
  in the idle loop, so callers must look again.

| Component | State | Operations | What is hard about it | Module |
|---|---|---|---|---|
| Ticket spinlock | two 16-bit counters | acquire, release | wrap of the counters, starvation | `Spinlock`, `FifoLock` |
| Scheduler | run queues, thread states, `wake_pending`, two saved contexts per thread | tick, block, sleep, yield, wake, attach, exit | lock-free wake against block and tick, idle loops, exits | `Scheduler`, `BlockWake` |
| Futex | table of waiters, user words | wait, wake, requeue, timeouts | word changes between the look and the sleep, slot reuse, full table | `Futex` |
| Pipe | byte ring, two waiters, two end counts | read, write, dup, close | wrap, lost wakes, who frees | `Pipe` |
| Process table | pid bitmap, hash buckets, list, objects | fork, exit_group, wait4 | object reuse, exit racing wait | `Process` |
| Descriptor tables | slots, flags, counts | open, accept, dup, dup2, fcntl, close, fork, exec, exit | shared counts, stale flags | `FdTable` |
| Signals and select | pending, mask, handlers, one saved frame | kill, mask, action, delivery, sigreturn, select | kill or input between the look and the sleep, nested handlers | `Signal` |
| Physical frames | bitmap | alloc, free | first fit over runs | `PhysMemory` |
| Kernel heap | per-core caches, bitmap of addresses, mappings | kalloc, kfree | free on another core, growing bitmap | `Kalloc` |
| Slab cache | three linked lists, free lists | alloc, free, destroy | list moves in place | `Slab` |
| Address spaces | page entries, VMA records, heap end, mmap zone | mmap, munmap, mprotect, brk, fork, fault, exec, exit | copy-on-write in every order | `AddressSpace` |
| File I/O | position, write buffer | read, write, writev, lseek, close, open | the buffer against everything that moves the position | `FileIo` |
| FAT32 | FAT, directory, data, fsinfo copies | lookup, create, write, truncate, unlink, mount | the machine stops between two disk writes; full device | `Fat32` |
| Dentries and mounts | counts, cache, child list, grace period | open, close, chdir, mount, umount, exit | deferred frees, eviction while in use | `Dentry` |
| Terminal line buffer | byte ring, cursor, count of lines, waiter | keys, read, poll | edits across the end of the ring | `Tty` |

`PROJECT.json` lists, under `components`, these and the parts that are not
modelled with the reason, and under `hazards` what is hard to test in this code,
at the line where it bites, with the property that would notice.

The properties a correct kernel of this shape has, in the order of importance
chosen here: no wake is lost; locks exclude and are fair; memory handed out is
handed out once; processes do not see each other's stores; counts of shared
objects are exact; the file system survives a stop; buffers keep bytes in order.

## 2. How the modules fit together

```
        Spinlock --implements--> FifoLock
        Scheduler --implements--> BlockWake
                                     ^
             Futex, Pipe, Process, Signal  (EXTENDS BlockWake)
        PhysMemory <-- Kalloc (EXTENDS)      Slab     AddressSpace
        FdTable      FileIo      Fat32      Dentry      Tty
```

`BlockWake` is the contract between the scheduler and everything that sleeps. It
has one step each for block, sleep, wake and resume, and it includes spurious
resumptions. `Scheduler` is shown to implement it (`ImplementsBlockWake`), and the
blocking calls are written on top of it, so none of their models repeats the run
queues. `Kalloc` extends `PhysMemory`: heap and frame allocator run as one system.

Components that do not share state are checked side by side in one run: `MCIpc`,
`MCProcess`, `MCMemory` and `MCFiles` choose a `subject` in the initial state and
let that component alone run. This is not a composition: a behaviour is one of
one component.

### Modules and code

**Spinlock** (`hal/cpu/spinlock.c`). `Draw` is the fetch-and-add of
`spin_acquire`, `Enter` the load that ends its loop, `ReleaseLoad` and
`ReleaseStore` the two accesses of `spin_release`. `Tickets` stands for 2^16.

**Scheduler** (`procc/scheduler.c`). `state`, `in_kernel_sleep`, `wake_pending`
and `wakeup_time` are the fields of `thread_t`; `queue`, `current` and `active`
those of a core's scheduler and core data; `loc` is where in the kernel a thread
is; `on` what a core executes (a thread, or one of the loops). `vxThreadWake` is
`WakeStart` (store of `wake_pending`), `WakeLoad` and `WakeStore`. The tick is
`Tick` with its search; `thread_block` is `BlockStore`, `BlockWoken` or
`BlockSwitch`, and so on. `frame_saved` is a history variable: whether the saved
registers are those of the last interruption.

**Futex** (`sys/syscall/futex.c`). Each section under `futex_lock` is a step.
`fate` is a history variable that says whether a waiter was woken or moved to
another word. User code is `Store` (changes a word) followed by `WakeAll`, the
protocol of every futex user, next to arbitrary `WakeCall` and `FutexRequeue`.

**Pipe** (`sys/syscall/pipe.c`). One reader and one writer; `same_core` says
whether their calls interleave at sleeps only. `pos` holds head and tail modulo
`SizeT`; bytes are numbered, so that `BytesInOrder` can compare them.

**Process** (`procc/process.c`, `wait4.c`, `exit_group.c`, `thread.c`). Objects
are reused in the order of the slab's free list and keep their contents when
freed; buckets keep pointing at them, as in the code. `smp` says whether the
steps of exit and wait interleave.

**FdTable** (`sys/fd.c` and its callers). `asked` records which close-on-exec
flag the creator of a slot asked for.

**Signal** (`sys/sig.c`, `sys/syscall.c`, `interrupt.c`, `tty.c`). One thread,
`kill` and terminal input, from the same core (`local`) or another. `nested`
records that a handler was interrupted by another one.

**PhysMemory**, **Kalloc**, **Slab** (`memory/`). `Scan` is the loop of
`phys_base_alloc`, `FirstFit` what it computes. `starved` records that a call ran
out of frames. Links of a slab are kept as the code keeps them, stale ones too.

**AddressSpace** (`vm_manager.c`, the system calls, the fault handler). A page
entry has its frame, writable and copy-on-write bits, and the ghost `sees`: what
the process last stored, or inherited. `torn` records a partial munmap, `exposed`
the frames mprotect made writable behind copy-on-write.

**FileIo** (`write.c`, `writev.c`, `read.c`, `lseek.c`, `close.c`, `open.c`).
`wanted` is the file as if every write had gone through at once; `spoilt` records
a read between a buffered write and its flush, or a flush cut short.

**Fat32** (`libk/fs/fat32.c`). A call computes its disk writes into `pending`, and
each is a step; `Remount` is an orderly umount or a stop at any point. `harm`
records what has gone wrong so far: a stop, a stop inside one of the two exposed
windows, a full device. Units are clusters. Unlink has the contract that no vnode
of the file is open (no system call reaches it yet).

**Dentry** (`vfs/`). A mounted directory and files below it; `RunQueued` is
the deferred free of `call_rcu`.

**Tty** (`tty/tty.c`). `text` and `at` are the line as a sequence with a cursor,
changed by the same keys; `polled` records that a poll let input in while a line
was unread.

## 3. What the runs check

Each run is a `.cfg` file; `PROJECT.json` names the properties of each.

| Run | Instance | What it shows |
|---|---|---|
| `spinlock` | 3 cores, 4 ticket values | `MutualExclusion`; `Served`, under fairness; `ImplementsFifoLock` |
| `sched` | 2 threads, 2 cores | `NoLostWake`; `ThreadInOnePlace`; `KernelContextValid`; `ImplementsBlockWake` |
| `sched_live` | 2 threads, 1 core, fair | `WokenRuns`; `SleepEnds` |
| `sched_exit_group`, `sched_frame` | 2 threads, 1 core | findings 1 and 2 |
| `futex` | 3 threads, 1 word, 2 slots | `TableExact`; `NoMissedWake`; with a full table, timeouts, foreign wakes and spurious resumptions |
| `futex_timeout` | 2 threads | finding 3 |
| `ipc` | 2 threads; ring of 2 bytes, counters modulo 4 | `WokenReturns` for the futex; `BytesInOrder`, `NoStuckPipe`, `FreedWhenUnused` for the pipe |
| `process` | 3 process objects, 4 pids in bytes of 2 bits; 2 tables of 2 slots; 2 signals | `ProcessTableExact`, `WaitNotMissed`, `StatusDelivered`; `DescriptorsExact`; `SelectEnds`, `HandlerReturns` |
| `memory` | 6 frames, 2 cores, pages of 4 bytes; 3 slabs of 2 objects; 2 processes with 3 pages and 3 frames | `FramesExact`, `ScanFindsFirstFit`; `HeapExact`; `SlabExact`; `CopyOnWrite`, `MmapFresh` |
| `memory_protect` | as `memory` | finding 4 |
| `files` | buffer of 2 bytes, file of 4; 4 clusters, 2 files; 4 dentries, 2 openings; ring of 4 bytes | `WriteBack`; `VolumeSound`, `FileKept`; `RefcountExact`, `OneVnode`; `LineDiscipline` |

The type invariants (`TypeOK`, `PipeTypeOK`, and one `...TypesOK` for each of
the three larger bundles) are part of the runs. Every property has a mutant: an operator in
the module that changes one mapped definition the way a slip in the code would
(marked `mutant` in a comment), under which TLC finds the property violated.

Many properties are stated with an exception, because the code does not keep
them without it. The exceptions say as much about the code as the properties:

- `SleepEnds`: a core whose tick searches a ring its start has been detached
  from never comes back.
- `NoStuckPipe`, `FreedWhenUnused`, `StatusDelivered`, and the input half of
  `SelectEnds` hold for one core. On two cores the pipe can lose a wake and be
  freed twice, wait4 can return before the exit code is stored, and input between
  `char_poll`'s look and its clear is slept through.
- `DescriptorsExact`: accept leaves the close-on-exec flag of the slot's former
  user.
- `HandlerReturns`: a nested handler overwrites the only saved frame.
- `HeapExact` holds until a call runs out of frames; `MmapFresh` until a mapping
  is unmapped in part; `CopyOnWrite` for frames mprotect has not exposed.
- `WriteBack`: a read between a buffered write and its flush, and a short flush.
- `VolumeSound`, `FileKept`: truncate frees a chain before it resets the record,
  create links a directory cluster before zeroing it; a full device.
- `LineDiscipline`: a poll while a line is unread lets it be edited.

### Bounds

The bounds are chosen so that the cases that matter happen: counters wrap within
a few calls (4 tickets, counters modulo 4, a ring of 4, 2-bit pid bytes), tables
fill (2 futex slots with 3 threads, 2 descriptors, 3 slabs), frames and clusters
run out, and there is one more actor than a case needs (a third core to queue
behind a second, a third thread to take a slot, a second file for a freed
cluster). `MCMemory` and `MCFiles` cut the search behind the first failure that
makes the properties' exceptions true (`Bounded`); states just outside are still
checked. File names, processes, files and threads are symmetric where no temporal
property is checked.

Deadlock is not checked in the scheduler's runs: a core whose last thread has gone
loops in `sch_restore` for ever, which is how the code stops. It is checked in the
others.

### Fairness

`Spinlock`: a spinning core keeps loading and a holder releases, since critical
sections are finite. `Draw` is not fair: nobody has to want the lock.
`Scheduler`: kernel code that has begun goes on (strong fairness, because other
interrupts come between its steps), the timer is re-armed by every tick, so ticks
keep coming to a core that takes interrupts, and a thread that keeps running uses
up its slice. User code, wakes and exits are not fair. `Futex`: a call that has
begun goes on, and a sleeper that is woken or whose time is up is resumed; the
latter is what `sched_live` establishes of the scheduler (for one core).

## 4. What is proved

Four modules hold proofs that tlapm checks to the last leaf. They hold for every
value of the constants.

- **`SpinlockProofs`**: `Exclusion == Spec => []MutualExclusion`, for any finite set
  of cores smaller than the number of tickets (`TicketsAssumption`; the kernel has
  65536 tickets). Exclusion is not inductive: the proof uses `IndInv`, which says
  that the tickets from `now_serving` up to `next_ticket`, around the wrap, are
  exactly those of the queued cores, one each. The lemma `TicketsSuffice` is the
  heart: a core outside the lock leaves at least one ticket, so a draw never makes
  a full circle. Init and every action keep `IndInv`.
- **`SchedulerProofs`**: `WakeNeverLost == Spec => []NoLostWake`, for any number of
  threads and cores. The invariant `WakeInv` adds to `NoLostWake` only the types of
  five variables. The argument is the order of the accesses: thread_block stores
  BLOCKED before it reads `wake_pending`, vxThreadWake stores `wake_pending` before
  it reads the state; and no tick or dispatch makes a thread BLOCKED.
- **`FutexProofs`**: `FutexCorrect == Spec => [](TableExact /\ NoMissedWake)` and
  `FutexTypes == Spec => []TypeOK`, for any threads, words and slots. `FutexInv`
  strengthens both parts from sleeping threads to all threads between taking a slot
  and giving it back (`Reach`, `Missed`), since the wake may come before the sleep;
  it adds that a slot holds its thread's word unless it was requeued
  (`SlotAddress`). Wake and requeue are one lemma, `TakeOutInv`.
- **`PhysMemoryProofs`**: `FramesOwned == PhysSpec => []FramesExact`, for every
  memory size and every set of reserved frames that contains frame 0. The lemma
  `PlaceFits` says that a place the allocator finds is a run of free frames.

Only model-checked: all other properties; in particular liveness (out of the
prover's reach), the refinements `ImplementsFifoLock` and `ImplementsBlockWake`,
and that the scan of `phys_base_alloc` computes the first fit
(`ScanFindsFirstFit`), which is an induction over data: the proof of `FramesOwned`
is about `FirstFit`.

## 5. Findings

Runs that are expected to fail, each against a sentence in the source:

1. `sched_exit_group`: `exit_group` returns from its last `schedule_yield`, behind
   which `exit_group.c:62` prints "should not reach here". A tick in the idle loop
   makes the next node active whatever its state (`scheduler.c:333`).
2. `sched_frame`: the tick saves registers of RUNNING threads only
   (`scheduler.c:194`); a thread that executes in state READY is later continued
   from an old frame, where `scheduler.c:922` restores the "FULL register context".
3. `futex_timeout`: a timed FUTEX_WAIT ended by a wake returns ETIMEDOUT, because
   `wake_pending`, which `futex.c:90` wants to tell the two apart, is already clear.
4. `memory_protect`: mprotect makes a page writable that fork shared read-only, so
   a store is seen by both processes; `mprotect.c:58-59` says it must not.

## 6. What is not modelled

- Interrupts that come while a lock is held: several locks are taken with
  interrupts on (`phys_base_allocator.c:157`, `paging.c:245`, `scheduler.c:733`).
- Weak memory: the accesses the code makes atomic are sequentially consistent
  steps, and x86 reorders only stores behind later loads, which the fences in
  `vxThreadWake` and `thread_block` (`scheduler.c:492, 871`) are for.
- Descriptor tables, dentries, FAT32 and address spaces on two cores at once: the
  code has no locks there, and the models take a call as one step (FAT32: one call
  at a time).
- TLBs, the levels of page tables, 2 MB pages, MAP_FIXED and file mappings.
- Name encoding on FAT32, multibyte characters and raw mode of the terminal,
  drawing, path parsing.
- Unix sockets, pseudo terminals, input events, the work queue, the network stack:
  see the plan.
- Drivers and boot code (they program hardware), parsers of fixed formats (ELF, ISO
  9660, initrd), user space, and musl, which is third-party.

Seen in the code while modelling, and for the modules to come:

- a sender that finds a socket's buffer full is woken by nobody (`sendto.c:63`),
  and accept loses the client when no descriptor is free (`accept.c:85`);
- two threads of one parent in wait4 may find the same child (`wait4.c:34`), and
  exit_group wakes only the parent's main thread (`exit_group.c:56`);
- descriptor tables are searched without a lock by the threads of a process
  (`open.c:124`), and close reads a dentry after its put (`close.c:50`);
- a new slab's memset erases the frame just stored in it (`slab.c:130`);
- execve unmaps the old program before it has read the new one (`process.c:679`);
- FAT32's create does not stop on a full device (`fat32.c:822`);
- sch_restore loops for ever when a core's last thread has gone
  (`scheduler.c:894`).

## 7. Plan

1. *Extend.* Unix sockets (pending queue, receive ring, blocked accept and
   receive; a sender that finds the ring full is never woken) beside `Pipe` in the
   `ipc` run. Work queue and notification chains beside `Spinlock`. Pseudo
   terminals and event rings beside `Tty` in `files`. `clone` and processes with
   several threads in `Process`: two threads in wait4, a non-main thread asleep.
   Two cores in `Dentry`: the put before the reads in close. Page tables as a
   refinement of the map `AddressSpace` uses. An interrupt during a lock held with
   interrupts on, as a composition of `Spinlock`.
2. *Prove.* `ImplementsBlockWake` step by step (initial states map to initial
   states, every step to a step or a stutter); `ThreadInOnePlace`;
   `ImplementsFifoLock`'s safety; `ObjectsExact` of the slab; `CountExact` of the
   descriptor tables; `WritableUnshared` of the address spaces.

## 8. Running it

`tlc -config MCFutex.cfg MCFutex` checks a run; `tlapm FutexProofs.tla` checks the
proofs of a module. Every run takes less than three minutes on two cores.
