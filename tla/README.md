# A verification of GCore

GCore (`src/GCore`) is a kernel in Rust for RISC-V and LoongArch, with processes,
threads, signals, futexes, pipes, demand-paged memory with compression and swap, FAT32
and ext4, sockets and virtio devices. This directory holds TLA+ models of its parts,
the TLC configurations that check them on small instances, and TLAPS proofs of some of
their properties for every size. Paths below are relative to `src/GCore/os/src` unless
they start with `src/`, `Doc/` (`src/GCore/Doc`) or `dependency/` (`src/GCore/dependency`).

## How the kernel runs, and what follows for the models

- Only the boot hart runs tasks; `main.rs` starts no other.
- The kernel is not preemptible: a trap taken in supervisor mode is a panic
  (`hal/arch/riscv/trap/mod.rs`). Kernel code therefore runs alone from one
  `schedule()` to the next.
- So an action is one stretch of kernel code between two points where a task may be
  switched out, or one round of a loop inside such a stretch. While a loop is split
  into rounds a variable (`loop`, `exiting`, `op`, `call`) says where the hart is,
  and no other task moves.
- Concurrency is between tasks: what a task read before it slept may be stale after,
  queue entries outlive the calls that made them, and the timer ends any stretch of
  user code. Devices run beside the kernel: in the driver modules every access to
  shared memory or a register that the device can tell apart is a step.
- What programs do is not restricted beyond the constants of a run (`Calls`,
  `Buffers`, `Limits`, ...), which name the calls they make. Where a use of a call is
  known to break a property, a constant (`Departures`, or one of its own) leaves it
  out; the section on departures lists every one of them.
- An assertion or `unwrap()` of the code becomes part of an invariant where the state it
  tests is modelled. The model of a loop whose assertion fails simply stops there.

## The modules

| Part of the system | Source | Module | State and actions |
|---|---|---|---|
| Ids | `task/pid.rs` | `RecycleAllocator` | next id, stack of recycled ids, the id of each RAII handle; `alloc`, and `dealloc` run by a drop. `IdPool` is what it promises |
| Scheduler | `task/manager.rs`, `processor.rs`, `mod.rs` | `TaskManager` | ready queue, entries in the interruptible queue, the running task, every task's status; one action per function that moves a task |
| Futexes, timeouts, sleeping calls | `task/threads.rs`, `manager.rs`, `syscall/process.rs` | `Futex` (extends `TaskManager`) | futex table, timeout heap, clock; a blocking call is one action up to its `schedule()` and `Return` from there to user mode; the wake loops take a step per queue entry |
| Task life cycle | `task/mod.rs`, `task.rs`, `syscall/process.rs` | `Process` (extends `TaskManager`) | family tree, thread groups; `do_exit()` in its stages (the last drops a block that is nobody's child), exit_group once per thread, a round of wait4 per step; setsid; calls that sleep once (`Sleep`) and calls that loop until they have something to return (`Loop`) |
| What a task is made of | `task/task.rs`, `mm/memory_set.rs` | `Images` | areas, trap contexts, kernel and user stacks of tasks through clone, execve, exit and reaping; the argument block of execve |
| Signals | `task/signal.rs`, `syscall/process.rs` | `Signals` | pending sets, masks, handlers, frames on user stacks; a trap with its `do_signal` is a step |
| Clocks and timers | `timer.rs`, `task/task.rs` | `Clocks` | the counter, times charged to tasks, interval timers |
| Pipes | `fs/dev/pipe.rs` | `Pipe` | ring, status, open ends; a step per `buffer_read` or `buffer_write`. `ByteQueue` is what it promises |
| Descriptor table | `fs/file_descriptor.rs`, `syscall/fs.rs` | `FdTable` | slots, free list, limit, and the calls that change them |
| poll, select, terminal, timerfd | `fs/poll.rs`, `fs/dev/tty.rs`, `timerfd.rs` | `Poll` | readiness of four kinds of file against rounds of ppoll and pselect |
| Sockets | `net/*.rs`, `syscall/net.rs` | `Sockets` | TCP, UDP, ICMP and Unix sockets, the descriptor and the socket table, an external smoltcp |
| Frames, zram, swap, anonymous memory | `mm/frame_allocator.rs`, `zram.rs`, `fs/swap.rs`, `mm/memory_set.rs`, `map_area.rs` | `MemorySet` | the three stores as values with operators, the Frame and the entry of every page, `active` lists; `call` is the kernel's place in a fault, fork, copy or drop. `AddressSpaces` is what it promises |
| Memory areas | `mm/map_area.rs`, `memory_set.rs` | `MapAreas` | the list of areas of one space under mmap, munmap, mprotect, sbrk, faults and reclaim |
| Page tables | `hal/arch/riscv/sv39.rs`, `loongarch64/laflex.rs` | `PageTables` | frames of entries in both formats |
| Kernel/user copies | `mm/page_table.rs` | `UserMemory` | bytes of frames, translated page by page |
| Buffer cache | `fs/cache.rs` | `BlockCache` | buffers with priorities and dirty bits, eviction, write-back |
| FAT32 files, directories | `fs/fat32/*.rs` | `Fat`, `FatDir` | table, allocator, chains, page cache; slots of a directory and a listing in several calls. `FileContents` is what `Fat` promises |
| Directory tree | `fs/directory_tree.rs`, `file_descriptor.rs` | `DirectoryTree` | cached nodes, path cache, open files, rename, delete |
| ext4 files, directories | `fs/ext4/*.rs` | `Ext4`, `Ext4Dir` | bitmaps, group descriptors, extent tree, page cache, restarts; words of directory blocks |
| Virtqueues | `dependency/virtio-drivers/src/queue.rs`, `queue/owning.rs` | `Virtqueue` | descriptor table, rings, shadow copies, indices that wrap, against any device |
| vsock | `.../device/socket/*.rs` | `Vsock` | connections, credit, packets both ways |
| virtio drivers | `.../device/*.rs` | `VirtioDevices`, `VirtioControl` | buffers lent to console, input, net, block and sound; commands of gpu and sound |
| Transports and PCI | `.../transport/*.rs`, `dependency/dep_pci`, `drivers` | `VirtioTransport`, `PciBars` | set-up, interrupts, configuration reads, teardown; sizing and assignment of BARs |
| Network and disk adapters | `dependency/dep_iso`, `drivers/block` | `EthernetRings`, `BlockDrivers` | descriptor rings of e1000 and ixgbe; sector transfers of virtio and AHCI disks |

How they interact: every blocking call goes through the scheduler (`Futex` and
`Process` extend `TaskManager` and move tasks by its actions); a thread's exit wakes its
joiner through a futex; a fault takes frames from the allocator, which reclaims pages of
all spaces into zram and swap; fork shares pages and changes the frame, hence the futex
key, of a word; the descriptor table holds the pipe ends whose last close ends a read.
FAT stores its table through the buffer cache, which `Fat` takes at its word
(`CacheIsCoherent`), as the drivers above a virtqueue take the queue (`RingIsExact`). Of
ext4 only the superblock goes through the buffer cache; bitmaps, inodes, extents and
directory blocks are read from and written to the device one by one, as in `Ext4`.

`MCPools`, `MCTasks`, `MCMemory`, `MCStorage` and `MCDevices` instantiate them for TLC
(the constants of `Futex` need a few definitions only, at its end). They hold several
components in one module: a behaviour picks one of `Parts` in `which` and the others
stand still, so a run explores the disjoint union of
their state spaces, and a property says "if this is the component that runs, then ...".
`QueueLemmas`, `TasksProofs` (of `RecycleAllocator` and `Pipe`), `ProcessProofs`,
`FutexProofs`, `BlockCacheProofs`, `VirtqueueProofs`, `MemorySetProofs` and
`MemoryRefinement` hold the proofs.

Definitions whose comment says "mutated" are plausible bugs of the definition that
follows them. They are part of no specification and serve to see that a property can fail.

## The runs

| Run | Instance | Shows |
|---|---|---|
| `futex_queues` | 3 threads, 2 words, 1 tick, 3 queue entries | timeouts, signals, exits and requeues race with wakes: no sleeper loses its queue entry or its deadline, queues and status agree |
| `futex_live` | 2 threads, 2 words, 3 ticks | sleeps end and not early; a wake hits only waiters on its word; join returns; every ready thread runs |
| `process_fork` | initproc and 3 single-threaded processes, all call wait4; setsid by an only child | parent and children agree and every parent is alive; no exit is missed; zombies stay dead; the processes never all sleep, but for one whose children have left it |
| `pools` | initproc and 2 tasks in groups of at most two; buffer cache of 2 buffers and 3 blocks; a ring of 2 bytes; 3 threads around ppoll and pselect | exit_group is complete, orphans are reaped, a killed task dies (once it is out of wait4 or of a call that loops), a reaped task has no other reference; requests to the cache, to pipes and to poll are answered |
| `tasks` | ids: 4 handles; pipe: 2 tasks, ring of 2 bytes; areas, descriptors, poll, signals, clocks, images: the constants in `MCTasks` | each id is held or recycled, once, and the allocator implements `IdPool`; the ring is a FIFO of bytes; areas tile what was mapped and faults find what was asked; the free list is exact and no open descriptor is replaced; polls, signals, times and images are exact |
| `sockets` | a server and a client, two descriptors each, buffers of one byte | descriptor table, socket table and smoltcp agree, and what is received was sent |
| `memory` | 2 spaces of 2 pages, 2 frames, 2 zram slots, 1 swap page; tables of fan-out 2; 3 pages of 2 bytes | every process sees its own memory; no frame, slot or swap page is lost or doubled; writable pages are private; tables and copies do what they are told |
| `fat` | 3 blocks in 2 buffers; 2 files on 3 free clusters; a directory of 3 names in 2 clusters | the cache is coherent; chains, bitmap, sizes and page cache agree and the files hold what was written; a listing returns every name that stays |
| `ext4` | 2 files on 2 groups of 4 blocks, a directory of 3 names, one restart; a tree of names | bitmaps, counts, extents, page cache and disk agree; directory blocks hold the entries made; the tree of nodes matches the disk |
| `devices` | a queue of 4 descriptors with indices modulo 8; the constants in `MCDevices` | descriptors are owned once and no notification is lost; drivers give every item to the caller once and in order; queue memory is not freed in use; disks store what was written |
| `futex_stale_sleep`, `fd_table_dupfd` | violations | see departures |

**Why these bounds.** They are the least at which the cases that matter meet. Three
threads let a timeout, a signal and a wake compete for one sleeper while another waits
behind it. Four tasks give a grandchild and its sibling, so that adoption and
`CLONE_PARENT` occur. A ring of two bytes with pieces of one and two makes copies start and
end on either side of the wrap. Two frames for four pages make every fault but the first
two reclaim, and two zram slots with one swap page fill up, so that pages take each of the
three places and panics by exhaustion are reached. Three free clusters make the second file
run into the end of the volume while the first gives clusters back. An extent leaf of two
and a root of one make the tree grow in depth within a file of three blocks. Indices modulo
8 over 4 descriptors wrap while two requests are in flight. The bounds are not a proof: in
particular `pools` has groups of at most two threads and `process_fork` none, and with
larger groups two of its properties fail (departures). `MaxEntries` caps the futex
queues, which the code does not.

**Symmetry** is used where nothing tells the values apart: tasks (but initproc) in
`process_fork`, threads and words in `futex_queues` (no thread has a clear_child_tid word
there), spaces in `memory`, files in `fat` and `ext4`. No liveness property is checked
with it.

**Deadlock** is checked in `fat`. In the other runs a behaviour may stop for good reason:
the bounded clock ends, all threads have exited, both ends of a pipe are closed, a bound on
calls is reached, or the kernel has panicked. In `process_fork` a process may wait for
children that have left it by setsid; `NoStandstill` says that this is the only way in
which everybody sleeps.

**Fairness**, and why the code gives it:
- the kernel finishes what it began: weak fairness of the scheduler, of the steps of
  loops and exits, of returns from resumed calls, of the rounds of `oom()` and
  `alloc_buffer_cache`;
- the timer preempts user code: strong fairness of `TimerInterrupt(t)`. An interrupt
  that arrives in the kernel stays pending and is taken back in user mode, so a
  thread that makes calls forever is still preempted;
- `Tick` is weakly fair: time passes;
- initproc in its shell mode calls `wait()` as long as it has children
  (`src/GCore/user/src/bin/initproc.rs:234-240`): strong fairness of its `Wait4`. In the
  modes that run tests it calls `waitpid` for one child at a time (line 286) and this
  assumption does **not** hold; `OrphansAreReaped` is a statement about shell mode only,
  and with `"initproc_waitpid"` among the calls TLC refutes it: an adopted zombie stays
  while initproc waits for another child. No other program is assumed to do anything;
- a sleeper of a pipe or of poll is woken at each tick and scheduled in turn: weak fairness
  of its rounds, and of `LoopRound` in `Process`.

## What is proved

TLAPS proves the following for every value of the constants that meets the named
assumptions. Each safety theorem rests on an inductive invariant; liveness is not among
them. The large proofs begin with `USE Zenon`: a leaf that names no prover is first order,
and one that needs arithmetic or sequences cites `SMT`. That keeps each module to a few
minutes; with the default order of the provers the translation for SMT dominates.

**`TasksProofs`**, on `RecycleAllocator` (any set `Handles`). `LedgerHolds`, `NoDropPanics`. That a
drop does not panic is not inductive: that an id is not in `recycled` when its handle is
dropped depends on no other handle having had the same id. The inductive invariant is
`TypeOK /\ Ledger`: no two handles share an id, `recycled` has no duplicates, held and
recycled ids are disjoint and together are exactly `1..current-1`. `RefinesIdPool`
(`Handles` finite) says that the allocator implements `IdPool` with as many ids as there
are handles. It needs one more fact, `Dense`: `current - 1`, the number of ids ever
minted, never exceeds the number of handles, because an id is minted only when none is
recycled, that is when every id minted is held by another handle.

On `Pipe` (`PipeAssumption`: the ring has at least one byte, user buffers are sequences of
non-empty pieces; and, as a hypothesis of both theorems, `NoEmptyCalls`: no call is of no
bytes): `RingStatusHolds` and `PipeIsAByteQueue`. The hypothesis is needed because the code
sets the status after such a call too (departures). With `head = tail` only
`status` tells a full ring from an empty one, and the copy loops leave `status` behind
while they run. The inductive invariant therefore adds `CopyIsSound` to typing and
`StatusIsExact`, and `RingStatusHolds` states both: in the middle of a read equal indices mean full, in that of a write
empty, and a user buffer that is used up leaves the indices different. The refinement to
`ByteQueue` maps the ring to its `Content`; its lemmas say that a read takes the oldest
bytes and a write overwrites none, on both sides of the end of the array.

**`ProcessProofs`**: `FamiliesHold`, `ExitsAreNoticed`, `ReapingIsSafe` and
`ExitedStayDead`, for any number of processes, under `SingleThreaded` (no `clone` of a
thread) and `OnlyChildrenLeave` (setsid is called by an only child, or by nobody), and
`WaitersHaveChildren` under `NobodyLeaves` (no setsid) as well: a child that leaves by
setsid does not wake the parent that waits for it.
`do_exit` is several steps, and what the theorems say between two calls holds inside it
only with exceptions. The invariant names them: `Staged` says what each stage of an exit
may rely on, `Queued` and `Runs` that all tasks but the leaving one are where their status
says, `ToldFirst` that a parent is woken before its child becomes a zombie, and `Waits`
that a sleeper in `wait4` has no dead child, and without setsid a living one, at every
stage; it is kept when orphans go to initproc because initproc is then woken. With threads
three of the theorems are false, so the assumption is needed: a thread's exit does not wake a `wait4`
for it, a zombie that `exit_group` took out of `wait4` has two references, and a sibling
that joins a thread of its group is run after its death (departures).

**`FutexProofs`** (`NoTask \notin Tasks`, and `FutexAssumption`: the constants are of
their types). On `TaskManager` alone: `StatusAlwaysMatchesQueues`,
`ZombiesAreNeverRevived`, with typing and `StatusMatchesQueues` as inductive invariant
and a lemma per operation. On `Futex`:
- `BlockingKeepsStatus`: each step of a blocking call, wake loop, timeout, exit or
  interrupt is a step of the scheduler or leaves it alone, so that what was proved of
  `TaskManager` holds of `Futex`. The invariant `FInv` adds typing and `LoopIsSound`, that a
  wake loop's follow-up names a word.
- `NoWaiterIsLost` (assumption `PlainWords`: no futex word is on a page copied on write,
  and no word is requeued to itself): a sleeping futex waiter has an entry in the queue its
  word's wakes look at, and a sleeper with a deadline has its entry in the timeout heap.
  The invariant `WInv` follows the entry through the two queues of a requeue, whose
  waiters are for some steps in neither word's queue but in the loop's hands.
- `SleepsAreFull` and `WakesAreMeant` (assumption `WaitsRunOut`: no tkill, no timed futex
  wait, no requeue): a sleep does not end early, and a wake reaches only those that wait
  for it. Neither is inductive: an entry must be shown to belong to the call its thread is
  in *now*. `EntriesAreFresh` says so of every entry of every queue, and it is kept because
  under the assumption a call returns only by the wake-up that removes its entry.
Both assumptions are necessary: without them TLC finds the failures listed below.

**`MemorySetProofs`** (`MemoryAssumption`: sizes are natural numbers, `compress`
yields something other than an empty slot). The invariant `Inv` joins typing,
`TablesAgree` (an entry is that of the page's frame, and is writable only if the page is
the frame's one owner), `FrameAccount`, `ZramAccount`, `SwapAccount` (what is out of each
store is what some page is in, free lists have no duplicates), `PagesHaveAreas` (a page in
no area has no frame, or is still to be dropped), `CallIsSound` (what the kernel knows in
the middle of a fault, fork, copy or drop) and `ActiveOnce`. Its four consequences are the
run's properties: `MappingsHold`, `WritesArePrivate`, `FramesHold`, `SlotsHold`. The
accounts have one lemma per store, about one page that moves from any place to any other:
the place it leaves is freed exactly if it was its last owner. Faults, the five kinds of
page-in, both ways out, fork and drop are instances of it.

**`MemoryRefinement`**: `Refinement` says that every behaviour of `MemorySet` in which the
kernel's own stores are `InPlace` implements `AddressSpaces`, whatever the buffers: a store
is in place if the frame it hits is the one the program has in that page, and no other page
has it. The code does not ensure that by itself (departures). `PrivateBuffersSuffice` says
what does: with buffers of one page, not shared after a fork when the call is made
(`PrivateBuffers`), every store is in place and the refinement holds without a condition.
`Contents`, the refinement mapping, is what a program would find in each page. `Unseen`
lemmas show that moving a page between memory, zram and swap, copying it on write or
sharing it by fork changes no content; a store changes one page of one space because its
frame has one owner; `Sound` (no buffer is needed for it) and `CopyIsSafe` (of the second
theorem) say what the kernel may rely on while an area goes page by page, and between its
translation of a buffer and its store.

**`BlockCacheProofs`** (`BlockCacheAssumption`): `CacheIsAlwaysCoherent`, what is read is
what was stored last. The invariant adds `Searching`: while a buffer is looked for, which
may take several passes of `oom()`, no buffer holds the block that is wanted; without it a
block could end up in two buffers.

**`VirtqueueProofs`** (`VirtqueueAssumption`: `2 * Size <= Wrap`):
`NotificationsAreNeverLost`, of every behaviour in which the checks are `InOrder`: when
`should_notify` decides, the device can see the index of the buffer just added. Nothing is
assumed of `Reorder`; where the load does overtake the store a notification may be lost
(departures), so the theorem says that this is the only way. `IndexInv` relates the index
the driver has stored, the one the device sees, the one it has consumed and its
`avail_event`, modulo the wrap.

**`QueueLemmas`** has what they need about sequences: type, elements and injectivity after
a push or a pop at either end, a concatenation or a part.

Only model-checked: the other properties of `PROJECT.json`'s runs. Some are
out of the prover's reach: liveness under fairness and `ENABLED` (`BlockedCallsReturn`,
`ExitsAreComplete`, `CallsReturn`); what a recursive definition computes for every input,
which needs induction over data (chains of clusters, extent trees, descriptor chains); and
`Sockets`, which declares a `RECURSIVE` operator. `ThreadsAgree` has no proof because it is
false of larger thread groups. For the rest nobody has written the invariant yet.

## Where the code departs from what it promises

Two have a run of their own; TLC prints the trace.

- `futex_stale_sleep` (`syscall/process.rs:205`): a signal ends a nanosleep, its entry
  stays in the timeout queue, and on expiry it wakes a later, longer sleep, whose
  `assert!(end <= now)` fails.
- `fd_table_dupfd` (`fs/file_descriptor.rs:431`): `F_DUPFD` with the hint in use takes a
  recycled descriptor and leaves it recycled; the next open replaces the file.

The passing runs leave out the following uses, because a property fails with them (a
property named with its module is not part of a run). The settings, on top of the run's cfg or MC module, make TLC show it.

| What the code does | Property violated | Settings |
|---|---|---|
| A futex wait ended by its timeout leaves its entry; a later wake on that word wakes the thread out of another wait (`task/threads.rs:131`) | `WakesOnlyItsWaiters` | `FutexLive`, `MaxTime = 2`, calls futex_wait, futex_timedwait, futex_wake |
| Requeue from a word to itself drops the waiters that stay (`task/threads.rs:197`) | `WaitersAreQueued` | `FutexQueues`, a requeue of a word to itself, `WakeCounts = {0, 1}` |
| After a fork, the first store to a word's page moves the word to another frame; its waiters are filed under the old one (`task/threads.rs:86`) | `WaitersAreQueued`, `BlockedCallsReturn` | `CowWords = {a1, a2}` |
| exit_group takes its threads out of the queues and exits them one by one; the clear_child_tid wake of one puts a sibling that joins it back into the ready queue, which then becomes a zombie there and is run (`task/mod.rs:193`) | `ThreadsAgree` | `Pools`, groups of three threads, one joining |
| wait4's assertion that a zombie has one reference fails for one killed by exit_group of its sibling while asleep in wait4 (`syscall/process.rs:741`) | `ThreadsAgree` (`ReapIsLast`) | all threads wait, calls fork, thread, exit_group, wait4 |
| A thread has no exit signal, so its own exit wakes no parent asleep in wait4 (`task/mod.rs:78`) | `NoMissedExit` | `ProcessFork`, calls fork, thread, exit, wait4 |
| A process killed in wait4 loops in it and never reaches do_signal (`syscall/process.rs:762`), and so does one in a call that loops: pipes (`fs/dev/pipe.rs:183`, `225`, `277`, `323`, where the look at the pending signals is commented out), poll (`fs/poll.rs:173`, `360`), sockets (`net/tcp.rs:146`, `278`, `330`, `459`, `net/udp.rs:212`, `323`), the terminal | `Process!EveryKillTerminates` | `Pools`, as it is |
| setsid drops every child of the caller's parent that has the caller's `tid`, which all main threads share: its siblings leave the tree, too, and keep their parent field (`syscall/process.rs:380`) | `FamilyTree` | `ProcessFork`, calls with setsid_siblings |
| A child that leaves by setsid does not wake its parent, which then waits in wait4 for nobody (`syscall/process.rs:377-384`) | `Process!WaitsForSomebody` | `ProcessFork`, as it is |
| setsid and execve in a process with threads: siblings are dropped while they run, or leave the queues without an exit (`task/task.rs:517`) | `ThreadsAgree` | `Pools`, calls with setsid, or with execve |
| The clock in microseconds divides by 12 ticks where there are 12.5, and gains 4% (`timer.rs:34-36`, `hal/platform/riscv/qemu.rs:1`: 12500000 Hz); `TimeIsKept` allows for it by `Gain` | `TimeIsKept` | `Gain(k) == 0` in `Clocks` |
| A read or write of no bytes sets the status to NORMAL with head = tail (`fs/dev/pipe.rs:310`, `356`) | `StatusIsExact` | a buffer with no pieces |
| A system call that stores to a page still shared after a fork writes the shared frame (`mm/page_table.rs:126`) | `ImplementsAddressSpaces` | `SharedBuffers = TRUE` |
| The slices of a buffer of two pages are collected first; the fault of the second may swap out the first, whose frame is then written (`mm/page_table.rs:114`) | `ImplementsAddressSpaces` | buffers of two pages |
| A copy whose buffer spans pages reads on past the page (`mm/page_table.rs:555-559`) | `TranslationIsExact` | `Spanning = TRUE` |
| mmap, munmap and sbrk: cutting a file-backed area (`mm/memory_set.rs:857`), a file shorter than its mapping, a second write fault (`393`, `1072`), lowering the break (`831`) | `MappingsAreExact` | `Departures` cut_file, bad_file, past_file, write_again, lower_break |
| vfork and fork of a process with threads share or leave trap contexts and stacks (`task/task.rs:538`, `mm/memory_set.rs:742`); execve of a bad image has changed the task already (`task/task.rs:433`) | `ImagesAreExact` | `Departures` vfork, fork_threads, bad_image, odd_args |
| A handler that edits its frame (`Doc/信号.md:118`), a signal set to ignore while pending (`task/signal.rs:188`), tgkill of another group, a clone with pending signals (`task/task.rs:626`) | `SignalsAreExact` | `Departures` edit_frame, ignore, tgkill_other, clone_pending |
| Times of a task that starts late, stops or runs long; ITIMER_REAL after use (`timer.rs:39`) | `TimeIsKept` | `Departures` late_start, stop, real_after_use, second_passes, long_run |
| A closed descriptor in ppoll (`fs/poll.rs:81`), hang-up in pselect, a byte that comes late, a blocked terminal read with the descriptor table locked (`fs/dev/tty.rs:177`, `syscall/fs.rs:215`) | `PollsAreExact` | `Departures` closed_fd, select_hup, late_byte, tty_wait, shared_read |
| Sockets: socket, socketpair and accept panic on a full descriptor table (`net/mod.rs:85`, `101`, `108`, `125`, `net/tcp.rs:113`, `syscall/net.rs:341`); so do recvfrom and accept on a descriptor that is closed (`syscall/net.rs:172`, `net/tcp.rs:84`), and a write to a UDP socket without a remote end (`net/udp.rs:218`) | `SocketsAreExact` | `Departures` table_full, no_file, no_remote |
| Sockets: tables apart after fork, dup, a thread or a reused descriptor; sends to full or unconnected sockets; resets; bind twice; IPv6 | `SocketsAreExact` | `Departures` of `Sockets` |
| A socket that poll reports readable may have nothing to read (`net/tcp.rs:350`) | `Sockets!ReadyMeansReadable` | `Sockets`, as it is |
| FAT growth by more than one chunk (`fs/fat32/bitmap.rs:196`), writes on a full volume (`fat_inode.rs:1077`) | `FatVolumeIsExact` | `MaxGrow = 2`, `MayFill = TRUE` |
| A FAT inode that is dropped writes the directory entry back as it was, without the size and the first cluster it has computed (`fat_inode.rs:85-110`, comment at 78) | `FatVolumeIsExact` | `Forgets = TRUE` |
| lseek past the end and a write there: the clusters in between hold what was in them (`fat_osinode.rs:413-428`, `fat_inode.rs:1096`) | `ImplementsFileContents` | `Holes = TRUE`, `CellsPerClus = 2`, `ClusPerPage = 1` |
| A directory that fills its last cluster (`fs/fat32/dir_iter.rs:228`) | `FatDir!WalkerNeverPanics` | `Aligned = FALSE` |
| rename links the file under its old name in the new directory (`fs/directory_tree.rs:658`, comment at 565), and PATH_CACHE keeps leading to a node that was moved (`374-379`) | `TreeIsExact` | `Departures` other_name, cached_path |
| rename of a directory with entries fails in unlink, after its node has left the tree (`fs/directory_tree.rs:648-652`) | `DirectoryTree!RenameKeepsNodes` | `Departures` full_directory and other_name |
| `..` above the root is a name like any other (`fs/directory_tree.rs:625-644`) | `TreeIsExact` | a path `<<"up">>` in `AllPaths` |
| An ext4 write behind the end of the file puts its first block where the file ends (`fs/ext4/layout.rs:696-711`, `file.rs:513-543`); truncation ignores a smaller size, also the 0 that unlink asks for, and for a larger one subtracts the block counts the wrong way round (`layout.rs:610`, `file.rs:656`, `668`); an extent leaf below an index that fills up is tried again for good (`extent.rs:860`) | `Ext4VolumeIsExact` | `Departures` hole, truncate, full_leaf |
| An ext4 write over several extents (`fs/ext4/file.rs:542`) | `Ext4VolumeIsExact` | `Departures` spans, `MaxWrite = 4` |
| Unlinking with more inodes in use (`fs/ext4/ialloc.rs:114`) | `Ext4VolumeIsExact` | `Departures` unlink_before, `MaxInodes = 3` |
| A directory made on a full volume: its inode and name are there and the file object panics | `Ext4VolumeIsExact` | `Departures` no_space, `PerGroup = 3`, group 0 all metadata and two free blocks in group 1 |
| ext4 directory calls that meet a long name (`direntry.rs:617`) | `Ext4VolumeIsExact` | `AnyCall = TRUE` |
| should_notify's load may pass the store of the index (`dependency/virtio-drivers/src/queue.rs:189`, `345`) | `NoLostNotification` | `Reorder = TRUE` |
| vsock: a request that crosses one, a port used again (`connectionmanager.rs:160`) | `Vsock!RequestsOfExistingIgnored`, `DriversAreExact` | `Crossing`, `Reuse = TRUE` |
| Owning queues popped out of order, a device that answers with an error (`queue.rs:302`, `sound.rs:522`; `sound.rs:318`, `gpu.rs:118`) | `DriversAreExact` | `Mixed`, `Faulty`, `Deaf = TRUE` |
| Queue memory freed before the device is told (`mmio.rs:541`, `blk.rs:389`) | `TransportIsExact` | `Careless = TRUE` |
| A BAR inside a window already assigned | `TransportIsExact` | `Inside = TRUE` |
| Rings driven to full, buffers dropped in flight (`ixgbe.rs:25`, `e1000.rs:219`, `273`) | `DataIsExact` | `Full`, `AnyDrop = TRUE` |

These come from reading the code only; no property here states them.

- `get_allocated()` (`task/pid.rs:50`) counts one id too many, since ids start at 1, so
  `get_allocated() > 1` in `task/task.rs:515` holds for single-threaded processes too.
- execve takes the other threads out of the queues without exiting them
  (`task/task.rs:517`); they stay children of their parent, never dead.
- A second setsid, or getppid after one or by initproc, panics: `parent` is `None` and is
  unwrapped (`syscall/process.rs:377`).
- Recycled descriptors are `u8`: above 255 a closed one comes back as another
  (`fs/file_descriptor.rs:336`). `W` is in the model; the runs stay below `2^W`.
- A shared page met by reclaim leaves `active` and is not tried again until its next
  fault (`mm/map_area.rs:902`). A store to a read-only framed page faults forever
  (`mm/memory_set.rs:399-409`); munmap does not flush the TLB.
- `PATH_CACHE` answers an open with `O_CREAT|O_EXCL` (`fs/directory_tree.rs:395`), and
  `O_TRUNC` is done before the checks that refuse the open (`429`, `436-451`). Parents
  that are named by different texts lock the same node twice in rename (`599-608`).
- ext4: a volume with no free inode loops for good (`ialloc.rs:21-25`); the page cache is
  never written back.
- A network packet shorter than its header drops its buffer; AHCI's wait loops join their
  conditions with `|` (332, 339, 403); the bus scan misses function (255, 31, 7).

## Not modelled, and assumptions

- LoongArch: trap entry, TLB refill and register switching. The models follow the RISC-V
  trap path; `PageTables` has both formats.
- Calls that convert arguments over operations that are modelled (lseek, sendfile, splice,
  readv, statx), boot, the kernel heap, logging, ELF parsing, and the user programs.
- Devices keep what is written; lz4 decompresses to what was compressed; smoltcp and
  hardware are external, modelled by how the code uses them.
- Locks: on one hart a lock matters only when held across `schedule()`. `Poll` has the
  descriptor table's lock held by a task asleep in a read (`syscall/fs.rs:215`). The memory
  locks taken by reclaim inside a fault (`task/manager.rs:245`) are not modelled:
  `MemorySet` leaves the locked space out of the visits.
- initproc does not exit, is not killed and has no threads; a thread is created with the
  flags the C library uses.
- `MemorySet` has no file-backed pages and maps and unmaps areas whole; `MapAreas` has
  them, for one space. The two are not composed, nor are the file systems with the
  drivers.
- A frame shortage that panics the kernel (`Exhausted`) is a halt, not a violation.
- The mapped lines are about a quarter of the repository; file system calls, tests of the
  libraries, register definitions and user programs make up most of the rest.
