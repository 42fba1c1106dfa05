# A TLA+ development for KrishnaOS

KrishnaOS is a single-CPU x86-64 kernel with preemptive threads, processes with
their own address spaces, capability-like handles to kernel objects, message
channels, and a small user space (a desktop, a terminal and the VENU shell) that
talks over those channels. This directory holds TLA+ modules translated from its
source, TLC configurations that check them on small instances, and proofs that
TLAPS checks for every instance. `PROJECT.json` maps each definition to the
lines it models and lists the hazards the properties are for.

Sections: 1 inventory, 2 modules and their correspondence to the code, 3 runs,
4 bounds, 5 fairness, 6 theorems and proofs, 7 what is not modelled, 8 findings,
9 possible extensions.

## 1. Inventory

| Part | State it keeps | Operations | Interacts with | What makes it correct |
|---|---|---|---|---|
| Scheduler, `task/thread.c` | circular run queue, current thread, zombie list, slice counter, fault flag | create, timer interrupt, yield, block, wake, exit, reap | processes (reference per thread), kernel stacks, TSS, CR3 | one RUNNING thread; queue = live threads; zombies freed once, never while in use; no starvation |
| Processes and handles, `task/process.c` | process list, thread count, handle table with rights | create, destroy, attach, detach, install, allocate, duplicate, acquire, close | object references, address spaces | no process destroyed while referenced; every table entry owns one reference |
| Objects, `object/object.c` | reference count per object | retain, release, destroy, dispatch | handle table, system calls | destroyed exactly once, never used after |
| Channels, `object/channel.c` | two rings of 16 messages, two open flags | create pair, read, write, destroy an endpoint | objects | each direction is a bounded FIFO; freed when both ends are closed |
| System calls, `syscall.c` | exit counters | read, write, close, spawn, channel create/send/receive, map, unmap, ioctl, sleep, yield, exit | all of the above | every path gives back what it took |
| Spawning, `task/user.c` | 16 runtime slots, desktop runtime | application spawn, desktop start | ELF loader, PMM, VMM, processes, threads | a failed spawn leaves nothing behind |
| ELF loader, `task/elf.c` | list of loaded pages | analyze, load, unload | PMM, VMM | load is all or nothing |
| Physical memory, `memory/pmm.c` | frame bitmap, free count, next-fit cursor | init, allocate, free, query | everything that needs frames | no frame given out twice; counts exact |
| Virtual regions, `memory/vregion.c` | sorted array of free extents | reserve, release | kernel pages, stacks | free extents and reserved ranges partition the region |
| Kernel pages and stacks, `memory/kernel_pages.c`, `kernel_stack.c` | none of their own | allocate guarded, release | PMM, VMM, regions | a transaction over the three, rolled back on failure |
| Heap, `memory/heap.c` | arenas and blocks | kmalloc, kcalloc, krealloc, kfree | kernel pages | blocks tile arenas; neighbours coalesced |
| Paging, `memory/vmm.c` | page-table trees and their ownership | create, destroy, map, unmap, protect, translate | PMM | only owned tables are changed or freed |
| User copies, `user_copy.c` | none | validate, copy in, copy out | VMM | only what the process itself may touch |
| Framebuffer object, `object/framebuffer.c` | one owner and its mapping | map, unmap, ioctl | VMM | mapped whole, in its living owner, or not at all |
| Input, `object/input.c`, `drivers/keyboard.c`, `drivers/mouse.c` | PS/2 decode state | poll, read | controller port | every event is delivered once, as it was made; neither device blocks the other |
| Desktop, terminal, VENU, `user/apps` | input line, ready flag, queues to each other | the terminal and VENU protocols | channels, spawning | no mutual blocking; every command completes; the desktop's view converges |
| Rest: boot, APIC, GDT, interrupts, serial, graphics, splash, shell, user libraries | hardware registers, pixels | start-up and drawing | | not modelled, see section 7 |

What is hard: the timer preempts any kernel thread between two critical
sections; zombies are freed by whichever thread passes a reaping point first; a
struct's one link field serves two lists; references are taken and given back
on many error paths; three user processes exchange messages through bounded
queues and retry when one is full; the allocators keep redundant summaries
(counts, cursors, coalescing) that later calls trust; a launch, a mapping and a
guarded allocation take several resources in turn and must give back exactly
those they got to; a frame or a page table that is given back too early is still
reachable from an address space; two devices share one queue of bytes.

## 2. Modules

### How concurrency is modelled

There is one CPU. All locks are `spinlock_lock_irqsave`, so a critical section
is one action. System calls arrive through an interrupt gate and run with
interrupts masked; kernel threads are preemptible between two critical sections, but
for those whose initial frame was written before preemption was enabled: they run
with IF clear. `Scheduler` models these distinctions (`Masked`). `Objects` lets processes
interleave between any two critical sections or atomic updates: more
interleavings than masked system calls have, which is what the locks and the
atomic counts are written to withstand.

### Scheduler (`Scheduler`, `RoundRobin`, `RunQueue`, `RunQueueSpec`)

`Scheduler` is `task/thread.c` with the part of `task/process.c` a thread's life
touches. The circular list is a sequence that starts at `run_queue_head`
(`queue`); `state`, `process`, `kind`, `stack` are fields of the thread structs,
`registered` and `thread_count` of the process structs; `cr3`, `rsp0` are the
hardware's. `pc` says where a thread stands inside a kernel call: `reap` →
`release` → `detach` → `free` is the loop of `reap_terminated_threads`,
`alloc` → `stack` → `publish` (or `drop`, `cancel`) is thread creation. The
local list of a reaper is `reaping`, the struct a call has in hand `subject`.
`interruptible` is the IF bit of a thread's frame: `Publish` sets it to whether
preemption is enabled by then, as `initialize_thread_context` does. Every failure of a
creation is a step of its own (no struct, no process, no stack, or a rejected context:
`RejectContext` then releases the stack, whatever comes of it). With `ReleaseFails`
a stack release may be refused, and so may `kfree` of a struct, which may have to
release an arena; a reaper then sets `scheduler_faulted` and leaves the thread
(`Leaked`).
`schedule_locked` is the operator `Schedule`: the scan from the previous thread,
the switch, or the two ways to stay (nothing ready; no address space, which sets
`scheduler_faulted`).

`RoundRobin` adds the history "who was dispatched since t became READY or a thread
last exited".

`RunQueue` refines the queue to what the C code has: `run_queue_head`, `_tail`,
the `next` links and the zombie list that reuses `next`; a reaper frees the struct at
the head of its list (`FreeZombie`) or goes on without it when a release fails
(`AbandonZombie`). `RunQueueSpec` is the queue and zombie stack it implements.

### Channels and references (`ChannelSpec`, `Channel`, `Objects`)

`ChannelSpec` is what a channel promises: two bounded FIFOs with an answer to
every call. `Channel` is `object/channel.c`: arrays, `read_index`,
`write_index`, `count`, `endpoint_open`, with the code's order of checks. The
refinement mapping reads the messages between the indices. A message is a model
value with a size; oversize and empty messages are among the inputs.

`Objects` answers who keeps a channel alive: reference counts (`refs`), handle
tables, the local pointers of each system call (`local`), the array of
`kernel_process_destroy` and the pending `destroy` and `kfree`. Its actions are
the critical sections of `syscall_handle_channel_create` (with every failure and
its unwinding), close, the transfers, `user_application_spawn` with an inherited
handle and each of its rollbacks, and exit. Two facts of the code that shape it:
the console's handles carry only the WRITE right, so they cannot be inherited
(`Inherit`); an exited process keeps its handles, its slot and its place in the
process list for good (`Exit`).

### User programs (`TerminalSession`)

The desktop, the terminal and VENU over the channels that `ChannelSpec`
promises. One action is one system call and the computation after it. The
messages one handler sends are its outbox, sent in order before the program reads
again: that is `send_channel` in the terminal and `send_message` in VENU, which
yield and retry while the queue is full. The desktop never waits and drops keys.
A line is its length, an output its type; `MaxOutput` bounds how many messages a
command prints. `sleep` and the other commands are assumed to end. Read and
write errors other than a full or empty queue end the program in the code; with
valid arguments and open endpoints (`Objects`) they do not occur, and are left out.

### Memory (`Pmm`, `VRegionSpec`, `VRegion`, `KernelPages`, `Heap`)

`Pmm` is `memory/pmm.c`: the bitmap is the set `used`, and `owned` is the set of
pages callers hold. `Init` is `pmm_init` for each of a set of memory maps,
including where it puts the bitmap and what it counts. Usable entries are
page-aligned and disjoint (the Limine protocol). Frees are of owned ranges, or of
ranges the validation pass must refuse; page zero is never passed by a caller.

`VRegion` is `memory/vregion.c`: the sequence of free extents, with removal,
insertion and the four ways to cut and to join spelled out as in the code.
Addresses are pages counted from `KERNEL_HEAP_BASE`, which is aligned to any
alignment requested. A caller whose release is refused keeps the range
for good (`lost`): no caller retries. `VRegionSpec` promises the same calls over
the set of free pages: a reservation gets the lowest aligned run, and is refused
only when there is none or more stretches of free pages than `MAX_FREE_EXTENTS` would
remain; a release is refused only in the latter case, or of what is not all reserved.
`ImplementsRegion` asks this of every call by name, so no call may pass as another
that is refused.

`KernelPages` is `memory/kernel_pages.c` with `kernel_stack.c`. It extends `VRegion`
and its steps contain the region's: an allocation is `BeginAllocate` (the
reservation), then `TakeFrame` and `MapPage` or `MapFails` per page, then
`FinishAllocate`, or from the first failure on (of the frame, of its mapping, or of
the final protection, `ProtectFails`) `Undo` and `GiveBack` per page and `FinishUndo`
(`rollback_mapping`); a release is `BeginRelease` (the validation pass), `Unmap` and
`GiveBack` per page and `FinishRelease`. A page is unmapped in one step and its frame
freed in the next; in between, and when its mapping failed, the frame is in the call's
hand (`frame`). Threads interleave between any two of these steps:
each takes a lock of its own, and kernel threads are preemptible in between (the
heap's own calls are not, since it holds its lock). `published` is the set of
descriptors callers hold. A descriptor has one owner: the heap's arena list, or
the zombie list a thread was taken from. `Stuck` are those whose release was
refused at the last step: their pages are gone, and `BeginRelease` never validates
them again. Frames and mappings are abstract here; `Pmm` and `Vmm` are what
provides them.

`Heap` is `memory/heap.c`: the arenas in list order, each with the list of its
blocks. A call is one action, because the heap lock is held throughout, also across
`kernel_pages_allocate`. `Malloc`, `FreePointer` and `Realloc` are operators from a
heap to the heap and the result, composed as the code composes its static
functions: `krealloc` falls back to allocate, copy, free, and gives the new block up
if the old one cannot be freed; `kfree` checks the counters first; `kcalloc` multiplies with
the width of `size_t` (`SizeMax`). `kfree` is called with every address, not only with
those that were returned. `room` is whether `kernel_pages_allocate` succeeds.

### Paging (`VmmSpec`, `Vmm`)

`Vmm` is `memory/vmm.c`. The memory is a function from frames to tables; what a call
does on its way (`WalkStep` creates tables, `RollbackNewTables` unlinks and frees
them, `Reclaim` frees the tables an unmap leaves empty, `CloneTable` and
`DestroyClonedTable` copy the boot loader's hierarchy) is computed step by step on
that memory, and the call as a whole is an action since `vmm_lock` is held. The loops
over pages and over the entries of a table are recursive functions (`Mapping`,
`Unmapping`, `Cloning`), the four levels are written out (`Clone1` to `CloneTable`),
and `destroy_cloned_table`, which frees the tables of a half-made copy, is the set of
those tables. An entry has its kind, its target and the rights and the ownership bit the
code stores in it. A walk that fails keeps the rights it gave to existing tables, as in
the code. Which free frame the page allocator hands out is left to `NextFrame`.

The constants are the entries of a table (`EntryCount`, of which those from
`KernelFirst` on are the upper half), the frames (`PoolSizes`), what the boot loader
leaves (`Boot`, a tree of four levels on `BootFrame`, with at most one entry of the top
level `BootRoot` for itself), and the runs of pages that are mapped (`KernelRuns`,
`UserRuns`) to frames of `Data`. The runs of processes lie in the lower half
(`task/user.c` and `task/elf.c` check it); those of the kernel share their top-level
entry with the heap's first page (`Permanent`) or with a page mapped at boot. What the
kernel maps outside, the local APIC's page and those of the boot tests, it maps while
there is no process, and is left out.

`VmmSpec` promises a set of mappings. A call names a space, pages, frames and rights.
`MapPages` maps its run as a whole, none of whose pages was mapped, to consecutive
frames from the one named, or changes nothing; a process gets the rights asked for, a
page of the kernel may be less writable, since tables Limine left may grant no more.
`UnmapPage` and `ProtectPage` change the one page named, which is mapped. All of this is in the
space named, or in all of them for the upper half, which no process opens to ring 3;
pages mapped at boot stay. Which calls are refused is not part of the promise: that
depends on the frames left for tables. `ImplementsVmm` is the refinement and, beside it, `CallForCall`:
the step of each call of `Vmm` is the step of the promise with the same arguments. The
refinement mapping `View` translates every address in every live space. `CreateSpace` requires a mapped page in the
kernel's heap region: the top-level entry a process copies is kept alive by the heap's
first arena, which `main.c` sets up first and which is never released.

### Processes' memory (`UserSpace`)

`UserSpace` is `task/user.c`, `task/elf.c`, `object/framebuffer.c` and `user_copy.c` over
abstract address spaces. `Begin` is a launch up to the new process, then `TakePage`,
`MapPage`, `CopySegments`, `TakeStack`, `MapStack`, `StartThread` follow the code;
`LaunchFails` may come after any of them and does what the failure labels do
(`Dismantle`: release of the stack, `release_pages`, `elf64_unload`,
`kernel_process_destroy`). A segment is its numbers and flags; bytes are counted in
pages of two, so that segments that share a page, cross pages or end in one occur.
`content` says what is in a frame: something stale, zeros, a file, or what some
process wrote. A failed launch of the boot thread ends in `kernel_halt`. Launches and
system calls are not interleaved: system calls run with interrupts masked, and the
boot thread starts the desktop before there is another process. An application's
frames, slot and address space are never reclaimed after it exits: that is what
the code does.

### Input (`Ps2`)

`Ps2` has the two devices, the controller's queue and the two drivers, polled by the
desktop's loop in turn. A byte carries, beside its value, what its device meant by
it; only the value is looked at by `MousePoll` and `KeyboardPoll`. Bytes of the mouse
are lost when the queue is full. A key is typed only when the queue has room, so that no byte
of the keyboard is lost here. Pause, whose codes begin with E1, is left out: `keyboard.c` knows E0 only.

## 3. Runs

| Run | Checks | Shows |
|---|---|---|
| `scheduler` (`RoundRobin`) | `RunQueueExact` `CpuMatchesThread` `ReapedOnce` `ReferencesCounted` `FaultsOnlyOnLeak` `BoundedOvertaking` `ReadyThreadRuns` `ZombieIsReaped` | whatever creations, preemptions, exits and reaps interleave and whichever releases (of stacks, of structs) fail, the queue is exact, nothing is freed twice or in use, counts add up, a fault comes with a leaked thread, between two exits nobody is dispatched twice while another waits; once every live thread is preemptible, nobody starves and no zombie stays |
| `run_queue` | `OneRing` `ImplementsQueue` | the linked structure implements the queue and the zombie stack |
| `channel` | `RingConsistent` `ImplementsChannel` | the rings answer every call as bounded FIFOs would, across the reuse of the memory |
| `objects` | `RefsExact` `NoUseAfterFree` `NoLeak` `SlotsExact` | every reference is counted once on every error path |
| `terminal_session` | `OneCommandAtATime` `ViewConverges` `PromptAfterOutput` `PromptReturns` `SendsComplete` | the protocol's bookkeeping, what the user sees, and no mutual wait |
| `pmm` | `BitmapExact` `FreeCountExact` | no frame twice, exact count |
| `pmm_holes` | `HolesBeforeCursorServe` (violated) | section 8 |
| `kernel_pages` | `MappingsExact` `ReservationsOwned` `RegionPartitioned` `LossNeedsCrowd` `ImplementsRegion` | a guarded allocation is all or nothing under any failure and interleaving; the table of extents partitions the region with the reserved ranges, and serves and refuses each call as the set of free pages would |
| `vmm` | `TablesExact` `ImplementsVmm` | no table is leaked, shared or reachable after it was freed, and page tables implement sets of mappings: each call maps the run, frames and rights it names or nothing |
| `heap` | `HeapWellFormed` `AllocationsExact` | blocks tile their arenas, free neighbours never stay apart, every allocation is one block of sufficient size, both counters are exact |
| `user_space` | `FramesExact` `ImageAsDescribed` `OwnDataOnly` `FramebufferOwned` | a launch is all or nothing, a process gets what its executable describes and sees nobody else's data, the framebuffer has one living owner |
| `input` | `PacketsFaithful` `Resynchronises` `KeysFaithful` `BytesAreRead` | every event is delivered once and as it was made while no byte is lost; after a loss the mouse falls into step again; neither device blocks the other |

The type invariants are conjuncts of the first invariant of each run. Deadlock is not
checked in `objects` (every process may exit), in `terminal_session` (a program may
exit; `PromptReturns` and `SendsComplete` are the statements about waiting there) and in
`user_space` (the machine may halt).

## 4. Bounds

Every model is finite by its constants; no state constraint is used.

- `scheduler`: two threads and the boot thread, one process and PID 0, two
  ticks per slice; releases of stacks and structs may fail; threads are created before and
  after preemption is enabled. Two reapers and a creation in progress
  meet. The safety properties are proved for any number of each.
- `run_queue`: four threads, so that a removal at head, middle and tail of a ring
  and zombie lists of several elements occur.
- `channel`: capacity three (empty, partly full, full, and wrap of both indices),
  two deliverable sizes, an empty and an oversized message, receive buffers from
  zero to the largest message.
- `objects`: two processes, two channels, three handles of which two are
  dynamic: a process that holds an endpoint or two cannot place a whole new pair,
  so both allocation failures happen; one slot, so spawn finds none. The child
  shares an endpoint with its parent and both release it in any order.
- `terminal_session`: queues of two messages, lines of one character (the buffer
  of two holds the terminator), commands that print up to two messages: a queue
  fills while a program has more to send.
- `pmm`: ten pages, two of them for the bitmap; three maps (all usable, so that
  the bitmap covers page zero; holes and a first range too small for the bitmap;
  a reserved first page), requests of up to three pages: holes on both sides of
  the cursor, both passes.
- `kernel_pages`: six pages, two extents, three frames, two threads; a stack of one
  page between two guards, an arena of two pages, an aligned page. A region of
  six pages can be cut into more stretches than the table holds, so releases
  get lost; two allocations together want more frames than there are.
- `vmm`: four entries per table and four levels; three frames, with which nearly every call
  that creates tables fails at one level or another, or twelve, with which the kernel's clone and
  two processes live side by side; runs of one and two pages, within a table and
  across two; a boot hierarchy with a large page, a 4 KiB page and a
  recursive entry.
- `heap`: pages of five units, headers of one, arenas of two pages or more, two of
  them; requests that split, fit exactly, leave a remainder too small, need an arena
  of their own. `SizeMax` 15, so that a product of two requests wraps.
- `user_space`: three processes, two slots, three, six or nine frames: too few for the
  smallest program, enough for one, for two. Seven executables: two good ones, and
  ones that share a page legally and illegally, run into the stack or the top, or
  lie below the null guard.
- `input`: a queue of two bytes, two reports (a negative and a positive sign each,
  one overflowed), one ordinary key and both shifts.

## 5. Fairness

- The local APIC latches a timer interrupt until interrupts are enabled, so an
  interrupt that is deliverable again and again is delivered: strong fairness of
  `TimerInterrupt`. A thread that is dispatched again and again gets through the
  kernel call it is in: strong fairness of `Continue` per thread. The loop at the
  end of `kernel_main` (`main.c:910-913`) yields and reaps for ever: strong fairness
  of `BootLoop`. No other thread is assumed to yield or to exit. A thread created before
  preemption is enabled has IF clear for good and keeps the CPU until it gives it up, so
  the two properties speak of states with `AllPreemptible`: preemption is enabled and no
  live thread is older than that. `main.c` gets there: it ends the threads of its tests
  before it enables preemption.
- `TerminalSession` has weak fairness per program: `ReadyThreadRuns` is what the
  scheduler gives each of them.
- `Ps2` has weak fairness of the desktop's loop, and of the mouse finishing a report it
  began, byte by byte, sent or lost. Keys may stop at any time.

## 6. Theorems and proofs

All proofs are for every value of the constants that satisfies the named
assumptions, which TLC evaluates on the runs' instances.

- **Scheduler** (`SchedulerProofs`). The safety properties of the scheduler and
  `DestroyedOnlyUnreferenced`, which follows from them.
  The inductive invariant adds to them: `BootRunnable` (the boot thread is always
  READY or RUNNING, so an exit always finds a successor and nothing faults),
  `CpuInv`, `ThreadInv` (what each thread state implies for stack, process and
  membership in the queue), `CreateInv` (a creation's struct is UNLINKED and its
  own, its process registered) and `ReapInv` (a zombie names its process until
  it is detached). `ReferencesCounted` is inductive only together with these:
  each step moves one thread between the sets whose sizes are added. There
  is one lemma per action. Sequences are handled by lemmas on append and removal.
  `FaultsOnlyOnLeak` rests on `LeakedForGood`: whatever runs, nobody takes a leaked
  thread in hand again. A thread is leaked with its stack or, when `kfree` failed, without
  it; `SchedulerNeverFaults` is for the case that neither release fails.
  `BoundedOvertaking` needs `RoundInv`: whoever was dispatched while t waits stands behind t on the ring, seen from the current thread (`Ahead`).
  The scan picks the nearest READY thread (`ScanNearest`), so none that is behind t;
  moving on to it keeps the order (`AheadOrder`), and linking a thread at the
  tail changes no place.
- **PMM** (`KernelCoreProofs`, first part). `IInv == TypeOK /\ BitmapExact /\ FreeCountExact`. The
  count is proved through cardinalities of differences; the boot count for any
  memory map by counting page zero and the bitmap's pages out.
- **Run queue** (`KernelCoreProofs`, second part), from `NamesAssumption`. `QueueInv` says that
  there are a ring and lists that the links thread (`Threaded`): the ring is of the
  live threads, between `run_queue_head` and `run_queue_tail`, the lists are of terminated
  ones and share none (`Sorted`), only the current thread is RUNNING, and the boot thread can
  run. A walk along the links follows the ring and comes back to its start exactly after it
  (`WalkFollows`, `ChainIs`), since it has no more threads than there are
  (`NoMoreThanThreads`); started elsewhere it is the ring turned (`RingRound`). So the
  candidate loop finds what the scan of `RunQueueSpec` finds (`Scan`). `RingAppend`,
  `RingRemove`, `LeadsPush` and `LeadsTail` are what linking, exiting and reaping do to
  the links; one lemma per action draws from them the next ring and lists and the step of
  `RunQueueSpec`.
- **Regions** (`KernelPagesProofs`, first part). The invariant says that the table is sorted and
  coalesced and stays in the region, that the reserved ranges partition the rest,
  that no range is both held and lost, and that the count is exact. What cutting
  and joining do to the sequence is proved in lemmas on removal, replacement and
  insertion. `TableSizeCorrect` is an injection from the entries of the table to
  the ranges behind them; `LossCorrect` applies it to the table with the lost
  range inserted.
  `RegionImplemented` is the refinement: the table serves what the set of free pages
  would. A run of free pages lies within one extent (`RunInExtent`), so the first extent
  that fits holds the lowest aligned run (`AlignUpLeast`, `RunsOfFits`). The table has as
  many entries as the set has stretches (`StretchCount`), and cutting one in the middle
  makes one more (`SplitStretches`), so that the two refuse the same requests. It is
  proved for each call by name, as `ImplementsRegion` states it.
- **Kernel pages** (`KernelPagesProofs`, second part). `UsesRegion` shows that each step of the
  allocations is a step of `VRegion` or leaves the region alone, so the theorems
  of the first part hold of the composition (`PagesPartition`, `PagesLoss`,
  `PagesRegion`). The
  inductive invariant `PagesInv` adds to the region's: descriptors lie in their
  ranges (`Typed`), and no two calls work on one range, a release always on a
  published descriptor whose range is not lost (`CallsApart`). Its
  central lemma is `RangeIsMine`: since reserved ranges are disjoint and
  have one owner, nobody else claims a page of the range a call works on. `Onward`
  collects what the five steps inside a call share.
- **Objects** (`ObjectsProofs`), from `BoundsAssumption` and `NamesAssumption`.
  `Owners` counts the places that hold an endpoint: table entries, the calls' local
  variables and destruction arrays. `RefInv` states that the count of an object
  is that number, that an object with owners is open, that what is pending for
  destruction has none and is pending once, and that nothing is out of reach of
  both. A step that writes one place moves one reference (`Writes`), and
  the end of a process moves a whole table to its array (`Moves`). Which
  places a call may fill depends on how far it is: `CallOK` says what a call holds at
  each step, which is what makes a rollback give back exactly what was
  taken; `Families` gives each child in the making one parent, so that two rollbacks
  never meet. One lemma per call puts these together.
- **Heap** (`HeapProofs`), from `SizesAssumption`. The work is on one arena's list:
  `CutChained` and `JoinChained` show that splitting and merging keep the tiling,
  `CutApart` and `JoinApart` which neighbours may then both be free; `ServedBy`,
  `ShrinkList`, `GrowList` and `ReleaseList` combine them as the calls do, and say
  which used blocks are left. `Allocs` is the set of used blocks with the bases of
  their arenas; each call adds one, removes one or replaces one (`Granted`, `Freed`,
  `Moved`), whether it extends the heap or gives an arena back. `Inv` is
  `Formed` (the lists) and `Kept` (who holds what), so a call that moves an
  allocation can neither lose the old one nor hand out one address twice.
  `ProductExact` is what the test in `kcalloc` is for. The byte counter is the number
  of the units of the allocations (`Units`), so that what a call adds or takes away is a
  disjoint union: `UnitsAdd` and `UnitsRemove` move it with `Allocs`.
- **Processes' memory** (`UserSpaceProofs`), from `SizesAssumption` (sizes are positive, the
  lower half is page-aligned), `LayoutAssumption` (stack and framebuffer fit in it),
  `FilesAssumption` (what ELF header fields can hold), `PoolsAssumption` and
  `NoneAssumption`. `JobOk` says how far the launch in progress is (`Stage`: which pages
  have a frame, which are mapped, which were filled), `FramesOk` that each frame is free
  or recorded by one process, and `Process1` what is true of a process then: its image is
  the pages its file's segments touch (`ImageOk`), its space is what it recorded, with the
  rights of the segments (`SpaceOk`), its frames hold what was put there for it
  (`DataOk`), and it is still there, or `Gone` without a trace. A step works on one
  process (`StepOf`), and `Assembled` says that the others then keep theirs; a failing
  launch is `Dismantled`, whatever it got to.
- **Terminal session** (`DesktopProofs`, first part), from `BoundsAssumption`. Four parts make
  `OneCommandAtATime` inductive and bring the other two properties: `Phases` (before the
  shell runs nothing is under way), `PingedOnce` (VENU greets only the first PING, so every
  other message has just one COMPLETE), `ViewFollows` and `CompleteLast`. `ViewFollows` is
  about readers of messages in transit: `Shows(s, type, v, r)` says that who saw `v` and
  reads `s` ends up seeing `r`, and composing it over the queue and the outbox gives what
  the desktop will see; a message that moves from the outbox to the queue leaves the composition
  as it is. `CompleteLast` says that what VENU printed is followed by its COMPLETE,
  wherever the two are.
- **Input** (`DesktopProofs`, second part), from `ConstantsAssumption`. `KeysInOrder` is a reader of
  bytes in transit like those above: reading what waits takes the keyboard's driver from
  what it knows of shift keys and prefixes to what the keyboard knows, and each byte was
  sent in the state it will be read in (`Reads`). For the mouse, `Whole` does not change
  when a byte of the keyboard comes or goes in between (`WholeBetween`, an order
  isomorphism), a report is added (`WholeMore`) or the first one is decoded
  (`WholeRest`); `DecodedAsReported` takes the sign, overflow and button bits apart.
- **Channel** (`DesktopProofs`, third part), from `RingAssumption` and `NamesAssumption`.
  `RingInv == RingTypeOK /\ RingConsistent`; the write index is the read index advanced by
  the count. `ChannelImplemented` proves the refinement: lemmas say what enqueueing and
  dequeueing do to the pending messages, for any capacity; each action maps to the action
  of `ChannelSpec` with the same reply or to a stutter.
- **Paging** (`VmmProofs`), from `ConstantsAssumption`, `BootAssumption` (the boot loader's
  tables are a tree) and `RunsAssumption` (where runs of pages lie). Before
  `vmm_take_ownership` the boot hierarchy stands alone (`Booting`); after it the memory is
  `Sound`: there are levels for the tables in use and a set of tables that belong to the
  lower halves of processes with which the hierarchy is `Well`-formed, the pages mapped at
  boot are still there (`Kept`), and so is the heap's first page once there is a process
  (`Anchored`). `Well` says what each level may hold, that every table in use hangs
  somewhere (`Held`) and in one place (`Single`; in the upper half, in the same place of
  every top level), that the upper half of a process is the kernel's without the user bit
  (`Shared`), that the tables of a process already carry all rights, so that the rights a
  walk adds change no other page (`Owned`), and that free frames are clear (`Blank`).
  `LinkWell`, `HangWell`, `UnhangWell`, `RootWell` and `UnrootWell` keep it when a table
  comes or goes. A walk is a `Descent`: after each level the memory with the new tables
  is well-formed, and taking them out gives back the memory before, which is what
  `rollback_new_tables` does. Reclaiming is a `Climb`: it may free an upper-half table only
  if no process has copied the entry (`Stays`), as `KernelBeside` derives from `Anchored`
  and `Kept`.
  `MappingLoop` and `UnmappingLoop` go through the loops by induction over the pages, so a
  run that fails at any page leaves every translation as it was. Cloning is a
  `Mirror`: entry for entry the copy is the `Twin` of what it was copied from, hence
  translates alike (`MirrorTranslation`); `Copied` also says which frames to give back
  when it fails at any depth. `TablesAreExact` follows since four steps from the top
  levels reach all tables in use (`ReachesAll`). For `VmmImplemented`, what each call does
  to the translations (`Grown`, `Shrunk`, `Turned`, `Joined`, `Left`) is shown to be
  the step of `VmmSpec` on the mappings with the same arguments. `Made` says of each page
  of a run which frame it leads to and with which rights: `LeafRights` and `RightsAre`
  give them from the walk's tables, which grant all rights in a process and may grant less in the
  kernel's.

Only model-checked: liveness (`ReadyThreadRuns`, `ZombieIsReaped`, `PromptReturns`,
`SendsComplete`, `Resynchronises`, `BytesAreRead`), which under fairness is out of the
prover's reach.

## 7. Not modelled

- The shell's lexer: a sequential scan without state.
- Console write, sleep, yield and getpid: no state beyond the scheduler's.
- A release of an empty arena's pages that fails: `Heap` takes it to succeed, and
  `Scheduler` only knows that `kfree` may fail. In the code (`heap.c:830-834`) the arena then
  stays in the list although its pages are already unmapped, and the next walk over
  the arenas faults. `LossNeedsCrowd` says when it could fail.
- The initialisation of the PS/2 controller and the mouse; boot, APIC calibration,
  descriptor tables, exception reports: straight-line hardware access that runs once
  or ends in a halt.
- Drawing (kernel and user), the asset builder, the serial port, the debugging
  shell: pixels and characters.
- System call wrappers of the user library: one instruction each.
- `krishna-memory-phase1/`: an earlier copy of two files that is not linked.
- The self tests in the sources, but for `user_mode_self_test`, which launches a
  process (nothing calls it at this commit): they are the inputs of a boot-time
  test, and what they expect was read for the properties.
- Overflow of the 64-bit reference counts and tick counters; cache attributes and
  TLB maintenance.

## 8. Findings

`pmm_holes`: the comment at `pmm.c:333-336` says the two passes preserve next-fit
"while still allowing allocation from holes located before next_search_page".
`pmm.c:343` begins the second pass with an empty run and ends it at the cursor, so
a hole that starts before the cursor and extends past it is found by neither
pass: with pages 3 and 4 free and the cursor at 4, a request for two pages is
refused.

Not a run, but worth knowing: `kernel_pages.h:31-40` promises that after a failed
allocation "the virtual reservation is released"; `kernel_pages.c:65-68` ignores the
result of `kernel_vregion_release`, which can refuse. `LossNeedsCrowd` bounds when:
only while more than `MAX_FREE_EXTENTS` (256) ranges are reserved.

Also worth knowing: after an exit `schedule_locked` searches from `run_queue_head`
(`thread.c:841-845`), not from the place of the thread that left. Threads near the head
can then be dispatched a second time before one that has waited longer, so
`BoundedOvertaking` holds between two exits and not across one. It takes three threads
besides the boot thread, one more than the run has, for this to happen; the theorem has
no such bound. Nobody starves: each such exit removes a thread.

## 9. Possible extensions

The lexer is a candidate for a reference definition over short lines; a failing release
of an arena for a composition of `Heap` with `KernelPages`.
