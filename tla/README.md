# Verification of the user-level thread library

This directory holds TLA+ models of the C program in `src/tmp2/`: a user-level
thread library with its own scheduler (`my_pthread.c`), an emulated virtual
memory with a swap file (`virt.c`, `swap.c`), a per-thread heap on top of it
(`my_malloc.c`) and a pool of shared pages (`shm.c`), and of the heap of the
earlier phase in `src/code/`. Each model is checked by TLC on small instances.
Every invariant, action property and refinement that a passing run checks is also
proved with TLAPS, for every value of the constants that keeps to the assumptions
named in section 4; liveness is model-checked only. Much of what the timer can do
to this code breaks it. The models have those interleavings, or end where they
begin, and the properties say up to which point they hold; sections 3 and 5 list
what is not promised.

`PROJECT.json` lists the components, the runs, the lines each definition
translates, the hazards with the properties that watch them, the disagreements
found between code and comments, and the theorems.

## 1. The system

The repository has three generations of one program: `scheduler/` (the first
scheduler), `code/` (scheduler and a first heap) and `tmp2/` (scheduler, heap,
virtual memory, swap and shared memory). The models are of `tmp2/`, the last and
most complete, and of what `code/` has and `tmp2/` has not: a heap without
virtual memory, one page for each thread. `Benchmark/` and the `test*.c` files are client programs; they
show how the interface is used.

One operating-system process runs all threads. There is no parallelism: a
`SIGVTALRM` every 25 ms of processor time interrupts whatever is executing and
its handler switches to another `ucontext`. So every hard behaviour of the
library is an interleaving that the timer makes, or an order of calls.

| component | state | operations | what makes it correct |
|---|---|---|---|
| Scheduler, threads, join | `CURRENT`, `g_queue_ready`, `g_queue_wait`, one `thread_info_t` per thread | `schedule`, `schedule_swap_current_to_wait`, timer handler, create, exit, return from the start routine, join, yield | no thread is lost or queued twice; a join returns exactly when its thread is gone; the process does not end with threads waiting |
| Mutexes and the handle table | `g_mutex_table[31].used/.count`, `mu` of a waiting thread | `alloc_mutex`, init, lock, unlock, destroy | mutual exclusion, FIFO hand-over, no lost wake-up, one owner per handle; the count is what the threads claim |
| Timer and queue spinlock | the armed timer, `g_queue_spinlock` | `acquire_queue_spinlock`, `release_queue_spinlock`, `start_timer` | the handler never meets a taken lock, nor a `CURRENT` that is not the context that executes; a ready thread runs although each call puts the timer off |
| Virtual memory | page table per thread, `g_pfn[]`, `g_pfn_count`, physical memory, the window of virtual pages and its protection | allocate a page, evict, page fault, switch, free on exit | each thread reads what it wrote; a frame backs one page; a thread sees no page of another |
| Swap file | `g_swap[]`, `g_swap_count`, the file | `swap_out`, `swap_in` | a slot backs one page; the count is exact |
| Shared memory pool | `g_share[4]`, `g_share_count` | `shinit`, `shalloc`, `shfree` | blocks are disjoint; the count covers the map, on which the unbounded scan relies; what is freed can be allocated again |
| Heap | `heap_init`, `heap_trunk_count`, the metadata page, the trunks | `my_malloc`, `my_free` | blocks are apart, lie in mapped pages and clear of metadata; a trunk is added only when there is no free slot |
| Heap of the earlier phase (`code/`) | `g_metadata[tid]`, the page of each `tid`, `g_malloc_init` | `my_malloc`, `my_free`, `reclaim_current_heap`, and create and exit, which give out the tids | the pages together are one allocator: no call, start or end of a thread takes a block from another |

Interactions. The scheduler calls `mm_switch_virtual_pages` after a switch and
`mm_free_thread_pages` at an exit. The heap calls `mm_allocate_page` for its
metadata page and for each trunk, and keeps its state in `CURRENT`. Join and
mutexes share the handle table, the wait queue and `mu`: a thread's `tid` *is* a
handle of `g_mutex_table`, with count 1 while the thread lives. All of it is
interrupted by the timer except where noted in section 5. In `code/` the heap
takes its page from `CURRENT->tid`, so it depends on the order in which create
and exit change the handle table, the `tid` and the ready queue.

The hazards in `PROJECT.json` give, for each place where this goes wrong easily,
the line and the properties that would catch it.

## 2. The modules

| module | models | checked by |
|---|---|---|
| `Pthread` | the library with each call as one step: threads, join, mutexes, scheduler | `MCPthread` |
| `MutexService` | abstract: mutexes with an owner, waiters, the order in which they came, and hand-over to the first | - |
| `PthreadService` | the refinement mapping from `Pthread` to `MutexService` | `MCPthread` |
| `PthreadProofs` | theorems about `Pthread`, the last that it implements `MutexService` | TLAPS |
| `SeqLemmas` | lemmas on sequences as sets of elements, on least and greatest numbers | TLAPS |
| `Preempt` | mutex calls, yield and the timer handler statement by statement | `MCPreempt` |
| `PreemptService` | the mapping from `Preempt` to `MutexService` | `MCPreempt` |
| `PreemptProofs` | theorems about `Preempt`, the last that it implements `MutexService` | TLAPS |
| `Lifecycle` | create, exit, join, yield, the timer and the spinlock statement by statement | `MCLifecycle` |
| `LifecycleProofs` | theorems about `Lifecycle` | TLAPS |
| `VirtMem` | page tables, frames, swap file, window, switch, fault, exit | `MCVirtMem` |
| `PrivateMemory` | abstract: every thread has memory of its own | - |
| `VirtMemPrivate` | the mapping from `VirtMem` to `PrivateMemory` | `MCVirtMem` |
| `VirtMemProofs` | theorems about `VirtMem`, the last that it implements `PrivateMemory` | TLAPS |
| `SharedMem` | the shared pool, each call in the steps the timer can separate | `MCSharedMem` |
| `SharedMemProofs` | theorems about `SharedMem` | TLAPS |
| `Heap` | one thread's heap, on addresses | `MCHeap` |
| `HeapProofs` | theorems about `Heap`, the last that it implements `Allocator` | TLAPS |
| `ThreadHeap` | the heap of `code/`, with create, exit and the timer | `MCThreadHeap` |
| `ThreadHeapProofs` | theorems about `ThreadHeap`, the last that its pages implement one `Allocator` | TLAPS |
| `Allocator` | abstract: an allocator, which `Heap` and `ThreadHeap` implement | - |

Actions carry the names of the C functions, and variables those of the C
globals; the `map` of `PROJECT.json` gives the lines of each. What C keeps in
linked lists are sequences, flags in arrays are functions or sets of indices,
and null pointers are the model values `Null`, `Nobody` or `Unmapped`.

Two conventions. A definition called `Name_SomeBug` is the operator `Name` with
a plausible mistake. No action uses it; replacing `Name` by it must make TLC
refute the property that `PROJECT.json` pairs it with, which shows that the
property says something about the code. And *ghost* state, which no C variable
holds, records what the program has done: `holds`, `mutexes`, `unjoined`,
`blocked` and `target` in `Pthread`, `holds` and `made` in `Preempt`, `held` in
`SharedMem`, `ptr` in `Heap`, `fresh`, `unjoined` and `target` in `Lifecycle`,
`got` in `ThreadHeap`. Three more are histories of what the timer did, in which
properties say until when they hold: `torn` in `Preempt` and `lost` in `SharedMem`
count the updates of a counter that were lost, `cut` in `SharedMem` and
`Lifecycle` whether a call was interrupted. Guards of library actions never depend on it;
the guards that do are those of the calling program, and of the timer in
`Lifecycle`, where `fresh` stands for time.

### Pthread

`my_pthread_create`, `thread_stub` (a start routine that returns),
`my_pthread_exit`, `my_pthread_join`, `my_pthread_yield`, `timer_handler`,
`my_pthread_init` and the four mutex calls are one action each, with every
early return as a disjunct: a full table, a handle not in use, a count of zero,
an empty ready queue, an exit with nobody to schedule. `Schedule` and
`SwapCurrentToWait` are the two ways to switch. The program that calls the
library is *any* program that keeps to the interface: it locks mutexes in
ascending order and gives them back before it exits or joins, destroys a mutex
nobody uses, joins each thread once, and joins from threads of `Joiners` that
nobody joins. Each rule can be broken; the ones that are broken in a run are in
`Liberties`:

- `unordered`: join, or lock a lower mutex, while holding one;
- `destroy_held`: destroy a mutex that is held or waited for;
- `join_many`: several threads join one thread;
- `join_stale`: join a handle that was recycled after its thread exited;
- `main_exit`: the main thread calls `my_pthread_exit`.

Two facts about the C code deserve a note. `release_all_thread` stops after the
first waiter, because its loop follows the link of an element that it has just
moved to the tail of the ready queue; so `Exit` releases one joiner. And
`my_pthread_init` leaves the main thread's `tid` as `malloc` returned it;
`MainTids` is the set of values it may have, which matters only when main exits.

### Preempt

The calls init, lock, unlock and yield, with one step for each access to
`g_mutex_table` or to the emptiness of the ready queue, and a program counter per
thread. The makefiles ask for no optimisation, so that `count += 1` loads the count
and stores it later: `load` is the first of the two, for all four updates, and
`torn` counts the stores that overwrote another thread's. `MaxTorn` bounds it: no
call begins on a mutex that has lost more. `TimerAt = "user"` lets the timer expire only in user code, which is the
assumption of `Pthread`; `"anywhere"` lets it expire between any two steps. The
refinement of `MutexService` by both `Pthread` and `Preempt` at `"user"` is what
connects the two. A count is an unsigned `int`; -1 stands for
the value to which it wraps when a mutex initialised twice is unlocked at zero.

### Lifecycle

The calls that `Preempt` leaves whole, with one step for each access to shared
state and for each end of a section under the spinlock. `running` is the context
that the processor executes, `current` the variable `CURRENT`: between the
release of the spinlock and `swapcontext` they differ, and an exiting thread runs
on after `CURRENT` is null. When the timer expires is the point of the model. It
is a timer of processor time that `acquire_queue_spinlock` stops and arms afresh
with 25 ms, and so does an expiry; the few instructions of a call do not take
25 ms. So `timer_handler` may come at every statement up to the first arming
since the thread left user code, and at none after it. `fresh` records that, and
`HandlerIsSafe` says that it is enough: everything dangerous comes after the
arming. A join has statements before it: a timer there is in the model, and recorded
in `cut`, because `WaitsForLive`, `JoinedIsGone` and `JoinReturns` hold until then
only. `HandlerIsSafe`, `ThreadsConserved` and `ReadyRuns` hold in any case.

### VirtMem

`mm_allocate_page` and `pagefault_handler` are two steps each, around the return
of `allocate_physical_page`: in between a thread has a frame (`pending`) but no
page-table entry for it. `Preemptible` says whether the timer may expire there.
The window of virtual pages is state of its own, because the pages of a thread
live there while it runs and in frames only after a switch. A thread that runs
for the first time starts in its start routine and not after `swapcontext`, so
`mm_switch_virtual_pages` is not executed for it; `begun` tells the two apart.
Page contents are members of `Values`.

### SharedMem and Heap

A `shalloc` checks, scans the map a byte at a time, marks a byte at a time, loads
the counter and stores it; a `shfree` checks, clears, loads and stores. The steps of
the callers interleave freely. `lost` counts the updates of the counter that
another caller's overwrote, `cut` whether a call came into the middle of another.
`Heap`
computes the addresses of `my_malloc.c` from the page, record and slot sizes, so
that "the metadata page is full" and "no page is left" are ordinary states of it.
A thread reaches only its own heap, so there is one thread and no timer.

### ThreadHeap and Allocator

In `code/` nothing is locked and the timer is periodic, so it may expire between
any two of the steps of `ThreadHeap`. A `my_malloc` is search, mark, count; a
`my_free` is the checks, unmark, uncount; these work on the page of one thread, so
that finer steps would change nothing. Create and exit are taken apart where
the heap can see it: a new thread is ready before it has a `tid`, and an exit
gives the handle back, frees the `thread_info_t` and clears the page in this
order. Within these, within `my_pthread_yield`, whose `schedule()` nothing
protects here, and within the first call of `my_malloc` (`InStretch`) a switch
breaks the program. What it does after that with a thread that runs on freed
memory or with a half-changed queue is not modelled: `timer_handler` is possible
there, sets `halt` to `"cut"`, and is the last step. So all of this module's
properties are about the time before.
A block is a page, a size class and a slot, as `Heap` has the addresses, and both
implement `Allocator`: bytes belong to one holder at a time, and come back only
by that holder's `free` or end.

## 3. The runs

### Passing runs

| run | question | bounds |
|---|---|---|
| `Pthread_rules` | no thread lost or in two places, mutual exclusion by FIFO mutexes with hand-over (`ImplementsService`), `count` = number of claims, no thread waits for nobody, no handle has two owners, a join returns, woken or at once, only when the thread is gone, the process does not end with waiters | 3 threads, 4 usable handles: two threads can be created beside two mutexes, so that one wait queue holds waiters of both mutexes or a joiner and a waiter; main exits too |
| `Pthread_live` | each waiter for a mutex or a thread goes on | 3 threads, 3 handles, fairness below |
| `Preempt_user` | with the timer in user code the statements implement `MutexService`, also for mutexes made meanwhile | 3 threads, 2 mutexes made before and 2 initialisers: nested locks, and a table that is full or not |
| `Preempt_anywhere` | with the timer between any two statements, loads and stores: no thread lost, `count` of a mutex initialised once equals its claims until an update is lost | 3 threads, one handle that two of them may initialise: it can be handed out twice and unlocked at zero; no call begins once an update is lost (`MaxTorn = 0`), as the property ends there |
| `Lifecycle_timer` | the handler finds the spinlock free and `CURRENT` executing and allocated; no thread is lost or queued when freed; ready threads run; and until the timer expires within a join, nobody waits for a thread that has exited, a join returns when all of an exit is done, and joiners return | 3 threads with two handles: main creates and joins, a created thread creates and joins too, handles and `thread_info_t`s are used again; fairness below |
| `VirtMem_pages` | contents survive switches, evictions, faults and exits (`ImplementsPrivateMemory`), no frame or slot backs two pages, counters exact, the window is protected as the running thread's table says, a missing frame is named only by a thread with more pages than there are frames, slots leak at exits and nowhere else | 2 threads with 3 pages each, 2 frames, 2 slots: eviction from either thread, a full swap file (also through the slots that an exit leaks), and no victim |
| `SharedMem_calls` | the counter covers the map until an update of it is lost; the scan stays in the map while calls do not interleave | 3 pages, so that a block of two can overlap one of two; 3 callers, the timer anywhere, sizes from 0 to more than the pool; no call begins once an update is lost (`MaxLost = 0`) |
| `Heap_blocks` | the heap is an allocator (`ImplementsAllocator`), marks agree with blocks held, blocks are clear of metadata while its records fit into a page, and outside the mapped pages only when none is left, freed slots are used before a trunk is added | 6 pointers, two classes, stray frees, sizes with no class; up to 4 trunks, one more than the metadata page describes and one more than there are pages |
| `ThreadHeap_pages` | until the timer interrupts a create, an exit, a yield or the first `my_malloc`: the pages of all threads are one allocator (`ImplementsAllocator`), marks and counters agree with the blocks held | 3 threads, so that two created threads run beside main and the tids of ended ones are used again; pages with two slots, so that one is full or not, frees of blocks of other threads |

The models are finite without state constraints: tables, queues and pages are
bounded by the constants and counters by the threads, with `MaxCount`
(`Pthread`), `MaxTrunks` (`Heap`), `MaxTorn` (`Preempt`) and `MaxLost` (`SharedMem`)
as named bounds. `MaxCount` cuts nothing
off under the rules, where a count is at most the number of threads. Real sizes
(31 handles, 53 records, 8 MB) are replaced by the smallest in which the same
boundary is met. `Pthread_rules` uses the symmetry of threads,
`ThreadHeap_pages` that of the created threads, `SharedMem_calls` that of the callers
and `Heap_blocks` that of the pointers, which no property or action tells apart. What
holds for every `Liberties` is proved (section 4) and has no run of its own. Deadlock is not
checked: the process ends (`halt`), or the heap is at its bound.

### Runs that end in a violation

Each shows one statement of the repository's own documents or comments that the
code does not keep; `findings` has both lines.

| run | shows |
|---|---|
| `Pthread_join_many` | of two threads that join one thread only the first is released |
| `SharedMem_gap` | with a used page between two free ones a request for two pages gets a used page |
| `Preempt_lock` | a timer between the test of a mutex's count and the addition to it gives the mutex to two threads |

### What the models contain besides

These behaviours of the code are states and actions of the models, where
properties end or, when a constant is changed, are refuted. They are listed among the
hazards. There are more of them than violation runs; the ones that contradict a
sentence of the repository have it quoted here.

- `Liberties = {"unordered"}` in `Pthread_rules` refutes `MutualExclusion`: when
  the ready queue is empty, `schedule_swap_current_to_wait` returns at once
  (`my_pthread.c:158`) and the lock is granted although another thread holds it.
  A program that locks in order and joins without a mutex never meets this,
  because a waiter's holder is then in the ready queue.
- `Liberties = {"destroy_held"}` refutes `CountIsClaims`: `my_pthread_mutex_destroy`
  does not look at the count (`my_pthread.c:516`). `README_assignment_1.md:63` says
  that it "will check to see if the mutex is held by any thread".
- `MainTids = {0, 1}` with `main_exit` refutes `OneOwner`: main's `tid` is never
  set, and its exit frees the handle it happens to name (`my_pthread.c:353`).
- `CreateTableFull`: threads and mutexes share the table, and
  `my_pthread_create` stores through index -1 when it is full.
- `TimerAt = "anywhere"`, besides mutual exclusion: a waiter that queues
  between the unlock's test and its subtraction is never woken; `QueueGone`, the
  head of a ready queue found non-empty before the spinlock was taken
  (`my_pthread.c:114`); one handle handed out twice by `alloc_mutex`; an update of
  a count lost between its load and its store, after which `CountExact` promises
  nothing for that mutex.
- Without `~cut` in them, `WaitsForLive` and `JoinedIsGone` of `Lifecycle` are
  refuted: the joined thread exits between the tests of `my_pthread_join`
  and the queueing of the joiner (`my_pthread.c:369`), which then waits for a
  thread that is gone, or for the next owner of the handle.
- The switches that end `ThreadHeap`. In the first call of `my_malloc`: of two first
  calls the later clears the blocks of the other. In a create: a thread that
  runs before it has its `tid` allocates in another's page. In an exit: the page of
  the exiting thread goes to a new one before it is cleared, or a freed
  `thread_info_t` is queued. In a yield: `CURRENT` and the queue disagree.
- `MainTids = {0, 1}` in `ThreadHeap_pages` refutes `MarksAreBlocks`: main's
  `tid` is never stored, and may name the page of another thread.
- Lost updates of `g_share_count` (`shm.c:73`, `101`), after which the counter may be
  below the number of marked pages, or below zero; and calls of `shalloc` that
  interleave, which get the same free pages, and of which one may run out of the
  map. `CountCovers` ends with the first, `ScanInBounds` and `BlocksDisjoint` with
  the second.
- `Preemptible = TRUE` in `VirtMem_pages` refutes `ImplementsPrivateMemory`: a
  frame evicted between its allocation and the store to the page table is shared.
- A thread that runs for the first time keeps its predecessor's window, although
  `virt.h:28` has pages copied at a switch. It may store to pages that its own
  table does not use; `ImplementsPrivateMemory` says that this reaches nobody's
  memory. What it can read there, no property excludes.
- `WildEntry` and `WildStore`: `evict_page` returns `MAX_PHYSICAL_PAGES` when
  `CURRENT` owns every frame, possible in the two-frame configuration of `virt.h`.
  `virt.c:223` says that it should never return unsuccessfully, and so does line 293;
  `FramesExist` says who alone meets it.
- `shfree` ignores the release of a block larger than what is free, in particular
  every release when the pool is full; the pages then belong to `Nobody`.
- The heap outgrows one page of metadata after 53 trunks, and the pages when
  `mm_allocate_page` fails, which nobody checks: `my_malloc` then returns blocks that
  no page backs. `MetadataApart` and `BlocksBacked` say that neither happens before
  these limits. `MallocFaults` is a `malloc`
  before `my_pthread_init`.

### Fairness

`Pthread_live` uses fairness (`FairSpec`), and `Lifecycle_timer`. In the former,
weak fairness of
`timer_handler`: the interval timer is armed at every switch, so it expires.
Strong fairness of the unlock of each mutex: the program whose threads, when
scheduled again and again with a mutex held, give it back; strong because the
unlock is possible only while its thread is `CURRENT`. Strong fairness of the
exit of each created thread: the start routines end. The last two are
assumptions about the calling program; without them nobody can promise that a
lock or a join returns. The library itself owes only the timer.

`Lifecycle_timer` assumes weak fairness of `Statement` (the processor executes)
and of `timer_handler` (user code that goes on long enough is interrupted).
`ReadyRuns` needs no more. `JoinReturns` has its assumption about the program,
that start routines end, in its own statement: strong fairness of the exits; and
that the timer never expires within a join, `[]~cut`, since a joiner that is cut
there may wait for ever.

## 4. What is proved

All proofs are checked by `tlapm` (SMT, Zenon and, for the temporal steps, LS4).
The constants keep only to the assumptions that the modules name
(`ThreadsAssumption`, `TableAssumption`, `MemoryAssumption`, `HeapAssumption`, ...);
TLC evaluates these on every run. A theorem that needs a *setting* of a constant
has it as its hypothesis, and section 3 has, for each, what is refuted without it.
Where a property ends at something the timer does, that is a condition in the
property itself, and the theorem has no hypothesis for it.

| module | setting | theorems (with the property each states) |
|---|---|---|
| `PthreadProofs` | any program | `TypeCorrect` (`TypeOK`), `NoThreadLost` (`ThreadsConserved`) |
| | `MainIsHarmless`: main does not exit, or its `tid` is 0 | `HandlesHaveOneOwner` (`OneOwner`) |
| | `KeepsRules`: `MainIsHarmless`, and no rule is broken but that main may exit | `MutexesExclude` (`MutualExclusion`), `CountsAreClaims` (`CountIsClaims`), `NoWakeUpLost` (`WaitsForSomeone`), `NobodyIsStranded` (`NobodyStranded`), `JoinWaitsForExit` (`JoinedIsGone`), `MutexesAreServed` (`ImplementsService`) |
| `PreemptProofs` | timer anywhere | `QueuesLoseNobody` (`ThreadsConserved`), `CountsStayExact` (`CountExact`, until an update is lost) |
| | `TimerAt = "user"` | `CallsExclude` (`MutualExclusion`), `CallsAreAtomic` (`ImplementsService`) |
| `LifecycleProofs` | any | `HandlerAlwaysSafe` (`HandlerIsSafe`), `ThreadsAreConserved` (`ThreadsConserved`), `WaitersAreFound` (`WaitsForLive`), `JoinedThreadsAreGone` (`JoinedIsGone`); the last two until the timer expires within a join |
| `VirtMemProofs` | no preemption in an allocation | `MemoryTypeCorrect` (`TypeOK`), `FramesAreNotShared` (`FramesExclusive`), `SlotsAreNotShared` (`SlotsExclusive`), `CountersAgree` (`CountsAgree`), `WindowIsCurrents` (`WindowFollowsTable`), `FramesAreFound` (`FramesExist`), `OnlyExitLeaks` (`SlotsLeakOnlyAtExit`), `MemoryIsPrivate` (`ImplementsPrivateMemory`) |
| `SharedMemProofs` | any | `PoolTyped` (`TypeOK`), `CountAlwaysCovers` (`CountCovers`, until an update is lost), `ScanStaysInBounds` (`ScanInBounds`, until calls interleave) |
| `HeapProofs` | any | `MarkedIsAlwaysHeld` (`MarkedIsHeld`), `MetadataStaysApart` (`MetadataApart`), `BlocksAreBacked` (`BlocksBacked`), `TrunksAddedWhenFull` (`GrowsWhenFull`), `HeapIsAllocator` (`ImplementsAllocator`) |
| `ThreadHeapProofs` | main's `tid` is 0; all until the timer interrupts a create, an exit, a yield or the first `my_malloc` | `MarksStayBlocks` (`MarksAreBlocks`), `CountsFollowMarks` (`CountsMatch`), `HeapsAreOneAllocator` (`ImplementsAllocator`) |

The rest of this section gives the inductive invariant of each and why it has
the parts it has.

### Pthread

`QueueInv`, for the first two, adds to them that `CURRENT` is null only when the
process has ended (an action runs on behalf of `Running`, which must be a thread)
and that before `my_pthread_init` the queues are empty. The argument is stated on
`Queues` and `Placed`, the set of threads in `CURRENT` and both queues: each way to
switch (`SchedulePlaces`, `SwapPlaces`, `WakePlaces`) moves threads between the
three places and changes that set by nothing but what a create adds and an exit
removes.

`OwnerInv` adds `OneOwner`, that handle 0 is never in use, since main's exit stores
to the handle that its `tid` says, and main's `tid` itself. Owners change in four
places only: a create, an exit, the initialisation of a mutex and its destruction
(`OwnerFrame`). `ThreadsConserved` is needed for the exit: the thread in `CURRENT`
is live, so it is the one owner of the handle that is freed.

`ClaimInv` adds `WaitInv` (a thread is blocked exactly when it is in the wait queue;
who waits for a mutex waits for a larger handle than those it holds; who joins holds
none, and joins a live thread that never joins), `HoldInv`, `JoinInv` (a thread has
one joiner), `CountIsClaims`, `MutualExclusion`, `WaitsForSomeone` and
`NobodyStranded`. These cannot be proved one after the other. When the ready queue
is empty, `schedule_swap_current_to_wait` returns and the lock is granted all the
same, so exclusion needs a ready thread whenever a mutex is taken. `SomebodyGoesOn`
finds it: of the threads that hold mutexes, the one with the largest handle does
not wait for a mutex, and it does not join. That the waiter's mutex is
held at all is `WaitsForSomeone`; this depends on the unlock taking its waiter branch
exactly when there is a waiter, for which it reads `count`; and that the count says so
is `CountIsClaims`, which in turn needs `MutualExclusion` at an unlock and
`OneOwner` at an exit.

`MutexesAreServed` maps each step to one of `MutexService` or to a stutter:
`LockAcquires`, `LockEnqueues` and `UnlockReleases` for the mutex calls, `ViewKept`
for the rest. The order of waiters in the abstraction is that of positions
in `g_queue_wait` among those with equal `mu`. The exit of a thread and a join move
elements of the same queue, hence `ExitKeepsView` and `JoinKeepsView`.

### Preempt

Wherever the timer expires, `PInv` holds: types, queues, `CallInv` (what a thread
knows at each statement of a call whatever happens to the others in between) and
`CountInv`. A thread claims a mutex in the very statement that adds to its count
and gives the claim up in the one that subtracts; that is why the count stays exact
through all the races that break exclusion, as long as each store finds what its
load did (`torn`). `Clean` says for which mutexes: those that at most one thread
initialises.

With the timer in user code only, `AtomicInv` adds `OneCall` (a thread that is not
`CURRENT` is in no call) and from it `Knowledge`: what `CURRENT` read of the table at
one statement is true at the next. With `WaitInv` and `SlotInv` each statement is
then a step of `MutexService` or a stutter. This is the theorem that justifies the
whole calls of `Pthread`: both implement the same abstraction.

### Lifecycle

`LifeInv` is `LifeTypes`; `PlaceInv`, that only the thread that executes can be where
the timer does not cut; `RunInv`, for each statement whether the spinlock is taken,
the timer was armed, and `CURRENT` is the thread that executes; `QueueInv`, where each
thread is, the one that is being made included; `HandleInv`, on handles, `tid`s and
counts; and, until `cut`, `JoinersRun` and `TargetInv`, on whom joins are about. `HandlerIsSafe` follows from
`RunInv`, which is not inductive alone: a `swapcontext` resumes a thread
at the statement where it was cut, and `PlaceInv` says which these are. `WaitsForLive`
needs `HandleInv`, because a handle is handed out again.

### VirtMem

`MemInv` has `TypeOK`, `CountsAgree` and `WindowFollowsTable` themselves, `AllocInv`
(only `CURRENT` is within an allocation), `TableInv` (what page tables name exists),
`FrameInv` (a frame in use backs exactly one page of its owner, or is about to),
`SlotInv`, and `WildInv`: the entry for the frame past the end exists only while
`CURRENT` owns all frames. The last is what makes `FramesExist` provable in the form
that says who may have such an entry. `Backs` includes the frame that is allocated and not
yet stored to the page table; `Preemptible` breaks `AllocInv` and with it `FrameInv`.
`MemoryIsPrivate` shows that eviction, fault and switch leave what each thread
would read unchanged, and that an exit erases the memory of one thread only; it
assumes of the abstraction that `Unmapped` is none of the values.

### SharedMem

`CountCovers` is not inductive: blocks overlap, so that pages marked and pages
held are not the same number. The inductive invariant `PoolInv` says that
`g_share_count` is the number of *claims* - pairs of a holder and a page it was
given and has not released - and that each marked page is claimed or about to be
counted, both until an update is lost. An overlap makes claims more than pages, never
fewer, and that is why the counter, although it may be wrong, is not too small
until then. `ScanInBounds` follows in states without `cut` from the check at the start
of the call, since nothing changed meanwhile.

### Heap

`HeapInv` is `HeapTypes`, `BlockInv` (each pointer is the address of a slot of a
trunk, and no two are equal), `MappedInv` (how many pages are mapped, in terms of
the trunks) and `MarkedIsHeld`. The work is in arithmetic on addresses: `my_free`
finds trunk, class and slot of an address by division and remainder, and
`AddressParts` and `FreeFindsSlot` say that it finds those from which `my_malloc`
made the address, and that an address which passes its checks is one of a slot. Of the
sizes that needs only that the classes divide a page and the slots of a class its
region, as `HeapAssumption` says. `Multiples`, `QuotientOf` and `QuotientIn` are the
lemmas about products of two variables, which the provers do not know.

### ThreadHeap

`HeapInv` of that module is `Types`, `RunInv`, `TidInv` (tids of threads with a page
are distinct, and in use), `PageInv` (a thread works on the page of its own tid),
`MarksInv` (what `MarksAreBlocks` says) and `CountInv` (a counter lags behind the marks by what its thread
is in the middle of). The timer may cut every step of `my_malloc` and `my_free`; a
page has one thread, so nobody else can change it in between. `CountsMatch` speaks of
threads in user code only and is a consequence. The invariant holds while `halt` is not
`"cut"`, and `CutIsTheEnd` says that there is no step afterwards.

### How the proofs avoid induction

The library's induction theorems cannot be used with these provers, since they take
an operator as a parameter. Where "the first waiter" or "the largest handle" must
exist, `SeqLemmas` takes it from the well-foundedness of the order on naturals
(`LeastNatural`, `GreatestNumber`). Cardinalities change by one element at a time,
by the facts of `FiniteSetTheorems`.

### Only model-checked

- Liveness: `LockGranted` and `JoinReturns` of `Pthread_live`, `ReadyRuns` and
  `JoinReturns` of `Lifecycle_timer`. They rest on fairness, and so on `ENABLED`,
  about which the installed provers do not reason.
- The three violations, each of which is a behaviour that TLC shows.
- The refutations listed in section 3 under "What the models contain besides".

Every other property of the passing runs has a theorem in the table above.

## 5. Assumptions, and what is not modelled

- 25 ms of processor time do not pass between an arming of the timer, or an
  expiry, and the end of the call it is in. That `acquire_queue_spinlock` to
  `swapcontext` is one step in `Pthread` and `Preempt` rests on it; `Lifecycle`
  has the steps, and `HandlerIsSafe` is what follows from the assumption.
- `Pthread` takes whole calls, so that the timer expires in user code only.
  `Preempt` and `Lifecycle` say, for mutexes and for threads, what is left when
  it does not.
- In `Lifecycle` the program joins a thread once, and before its handle is handed
  out again; the main thread does not exit. `alloc_mutex` is one step there, which
  `Preempt` takes apart.
- `ThreadHeap` ends at the first switch within a create, an exit (the last
  `schedule()` of it included), a yield or the first call of `my_malloc`.
- In `ThreadHeap` there are handles for all threads, and what joins and mutexes
  do to the ready queue is left out: every thread that is not `CURRENT` is ready.
- `malloc` does not fail inside the library; I/O on the swap file does not fail
  (the code ends the process on both).
- Page faults at an address that is no swapped-out page are bugs of the calling
  program and end it.
- A thread's return value: the code drops it.
- The conversion of a `size_t` to an `int` in `shm.c` and `my_malloc.c` for sizes
  above 2^31.
- Stores of user code to a block whose bytes lie over metadata: `Heap` has
  the overlap, not what follows from it.
- The main thread's page table is `malloc`ed and not cleared; `VirtMem` starts it
  empty.
- Slots of a thread that exits with evicted pages are not given back. The model
  has the leak, as the code does; `virt.c` itself calls it future work.
- `shinit` while blocks are outstanding, which only the file's own test does.
- The mutexes and joins of `code/`, which are those of `tmp2/` without the
  spinlock.
- `scheduler/`: its `my_pthread.c` does not compile (`scheduler_context.context`,
  `STACKSIZE`, `maincontext` and `handle_error` are declared nowhere), so there is
  no behaviour to model.
- `Benchmark/` and the tests, which are clients; `debug.h`, which prints.

## 6. Plan

Done: the modules of section 2, their runs, and the theorems of section 4.

What is left to do, in this order:

1. `VirtMem` with `Preemptible`. On the instance of `VirtMem_pages`, TLC finds that
   `TypeOK`, `SlotsExclusive`, `CountsAgree` and `WindowFollowsTable` hold then too,
   and that `FramesExclusive` and `FramesExist` do not. The four need a weaker
   invariant than `MemInv`, in which each thread may be within an allocation.
2. `Pthread` with `unordered`, which on the instance of `Pthread_rules` keeps
   `WaitsForSomeone` but neither exclusion nor the counts: what exactly a program
   loses that locks in any order.
3. A composition of the scheduler with `VirtMem`, so that which thread runs next
   and when `free_thread_pages` is called are no longer external; and the programs
   of `Benchmark/` as clients, whose sums are exact.
