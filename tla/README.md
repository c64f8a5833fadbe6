# Selfie with processes, locks and lockdep: TLA+ models and proofs

The repository is an operating-systems course. Its program is `src/selfie/selfie.c`, one
15,000-line C* file: a compiler, a RISC-U emulator (*mipster*), a hypervisor
(*hypster*), and, added in this fork of selfie, processes (`fork`), semaphores and locks,
three schedulers and a lock dependency validator ("LOCKDEP"). The additions are the
concurrent part of the program and the subject of this project; a second, small kernel in
`src/selfie/machine` runs the same programs on RISC-V hardware. Line numbers without a file are of
`src/selfie/selfie.c`.

Run everything from this directory: `tlc -config MCSync.cfg MCSync`,
`tlapm KernelProofs.tla`.

## 1. The system

| component | state | operations | modelled by |
|---|---|---|---|
| lockdep (2464-3015) | dependency list (global), held list and count (words 35, 36 of each context), visited buffer | `lockdep_lock_acquire`, `lockdep_lock_release`, `add_held_lock`, `remove_held_lock`, `has_cycle_dfs` | `Lockdep`, `LockdepSearch` |
| process and synchronisation calls (8885-9660, 13428-13465) | `used_contexts`, `blocked`, program counter at a call, ids stored in program memory, semaphore and lock tables | `fork`, `exit`, `sem_init/wait/post`, `lock_init/acquire/release` | `Sync` |
| mipster loop and schedulers (14078-14307) | running context, `vruntime` | `mipster`, `select_random_context`, `select_cfs_context`, round robin | `Kernel` |
| hypervisor (13361-13609, 14309-14446) | virtual contexts of the hypervisor, cached contexts of the machine below, list of deleted contexts | `hypster`, `minmob`, `do_switch`, `save_context`, `restore_context`, `delete_context`, `new_context` | `Hypervisor` |
| virtual memory (10384-10530, 13467-13513, 13750-13804, 14002-14030) | page tables, intervals of pages not cached yet, free frames | `map_page`, `palloc`, page faults | `Hypervisor` |
| L1 caches (9983-10358) | blocks with valid flag, tag, timestamp; timers | fetch, load, store, flush on a switch | `Cache` |
| garbage collector (10578-11215) | used and free list, mark bits, calls since the last collection | `gc_brk` (malloc), mark, sweep, reuse | `Collector` on `Heap` |
| replay (12270-12329) | trace of program counters and overwritten values | record, undo, redo | `Replay` |
| bare-metal kernel (`machine/mmu.c`, `bootstrap_kernel.c`, `context.c`, `trap.c`, `elf.c`) | kernel and user page table, frame pool, regions, break and stack pointer of the one process | `setup_kernel_pt`, `kinit_page_pool`, `kinit_context`, page faults, `brk`, the end | `BareMetal` |
| compiler, encoder, interpreter, file I/O calls, tools, grader | | | not modelled (see section 8) |

How they interact. `mipster` runs one context until it raises an exception, so a system call
is handled to its end before anything else happens. `handle_system_call` dispatches to the
`implement_*` functions; those call lockdep with the context and the *virtual address* of the
lock as its class. A call that must wait sets `blocked` to 1, appends the context id to the
waiters array of the semaphore and leaves the program counter at the `ecall`: when a post or a
release sets `blocked` back to 0, the context **re-executes the call**. After the exception
the scheduler picks the next context from `used_contexts`.

What is hard here:

* *Barging*: a release makes the lock free and wakes one waiter, but writes that waiter's id
  into the owner field at once; until the waiter retries, anybody may take the lock.
* *Retries*: a retried call goes through lockdep again and records the lock once more.
* *Shared heap lists*: word 35 of a context is `held_locks_head` **and** `vruntime`; `fork`
  copies `vruntime`, so parent and child share held-list cells. Unlinking a cell in the middle
  of one list changes the other. The child's counter is 0 and can wrap around.
* *Checks piece by piece*: `lockdep_lock_acquire` checks and adds one edge at a time and a
  denied call keeps the edges it has added. A denied `lock_acquire` returns as if granted.
* *Schedulers with nobody to run*: each has its own idea of "all done" and of what to run when
  every context is blocked.
* *Two levels of contexts*: hypster is itself a program on mipster. The machine below keeps a
  cached copy of each of its guests, found by the address of the hypervisor's own record, and
  brings only part of the page table up to date at a switch. The hypervisor can be interrupted
  anywhere, also while it allocates the page for a guest's fault.
* *Copies behind each other's back*: the L1 caches hold words that the kernel stores to directly;
  the program keeps a copy of the program break that the collector must correct; the replay
  trace holds what memory and registers were.
* *Tables that map themselves*: the bare-metal kernel maps its page tables and its pool of frames,
  and each mapping may take another frame for another table, which must be mapped, too.
* *Conservative collection*: any word that looks like an address keeps an object, pointers into
  the middle included, and reused memory still holds old pointers.

What makes each part correct: the graph stays acyclic and no circular wait forms; queues hold
exactly the sleepers and no wakeup is lost; a lock has one holder; an exited context stays
exited; a scheduler runs only ready contexts, starves none, shares time fairly and reports
success only when everybody has exited; a guest runs with all the pages its hypervisor mapped, on
frames nobody else has, and its exceptions are handled before it goes on; caches cannot be told
from memory; a collecting malloc cannot be told from malloc, except that it frees all garbage;
replay goes exactly back and forth through what happened; the bare-metal kernel reaches every frame
it works on and kills no program for using its own memory.

The full list of hazards, each at its line with the properties that watch it, is in
`PROJECT.json`.

## 2. Modules

| module | what it is |
|---|---|
| `Lockdep` | graph, held lists as sequences of heap cells, counts; acquire, deny, release, fork. No `RECURSIVE`: reachability is "in every closed set". |
| `LockdepSearch` | the depth-limited DFS and the edge-by-edge walk as the code writes them, compared with `Lockdep`; the recursion over the depth is a recursive function, whose argument counts the levels left |
| `Sync` | EXTENDS `Lockdep`; one action per system call, any ready context may run |
| `Kernel` | EXTENDS `Sync`; the mipster loop: one context runs, the scheduler picks the next |
| `Hypervisor` | hypster, its guests, and the machine that runs both |
| `Blocks`, `Heap`, `Collector` | blocks of memory and pointers into them; what malloc promises; malloc with the collector, which implements `Heap` |
| `Cache` | both L1 caches, the program that goes through them and the kernel that does not |
| `Replay` | recording, undo and redo on a circular trace |
| `BareMetal` | boot and demand paging of the kernel in `machine/` |
| `MC...` | the instances for TLC: model values, and the program families of `TestSpec` (`MCSync`), the frames (`MCCache`), the programs (`MCReplay`), the symmetry (`MCCollector`) |
| `DataLemmas` | numbers, least elements, induction and recursion up to a number, closures in finite sets, lists without repetitions: what the proofs of several components need |
| `LockdepProofs` | what the operations of `Lockdep` preserve, and the theorems about `LockdepSearch` |
| `KernelProofs` | the theorems about `Sync` and, from them, those about `Kernel` |
| `HypervisorProofs`, `CollectorProofs`, `CacheProofs`, `ReplayProofs`, `BareMetalProofs` | lemmas and theorems for TLAPS, each about the module it is named after |

`Sync` is the abstract specification of `Kernel`: `Kernel` keeps its variables, so the
refinement mapping is the identity and what is shown is that each scheduler step is a `Sync`
step or a stutter
(`RoundRobinIsSync`; the other schedulers re-execute stopped contexts). `Heap` is the abstract
specification of
`Collector`: the mapping forgets the lists, the marks, the program break and everything the
program can no longer reach. The other modules are independent: the parts they model meet only in
the emulator's loop, which `Kernel` has for the calls and `Hypervisor` for contexts and pages.

### Correspondence

**Lockdep.** `graph` is `lockdep_dependency_graph` as a set; `count` is the word
`held_locks_count`, an element of `0..Word-1` whose decrement wraps. A cell of a held list is
`<<class, allocating context, number>>`: equal cells are one heap cell. `AffectedBy` says which
lists an unlinking changes: the caller's, and those that go through the rewritten
predecessor. `LockdepAcquire` is one call of `lockdep_lock_acquire` that returns 1,
`LockdepDeny` one that returns 0. `dropped` is a history variable: a table was full.

**Sync.** `pc[c]` is `"user"`, or what the context re-executes: the address its wait or acquire
blocked on, or `"exit"` (exit never advances the program counter). `mem[c][a]` is the semaphore
id stored at address `a`; for a lock the code stores a lock id and the lock names its
semaphore, created in the same call and never changed, so the models use the semaphore's id for
both and `owner` is indexed by it. Histories: `entered` (the locks whose acquisition returned to
the program, granted or refused: the program cannot tell), `granted` (those actually taken),
`denied` (lockdep refused something).

The programs are all programs that initialise a lock before using it, do not initialise it again
while in it, release it only after their own acquisition returned and, unless `Reentrant`, do not
acquire it again before releasing it. Semaphores are used freely once they are initialised.

**Kernel.** `Dispatch` is one turn of the loop: an exception of `cur` is handled and the
scheduler picks the next context in the same step, looking at the state the handler left
(`used'`, `blocked'`). `Pause` is every exception that leaves the modelled state alone (timer,
page fault, `brk`, `read`, ...), `Fault` those that end the machine. Slot 35 is a list plus a
number of time slices; when the number is not 0, lockdep would follow a bad pointer (`Stray`,
status `"wild"`). `"spinning"` is the round robin's search loop that never ends. The scheduler is
a variable, chosen at the start.

**Hypervisor.** `hpc` is where hypster is between two exceptions of its own: about to switch,
handling what came back, in a system call of a guest, about to touch a page `palloc` gave it, or
between two pages that `fork` copies.
`fork` is cut up further: `ForkCall` makes the child, which is on the list at once, with the
intervals, the break and the exception of its parent; `CopyPalloc` and `CopyPage` then copy the pages in `rest`
one at a time, each to a page that `palloc` touches; `Forked` returns. `Interrupt` (timer, call
or page fault of hypster itself) may come at every such point. A page of
hypster's memory for a guest is its number in `hpt`, whose entries are frames of the machine;
`vpt` maps guest pages to such numbers, `cpt` guest pages to frames. `ToCopy` is what
`restore_context` will copy: the two half-open intervals. Guest contexts are their addresses:
`Child` takes the head of the free list first, so a child can have the address of a deleted
guest. Registers and contents do not appear; exceptions are
copied whole at each switch. An exception is cleared by its handler; one that no handler catches
(`"invalid"`, 14163-14171) stays behind in the deleted context.

**Collector.** Addresses count words of the heap, objects are `[at, size]` records on two
sequences. `Malloc` is one call of `gc_brk`: collect if due, take the first free object of
exactly the size, else move the break, else return 0, as the stack pointer may be anywhere above the
break (9796-9819). The call passes on a break, `bump + n`, not a size: `bump` is the program's
`_bump`, which the kernel corrects at the end of each call (`Corrected`). `Assign` is any store of a pointer, also into
the middle of an object. `Reachable` is what the program can still get to by following pointers;
it is the `blocks` of `Heap`.

**Cache.** One access is one action; `Loaded` is what an access would return. Invalid blocks
keep no contents. `Double` is `sizeof(uint64_t) / WORDSIZE`. Code and data are on different pages,
and the program does not write its code.

**Replay.** Instructions are represented by what they record and undo. `past` is a history of the
states before each recorded instruction; `partial` has the calls that did more than return a
value. `Step` records and executes; a page fault is not recorded, as the code retries it. An exception
does not advance the program counter, so when one is thrown in redo the rest of the window throws
the same again and never a second kind (12390).

**BareMetal.** A page table with the allocator is one record: the three levels map indices to
frames, `next` and `used` are `ppn_bump` and `used_pages`. The loops of the boot are functions
of the number of rounds; `MapAll` is the loop over a range of pages. The init program has one segment and
fixed arguments (`machine/bootstrap.c:16`), which fit on the first page of its stack. An `Access` that faults is one action with the four ways the handler
decides, each of which can map, run out of memory, or make the kernel trap because the frame it
must zero is not in its own page table. `signal_oom` does not return (it kills the only context, and
`machine/context.c:115` panics), so what follows it in the handler is reached only after a successful
mapping. The user's stack pointer is taken to stay in the lower half,
as compiled C* programs keep it. The free list is left out: it is filled only when the last process
dies, after which the kernel panics, and no call creates a second process.

## 3. Runs

| run | instance | checks |
|---|---|---|
| `lockdep_search` | 4 classes, table of 5 edges, held lists of up to 3 cells | `GraphAcyclic`, `SearchIsReachability`, `WalkIsOneStep`: the C loops compute what `Lockdep` says in one step |
| `sync` | 2 contexts with 2 locks or a lock and a semaphore in any order; 3 contexts on a lock or a semaphore; 3 held records | `SyncTypeOK`, `NoCircularWait`, `QueuesMatchSleepers`, `NoLostWakeup`, `MutualExclusion` |
| `mipster` | 3 contexts, 1 lock, recursion allowed, 4 time slices, each of the 3 schedulers, with fairness | `KernelTypeOK`, `RoundRobinIsSync`, `ReadyRuns`, `EarlyReturnOnlyRoundRobin`, `StuckForGood`, `ExitIsFinal`, `BoundedUnfairness` |
| `hypervisor` | 2 guest contexts, 3 pages, 6 frames, minmob and mipster below, with fairness | `HyperTypeOK`, `NoMappingForgotten`, `RunsWithAllPages`, `AgreesUntilReuse`, `FramesPrivate`, `HandledOnMinmob`, `EveryGuestRuns` |
| `collector` | 2 roots, 3 words of heap, sizes 1 and 2, collection at every second malloc | `CollectorTypeOK`, `HeapTiled`, `GetsWhatItAsked`, `NoDangling`, `CollectsGarbage`, implements `Heap` |
| `caches` | 2 pages of data, 1 of code, 2 ways and 1 way of 2 blocks of 2 words, 64-bit target, with and without coherency | `CacheTypeOK`, `ReadsMemory`, `CachedOnce`, `StoresOneWord` |
| `replay` | every loop of 2 instructions and a division, 2 contexts, trace of 3, 5 recorded instructions | `ReplayTypeOK`, `Replays` |
| `bare_metal` | 3 layouts of the kernel, tables of 16 entries, pool of 16 frames, 10 pages accessed | `BareTypeOK`, `HoleBounded`, `LegalUseSurvives` |
| `rr_returns_early` | 2 contexts, 1 lock | **violated**: `ReturnsWhenAllExited` under round robin |
| `cfs_slot_35` | 2 contexts, 1 lock | **violated**: `HeldListIntact` under CFS |
| `stale_page_table` | as `hypervisor`, minmob only | **violated**: `CachedTableAgrees` |
| `cache_32bit` | as `caches`, 32-bit target | **violated**: `ReadsMemory` |

The passing runs take from two seconds to about two minutes and reach between 600 and 7.5 million
states.

### Bounds, and why they are enough

* Two contexts and two locks are the smallest deadlock; held lists of 3 let a third record (a
  retry) lie between two nested locks, and still overflow, so that `dropped` states occur.
* Three contexts on one lock are the smallest barging: one releases, one is woken, the third
  takes the lock in between. Three contexts on a list are also the smallest in which the round
  robin starts its search in the middle.
* `MaxDeps` is above the number of possible edges in `sync` (the table never overflows
  there) and is 5 of 6 possible edges of an order on 4 classes in `lockdep_search` (it does).
* `MaxHeld` is 16 in the code and `MaxDeps` 512; the small values make the limits reachable.
  `Cardinality(Addr) <= MaxHeld` is assumed: with 17 classes the depth limit can raise false
  alarms and the search can write one cell past `visited` (2798-2808). `SearchIsReachability`
  shows that neither happens below that.
* `MaxCtx <= MaxWaiters`: with at most 64 contexts a waiters array is never full.
* `Word` = 16 keeps the wrap-around of the count (the code's is 2^64), `MaxCell` = 6 is never
  reached, `MaxRuntime` only bounds CFS.
* `sync` has four families of programs (variable `programs`). Two contexts may create, use and
  fork in any order. Of three contexts, the first creates the lock or the semaphore and then forks
  without holding anything, as the repository's test programs do.
* `sync` switches deadlock checking off: all contexts may be asleep or the bounds may be
  used up. `replay` does too: `MaxTime` ends recording. In `Kernel` the state in which mipster has returned, or hangs, has the step `Stopped`.

* `hypervisor`: two virtual contexts are enough for a fork, a deletion and a child at the address
  of the deleted guest; three pages (one on either side of the break, one that changes sides as
  it moves) make both intervals grow at both ends; six frames run out both on the machine
  (`exited`) and, six pages for guests, on the hypervisor (`Delete`). They suffice for a fork
  of two pages with faults before it, and for guests, the half-made child among them, to run in
  the middle of the copying on mipster.
* `collector`: three words and sizes 1 and 2 give reuse, extension, a free object that does not
  fit, and exhaustion; two objects that point at each other are a garbage cycle. `Period` is 1
  where `GC_PERIOD` is 1000, so that several collections happen. The two roots are
  interchangeable (`SYMMETRY SameRoots`; no property is a liveness property).
* `caches`: `MaxLoads` = 4 and `MaxFetches` = 2 accesses between two switches fill a set of two ways,
  hit, and replace both blocks; `MaxDirty` bounds the words of memory that are not 0. The switch
  resets the timers, so the runs go on for ever.
* `replay`: with a trace of 3 and 5 instructions the trace wraps; every program of the shape
  is tried, 24 instructions in either place. `MAX_REPLAY_LENGTH` is 100 in the code.

* `bare_metal`: the three layouts make the pool start in the middle of a leaf table (one more table
  for it), at its end (two), and behind kernel tables that themselves need a new leaf table. Sixteen
  entries per table and sixteen frames in the pool stand for 512 and 2048: in the code the pool takes
  four or five tables. The pages accessed share a leaf table, a middle table, or neither.

### Fairness

`mipster` is a single-threaded `while (1)`: until it returns or loops inside the scheduler it
goes on. `FairKernelSpec` therefore has weak fairness on `Dispatch \/ Fault \/ Stray` as a
whole, and none on any particular call: a program may never release a lock. `ReadyRuns` is
checked for round robin only; the random scheduler promises nothing of the kind.

`FairHyperSpec` has weak fairness on `Progress`, the steps of the hypervisor and the traps of guests
as a whole: the machine executes instructions while it runs, and a guest traps when its time
slice is over, at the latest. Interrupts have no fairness, and `EveryGuestRuns` is claimed on
minmob only: mipster may resume a guest with an exception pending, where no timer fires.

## 4. What the passing runs show

* Shared and stale held lists notwithstanding, lockdep does what it is for: as long as it has
  refused nothing and neither table has overflowed, no set of contexts each waits for a lock
  another member holds. Both conditions are needed. Without the one on `dropped` the property
  fails: retries leave records behind, they fill the 16 cells and later locks go unrecorded.
* Queues and sleepers agree exactly, and while somebody sleeps each unit of a semaphore is
  matched by a woken context on its way to it, barging, refused acquisitions and records that did
  not fit included: a retry is never refused, so no woken context gives its unit up.
* Handing the owner field to the woken waiter before it has the lock does no harm: whoever
  takes the lock overwrites it.
* The random scheduler and CFS, with nobody ready, run the head of the list although it is
  blocked or has exited. It re-executes its last call: it cannot succeed, wakes nobody
  and does not come back to life, so a deadlock is for good and "returned" still means all done.
* With random and CFS, success means that all processes have exited; only round robin breaks that.
* Charging a slice after the choice keeps CFS within two slices for contexts without held locks.
* The two intervals per guest lose no mapping: through faults, forks that copy the intervals of the
  parent, moving breaks and deletions, a guest that runs finds every page its hypervisor mapped,
  and no frame is mapped twice, also when a fork is interrupted between two pages and its child runs
  half-made. As long as no context is reused, the cached page table is exactly
  the composition of the two it stands for.
* On minster and mobster every exception of a guest is handled by its hypervisor before the guest
  runs again, and every guest on hypster's list keeps running.
* Malloc with the collector implements malloc: what a program can reach keeps its place and its
  contents, new memory is zero and of the size asked for, no word is lost or handed out twice,
  and a collection frees all
  garbage, cycles included.
* On a 64-bit target the caches cannot be told from memory, although the kernel stores behind
  them: flushing at each switch is enough, as kernel and program never interleave otherwise.
* The bare-metal kernel maps every frame of its page tables and all of its pool but the last
  frames, fewer than the tables mapping the pool took (see the notes of section 5); a process that stays in
  its segment, heap and stack is never killed for a fault, whatever order it moves them and uses them in.
* Undo and redo pass through the recorded states exactly, page faults in between included.

## 5. Disagreements with the documentation

1. **Round robin can return success with a process blocked** (14271-14284). After a full circle
   it looks for unfinished contexts from its start point to the end of the list, not around the
   list. `SCHEDULER_IMPLEMENTATION.md:481` promises to run all processes to completion. In the run a
   context takes a lock, forks, and exits with the lock; then its child, the head of the list, blocks
   on it. The search starts behind the child. In the other order, when first a process blocks and
   then the holder exits, the search starts at the blocked one and mipster spins (14286).
2. **Word 35 is used twice** (2429 and 2610-2623). `SCHEDULER_IMPLEMENTATION.md:26` gives it to
   `vruntime`, `LOCKDEP_IMPLEMENTATION.md:81` to `held_locks_head`: CFS and locks do not mix.
3. **A reused context keeps a stale page table** (13184, 13507). hypster deletes a guest, forks
   another one into the same record, and the machine below takes it for the old one: the child
   runs on the deleted guest's pages. The comment at 13507 asserts that the frames agree.
4. **Caches of a 32-bit target read the wrong words** (10302, 10310, 10518). On a 64-bit system
   words lie twice as far apart in memory as in the address the cached word is looked up by.
   `selfie -m32 -c program.c -L1 1` fails at the first system call; with `-m 1`, or without
   `-m32`, the same program runs.

Noted while modelling, without a run of its own: `machine/mmu.c:373` maps, in its second round, frames that are
mapped already instead of those the pool was moved up by. `machine/include/config.h:10-12` promises
`PAGE_POOL_NUM_PAGES` mapped frames; the last three or four of 2048 are not, and the kernel
panics with "kernel caused a trap" before it can report that it is out of memory (in
`bare_metal` the status `kernel trap` is reached, and `HoleBounded` says how large the hole can be). When the process dies, the kernel also frees the frames of its own stack and trampoline
(`machine/mmu.c:449`), whose first words `kpfree` overwrites, against the warning in
`machine/include/mmu.h`; it panics right after. The held list (`LOCKDEP_IMPLEMENTATION.md:21`: the locks
currently held) has one more record per retry (9560) and, after a fork, the parent's. hypster on
mipster can resume a guest whose exception is not handled yet, because mipster schedules the
cached guests itself (14259); if the guest then raises another one, the machine ends with
"multiple exceptions" (12390). `exit` under hypster returns DONOTEXIT (13984-13989), so exited
guests stay on its list and are run again. The assertion at 12317 fails when the trace has
instructions of several contexts, a malloc under the collector or a call that blocked: `Replays` is stated for traces
without these. In a cache, a block used at time 0 is not told from an empty one by LRU (10182), and
a coherent store that misses invalidates an unrelated instruction block (10206, 10343); both cost
only time. The comment at 2949-2950 says that acquiring a lock again
is no deadlock, but the second `lock_acquire` blocks its caller for good (locks are binary
semaphores). "Deadlock, but continue" (14286) never continues. `EXITCODE_DEADLOCK` of
`LOCKDEP_README.md:31` is never set, and the 128 classes of `LOCKDEP_README.md:11` have no
counterpart in the code. With `-x` the semaphore and lock tables are never allocated
(14665-14666 is the only place).

## 6. What is proved

Theorems hold for every value of the constants that satisfies the named assumptions of the
modules: any number of contexts, locks, pages, frames, blocks, any program.

| module | theorem | states |
|---|---|---|
| `LockdepProofs` | `WalksStayAcyclic` | `SearchSpec => []GraphAcyclic` |
| | `SearchCorrect` | `SearchSpec => []SearchIsReachability` |
| | `WalkCorrect` | `SearchSpec => []WalkIsOneStep` |
| `KernelProofs` | `SyncTypeCorrect` | `SyncSpec => []SyncTypeOK` |
| | `GraphStaysAcyclic` | `SyncSpec => []GraphAcyclic` |
| | `QueuesCorrect` | `SyncSpec => []QueuesMatchSleepers` |
| | `LocksExclude` | `SyncSpec => []MutualExclusion` |
| | `WakeupsReachWaiters` | `SyncSpec => []NoLostWakeup` |
| | `NobodyWaitsInCircles` | `SyncSpec => []NoCircularWait`, for programs that are not `Reentrant` |
| | `ExitedForGood` | `SyncSpec => ExitIsFinal` |
| | `KernelTypeCorrect` | `KernelSpec => []KernelTypeOK` |
| | `RoundRobinImplementsSync` | `KernelSpec => RoundRobinIsSync` |
| | `ReturnsAfterAllExits` | `KernelSpec => []EarlyReturnOnlyRoundRobin` |
| | `StuckStaysStuck` | `KernelSpec => StuckForGood` |
| | `ExitedForGoodInMipster` | `KernelSpec => ExitIsFinal` |
| | `UnfairnessBounded` | `KernelSpec => []BoundedUnfairness` |
| `HypervisorProofs` | `HyperTypeCorrect` | `HyperSpec => []HyperTypeOK` |
| | `GuestsIsolated` | `HyperSpec => []FramesPrivate` |
| | `NothingForgotten` | `HyperSpec => []NoMappingForgotten` |
| | `RunsComplete` | `HyperSpec => []RunsWithAllPages` |
| | `CachedTablesAgree` | `HyperSpec => []AgreesUntilReuse` |
| | `MinmobHandlesFirst` | `HyperSpec => []HandledOnMinmob` |
| `CollectorProofs` | `CollectorTypeCorrect` | `CollectorSpec => []CollectorTypeOK` |
| | `ListsTileHeap` | `CollectorSpec => []HeapTiled` |
| | `PointersLive` | `CollectorSpec => []NoDangling` |
| | `GarbageCollected` | `CollectorSpec => CollectsGarbage` |
| | `SizesKept` | `CollectorSpec => GetsWhatItAsked` |
| | `CollectorImplementsHeap` | `CollectorSpec => ImplementsHeap` |
| `CacheProofs` | `CacheTypeCorrect` | `CacheSpec => []CacheTypeOK` |
| | `NeverCachedTwice` | `CacheSpec => []CachedOnce` |
| | `CachesTransparent` | `CacheSpec => []ReadsMemory`, for a 64-bit target |
| | `StoreChangesOneWord` | `CacheSpec => StoresOneWord`, for a 64-bit target |
| `ReplayProofs` | `ReplayTypeCorrect` | `ReplaySpec => []ReplayTypeOK` |
| | `ReplayFaithful` | `ReplaySpec => []Replays` |
| `BareMetalProofs` | `LegalUseNeverFaults` | `BareSpec => LegalUseSurvives` |
| | `BareMetalTypes` | `BareSpec => []BareTypeOK` |
| | `FramesStayMapped` | `BareSpec => []HoleBounded` |

Three theorems have a hypothesis. `Double = 1` is the 64-bit target: with `Double = 2` both
statements are false, which is finding 4. `~Reentrant` says that programs do not acquire a lock
they are in (`MCSync` has the same): lockdep takes no edge from a class to itself, so a
context that waits for its own lock is a circle of one that the graph does not show.

The arguments:

**Lockdep and system calls**

* *Types* are not inductive alone: a release indexes the semaphore table with what memory
  holds, and a fork writes to a context that must be unused. `SyncBase` adds that the ids in
  `used_contexts` are exactly those given out (`LiveIds`), that unborn contexts are blank
  (`Fresh`) and that a lock the program is in was initialised (`Initialised`).
* *Acyclicity.* An acquisition adds edges into one class `a`. Let `U` be the classes `a`
  reaches (the intersection of the closed sets containing `a`); no class with a new edge to `a` is
  in `U`. Given a set `S`: if some class of `S` is outside `U`, then `S` without `U` had a source
  before the step; otherwise `S` lies in `U`, where no edge is new. No induction
  over paths is needed, which is why reachability is defined by closed sets.
* *The search.* A search that fails leaves a set: its start and everything the failed searches of the
  successors leave, which the edges leave only towards visited classes; from the start, with nobody
  visited yet, it is closed and the goal is not in it (`SearchComplete`). A search that succeeds has followed edges, unless it
  ran out of depth: visited classes plus remaining levels are always the limit plus one, so with no
  more classes than the limit, and no edge from a class to itself, it runs out of classes first
  (`SearchSound`, and `SearchFits` for the write behind the buffer).
* *The walk.* `Walked` says what the loop has done after `i` cells: it goes on if all of them passed,
  has added the edges that fit, and either left none out or filled the table. An edge added on
  the way leads into `a`, so it does not change what `a` reaches (`ReachesBehind`) and all checks are
  as good as checks of the first graph. This is what entitles `Sync` and `Kernel` to take the walk for one step.
* *Queues.* By cases on who moves: a sleeper is appended to its queue, a wakeup takes the head
  of one queue, whose only place it was. That the append is not lost needs a pigeonhole argument
  (`QueueHasRoom`): queues have no duplicates, so a queue is shorter than the number of contexts
  when one of them is awake.
* *Exclusion.* `Ids` says that semaphore ids in memory were given out and that an id is stored at
  one address only (across contexts too: forks copy memory). With it, `Owned` (nothing was
  refused, so what a program entered is what it took) makes a release give back the releaser's
  own lock.
* *Wakeups.* A unit could be lost in two ways: a woken context could be refused by
  lockdep when it retries, or move on without taking it. `Passable` rules out the first: a context
  stopped at a lock has, for each class on its list, an edge to that lock, or the table is full and
  its acquisition is not refused; a full table never changes again, and with an edge recorded in an
  acyclic graph no path leads back. That held lists are shared cells and change under a stopped
  context does no harm, as they only lose cells. The rest is counting: each step changes
  units, sleepers and woken contexts of one semaphore.
* *Circles.* `Tracked`: what a context has entered is on its list as a cell of its own
  (`Entries`, `OwnFirst`, `Born`: unlinking removes a context's own cell first, and cells of others
  were allocated by contexts that exist), and a stopped context has edges from its list to what it
  waits for (`Registered`). So whoever waits for a lock of another member of a set gives an edge
  between the locks waited for, and a circle of waiters a set of classes without a source.

**Schedulers**

* *Round robin* runs only ready contexts: `CurrentReady`, from which each `Dispatch` is a
  `Sync` step or a stutter.
* *Stuck.* The two other schedulers run contexts that are blocked. `KernelInv` says for a
  machine in which nobody is ready that everybody who has not exited sleeps on a semaphore of value 0
  (`Doomed`, which comes from `NoLostWakeup`, as nobody is woken), and otherwise what `Sync` says
  (`Settled`). A re-executed wait then blocks again and a re-executed exit exits again.
* *CFS.* `Fairly`: eager contexts are within two slices (`Even`), sleepers stand at 1, as
  a call on a lock or a semaphore goes right only in the first slice of a context, which is charged after
  it (`Slept`), and the context that runs is at most one ahead of the others (`Ahead`).

**Hypervisor**

* *Frames.* `Pages` follows a frame from the hypervisor's page table to the page tables of
  guests: pages of the hypervisor have frames of their own (`HostPrivate`), are in one entry of one
  guest table (`PagesPrivate`) and were touched before they got there (`TouchedBefore`); the page
  that is being allocated is in none (`Pallocated`), and what is cached for one guest is not mapped for
  another (`CachedPrivate`). The interrupt between allocating a page and touching it, for a fault or
  for a child, is why `Pallocated` is needed. Every step does one of four things to the page tables
  (`Steps`): nothing, a switch, one mapping, or an empty table for a child.
* *Lists.* The contexts ever allocated are on one of two lists, once; the others have no cached
  context (`Lists`, `Unborn`).
* *Exceptions.* On minmob the guest that runs, or is on the list with an exception, is the one
  switched to last (`OneTrap`); a child gets its parent's exception, which has been cleared by then.

**Collector.** The lists are tiles of the words below the program break (`HeapLists`), memory above
it is clear (`Fresh`), and every word the program can reach is 0 or points into a used object
(`Pointers`). Between calls `_bump` is the break, whence `SizesKept`. The rounds of marking are a recursive function; that they end
with the least closed set is `Closure` of `DataLemmas`: a set that grows inside a finite one stops
growing after as many steps as the finite one has elements. For the refinement, a malloc that
collects first is a malloc: what the sweep frees is no block of the heap before it (`Freeing`,
`Obtained`).

**Caches.** A lookup is arithmetic: words with the same tag and set are in the same block
(`Quotient`, `Shifted`, `Unique` of `DataLemmas`), frames are multiples of the page, so an address
has the same set and the same place in the block virtually and physically. `Mirrored` says that
valid blocks are copies of memory while the program runs, `CacheBase` that each has a tag of its
set, and no two ways of a set the same one.

**Replay.** `Traced` says that the slot of each instruction in the window has its program counter
and, until it is undone, what it overwrote; two times in the window have different slots
(`SlotsDiffer`). `Chained` says that each recorded state follows from the one before it, unless
contexts were switched or a call did more than return a value. Undo is then a
function (`Undone`), and so is redo (`OneOutcome`), except for calls, whose results undo has swapped into
the trace (`Returned`). `Reached` says that what was used stays mapped, so nothing faults in replay.

**Bare metal.** All mapping is put together from steps that satisfy `Grew`: the frames taken are
the next ones, one for each that is counted, tables only get more entries, and the pages in a given set are
mapped if the pool was not empty. `Grew` is transitive, so loops preserve it (`AllMapped`,
`SegmentMapped`). The rounds of `setup_kernel_pt` end: a round that takes a table moves the next one up
by a frame, and there are at most `Pool` (`TablesReached`). The first round of `kinit_page_pool` alone
maps as many frames as the pool has and one more; what the later rounds map stays below the upper half
(`PoolReached`). So the frames in use are an interval behind those of the kernel's tables (`Paged`), and it is
covered as long as the frames taken do not outnumber those mapped (`FramesReached`). Assumed are
the order of the parts of the address space (frames lie below the upper half, the segment below the stack) and
`PoolAssumption`, that the kernel boots: TLC evaluates it for the instance, and with the sizes
of the code (512 entries, 2048 frames, 2 stack pages, an image of 300 pages and a segment of 45) the process starts with 53 of
2045 usable frames taken.

`Regions`: the upper end of the stack's region never moves, and both regions and the
break are pages and addresses. A legal address that is in no region is behind the region of the heap and below
the break, or below the region of the stack and not below the stack pointer (`LegalServed`), so one of
the two may grow to it.

**Induction over data** appears in four places: the marking, lists, the two loops of lockdep, and the loops that map pages. It is done with a set of
numbers and its least element (`Least`, `Induct`, `Recursion` in `DataLemmas`), which need no operator as a
parameter.

## 7. What is only model-checked

Liveness: `ReadyRuns` and `EveryGuestRuns`, which rest on fairness; the prover has no rules for
`ENABLED`. Every other property of a passing run is a theorem.

## 8. What is not modelled, and the plan

Left to prove: nothing that a run checks, except liveness. Properties of the instances that are only
violated (section 5) have no theorem either; that they fail is what their runs show.

Not modelled: the compiler, the encoder and the linker (sequential, their correctness is about
data), the interpreter's arithmetic, `read`/`write`/`openat` (I/O), the profiler, of `machine/` its
file system, console and library variant, `selfie_with_mmio.c`, the older copies of
selfie (`lockdep.c`, `comparative.c`, `selfie-original.c`), the model generators in `tools/`, the
grader, and the classroom programs outside `selfie/`. Of the modelled parts, messages and counters for
statistics are left out, and `lockdep_enabled`, which nothing ever clears; `mixter`, which no option
starts; the library variant of the collector, and its option not to reuse memory.
