# Virtuoso: a TLA+ model of its memory, coherence and thread core

Virtuoso extends the Sniper multicore simulator with MimicOS, a small kernel
that owns physical memory, page tables and page faults, and with an MMU that
walks those tables for every simulated access. Underneath are Sniper's own
caches with their directory protocol, and the servers that keep the simulated
threads and their clocks together. This directory holds TLA+ modules for four
parts of it: *which physical page an address gets*, *how a page fault stops and
replays the instructions of an application*, *which cache holds the last
store to a line*, and *which simulated thread runs, waits and is woken*; the TLC
runs that check them; and TLAPS proofs of the invariants that hold for every size
of the system. Paths below are relative to `src/simulator/sniper/`.

## 1. Inventory

| Component | State | Operations | Interacts with |
|---|---|---|---|
| Buddy allocator (`include/memory_management/physical_memory_allocators/buddy.h`) | one vector of free blocks per order, `m_free_pages` | construction, `fragmentMemory`, `fragmentMemoryToTargetCount`, `allocate`, `reserve_2mb_page`, `checkIfFree`, `free` | called by every allocator |
| Reservation THP allocator (`reserve_thp.h`) | `two_mb_map`: virtual 2MB region to base page, bitset of used pages, promoted flag | `allocate`, `checkFor2MBAllocation`, `demote_page` | buddy; called by the fault handler |
| Kernel area (`physical_memory_allocator.h`) | bump pointer `kernel_start_address` | `handle_page_table_allocations` / `_deallocations` | fault handler |
| Sniper-space fault handler (`sniper_space_exception_handler.cc`) | one lock for all cores | `handle_page_fault`, `allocate_page_table_frames` | allocator, page table |
| Radix page table (`pagetable_radix.cc`) | a tree of frames per application | `initializeWalk`, `updatePageTableFrames`, `deletePage` | walked by the MMU without a lock, updated by the handler under it |
| MMU (`mmu_designs/mmu.cc`, `mmu_base.cc`) | sanity maps, walker MSHRs | `performAddressTranslation`, `performPTW` | TLBs, page table, handler |
| TLB hierarchy (`tlb.cc`, `tlb_subsystem.cc`) | cached translations per level and page size | `lookup`, `allocate` | MMU |
| MimicOS (`mimicos.cc`) | allocator, tables per application | start-up (fragmentation), application creation | everything above |
| User-space mode (`user_space_exception_handler.cc`, `trace_thread.cc`, `mimicos_message.cc`) | fault state per core, one message, the instruction to be replayed, which trace is read | fault message, context switch, replay | MimicOS (a second program, itself traced), reorder buffer, page table |
| Reorder buffer (`rob_timer.cc`) | uops in program order, how many are dispatched, the checkpoint of a fault | `simulate`, `execute` (dispatch, issue, commit), `drainRob`, `saveCheckpoint`, `flushRobInstant` | trace thread, MMU |
| Other allocators (baseline, eager paging, ASAP, SpOT, RMM, Utopia, NUMA), swap cache, HugeTLBfs, CXL tiering | as their names say | | buddy |
| Hashed tables (cuckoo, HT, HDC), range tables | buckets, B-tree | insert, resize, walk | handler, MMU variants |
| Cache controllers (`parametric_dram_directory_msi/cache_cntlr.cc`) | state and data of every line per level, `m_directory_waiters`, a lock per set | `processMemOpFromCore`, `processShmemReqFromPrevCache`, `insertCacheBlock`, `handleMsgFromDramDirectory` | core threads above, the network thread, messages to the directory |
| Directory (`pr_l1_pr_l2_dram_directory_msi/dram_directory_cntlr.cc`, `dram_directory_cache.cc`) | entries (state, sharers, owner, forwarder), replaced entries, a request queue per line | one handler per message type, replacement of entries | caches and DRAM, by messages |
| Clock-skew barrier (`system/barrier_sync_server.cc`, `barrier_sync_client.cc`) | barrier time, global time, list of waiting cores, cores still to be released | `synchronize`, `signal`, `advance`, `barrierRelease` | every core once per quantum, thread manager, periodic hooks |
| Synchronisation and futex servers (`sync_server.cc`, `syscall_server.cc`) | owner and queue of each mutex, condition, barrier, futex; sleepers with timeouts | lock, unlock, wait, signal, broadcast, futex calls, `futexPeriodic` | thread manager |
| Thread manager (`thread_manager.cc`) | status of each thread, who joins on it | create, start, stall, resume, join, exit | skew barrier, schedulers |
| Schedulers, performance, DRAM, network and prefetcher models | | | |

What is hard to get right here:

* **Check, unlock, act.** A walk runs without the lock and reports "not mapped, I
  need *n* frames". The handler takes the lock and acts on that report without
  looking again, while other threads of the application may have mapped the
  page, added levels, or promoted the whole region in between.
* **Bump pointer that moves back.** Page table frames are taken in advance and
  the unused ones returned by subtracting, across all applications.
* **Promotion under cached translations.** A 2MB entry replaces a level 1 frame
  whose translations cores still hold in their TLBs.
* **Inclusive ranges.** Every split in the buddy works with inclusive ends, at
  every order, with no coalescing to hide an error.
* **Giving up.** Out of memory is reported by assertions and by `-1` entered in a
  page table; demotion has to make room before that.
* **Loops that must end.** The walk is retried until it succeeds; fragmentation
  runs until a metric falls below a target.
* **One message, two meanings.** A cache announces an eviction with the same
  message that answers a demand, so demands, replies and evictions of one line
  cross, and a queued request at the directory sees replies that are not for it.
* **Data in several places.** The newest bytes of a line may be in a first-level
  cache, in the last level, in an eviction buffer or in a message.
* **Time read before the lock.** Threads leave system calls and start with a
  time they read earlier; the barrier may have moved on.
* **Lost wake-ups.** A thread can be woken by a hook that its own stall runs,
  be signalled by the start of a thread it wants to join, time out while it is
  being requeued, or be left behind when the last running thread goes away.

* **Two records of one fault.** In user-space mode the reorder buffer keeps the
  uops it flushed and the trace thread keeps the instruction; the MMU notes the
  fault in a variable that the next walk overwrites. All three must agree on what
  is executed again.

`PROJECT.json` lists each as a hazard with its line and the properties for it.

## 2. Modules and their correspondence with the code

* **BuddyOps** - the buddy's operations as operators on a free list
  (order -> sequence of blocks, a block is an inclusive range). `back`, `front`,
  `push_back` and `erase` of the vectors become `Last`, `Head`, `Append` and
  `Tail`/`RemoveAt`, so the order in which blocks are handed out is the code's.
  The loops that halve a block are given in closed form: `AllocateFrom` is the
  list after all the halvings of `allocate`, `TakePage` after those of
  `checkIfFree`. A 2MB page is order `HugeOrder` (9 in the code), the 1MB blocks
  of the fragmenters are `HugeOrder - 1`.
* **Buddy** - those operations as a state machine: `FragmentStep`/`FragmentEnd`
  are the iterations and the exit of the two start-up loops, then any order of
  `Allocate`, `Reserve2MB`, `CheckIfFree`, `Free`. `held` is a history variable:
  the pages the clients own. A client frees what it owns; what one caller really
  frees is a matter for ReserveTHP. The random order of `fragmentMemory`, 1MB
  up to just below the block's own under either metric, is a nondeterministic
  choice (`fragmentMemoryToTargetCount` always takes 1MB), the ratio it aims at is replaced by the number of 2MB
  pages it stands for. The contiguity metric (`getAverageSizeRatio`) is kept as
  the comparison it makes: the mean size of the `TopBlocks` largest free blocks
  (50 in the code) against a target; `FragmentIdle` is an iteration that finds
  nothing to split.
* **FrameAllocator** - the abstract specification: the pages are divided into
  free and held, an allocation moves a contiguous run (aligned if of 2MB or
  more), nothing else does anything. Buddy implements it with
  `free <- FreePages(free_list)`.
* **ReserveTHP** - the reservation allocator's `allocate` as one action on
  `free_list`, `two_mb_map` and `result`, including both assertions
  (`aborted = "promoted"`, `aborted = "oom"`), the retry after a demotion and the
  `-1` that retry may return. `std::sort` does not order equal utilisations, so
  `LeastUsed` leaves the choice open. `PromoteAbove` is the threshold as a number
  of pages: 0 is the shipped `threshold_for_promotion = 0.0`.
* **PageFault** - composes the allocator with cores, lock, page tables, bump
  pointer and TLBs. A core goes `idle -> walk -> fault -> allocate -> update ->
  walk -> ... -> idle`: `TlbMiss`, `WalkFault` (walk, no lock), `Acquire`,
  `AllocateData`, `UpdateTables` (which also returns the unused frames and
  unlocks), `WalkHit`. A table is three functions: `nodes` (the frames below the
  root, each with its emulated page), `pte` (4KB entries) and `pmd` (2MB
  entries). Promotion removes the level 1 frame from the tree, since the 2MB
  entry overwrites the link to it; the frame's page is lost, as in the code. The
  TLBs of a core are one set of `TlbEntries` entries with an arbitrary victim;
  they carry no application, as in the code, because a core runs one.
  `aborted # "no"` ends the behaviour: an assertion ends the simulator.
* **RadixWalk** - one page table word by word, for the race PageFault leaves out.
  A frame is an array of entries of three words (`is_pte`, the union's first word,
  `ppn`); a word is the set of values a load may yield, so memory fresh from `new`
  is several values and a load picks one. The union is modelled: setting the
  valid flag over a pointer leaves no pointer. `LoadIsPte`, `LoadValid`,
  `LoadFault`, `LoadLink` and `LoadPpn` are the loads of `initializeWalk`;
  `NewFrame`, `Descend` and `SetEntry` the steps of `updatePageTableFrames`, whose
  stores wait in `pending` until `Store`. With `Reorders` they reach memory in any
  order between two opaque calls, which is what plain stores promise; without it
  in program order. The allocator is reduced to what the table sees of it: the
  same page for the same address, and promotion above the threshold, which the
  initial state picks as the configuration does.
* **ShmemMsg** - what the caches and the directory share: the machine (protocol,
  which cores share a node, the lines, the ways of a directory set, how many
  sharers an entry can name, which lines a node may evict), the message queues between every node and the
  directory and between directory and DRAM, and the data. Data are `"last"` or
  `"old"`: a store turns every other copy of the line, wherever it is, into old
  data. So one bit tells whether the last store is still to be found.
* **CacheCntlr** - a node: a first-level cache per core and the last level they
  share. One action per critical section of the stack lock: `StoreHit`,
  `LastLevelHit`, `LastLevelMiss` (queue, and the first waiter sends the request),
  `EvictPrev` and `Evict` (room for another line), `HandleReply` and
  `HandleDemand` (the network thread on a message of the directory), `WakeNext`
  (it wakes the waiters of a line one by one, and a waiter that needs more than
  the reply gave sends a request of its own).
* **DramDirectoryCntlr** - the directory's thread. `HandleRequest`,
  `HandleInvRep`, `HandleFlushRep`, `HandleWbRep` and `HandleDramReply` take a
  message; a handler that goes on with queued requests does so through `todo` in
  `ProcessExReq`, `ProcessShReq`, `ProcessUpgradeReq`, `ProcessNullifyReq` and
  `Allocate` (which replaces an entry), and no message is taken meanwhile. A new
  entry's forwarder is any node or none under MESIF, since the constructor of
  `DirectoryEntry` leaves `m_forwarder_id` uninitialised.
* **Coherence** - the two composed. `failed` collects the assertions of both
  files; one that fails ends the simulation.
* **BarrierSync** - the clock-skew barrier with its clients, in detailed mode. A
  core runs ahead (`Run`), checks in (`SynchronizeEarly`, `Synchronize`), waits
  and leaves (`Leave`, by signal or by its own 1 ns host timeout), stalls
  (`Stall`, where the last running thread advances the barrier), is resumed
  (`Resume`, `Awake`), makes a blocking system call (`SyscallEnter`, `SyscallRead`,
  `SyscallExit`: the unlocked read is a step of its own), creates, starts, exits.
  The list of released cores not yet signalled is kept as its length. Of the
  queues of timed waiters, which `futexPeriodic` searches from the front and takes
  one thread of at a time, the module keeps who came before whom (`ahead`), and not
  in which queue they are: the hook wakes any of the threads whose timeout has
  passed, but passes one over only for an earlier one. `Run` has no bound on
  clocks; MCBarrierSync sets all times back instead (section 3).
* **ThreadSync** - mutexes, conditions, barriers, futexes, sleep, join and the
  life of a thread. One action per call, since all of them run under the thread
  manager's lock. `status` is what the manager believes and `host` what the host
  thread does; the difference is where wake-ups get lost. Every queue is in
  `queue`, by its place; `Stall` contains the periodic hook that may run on the
  way to sleep and the loop that advances time when nobody is left running. The
  two modules meet in that hook: BarrierSync shows that the barrier time passes
  every timeout and the hook comes to every timed wait (`TimedWaitsEnd`), ThreadSync assumes time passes while a thread
  runs and shows that the waiters are then woken (`TimedWaitsReturn`).
* **RobTimer** - the reorder buffer as a sequence of uops of which the first
  `m_num_in_rob` are dispatched. `Simulate` restores a checkpoint and appends,
  `Dispatch`, `Issue` and `Commit` are the stages of `execute`, `IssueFaults` is
  `saveCheckpoint` and `flushRobInstant`. There is no time: a dispatched uop
  issues when it likes, a store only behind issued ones, so every latency and
  every dependency between uops is covered.
* **UserSpace** - RobTimer composed with the trace thread, the MMU and the
  user-space kernel. The loop of `m_run_func_with_userpace_mimicos` is `pc`:
  `top` (read ahead: `ReadKernel`, `ContextSwitch` and `SwitchToApp`,
  `ReadNextApp`), `handle` (the fetch and `simulate`), `simulate` (cycles of
  `execute`), `after` (`ToKernel` if a fault is noted, otherwise `GoOn`). An
  application instruction is its number in the trace; a kernel instruction is
  `Kernel`, and the magic instructions among them are what `Read` meets on the
  way (`Receive`, `Result`). The table is two functions, page to frame and node
  to frame; a frame is a pair of the pool it came from and its number in it.
  `Translate` is a TLB hit or a walk, since any entry may have been evicted.
* **BuddyOpsProofs** - lemmas about the operators of BuddyOps; **BuddyProofs**,
  **PageFaultProofs**, **RadixWalkProofs**, **CoherenceProofs**,
  **BarrierSyncProofs**, **ThreadSyncProofs**, **UserSpaceProofs** - the theorems
  of section 5.
* **MCBuddy**, **MCPageFault**, **MCRadixWalk**, **MCCoherence**,
  **MCBarrierSync**, **MCThreadSync**, **MCUserSpace** - instances for TLC.

Atomicity. Everything between `Acquire` and the end of `UpdateTables` runs under
the lock, so the only interference is with walks and TLB fills of other cores.
PageFault lets them read the table in one step each. The code's walk reads it word
by word with no synchronisation; RadixWalk is about that. So the guarantees of
PageFault about two threads of one application hold up to the two races that
RadixWalk exhibits.

## 3. Runs

Passing:

| Run | Instance | Shows |
|---|---|---|
| `buddy` | 9 pages from page 1, orders 0..3, 2MB = 4 pages, at most 5 free blocks once something is held | After any fragmentation under either metric with any target, any sequence of calls keeps blocks sized (`Sized`) and disjoint (`Disjoint`), the counter is off by exactly one 2MB page per reservation (`CountDrift`), the allocator implements FrameAllocator (`KeepsPromise`); fragmentation ends but for one case of the contiguity metric (`Terminates`) |
| `one_core` | one core, 9 pages, whole or fragmented, 7 virtual pages in 3 regions, promotion above 1 of 4 | Reservation, promotion, fallback, demotion and exhaustion all happen. A page keeps its physical page through promotion (`SameVASamePA`), no two virtual pages share one before a demotion (`EachPAOneVAUntilDemotion`), a promoted region never faults (`NoFaultInPromoted`), and memory is given up, by assertion or by `-1`, only once every page backs a mapping (`GivesUpWhenFull`) |
| `shared` | two threads of one application, 4 pages in 2 regions, promotion above 2 of 4 | The frame count of a stale walk is enough (`FramesSuffice`), frames keep distinct pages below the bump pointer (`FramesDistinct`), an update for a 4KB page never meets a 2MB entry (`NoWildLink`), a second fault on the same page and a promotion by the other core leave every mapping and every cached translation right (`SameVASamePA`, `TlbCoherent`), every fault is resolved or the assertion for promoted regions ends the simulation (`FaultsResolved`) |
| `radix` | two threads, pages 0, 1, 2, three levels of 2 entries, thresholds 0, 1 and 2 of 2, stores in any order | A torn walk never asks for too few frames (`RequestSuffices`); with the lock free no reachable word is uninitialised and all handled pages are found (`QuietTable`); a walk during which no update runs returns the page the handler chose (`QuietWalkReturnsMapping`); a page mapped when a walk starts is found whatever else is written, as long as promotion happens on first touch or never (`EstablishedKeptWhileLinksStay`) |
| `coherence` | two nodes under each protocol; three nodes under MESIF, two of which evict; a node of two cores and one of one under MESI; two nodes with entries for one sharer; two cores of one node; two lines in a set of one way, on one node and on two | No assertion of the controllers fires (`AssertionsHold`, with Redmine #175 excepted when there are more cores than ways, and claimed of entries for one sharer or for all), a node that may write a line is the only one that has it (`SingleWriter`), the hierarchy is inclusive (`Inclusion`), the directory knows every copy, replaced entries included (`DirectoryKnowsCopies`), a line in M holds the last store (`ModifiedKeepsLastWrite`), and on the smaller machines (`FairMachines`) every core that missed is answered (`Served`) |
| `skew` | three cores, quantum 1, one host core, timeouts of a quantum; one thread makes blocking calls, one creates threads | No running core is behind the global time, unless a thread came in with a time read before the lock (`GlobalTimeIsPast`); a barrier is not reached before the released cores have left the last one, when the host can run all cores but two (`RestartedBeforeNextBarrier`: four cores and one host core do break the assertion); a core that gave up waiting is not on the list (`OnlyWaitersInList`); every timed wait ends, in runs without end, whatever the other threads do (`TimedWaitsEnd`) |
| `sync` | three threads, a mutex, a condition, a barrier for two, two futexes | A thread that waits is registered in exactly one place and one that runs nowhere (`InOnePlace`), the manager's status is right but for a known early join (`StatusKnown`), running threads own exactly what they locked (`HoldersOwn`), nobody joins on the dead (`JoinNotStranded`), and timed waits return (`TimedWaitsReturn`) |
| `userspace` | three traces of five instructions, two code and two data pages with shared and separate table nodes, window 3, one uop per cycle | Whatever faults, in fetches and operands, the application's uops stay in program order and none is left out (`ProgramOrder`), the assertions of the thread hold (`ThreadAssertions`), application uops are in the buffer in kernel mode only after the fault of a fetch (`FlushedUnlessFetch`), no frame holds two nodes of the table (`OneTablePerFrame`), and the trace comes to its end (`TraceEnds`) |

Violations, each a line of the repository that the code does not keep (the
findings of `PROJECT.json`):

| Run | Property | What TLC finds |
|---|---|---|
| `demotion` | `EachPAOneVA` | `demote_page` calls `free(p, p + 1)` for each unused page `p`, but the end is inclusive: the page after it, in use or not, becomes free again and is handed out twice |
| `exact_count` | `LeavesExactly` | `fragmentMemoryToTargetCount`, which is to leave "exactly the specified number of 2MB pages", splits the first block of the highest order whole: with orders above 2MB (the shipped `max_order` is 12) it ends below the target |
| `stale_fault` | `SameVASamePA` | In fragmented memory two threads fault on one page; the second handler allocates another page and overwrites the mapping the first has cached |
| `replay` | `CommittedOnce` | The checkpoint of a fault holds the uops of the instruction that is being simulated, and the trace thread replays that instruction too: it is executed and counted twice |

Passing properties that state a limit rather than a promise. Some statements of
the repository do not hold, and the strongest thing that does is checked instead:

* `Terminates`: with the contiguity metric and a target below the mean that is
  left once no 2MB block can be cut, `fragmentMemory` loops for ever.
* `NoFaultInPromoted` holds for one core. Two threads that fault in one region do
  reach the assertion for promoted regions when the first promotes it (`shared`
  lets that end the simulation).
* `QuietWalkReturnsMapping` and `EstablishedKeptWhileLinksStay`: without their
  conditions both fail, even with stores in program order. A new frame is linked
  before its entries are initialised, so a walk can take what `new` left there
  for an entry; and a promotion sets `valid` over the link before it sets
  `is_pte`, so a walk of a page long mapped follows a damaged link.
* `StatusKnown`: a join on a thread that has not started yet is let go by that
  thread's start, still marked as stalled, and hits the assertion of
  `onThreadExit` if it exits so.
* `AssertionsHold`: with directory entries that name some but not all nodes, a
  sharer called back to make room for another is taken for the answer to a
  different demand. With room for two of three nodes the assertion against an
  upgrade of an invalid line (`cache_cntlr.cc:2547`) and the directory's "ooops"
  fire, so the property is claimed of entries for one sharer or for all nodes.
  `utopia_baseline.cfg`, `utopia_large_page_baseline.cfg` and
  `utopia_motivation_baseline.cfg` do select `limited_no_broadcast`; with the
  `max_hw_sharers = 64` of `base.cfg` they are within the claim up to 64 nodes.
* `TimedWaitsEnd`: the comment in `stallThread` says that the barrier is advanced
  when all threads are stalled, to wake those that wait with a timeout. When the
  last running thread exits (`onThreadExit`) or enters a system call instead of
  stalling, nothing advances it. The property therefore has a premise: the threads
  that ran have not all exited or stayed in system calls for good
  (`NobodyAdvances`). Without it the property fails.
* `ModifiedKeepsLastWrite` is about lines in M. `processWbRepFromL2Cache` hands
  the data of a write-back to the waiting reader and not to DRAM, both caches then
  hold the line in S and drop it without data, so the last store need not survive
  outside M. DRAM keeps bytes only when fault injection is on.
* `FlushedUnlessFetch`: a fetch that faults is noted and nothing more. The uops in
  the buffer stay there and are simulated while the kernel's trace is read, when
  `coreInitiateMemoryAccess` skips the translation.
* `OneTablePerFrame`: the walk asks for `level - 1` frames, next to a comment that
  counts the data frame too; the kernel puts the data page first in its answer, and
  `updatePageTableFrames` takes the answer for frames of the table. So the first
  new node of a table always lies on the page of the data that caused the fault.
  Between nodes there is no overlap.
* `ThreadAssertions` holds; the comment in `trace_thread.h` that an instruction is
  to be replayed if and only if a fault is noted does not, since the note is reset
  before the kernel runs and may be erased by a later walk.

Bounds and why they are enough. A 2MB page has 4 small pages: enough for a
region to be empty, partly used, at, below and above a threshold, and full, and
for a split to go through two orders. `MaxOrder = 3` in `buddy` gives one order
above 2MB, so the chunking of larger blocks runs; 9 pages leave a block of order
0 as remainder. `MaxBlocks` only limits how finely memory is shredded once
clients hold pages. Three levels of page table give an intermediate level that
is shared between regions, a level where 2MB entries live, and the leaf. One TLB
entry makes every fill an eviction. Two cores are enough for every property
here: each is about a pair of an earlier walk and a later handler. RadixWalk has 2
entries to a frame, so that an entry has a neighbour; pages 0 and 1 share a
region, 0 and 2 a level 2 frame. Several applications share only the allocator and
the bump pointer; what depends on that, `FramesDistinct`, is proved for any number
of them.

Coherence: one line is enough for everything but the directory's replacement of
entries, which two lines in one way exercise; lines interact nowhere else. Three
private nodes give an upgrade that loses against a writer while a reader is
served, and a forwarder that evicts. A core has at most one miss outstanding, as
in the code. `contended` are, for each node, the lines that share their cache
sets with others outside the model and may be evicted at any moment. With two
nodes, two lines and one way it is empty, which keeps that machine small: there
the lines only lose their directory entry. The machine of one node has both. Of the
three nodes two evict; the run with all three evicting passes too (511,621 states),
but leaves no time for the rest. `Served` is about the machines in `FairMachines`,
those of two cores or fewer; the others have no fairness and no claim.

BarrierSync: the code compares times, adds quanta and rounds to quanta, so
MCBarrierSync sets all times back by a quantum whenever the global time has come to
two (`SetBack`), and behaviours go on for ever in finitely many states; no property is
excused by a bound on time. Two things are cut. A clock further than `Lead` ahead of
the barrier time is set back to `Lead`, with its next check-in: nothing bounds the
lead in the code, because the wait in `synchronize` ends by itself after 1 ns, but
being ahead by more only means to wait longer. And a time more than a quantum behind
the global time, such as the clock of a thread stalled long ago, stays a quantum
behind. A core that leaves the barrier early and runs on overshoots it by `Lead`.
`Callers` and `Spawners` bound which threads make blocking calls and create others;
the theorems hold for any. One host core is the one limit that leaves a core of three
unsignalled. With batches of 1 and 2 the run passes as well (572,545 states). ThreadSync has no times: a
timeout lies ahead or has passed. Three threads are an owner, a waiter and a
newcomer; two futexes are what a requeue needs. The same properties hold with two
mutexes (40,489 states).
UserSpace: a window of 3 and one uop per cycle let a fault find older uops done,
younger ones dispatched and others still waiting. The traces have an operand that
faults behind one that has not been issued, two faults in one instruction, a fetch
and an operand that fault together, and a code page entered by a later
instruction. Two levels below the root are enough for requests of two, one and no
frames.

Deadlock is checked in `buddy` and `coherence`, where the system never stops. `one_core`, `shared` and `radix` can reach an assertion or a wild pointer,
after which the simulator really has ended; they say `CHECK_DEADLOCK FALSE`, and
`FaultsResolved` shows that nothing else stops a core. `skew` and `sync` say it
because threads exit, and because an application may deadlock by itself;
`userspace` because the trace ends, which `TraceEnds` says it always does.

Fairness. `PageFault!Fairness` is weak fairness of each core's own steps: host
threads keep being scheduled. Nothing is assumed about who gets the lock, and
nothing forces a core to issue an access. `Buddy` assumes weak fairness of the
start-up loop only, which is sequential code. `Coherence` has weak fairness of
every node's network thread and of the directory's unfinished handler, and strong
fairness of the directory's taking a message of a given sender: in the code the
directory reads one FIFO, so no message waits for ever, while the model keeps a
queue per sender. Cores need not access anything. `BarrierSync` has weak fairness
of a thread's way through the barrier, its waking and its start (`Proceeds`), and strong
fairness of `Run`: a running thread executes instructions again and again, whatever
calls it makes between. Nobody has to stall, exit or return from a system call.
`ThreadSync` has weak fairness of the passing of time, which BarrierSync provides,
and of the start of created threads; no application has to unlock or signal.
`UserSpace` has weak fairness of the one thread, and strong fairness of the
kernel's magic instructions: the code of `poll_for_signal` between two of them is
finite, so the thread does not read ordinary kernel instructions for ever.

Mutants. Every property of a passing run is broken by a mutant of a mapped
definition (the operators commented "Mutation"), such as a split that shares its
middle page, a larger block left on its list, a request that assumes a 2MB
mapping, or returning all frames instead of the unused ones. `TimedWaitsEnd` is
broken by a hook that wakes some thread whose timeout has passed, but not the first in
its queue (`WakesAny`); it is broken as well by a hook that wakes nobody, in every
release or only in those of a thread that came to the barrier.

## 4. What the proofs need

`PowersOfTwo` states the facts about powers that the provers have no theory of
(TLC evaluates them in every run). `BuddyAssumption` and the assumptions of
ReserveTHP and PageFault say what the constants are: the lists reach at least the
2MB order, a tree has at least 2 levels, a core touches natural page numbers.
`StartAssumption` says of the free lists a simulation starts from that they hold
every page once, in blocks of their order's size, those of 2MB or more aligned. It
is what `BuddyStartLists` proves of Buddy: construction and any fragmentation leave
such lists, as long as nothing has been handed out.
`BarrierConstants` says that there are finitely many cores, the quantum is
positive and times are natural numbers; `LeadAssumption` is about the run's bound
only. `RobAssumption` and
`UserSpaceAssumption` say that the window and the width are positive and that the
traces are sequences of instructions, each of at least one uop (the decoder never
returns an empty list: `instruction_decoder.cc:73-75`).
`RadixAssumption` says that pages lie in the range the levels can address, and
`PowersOfFan` states the facts about powers of the fan-out that the provers lack.
`MachinesAssumption` says that a node is a number, an entry can hold a sharer, the
directory set has a way and nodes evict lines of the machine;
`FairMachinesAssumption` that the machines `Served` is about are among those.

## 5. Theorems

**BuddyProofs.** For any memory size, kernel area and orders, and any sequence of
calls:

* `BuddySized`, `BuddyDisjoint`, `BuddyCountDrift`: `Sized`, `Disjoint` and
  `CountDrift` always hold.
* `BuddyKeepsPromise`: Buddy implements FrameAllocator.
* `BuddyStartLists`: while nothing is held the lists are `WellFormed` and hold all
  of memory.

The invariant `BuddyInv` says that the lists are `Good` (sequences of blocks, of
their order's size, separate, aligned from 2MB up) and that free and held pages
divide memory. `Separate` is what keeps the removal of one block from leaving its
pages free in another; alignment is needed because `reserve_2mb_page` cuts larger
blocks into chunks and promises an aligned one. Every operation is shown to be of one
form, `Replaced`: one block leaves its list and blocks within it are appended.
`ReplacedPages` says once what that does to the pages; what differs is which
blocks remain. `allocate` leaves the halves, `checkIfFree` the siblings, and both
are nested sets of which each order holds a ring (`Nested`, `RingPages`).
`StepEffect` then reduces a step to three cases: it rearranges, hands out a run, or
takes one back.

**PageFaultProofs.** For any cores, applications, pages, levels, threshold and
fragmentation of memory:

* `TypeCorrect`: `Spec => []TypeOK`.
* `RequestedFramesSuffice`: `Spec => []FramesSuffice`, the assertion in
  `updatePageTableFrames`.
* `PageTableFramesDistinct`: `Spec => []FramesDistinct`.
* `UpdateFollowsLinks`: `Spec => []NoWildLink`.
* `OneVirtualPagePerFrame`: `Spec => []EachPAOneVAUntilDemotion`.
* `SameVirtualSamePhysical`: `Spec /\ []SharedServed => SameVASamePA`, and
  `TlbsCoherent`: `Spec /\ []SharedServed => []TlbCoherent`.
* `PrivateRegionsKept`: both without that condition, if no two cores touch one 2MB
  region (`PrivateRegions`).
* `PromotedRegionsNeverFault` and `MemoryUsedUp`: `NoFaultInPromoted` and
  `GivesUpWhenFull` for `PrivateRegions`.

The first four follow from `Invariance`, `Spec => []Inv`, with `Inv` the conjunction of
`TypeOK`, `FramesSuffice`, `FramesDistinct` and four parts none of them is
inductive without:

* `Exclusive`: only the lock holder is between allocation and update, so `result`
  belongs to it;
* `Busy`: a core that is not idle has an access, so the levels of its page are
  defined;
* `HugeIsPromoted`: a 2MB entry exists only for a region the allocator has marked
  promoted. This is what connects the page table with the allocator: the
  allocator asserts on promoted regions, so the handler never installs a 4KB page
  under a 2MB entry;
* `ResultFits`: during an update, a 4KB `result` is for a region that is not
  promoted and a 2MB one for a region that is.

The central argument is `MissingShrinks`: an update by any core only removes
levels from the set another core's walk found missing, even when it replaces a
level 1 frame by a 2MB entry, since that entry takes the place of the frame. So
the count read before the lock is an upper bound for ever, and frames returned to
the bump pointer (`requested - needed`) are never negative in number.
`FramesDistinct` rests on it: new frames lie in
`kernel_start .. kernel_start + needed - 1`, and the pointer ends above them.

The hypotheses of the others. `SharedServed`: every region that several cores
touch has its 2MB block, or there is one left for it. `stale_fault` is what happens
otherwise: the second of two faults on one page gets another page. In `shared` the
condition holds in every state; with one core, or cores that stay apart, it holds
by itself. `PrivateRegions` is needed for `NoFaultInPromoted` since a core whose
walk faulted before another promoted the region does reach the assertion; for
`GivesUpWhenFull`, since a page overwritten in a table by such a fault backs nothing.

The invariants. `Placement` says where everything points: a 4KB entry of a region
with a block to its own offset in that block, a 2MB entry to the block itself, and so
does `result` until it is entered. An entry of a region without block exists only
once no 2MB block is left (`EntriesHome`); since 2MB blocks never come back, a
region has all its pages in its block or none, and promotion moves no page.
That they never come back has to be shown through demotion too: `FreedTurns` follows
`demote_page` turn by turn, by induction, and shows that freeing pairs of pages
leaves blocks of their size and aligned (`Tidy`), though they may overlap, which is
the `demotion` finding. `Apart` says of the other pages that before a demotion they
are free or back one virtual page. `Faults` is about regions of one core: nobody maps
a page while its owner handles the fault, and a promoted region has its 2MB
entry or its core is entering it. `Supply` accounts for every page of memory: free,
spare in a reserved block, mapped, or about to be. A region demoted because it is the
least used makes its spare pages free, and if it has none, none has (`NoSpareLeft`);
so when the retry fails nothing is spare and all pages are mapped.

**BarrierSyncProofs.** For any number of cores, any quantum, any limit on the
cores released at a time, any steps and timeouts:

* `BarrierTypeCorrect`: `Spec => []TypeOK`; the list of released cores never
  has a negative length, whichever call takes one from it.
* `BarrierGlobalTimeIsPast`: `Spec => []GlobalTimeIsPast`.
* `BarrierOnlyWaitersInList`: `Spec => []OnlyWaitersInList`, the assertion of
  `synchronize`.
* `BarrierRestartedBeforeNext`: `Spec => []RestartedBeforeNextBarrier`.

The first three follow from `BarrierInvariance`. The invariant adds
`ClocksNotedAreReached`: the clock the server has noted for a core is never ahead
of the core's own. With it a barrier that all noted clocks have reached has been
reached by all running cores, so the new global time is not ahead of any; a woken
thread goes on at the time of the barrier that woke it or of a thread that runs.
The steps of the server (`ReleaseStep`, `SignalStep`, `AdvanceStep`) are proved
once, for any status the calling thread has given itself, and used for every call
that ends in them. The last one adds `OneLeft`: with enough host cores a release
leaves at most one core unsignalled, because the core that releases the barrier is
not among those it releases, and whichever call comes before the next release
signals that one.

**ThreadSyncProofs.** For any number of threads, mutexes, conditions and futexes
and any barrier count:

* `ThreadStatusKnown`, `ThreadInOnePlace`, `ThreadHoldersOwn` and
  `ThreadJoinNotStranded`: `StatusKnown`, `InOnePlace`, `HoldersOwn` and
  `JoinNotStranded` always hold.

The invariant is stated over queues and joiners as parameters, so that it can be
spoken of in the middle of a call: a stall runs the periodic hook before the thread
sleeps, and one call wakes several. `Registered` gives each waiting thread one entry,
in a queue or as a joiner. `Owned` is what `HoldersOwn` lacks: a thread in a condition
wait counts the mutex it will lock again as held while another owns it, and a mutex
without owner has an empty queue, so a thread that is handed a mutex is the only one
to have it. What a wake-up does is described once (`Less`, `Takes`): some
threads leave queues, all others keep their entries; each call is then a
wake-up followed by at most one stall.

**UserSpaceProofs.** For any window, width, page table and traces:

* `BufferFlushedUnlessFetch`: `Spec => []FlushedUnlessFetch`.
* `TraceThreadAssertions`: `Spec => []ThreadAssertions`, the assertions on the
  fault branch and on the replay.
* `TableFramesDistinct`: `Spec => []OneTablePerFrame`.

The first two follow from `UserSpaceInvariance`. `FaultOK` is the part that makes the
invariant inductive: a fault is noted only while an application instruction is in
hand, and if the buffer is not empty then, the fault is that of its fetch. An
operand that faults empties the buffer, and one that is translated by a walk
erases the note. `ThreadOK` says which instruction that is: in application mode
nothing is kept for a replay, in kernel mode what is kept is the pair the thread
still has. The stages of the reorder buffer are lemmas of their own. The third rests
on `FramesOK`: every frame in the table has been handed out by its pool, and the
frames of an answer have not.

* `UopsInProgramOrder`: `Spec => []ProgramOrder`.

The invariant `OrderOK` says where the application's uops are: in the buffer or in
the checkpoint, never in both (`Ordered`), the first ones there, and each following
its predecessor, that is of the same instruction or of the next one if the
predecessor is the last uop of its own (`Follows`); the very first goes on after the
last instruction committed. `InHand` connects them with the thread: the instruction
in hand is the newest one of which uops are in flight, or the one after it while
it is to be handled, so that what `simulate` appends after a replay fits behind what
the checkpoint restores. That is also why an instruction must have at
least one uop.

**RadixWalkProofs.** For any threads, levels, entries to a frame and threshold, and
stores that reach memory in any order:

* `RequestsSuffice`: `Spec => []RequestSuffices`.
* `QuietTables`: `Spec => []QuietTable`.
* `QuietWalks`: `Spec => []QuietWalkReturnsMapping`.
* `EstablishedKept`: `Spec => []EstablishedKeptWhileLinksStay`.

All follow from `WordsInvariant`. The invariant says that there are two functions,
`lv` and `px`, that give each frame its level and the part of the address space it
covers, as they were when it was linked; no store ever changes them. With them each word can be
judged by itself: `Settled` lists the values it may hold (empty, the link to a frame
of the level below with the right prefix, or an entry for the right page), and
`Entries` says the same of a word with stores under way, whichever of them the load
returns. So every frame a walk reaches, however torn, is one of the right
level for its page (`WalkOK`), and a store that reaches memory late is benign: the
word could be read as that value before (`Benign`). For the request count the
invariant is `Missing`: the levels used so far and the level reached together
never exceed what was requested, because a region once promoted stays promoted and links only
appear. `SureOK`, under `LinksStay`, follows a walk that
started with its page mapped: no link on its way is ever taken back. `QuietTable`
descends from the root with a recursive function (`Descent`), by induction on the
level.

**CoherenceProofs.** For any protocol variant, cores, nodes, lines, ways and number of
sharers an entry can hold:

* `WritersAreSingle`: `Spec => [](Running => SingleWriter)`.
* `CopiesAreKnown`: `Spec => [](Running => DirectoryKnowsCopies)`.
* `HierarchyInclusive`: `Spec => [](Running => Inclusion)`.
* `LastWriteKept`: `Spec => [](Running => ModifiedKeepsLastWrite)`.

`Running` is that no assertion has fired; one that fires ends the simulation. The
condition is needed, because with entries limited to fewer sharers than nodes
assertions do fire (section 3), and what the caches hold after that is nobody's
concern. The invariant `Sound` has a part for the home of each line (`HomeOK`), one
for each node and line (`NodeOK`) and one for what happens within a node (`LocalOK`).
The copy a node has of a line is treated as one token: it is in the cache, on
its way to it, given back, or waited for from memory, and at most one of these
(`OneToken`); wherever it is, the directory counts the node as a sharer (`Known`). This
is what makes `DirectoryKnowsCopies` inductive. `OneRequest` says that a node has at
most one request or reply under way for a line, and that a core waits for it.
`Exclusive` ties the right to write to the directory's state, where a state of E or M
has one sharer (`EntryOK`), so a writer is alone. The awkward part is a demand that
crosses with a reply or an eviction: `WbOK` and `FlushOK` say for whom a write-back
or flush is still awaited, and that one nobody awaits any more finds no copy when it
arrives. The order of messages matters only within one queue and one line, so the
proof speaks of queues through three predicates (`Has`, `Then`, `Then3`: one, two or
three messages in this order) and shows once what appending and taking a message
does to them. `LocalOK` has at most one modified first-level copy, below a
last-level M, and says that it holds the last write.

Only model-checked, and why:

* Liveness under fairness (`Terminates`, `FaultsResolved`, `Served`, `TimedWaitsEnd`,
  `TimedWaitsReturn`, `TraceEnds`): out of the prover's reach.
* `AssertionsHold` of Coherence: that no assertion fires depends on the number of
  sharers an entry can hold, and for Redmine #175 on a count of all waiting cores.

Induction. The library's induction theorems take an operator as parameter and
cannot be used, but induction in the form "this set holds 0 and with n also n + 1"
(`NatSetInduction`) can. With it the loop of `demote_page`, written as a
recursive function, and the least and greatest elements behind `Min` and `Max` are
proved about.

## 6. Not modelled

* Root frames: every application's root uses emulated page 0 in the code, so
  `FramesDistinct` is about the frames below the root.
* Time: latencies, statistics, queues, page walk caches, prefetching. They do not
  feed back into the mappings in this configuration.
* `deletePage`, which the fault path does not call.
* Of the caches: NUCA, prefetching, write-through and perfect caches, uncached
  accesses, latencies and bandwidth. What siblings on a node see of each other's
  stores: `copyDataFromNextLevel` gives a reader the last level's M while a sibling
  stays in S, and the code states nothing of it. The buffer that `setDataBuf` keeps after its message is gone.
* Of the threads: fast-forward mode, SMT groups, switching the barrier off,
  schedulers that migrate threads, masks of futex waiters, `parkCore` and
  `unparkCore`, which nobody calls.
* Of the user-space mode: warm-up and fast-forward modes, ChampSim traces, the stop
  request, the kernel's exit when memory is used up, answers with 2MB pages, walks
  of the TLB prefetchers, more than one thread (the code uses thread 0 of
  application 0). Of the reorder buffer: times, the load and store queues,
  serialising uops and fences, which only delay an issue. That the kernel executes
  at least one ordinary instruction between two magic instructions is assumed.
* Walker MSHRs: `min_time` starts at zero and is only ever lowered, so a full file
  is never charged a delay; it changes latencies only.
* The end of the kernel area, which the code does not check either.
* Isolation between applications: reservations are keyed by virtual region only,
  so two applications that touch one region share its physical pages. The code
  makes no statement about it, and `EachPAOneVA` is stated per virtual page as in
  the code.
* Everything in the inventory that `PROJECT.json` lists as `not_modelled`.

## 7. Plan

Built: BuddyOps, Buddy, FrameAllocator, ReserveTHP, PageFault, RadixWalk, the
directory protocol, the skew barrier and the thread servers, the user-space mode
with the reorder buffer, and the proofs about Buddy, PageFault, RadixWalk,
Coherence, BarrierSync, ThreadSync and UserSpace.
Next, in this order:

1. **TlbHierarchy** - levels, page sizes and the cascade of evictions.
2. **SwapCache**, **HugeTLBfs**, **EagerPaging**, **Baseline** with the
   instruction area, on BuddyOps.
3. **NumaBuddy** and CXL tiering: one buddy per node, fallback order, migration.
4. **CuckooTable** - insertion, displacement and resize against a map.

Theorems planned: that RadixWalk implements the table of PageFault when no update
runs; `AssertionsHold` of Coherence for entries that can hold every node.
