# Kernel-Sanders in TLA+

A verification development for the Pintos kernel under `src/`: TLA+ modules
translated from the C sources, TLC configurations that check them on small
instances, and TLAPS proofs that hold for every value of the constants.

Paths below are relative to `src/src/`.

## 1. The system

The kernel runs on one CPU. Threads are preempted by the timer; code that must
not be interrupted turns interrupts off, and a thread switch then happens only
where the thread blocks. Interrupt handlers run with interrupts off. So a step
of a model is a stretch of code with interrupts off, or, where interrupts are
on, the code between two accesses to shared state.

### Parts, their state and their operations

| part | sources | state | operations |
|---|---|---|---|
| scheduler | `threads/thread.c` | status, priority, ready list, `thread_waiting`, time slice | create, block, unblock, yield, exit, set priority, tick |
| locks, semaphores, conditions | `threads/synch.c` | value and waiters, holder, donations, `lock_needed` | down, try_down, up, acquire, try_acquire, release, wait, signal, broadcast |
| timer | `devices/timer.c` | sleeping list, wake times | `timer_sleep`, `timer_interrupt` |
| interrupts | `threads/interrupt.c` | interrupt level | `intr_enable`, `intr_disable`, yield on return |
| reader/writer lock | `filesys/cache.c` | `r`, `extra`, `g`, `b` of each block | read/write begin, try, end; upgrade, downgrade |
| buffer cache | `filesys/cache.c` | blocks, sectors, dirty and valid bits | find, load, evict, write behind, read ahead |
| process table | `userprog/process.c`, `lib/kernel/list.c` | entries, free list, lists of children | exec, load, wait, exit |
| console | `devices/intq.c`, `serial.c`, `input.c`, `kbd.c`, `lib/kernel/console.c` | two interrupt queues, interrupt enable register, console lock | getc, putc, interrupt handlers, flush |
| inodes, directories, free map | `filesys/inode.c`, `directory.c`, `filesys.c`, `file.c`, `free-map.c` | open inodes and counts, sectors, entries | create, open, read, write, extend, remove, close |
| virtual memory | `vm/frame.c`, `page.c`, `swap.c`, `userprog/exception.c` | frame table, supplemental page tables, swap slots | fault, evict, pin, unpin, free |
| files and mappings of a process | `userprog/syscall.c` | descriptor and mapping tables | open, close, mmap, munmap |
| allocators | `threads/palloc.c`, `malloc.c` | bitmaps, arenas, free lists | get, free |
| feedback scheduler | `threads/thread.c`, `fixed_point.c` | `recent_cpu`, `load_avg`, `nice` | per tick, per second updates |
| start of the kernel and of a program | `threads/init.c`, `userprog/process.c` | command line, segments, stack | parse, load, set up |
| devices | `devices/kbd.c`, `rtc.c`, `partition.c`, `block.c` | shift state, partitions | interrupt, read, scan |
| libraries | `lib/`, `lib/kernel/` | lists, hash tables, bitmaps, strings | the usual ones |

The scheduler and the synchronisation primitives are under everything else.
The reader/writer lock is built from locks and semaphores and protects the
blocks of the cache, which inodes, directories and the free map read and write
through. The process table is used by exec, wait and exit and puts threads to
sleep by itself, with `blocked` flags and `thread_block`. Page faults evict
frames to swap and to files, and so meet the file system from below.

### What is hard in it

 - A thread loses the CPU between any two statements: between taking a lock's
   semaphore and writing `holder`, between a test of the free list and the pop,
   between `lock_release` and `sema_down` in `cond_wait`.
 - The wake-up protocols (`sema_up`, the sleeping list, `blocked`, the waiter
   fields of an interrupt queue) must not lose a wake-up.
 - One list element serves several lists, in threads and in process entries.
 - Priorities change while threads wait, along chains of locks.
 - Fields that cache a fact (`lock_needed`, `parent_pid`, `thread_ptr`, the
   interrupt enable register, the sector of a cache block that was found without
   a lock, the slot a page was swapped to) are stale in some interleavings.
 - Data move while they are used: a frame is evicted while its owner writes to
   it, a block is loaded while another thread waits for its old sector.

`PROJECT.json` lists these hazards line by line.

## 2. Modules

| module | models | extends or uses |
|---|---|---|
| `Sched` | ready list, thread switch, `thread_waiting` | |
| `Synch` | `synch.c`, `timer_sleep`, thread operations, timer and idle | `Sched` |
| `SynchProofs` | the theorem on locks | `Synch` |
| `RwLock` | the reader/writer lock of a cache block | uses the promise of `Synch`: locks exclude |
| `RwLockAbs` | what that lock promises | refined by `RwLock` |
| `BufferCache` | blocks, lookup, eviction, write-behind, read-ahead | composes `RwLock` with the cache |
| `RwLockProofs` | lemmas on the lock of one block | `BufferCache` |
| `CacheLockProofs` | the theorems on the locks | `RwLockProofs` |
| `Process` | process table, exec, wait, exit, linked lists | uses `thread_block`/`thread_unblock` |
| `IntQ` | the circular buffer of `intq.c` | |
| `Console` | input buffer, serial port, console lock | `IntQ`; uses the promise of `Synch` |
| `Fifo` | what a buffered stream promises | refined by `Console`, twice |
| `ConsoleProofs` | the circular buffer, the inductive invariant | `Console` |
| `ConsoleFifo` | the refinement of `Fifo` | `ConsoleProofs` |
| `Inode` | inodes, free map, the cache as one thread sees it | |
| `Directory` | directories and paths | `Inode` |
| `FileCalls` | system calls on files, fsutil, shutdown and restart | `Directory` |
| `Vm` | frames, pages, swap, page faults, mappings, pinning | |
| `List`, `Hash`, `Bitmap` | `lib/kernel/` | |
| `Strings`, `Stdlib`, `Stdio`, `Arithmetic`, `Random`, `Ustar` | `lib/` | |
| `Partition`, `Kbd`, `Rtc` | `devices/` | |
| `Mlfqs`, `Malloc`, `Boot` | `threads/` | |
| `Loader` | command line, program headers, segments, stack of a new process | |
| `Library`, `KernelCalls` | the calls to the sequential modules and what they promise | instances of the above |
| `MCSynch`, `MCBufferCache`, `MCProcess`, `MCConsole`, `MCFileCalls`, `MCVm` | instances for TLC | |

### Sched and Synch

`status`, `priority`, `current`, `ready_list`, `thread_waiting` and
`thread_ticks` are the variables of `thread.c` with these names. `pc[t]` is the
place of thread `t`; the header of `Synch.tla` lists the places. Each function
of `synch.c` is an action or a short sequence of actions, cut where interrupts
are on: `lock_acquire` tests the holder (`AcquireCheck`), donates
(`thread_donate_priority`, then `donate_chain` once per link), takes the
semaphore (`sema_down`) and writes `holder` (`set_holder`). `lock_release` is
`ReleaseStart`, `clear_holder` and `sema_up`. `cond_wait` names its semaphore
after the waiting thread. `intr_enable` looks at `thread_waiting` and yields.
`timer_interrupt` is the whole interrupt: `ticks`, the sleepers, the end of the
time slice and the yield on the way out. A failed `ASSERT` or a use of a freed
thread sets `panic`, after which nothing runs.

Callers keep three rules, which the code relies on without testing them: only
the holder releases a lock, a thread holds no lock when it exits, and locks are
waited for in the order `LockRank`.

### RwLock and BufferCache

One action per access to `r`, `extra` and `g` of a block's lock. `hold[p][c]`
records what process `p` has of block `c` and is the refinement mapping to
`RwLockAbs`, whose five actions say: a reader starts only where nobody writes, a
writer only where nobody is, the only reader may become the writer, a writer may
become a reader.

`BufferCache` runs the cache over these locks: `cpc[p]` is the place in `cache.c`,
`lpc[p]` the place inside the lock operation it called. `find_block` looks for the
sector without a lock (`find_block`, `hit`, `check`), scans for a free block or a
victim (`scan`, `scan_free`, `scan_used`, `evict`, `compare`), writes the victim
out (`write_out`), reads the sector (`import`), writes the block's fields (`store`),
downgrades, and asks for the next sector (`request`, in `ahead`); `cache_write_end`
gives up the lock first and marks the block afterwards (`write_end`, `write_mark`);
the refresher writes dirty blocks back. The read-ahead thread calls `find_block`
with the sector that was asked for (`cache_read_ahead`) and never gives the read
access back (`read_ahead_done`). A process is a user of the cache, the refresher, a
request to read ahead, or one that uses a single lock in every possible way; which,
and what the cache holds at first, is chosen in `Init` among the `Casts`. The
contents of a sector are the process that wrote last.

### Process

Entries of `process_table` are records, lists are the `next` and `prev` links
of `list.c`, and `list_remove` and `list_push_back` take one step per link they
write, since nothing protects them: a stale element damages a list here as in
the code. `process_execute` is cut at every access to the table:
`process_table_get`, `thread_create_ptr`, `set_ptr`, `set_dir`, `await_load`,
`loaded`, `adopted`. `start_process` is `load`, `set_running`, `report`;
`process_wait` is `await_exit`, `reap`, `reaped`; `process_exit` is `walk`,
`disown`, `advance`, `leave`, `wake`, `die`. `main` runs one task after the
other and waits for each. What a behaviour may meet (programs that cannot be
loaded, no page for a thread, relative paths, a program that leaves its child, two
programs that run at the start) is one of the `Settings`, chosen in `Init`. The last
kind starts from `Crowded`, a state that a longer behaviour from `process_init`
reaches: main waits for process 1, which has a child that runs and one that is dead.
`raced` is a history variable. It becomes true when two threads are inside changes of
the free list at once (`AtFreeList`), and when an entry that is on no list is about to
be removed from one while its old neighbours have moved (`StaleLinks`).

### Console

`queue["in"]` is `buffer` of `input.c`, `queue["out"]` is `txq` of `serial.c`.
Everything runs with interrupts off, so a call of `input_getc` or `serial_putc`
is one step until the thread blocks, in `lock_acquire` or in `wait`.
`serial_interrupt(n)` is the whole handler, with `n` bytes taken by the port;
`receive` is the port itself (external). `serial_putc_off` is `serial_putc`
called with interrupts off, which polls when the queue is full. The recursion
depth of the console lock and the VGA display are left out; `Kbd` has the modifier
keys. Bytes are told apart by who wrote them or by when they came in.


### Inode, Directory and FileCalls

The file system is a record `k` (the header of `Inode.tla` lists its fields), and
each function of `inode.c`, `free-map.c`, `directory.c` and `filesys.c` is an
operator from `k` to `k`. A sector is a sequence of words and nothing says what a
word means, so an inode that is read from a sector with other contents is read as
the code reads it. `FileCalls` has one action per system call on files, per command
of `fsutil.c`, for what the cache does between calls (`Evict`, `Refresh`) and for a
shutdown with the next start (`Restart`). `read` and `write` go page by page
through the caller's buffer, of which a part may be invalid, which ends the process
in the middle. `content` is the history of what was written; `fs.lost` and `leaked`
count the references and sectors that the code is known to lose, at the place where
it loses them.

### Vm

`frame_table`, the supplemental page tables `spt`, the page directories `pd` with
their bits, `in_use` slots, the memory and the files are variables. Processes
interleave where a page is half moved: before `frame_lock`, between the choice of a
victim (`frame_create_evict`) and its eviction (`frame_evict`), while a victim is
written out, between the test of `evicting` in `pin_page` and the pin
(`pin_page_count`), after `frame_create` has put a frame without a page on the table,
while data are read, and while a system call copies into a pinned page. The
accesses of user code (`access`) and the faults they cause are actions. Which pages
each process touches is chosen in `Init` among the `Casts`.

### The sequential modules

Lists are links (`List` has the merge sort run by run), hash tables are lists per
bucket with resizing, bitmaps are elements of `ELEM_BITS` bits, strings are
sequences of characters, `printf` works on sequences of characters with integers of
small width, division is done word by word as in the code, the heap has pages,
arenas and free lists. `Library` and `KernelCalls` instantiate them with small
widths and sizes; a behaviour makes one call after another with any arguments of a
small set, and what the properties compare with is stated without the code's
algorithm: a stable permutation, a set, a map, a prefix, an exact quotient.
Sequences of calls matter for the hash table (`HashStep`), the keyboard
(`KeyEvent`) and the heap (`HeapStep`), which have state.

## 3. Runs

| run | instance | checks |
|---|---|---|
| `synch_safe` | 3 threads, 1 lock with its condition, 1 semaphore, ticks, 4 calls | `TypeOK`, `LockExclusion`, `NoLostWakeup`, `ElemOnOneList` |
| `synch_priority` | 4 threads of rising priority, 1 lock, 1 semaphore, no ticks, 6 calls | `NoPriorityInversion`, `HighestRuns` |
| `synch_live` | 3 threads of two priorities, 1 lock with donation, sleeps, 4 calls, fairness | `EveryThreadFinishes` |
| `synch_signal_assert` | 3 threads, a condition, ticks | `SignalFindsWaiter`, violated |
| `cache` | 3 users of one lock with 3 operations each; 2 users of 2 blocks and 3 sectors, with an empty and a full cache; a user and the refresher; a user and a request to read ahead; fairness | `TypeOK`, `RwExclusion`, `DowngradeAssertion`, `CacheCoherent`, refinement `AbsSpec`, `EveryOperationReturns` |
| `rw_upgrade_stuck` | 3 users of one lock, fairness | `UpgradeCompletes`, violated |
| `console` | 2 readers, 2 writers, queues of 3 slots, 3 keys, 2 prints, fairness | `TypeOK`, `WaiterSound`, `IerCovers`, `OutputNotMixed`, refinements `OutSpec` and `InSpec`, `PrintReturns` |
| `proc` | main, a program and its children, 4 threads, 5 entries, six settings, fairness | `TypeOK`, `OneThreadPerEntry`, `WaitAfterExit`, `ListsSound`, `NoEntryLost`, `NoStaleParent`, `AssertionsHold`, `CallsReturn` |
| `proc_walk` | a program that exits with its child left | `WalkAssertion`, violated |
| `files` | 2 processes, 24 sectors, one direct and one single indirect entry per inode, any 4 calls | `SectorsAccounted`, `ContentsKept`, `HandlesCounted`, `StopsForCause` |
| `vm` | 2 processes, 2 frames, 2 swap slots, three choices of pages | `PageContentsKept`, `FrameTableSound`, `SwapSlotsSound` |
| `library` | calls of all sequential routines with small arguments | `ContainersCorrect`, `TextCorrect`, `DevicesCorrect`, `StartupCorrect`, `HeapCorrect` |

The properties of `library` are conjunctions of one property per routine or
family, each with its own comment in `Library.tla` and `KernelCalls.tla`.

### What the violated claims show

 - `SignalFindsWaiter`: `cond_wait` releases the lock before it is on its
   semaphore's waiters. A `cond_signal` in between finds a nonempty list in which
   no semaphore has a waiter, and `ASSERT (next != NULL)` (`threads/synch.c:352`)
   fails.
 - `UpgradeCompletes`: two upgrading threads and one reader wait for each other
   through `extra`, `g` and `r` (`filesys/cache.c:196`).
 - `WalkAssertion`: `process_exit` frees a dead child, which moves its element to
   the free list, and steps on from there (`userprog/process.c:402`).

### Properties that hold up to named events

In `BufferCache`, `Vm` and `FileCalls` the code can do something after which its
state is not sound any more. The models have these steps; they end the behaviour,
with a name in `broken` or `panic`, and the properties say that everything is right
until then and that there is no other way out. Hiding none of them is the point of
the runs, and each is reachable in its run.

 - `BufferCache`: a block is found by its sector without a lock and has another
   sector when the lock is there; two threads miss one sector and load it twice; a
   writer marks its block dirty only after it has given up the lock, and the block
   is evicted before; every block is locked when a miss looks for one; and the
   sector after the last one is read ahead, which fails `find_block`'s assertion
   (`filesys/cache.c:229`). `CacheCoherent` adds that one user of the cache beside the
   refresher meets none of these but a locked cache. A lock can be stuck in the three
   ways that `Stuck` describes: the deadlock of `UpgradeCompletes`; a loader that
   waits for `r` in `cache_downgrade` while a reader of the old sector has it and
   waits for `g`; and a block that was read ahead, of which the read-ahead thread
   keeps the read access, so that nobody can write it any more.
 - `Vm`: the scan for a victim meets a frame whose page is not set yet, or one whose
   data are still being read; a victim is pinned after it was chosen, and `unpin_page`
   fails an assertion; a page is written to between its write-out and its
   unmapping; a process that waits for `frame_lock` to free a frame finds it freed;
   a page that was read back frees its old slot again, which is another page's by
   then; the swap is full; `mmap` returns with `mmap_lock` held when the table is
   full.
 - `FileCalls`: `block_clear` clears a reused sector on the device only, and the
   cache still has its old contents (`fs.stale`), so that `ASSERT(*sector == 0)`
   fails or old sectors become part of a new file; a second sector below the double
   indirect one fails the same assertion, because `grow_double_indirect` grows the
   first level whenever the second index is 0; the free map has four times as many
   bits as the device has sectors, so that a full device is found out by an access
   past its end (and the failure paths of `inode_extend` are unreachable); `fsutil`
   commands on a file that is not there.

### Where the code and its comments differ

The sequential routines are checked against what the code does, and in four places
that is not what a comment says. The property states exactly how far they agree:

 - `lib/kernel/bitmap.c:316`, "If CNT is zero, returns 0": `bitmap_scan_and_flip`
   returns `start` (`BitmapIsSet`).
 - `lib/arithmetic.c:128`, `143`, `161` and `171` promise the remainder of 64-bit
   operands. `umod64` and `smod64` return 32 bits, so the result is the remainder if
   and only if it fits a word (`DivisionExact`).
 - `devices/partition.c:33`, "Reads the partition table in the given SECTOR": line 79
   reads sector 0 whatever `sector` is. An extended partition seems to hold the
   partitions of the primary table, and the scan never ends if an extended partition,
   moved by its own offset, is on the disk again (`PartitionScan`).
 - `userprog/process.c:213`, "Need to make sure the stack doesn't grow too large": the
   test comes after the character is taken, and the word that begins with it was not
   counted. The return address can be one word below the page (`ArgumentsPassed`).

### Limits of the properties that hold

Each property holds in the environment of its run. These are the borders that
exploration beyond the runs has shown:

 - `NoPriorityInversion` and `HighestRuns` are about one lock and no timer ticks.
   `lock_needed` is never cleared. With one lock, a donation to a thread that has
   got the lock since walks round on that lock (`threads/thread.c:464`) for as long as
   the walker has the CPU; the holder has the walker's priority by then and gets on at
   the end of the time slice, so that the walk ends (`EveryThreadFinishes`), possibly
   in the failed assertion at line 465, because the lock has no holder any more, or at
   a thread that has exited. These are `HolderGone`. With two locks the walk can also
   get to a lock that nobody waits for.
   A holder that lowers its own priority can fall below a waiter that had
   no reason to donate. A thread that a tick wakes does not preempt the running
   one: `thread_waiting` is tested by `intr_enable` only. That is why
   `thread_set_priority` and ticks are in `synch_safe` and not in
   `synch_priority`.
 - `OneThreadPerEntry`, `WaitAfterExit`, `ListsSound`, `NoEntryLost` and
   `NoStaleParent` hold until `raced`. The free list is tested, popped and pushed to
   with interrupts on, and the run shows what follows: two processes that free entries
   at once lose one; two that take the last entry at once fail the assertion of
   `list_pop_back`, which `AssertionsHold` therefore allows after a race, and only
   then. `process_execute` frees an entry on no list when there is no page for a thread
   (`userprog/process.c:145`): `list_remove` then writes to the elements that were its
   neighbours when it was popped, which are not neighbours any more if another process
   has taken or freed an entry since.
 - All of these but `NoStaleParent` need programs that wait for their children: an
   orphan goes on using its entry after it has freed it, and a child that tests
   `parent_pid` just before its parent clears it leaves an entry that nobody frees
   (`userprog/process.c:408`). `NoEntryLost` also needs loads that succeed, since after
   a failed load the child's entry is never freed.
 - `AssertionsHold` lets two assertions fail: `thread_ptr` and the working directory
   of a child are stored after the child is made ready, so the child can sleep
   before it can be woken, and look up a relative path without a directory;
   each fails only while the parent still has that store to do.
 - `SectorsAccounted` counts as leaked what the code leaks: the data sectors of a
   file whose creation fails because its name is taken, and removed files that are
   open at shutdown. `HandlesCounted` counts the references that `resolve_path`
   (a file in the middle of a path), `process_exit` (the working directory) and
   `fsutil_ls` never give back.
 - In `Console`, a second reader that slept in `lock_acquire` calls `wait` without
   a new look at the queue, and the assertion of `wait` fails if a key has come
   in; the run has this, as `panic`.

### Bounds, and why they are enough

 - `synch_*`: three threads are a holder, a waiter and a third that is woken,
   preempts or signals; the fourth in `synch_priority` is the thread of middle
   priority that an inversion needs. Four calls are the shortest use of a condition
   variable (acquire, wait, acquire, signal), and six let a lock be handed on twice.
   `TIME_SLICE` is 2 in `synch_safe`, so that a tick may or may not end the slice,
   and 1 elsewhere.
 - `cache`: blocks share no state in the lock, so the users of a lock have one; three
   of them with three operations each are a reader group of two with a writer or an
   upgrader, and the two upgraders and a reader of the known deadlock. Two blocks and
   three sectors make every miss of a full cache evict, with one block to prefer to
   another. Of four sectors the last is within reach of a request to read ahead.
 - `proc`: main, a program and its child have a free list with room; the two settings
   with two running programs have one free entry, so that both can find it, and two
   entries that are freed at the same time. A thread structure to which there is no
   pointer any more is as good as any other (`FreeThreads`).
 - `console`: queues of three slots hold two bytes and wrap around; two prints of two
   bytes fill one and make a writer wait; two readers meet on the lock of the queue.
 - `files`: 24 sectors with sectors of a few words let a file grow through its direct
   and single indirect sectors into the double indirect one and let the device run
   full. A file starts with two sectors, from which it can grow into the first sector
   below the double indirect one, or with two sectors below it. `MAX_FILES` of 4 and `MAX_GLOBAL_FILES` of 2 are reached. Four calls are
   create or open, grow, remove and a call that uses what was freed.
 - `vm`: with two frames for two processes every fault evicts a frame of one process
   or the other; two slots let a slot be used again by another page, and run out.
 - `library`: words are 4 to 12 bits wide, so every carry, sign and overflow case is
   met; lists of up to five elements have runs of every shape that the merge sort
   tells apart; 17 insertions make a hash table of 4 buckets grow, and removals
   make it shrink again.

TLC looks for deadlock except where the system really stops: `cache` and
`rw_upgrade_stuck` (locks that are stuck as described above, and users who have
made all their calls), and `console`, which waits for ever for a key. The other
modules have an explicit step for a kernel that has stopped or has nothing to do.

### Fairness

 - `Synch!FairSpec`: strong fairness of each thread's steps. A thread that is
   given the CPU again and again executes, because a time slice is several
   milliseconds; weak fairness would let the timer take the CPU away every time.
   The idle thread and the timer are weakly fair: the hardware goes on.
   In `synch_live` the calls are finitely many, so no thread is starved by priority.
 - `BufferCache!FairSpec`: weak fairness of a process inside a lock operation
   (`Continue`), inside a call of the cache (`Proceed`), and of giving back what one
   has (`LockEnd`). A process need not start anything; that every operation returns
   rests on there being finitely many.
 - `Process!FairSpec`: weak fairness of a thread that is inside a call. Programs
   need not make one.
 - `Console!FairSpec`: the same, and the port eventually takes a byte.

## 4. Proofs

### SynchProofs

    THEOREM LockExclusionHolds == Spec => []LockExclusion

for any sets of threads, locks and semaphores, any priorities, calls and time
slice: at most one thread has a lock, from the step that takes its semaphore to
the step that ups it, and the semaphore is 0 exactly in that time.

`LockExclusion` is not inductive, since `holder` is written after the semaphore
is taken and cleared before it is upped. The invariant `LockInv` adds the types
of the variables involved and, for each place, what the locals of a thread there
are (`FrameOK`): at `hold` and on the way to it the thread's lock is one it is
not yet the holder of, at `relhold` one it is the holder of, at `up` the
semaphore is the one it has. The proof has one lemma per action. Most rest on a
lemma about steps that move one thread (`Moves`), and on three lemmas for how
owners change: kept, one added, one removed. `PTL` combines them. It assumes the
named assumptions of `Sched` and `Synch` (distinct constants, `Main` a thread).

### RwLockProofs and CacheLockProofs

    THEOREM RwExclusionHolds       == Spec => []RwExclusion
    THEOREM DowngradeAssertionHolds == Spec => []DowngradeAssertion
    THEOREM LockTypes              == Spec => []TypeOK
    THEOREM RefinesAbstractLock    == Spec => AbsSpec

for any finite set of processes, any blocks and sectors, and whatever the buffer
cache does: nobody reads or writes a block beside its writer, `b` is 0 when a writer
downgrades, and every step of the lock is one of `RwLockAbs`.

The operations on a block touch nothing of another, so the invariant `Sound` is
about one block, and its lemmas are in `RwLockProofs`. `r` belongs to the process that is in a place where it is held; `b`
is the number of accessors, which are the readers and those that have counted
themselves and are not readers yet; the accessor that waits for `g` is the only one;
there is no accessor when `g` is given back; a writer has neither readers nor a
reader group beside it; and `g` is 0 exactly when the readers or a writer have it.
None of `RwExclusion` and the assertion is inductive without these: that a writer is
alone follows from what `g` is, and that an upgrading reader is alone from what `b`
counts. There is one lemma per way in which the state of one block changes
(`SoundReadBegin`, `SoundLeave`, `SoundUpgrade`, ...). `CacheLockProofs` has a lemma that the other blocks
are not touched (`OneBlockKeeps`), one lemma per action of `RwLock`, which also shows
the abstract step, and a lemma that the steps of `BufferCache` do nothing else to the
locks (`OnlyLockSteps`). The assumptions are `ProcsAssumption` (finitely many
processes, `NoProc` is none) and `BlocksAssumption`.

### ConsoleProofs and ConsoleFifo

    THEOREM ConsoleInvariant  == Spec => []ConsoleInv
    THEOREM NoWakeupLost      == Spec => []WaiterSound
    THEOREM InterruptsEnabled == Spec => []IerCovers
    THEOREM ConsoleTypes      == Spec => []TypeOK
    THEOREM OutputIsFifo      == Spec => OutSpec
    THEOREM InputIsFifo       == Spec => InSpec

for any buffer of at least two slots, any finite sets of threads and any number of
keys and prints: a thread that sleeps on a queue sleeps because the queue is empty
(or full), whoever could wake it will be told to, the port's interrupts are enabled
whenever they are needed, and what comes out of the serial port and of the input
buffer is what went in, in this order.

`ConsoleInv` is `TypeOK`, `InSound` and `OutSound` (the state of the two queues:
lock, sleepers, and what the buffer holds compared with the history), `IerCovers`
and `BootSound` (nobody sleeps before the queues are in use). `PutIs`, `GetIs` and
`DrainIs` say what the operations on the circular buffer do to the sequence that it
holds; the index arithmetic modulo `INTQ_BUFSIZE` is in them and nowhere else. There
is one lemma per action, and the refinements follow from `InAdvance` and
`OutAdvance`, which relate one step to a step of `Fifo`.

### Only model-checked

Liveness under fairness and `ENABLED` are out of the prover's reach. So is what a
recursive definition computes: the priority and list properties of `Synch` and
`Process` follow chains and links, and `Inode`, `Directory`, `FileCalls` and the
sequential modules are loops. `CacheCoherent` and the properties of `Vm` hold up to
the events that end a behaviour, and are model-checked.

## 5. Not modelled, and why

 - The ages of cache blocks, a preference among victims; `cache_evict` may prefer any
   block in the model.
 - Two threads inside one system call on files, and the extension lock of an inode:
   `FileCalls` runs each call to its end, since the file system's state is one record.
   What two threads do to a cache block is in `BufferCache`; what they do to the list
   of open inodes, which has no lock, is not modelled.
 - Failing allocations inside `inode_extend` (`filesys/inode.c:282` and `508`): the
   free map is larger than the device, so no behaviour reaches them.
 - `calloc`, which the kernel calls for one object at a time: `malloc` and a `memset`.
 - Drivers that are only port I/O (`ide.c`, `vga.c`, `speaker.c`, `pit.c`,
   `shutdown.c`), segment tables (`gdt.c`, `tss.c`), assembly (`start.S`, `loader.S`,
   `switch.S`, interrupt stubs), `debug.c`: no state of theirs is shared with what is
   modelled, except as marked external.
 - The library of user programs, the programs of `examples/` and `tests/`, the
   utilities of `utils/`, the shell and the booter exercises: programs, not kernel.

`PROJECT.json` has the status of each component and, for each hazard that no property
covers, the reason.
