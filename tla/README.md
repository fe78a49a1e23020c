# A TLA+ verification of Concurrency_Model

The repository holds two programs. `concurrency/` has LAZY, a simulated file
manager with one thread per user request (`partA.c`), and a distributed sort of
file listings (`partB.c`). `initial-xv6/` is the xv6 teaching kernel for RISC-V,
extended by its authors with copy-on-write fork, page-fault counting and `waitx`.

This directory models them in TLA+, checks the models with TLC on small
instances and proves theorems about them with TLAPS for every instance.

## The system: parts, state, operations, what could go wrong

| Part | State | Operations | What must hold |
|---|---|---|---|
| LAZY (`partA.c`) | per file: mutex, condition variable, `readercount`, `writercount`, `concurrent_access`, `deleted`, `time_requests`; per request: a thread and a child process (the bullet) | `main` sorts, announces and launches; `process_req` locks, waits, times out, declines, serves; the bullet prints the cancellation | limits on users and writers, exclusive deletion, no use of a deleted file, no forgotten waiter, cancellations on time and final, a deletion after the users of its second, an answer to every request |
| Sorts (`partB.c`) | array of files, table of buckets with locks, threads | counting sort in two rounds of threads, merge sort in a tree of threads, two sequential sorts | the output is a sorted permutation of the input, whatever the interleaving; no index outside the table |
| Page allocator (`kalloc.c`) | free list, `reference_counter` | `kalloc`, `kfree` | a count is the number of references; no frame lost or handed out twice |
| Virtual memory (`vm.c`, `trap.c`) | page tables with `PTE_W`, `PTE_COW` | `uvmcopy`, `uvmalloc`, `uvmdealloc`, `uvmunmap`, `copyout`, the page fault | a process has a memory of its own |
| Processes, locks (`proc.c`, `sysproc.c`, `spinlock.c`, `trap.c`) | process table, CPUs, parents, `chan`, `killed`, `ticks`, lock owners | `fork`, `exit`, `wait`, `waitx`, `kill`, `sleep`, `wakeup`, `scheduler`, clock interrupts | no lost wakeup, every zombie reaped once, no slot freed under a running process |
| Files and pipes (`file.c`, `pipe.c`) | file table, descriptors, ring buffer | `dup`, `close`, `pipe`, `read`, `write` | exact reference counts, FIFO delivery, ends of file |
| Log, buffers, disk driver (`log.c`, `bio.c`, `sleeplock.c`, `virtio_disk.c`) | header in memory and on disk, `outstanding`, `committing`; buffers with counts, locks and recycling order; descriptors and the used ring | `begin_op`, `log_write`, `end_op`, `commit`, recovery; `bread`, `bwrite`, `brelse`, `bpin`; `virtio_disk_rw`, `virtio_disk_intr` | a transaction is on disk entirely or not at all after any crash; nothing runs out; every call returns |
| Inodes, directories, file system calls (`fs.c`, `sysfile.c`, `exec.c`, `mkfs.c`) | inodes on disk and in memory, bitmap, blocks, directories | `open`, `link`, `unlink`, `mkdir`, `mknod`, `chdir`, `read`, `write`, `fstat`, `exec` | every commit is a sound disk, nothing is left behind, no deadlock, the tests pass |
| Console (`console.c`, `uart.c`) | input ring with `r`, `w`, `e`; output ring | `consoleread`, `consolewrite`, `consoleintr`, `uartputc`, `uartstart`, `uartintr` | lines are edited right; output is complete and in order |
| Shell and tests (`sh.c`, `init.c`, `usertests.c`, `grind.c`, ...) | the calls a program has before it | what they call and expect | they pass in every interleaving |

The threads of LAZY interact through the file's mutex, its condition variable
and the announcement slots; those of the sorts through the table of buckets and
the joins. Processes interact through the page allocator and shared frames
(`CowMemory`), through the process table, sleeping and pipes (`Kernel`), through
buffers and the log (`Log`), and through inodes, open files and the console
(`Fs`). Each of the four is a model of its own, at the grain at which its actors
meet; together they would be out of TLC's reach. `Log` shows what `Fs` assumes,
that the operations up to a commit reach the disk in one step.

`PROJECT.json` lists the hazards, each at the line where it bites.

## Modules

| Module | Contents |
|---|---|
| `LazyFile` | the threads of `partA.c` |
| `FileService` | what LAZY promises its users, without locks and clocks |
| `LazyFileProofs` | theorems about `LazyFile`: the monitor, and the refinement of `FileService` |
| `LazyOrderProofs` | theorems about waiting, cancellation and the order of deletions |
| `MCLazyFile` | instance for TLC (requests are interchangeable) |
| `CowMemory` | allocator, page tables, page fault, fork, sbrk, exit and wait of the kernel |
| `PrivateMemory` | what fork promises: a memory of one's own |
| `CowLocalProofs` | what the steps of user mode and of `kalloc` keep of a process's own page table and locals |
| `CowCallProofs` | the same for the callers of `kalloc`, and for `kfree` and the `uvmunmap` loop |
| `CowForkProofs` | the same for the steps of `fork` |
| `CowMemoryProofs` | reference counts, ownership of frames, and the theorems about them |
| `CowViewProofs` | what a program sees of the page tables; user mode and `fork` seen from there |
| `CowPrivateProofs` | the other calls seen from there, and the refinement of `PrivateMemory` |
| `MCCowMemory` | instance for TLC (processes and frames are interchangeable) |
| `Sort`, `MCSort` | the sorts of `partB.c` |
| `Proc` | process table, spin locks, CPUs, clock |
| `Pipe` | file table, descriptors, pipes |
| `Programs` | the shell's parser and interpreter, init, and tests, as sequences of calls |
| `Kernel`, `MCKernel` | traps, system calls and fork: `Proc`, `Pipe` and `Programs` put together |
| `Virtio` | disk and driver |
| `Bcache` | buffer cache with sleep locks, on `Virtio` |
| `AtomicDisk` | what the log promises |
| `Log`, `MCLog` | the log on `Bcache`, with crashes |
| `Inode` | blocks, inodes, directories: the functions of `fs.c` as operators on a file system |
| `Mkfs` | the image of `mkfs.c` |
| `Console` | console and serial line, as operators |
| `Fs`, `MCFs` | the file system calls on `Inode`, `Mkfs` and `Console` |
| `FsTests` | the tests of the file system and other programs, as sequences of calls |

### LazyFile

A request is a record of file, operation and time; TLC takes every assignment of
them, so parsing is replaced by its result. `pc[q]` says where the thread of
request `q` is. `Launch` is one round of `main`'s loop after `qsort`
(`NotAfter` is the comparison function; equal requests come in any order).
The thread then sleeps a second, takes the lock and forks the bullet
(`LockAndFork`), withdraws its announcement (`Withdraw`) or, for a deletion,
looks at the announcements (`CheckAnnounced`, `Spin`, `EndSpin`). The three
`pthread_cond_wait` loops are `CondWait` and `Relock`; behind them the thread
times out (`TimeOut`) or has read the clock in time (`InTime`), and kills the
bullet and declines or starts (`Decline`, `StartRead`, `StartWrite`,
`StartDelete`). `Finish...` is the end of the operation.

* Reading the clock and `kill(bullet, 9)` are two steps, because the bullet can
  fire in between.
* `pthread_cond_signal` wakes any one waiter; a woken thread competes for the
  mutex like everybody else. Spurious wakeups are modelled.
* `sleep(s)` lasts at least `s` seconds. Time stops at `Horizon`, by when every
  deadline has passed.
* `fork` and `pthread_create` may fail (`Faults`). After a failed `fork` the code
  calls `kill(-1, 9)`, which ends every bullet.
* `time_requests` comes from `malloc` and is never initialised; `Garbage` is the
  set of values it may start with. The liveness runs use 0.

### CowMemory

Every process has a program counter, and the local variables of the kernel call
it is in. A critical section of `ref_page_lock` or `kmem.lock` is one step.
What a process does to its own page table is part of such a step, because no
other process reads that table. `kalloc` is `KallocPop` and `KallocCount`,
`kfree` is `KfreeCheck`, `KfreeDrop` and `KfreePush`; `NextPage` and
`UnmapReturns` are the loop of `uvmunmap` and the return to its caller. `fork`
shares one page per step (`ForkPage`), and may fail at any page (`ForkFails`).

* Page-table pages, trapframes and pipes use the same allocator and are not
  modelled, so `kalloc` may fail at any time.
* `wait` is `Reap`, by whoever is the parent; process states, parents and sleeping
  are in `Proc`.
* Sizes are whole pages. The contents of a page are one value.
* `Buffers` are the pages that system calls are asked to write to.

### Sort

`Main`, `Thread` and `MergeThread` are the actors. A counting thread takes the
lock of a bucket, adds a node and gives it back, in steps; `JoinCounters`
computes the prefix sums; the threads of the second round write the places that
`PopulateStore` computes from them. A name is the sequence of its letters and
`convert_to_index` computes what the code computes, in a smaller base. A bucket
outside the table, or one that was never made, is an unset pointer and the
program crashes (`Crash`). `merge` and the sequential sorts are operators.

### Kernel: Proc, Pipe and Programs

A process has the kernel steps before it in `code` and the calls of its program
in `user`. A step is what happens between two lock operations that others can
see: `acquire` and `release` of the locks that matter (`p->lock`, `wait_lock`,
`tickslock`, the pipe's) are steps of their own, so the order in which `exit`,
`wait`, `sleep`, `wakeup` and `kill` take them is the code's. `Schedule` puts a
runnable process on a free CPU and `Swtch` takes it off, with `p->lock` held
across both; `Timer` is the clock interrupt in user mode and `Preempt` in the
kernel, and both end in `yield`.
The shell's parser is applied to the tokens of a line, and `runcmd` to its tree;
the result is a program.

* `nread` and `nwrite` wrap at `UINT`; a pipe holds `PIPESIZE` bytes.
* Memory runs out in `fork` only in the jobs of `Scarce`.
* A busy process is preempted inside the kernel a bounded number of times.
* The clock ticks while a process sleeps in `sys_sleep`; otherwise nobody looks
  at it.

### Log: Virtio, Bcache and Log

The routines of `log.c` are sequences of steps, such as `bread` of a log block;
`Cache` has the steps of the buffer cache and of the driver. `Crash` may come
between any two steps and leaves only the disk. `Reads` and `OpBlocks` say which
blocks a process reads and logs.

* `Stable` is what recovery would make of the disk, `View` what a reader would
  get. With them as refinement mapping, every step of `Log` is a step of
  `AtomicDisk`.
* The device takes the requests it was notified of in any order, and may finish
  one between the handler's acknowledgement and its look at the ring. The avail
  ring and disk errors (on which the driver panics) are left out.

### Fs: Inode, Mkfs, Console and Fs

The operators of `Inode` have the names of the functions of `fs.c` and take and
give a file system `[dinode, used, data, itable, panic]`. A system call is a
sequence of steps; a step ends where a lock that others wait for is taken or
given up, so `namex` is `NameX` and one `Walk` for each element, `iput` is up to
three steps, and `create` has one for every `dirlink`.

* A block is a sequence of `BSIZE` cells; a cell is a byte of a file or an entry
  of a directory, or a block number in an indirect block.
* A commit is one step of the last `end_op`, and `committed` is the disk that a
  crash would leave. `begin_op` admits `MaxOps` operations.
* The console's handler runs on any hart, between any two steps of the writers.
  Echoes wait for an idle line and take no lock; the line has a FIFO, which
  `uartinit` turns on. The user types the next line when a reader waits for it.
  NUL and ^P are not typed.
* The programs of `FsTests` are the calls of the tests with their expectations:
  a call gives the set of values, and of data, with which the test goes on.
  Loops are shorter and files smaller, at sizes where the same limits are met.
  Of the 23 operations of `grind`, 1 to 12 and 21 are modelled.

## Runs

| Run | Bounds | Shows |
|---|---|---|
| `lazy_safety` | 3 requests, 1 file, times 0 and 1, `c` = 2, `T` = 2 | the safety properties and the refinement of `FileService` |
| `lazy_liveness` | 3 requests at time 0, no faults | every request is answered; `main` ends |
| `lazy_aliasing` | 2 requests, times 0 and 2 with 2 slots | a violation, see below |
| `cow_safety` | 2 processes, 2 pages, 3 frames | exact counts, no lost frame, the refinement of `PrivateMemory`, every call ends |
| `cow_sharing` | 3 processes, 1 page, 3 frames | races between sharers; the inductive invariant `MemoryInv` of the proofs |
| `cow_readonly` | as `cow_safety`, destinations in text pages too | a violation, see below |
| `sort` | up to 5 files, 3 counting threads, 2 levels of merge threads, letters a, b, A, B | sorted permutation (`SortedResult`), an end with the list printed unless the numbers of two names contradict `strcmp` (`Terminates`) |
| `sort_names` | 2 or 3 files, letters a, b, B | a violation, see below |
| `kernel` | init, a shell and up to 3 more processes on 2 CPUs, pipes of 2 bytes | 9 tests and 4 shell lines, and a shell that ends: `TestsPass`, `TableSound`, `FilesExact`, `Finishes` |
| `log` | 3 operations, 4 buffers, 8 descriptors, 2 crashes | refinement of `AtomicDisk`, `NoPanic`, `RefcntExact`, `DescriptorsExact`, `CallsReturn` |
| `fs` | 3 processes, 11 inodes, 10 blocks, 6 inodes in memory, 5 open files | 31 tests, `stressfs`, 5 mixes of `grind`, `ls`, a `mkdir` that fails half-way, devices, and 4 programs on the console: `FsTestsPass`, `DiskSound`, `QuietExact`, `NeverStuck`, `OutputInOrder` |
| `fs_leak` | 2 processes create and remove one name | a violation, see below |

Why the bounds are enough to be interesting. Files do not interact, so one is
enough. Three requests give a user at work, a waiter and a third thread that
signals, deletes or times out; with `c` = 2 the limit, the single writer and the
deletion all make threads wait. Two instants give requests of one second and
of different seconds; `T` = 2 lets the second of sleep and the bullet both
matter. Three frames are fewer than two processes of two pages can use, so
memory runs out; three processes are needed for a count that falls from 3 to 1
while somebody is in the fault handler.

Three counting threads give a thread whose places begin in another thread's
bucket, and names of up to three letters in base 2 with digits 0 to 2 contain a
pair like "azz" and "b". Two CPUs are what the races of the process table need:
one process on its way into the scheduler, another one that wakes or reaps it;
a pipe of two bytes with counters that wrap at four fills, empties and wraps.
In `log`, two operations fit into the log and the third waits; the four buffers
are what two operations, a commit and a reader need at most. Two processes in
an operation and one that reads have three transfers under way, which need nine
descriptors of eight, so one of them sleeps until a chain is freed. In `fs`, the disk, the inodes
on disk and in memory, the open files and the directory's blocks are all small
enough to run out in the tests that are about it, and a file of more than two
blocks has an indirect block. One of the mixes of `grind` has a `link` that finds
its new name taken after another process unlinked the old one. The rings of the console hold three and two
characters, so they are full and wrap.

Four violations are expected.

* `lazy_aliasing`: a DELETE that found its slot empty keeps the mutex and polls
  the slot again. A request whose time is equal modulo the length of
  `time_requests` can fill it in between, and its thread needs that mutex. The
  run uses two slots, the code a hundred.
* `cow_readonly`: `copyout` writes into pages mapped without `PTE_W` and
  `PTE_COW`, so a system call whose destination is program text changes the frame
  that parent and child share, where the root README says that a copy is created.
  The other runs take destinations from writable pages only.
* `sort_names`: the README (`src/README.md:13`) says that upper and lower case
  letters of a name are treated as the same. They have the same number, but the
  smallest and largest names are found with `strcmp`. With B and a, the smallest
  name has the larger number, the index of the other one is negative, and a
  counting thread follows what it finds there. "azz" and "b" do the same, because
  base 26 is used for the digits 0 to 26. `Terminates` shows in `sort` that no
  other list makes the program crash.
* `fs_leak`: `iput` frees an inode on disk and releases its lock before it takes
  the reference back. In between another process can get the inode from
  `ialloc`, with a count of two in the same table entry. When that process
  unlinks and closes its file it is not the last one, so it frees nothing; the
  first one is past its check. The inode is allocated, with no link and no user.
  The comment at `fs.c:332` says that the last `iput` frees it. Operation 3 of
  `grind` against 1 does the same, so it is not among the jobs of `fs`; in those,
  `QuietExact` holds.

Other things met while modelling, which no run states as a violation:

* `mkfs` makes the log `LOGSIZE` blocks long including its header, while
  `begin_op` hands out `LOGSIZE` blocks. No operation of the kernel uses all of
  what is set aside for it, so `log_write` does not reach its panic.
* A process that is created between the clock's increment and `update_time`'s
  visit of its slot, and ends before the next tick, has run one tick longer than
  it existed; `waitx` returns its waiting time, -1, as an unsigned number.
  `TableSound` bounds the excess to that tick.
* A process that finds one or two descriptors free gives them back, which wakes
  the other processes that wait for three; they may wake each other until the
  disk interrupts. The instance has one such process.
* `create` and `link` do not look whether the directory has been removed. In
  `grind`, operation 9 against 3, or 10 against 4, leaves an
  inode with a link and no name, so these mixes are not among the jobs.
* A process whose directory and its parent were both removed panics the kernel
  with `chdir("..")` (`ilock: no type`).
* A write longer than one transaction fails if another process truncates the
  file between two of its parts.
* `allocproc` does not clear `killed`, and `kill(0)` sets it in a free slot; no
  program of the repository calls it.

### Fairness

`LazyFile` assumes weak fairness of the clock, of `main`, of every thread and of
every bullet: the operating system runs what can run. No fairness of mutexes is
assumed. `CowMemory` assumes weak fairness of each process inside the kernel,
which the preemptive round-robin scheduler gives, and nothing of user programs.
`Sort` assumes weak fairness of `main`, of every counting thread and of the merge
threads together. `Kernel` assumes
weak fairness of every process on a CPU, strong fairness of the scheduler for
every process, because it goes round the table again and again, and strong
fairness of the clock interrupt, because it comes again and again and is taken
whenever interrupts are on. `Log` only assumes that something happens as long as
a process or the disk can do something, and nothing of programs that might call.
`Fs` has no fairness: its programs are finite and `NeverStuck`, with TLC's
deadlock check, says that until all have ended somebody can run.

## Proofs

`LazyFileProofs` and `LazyOrderProofs` prove, for any sets of requests, files and
times and any limits (`ConstantsAssumption`):

* `TypeCorrect`, `AccessLimited`, `DeleteExclusive`, `DeletedUnused`: they follow
  from `MonitorCorrect`, the invariance of `MonitorInv`. None of the four is
  inductive. What they need is that a mutex has one owner (`LockInv`), that the
  counters count the working threads (`CountInv`) and respect the limits
  (`LimitInv`), and that what a thread found out before it went on is still true
  because it kept the lock (`AdmitInv`, `LiveInv`).
* `NoForgottenWaiter`: a thread waits only if another one is at work, and a
  thread that leaves signals. Proved with `MonitorInv`.
* `CancelsOnTime`, `CancelsAreFinal`: from `BulletInv`, which adds the thread's
  second of sleep to the bullet's `T - 1`.
* `DeletesComeLast` (`SameSecondOrder`): from `OrderInv`. The property is about
  the moment at which a deletion starts, the invariant about the way there. A slot
  of `time_requests` is at least the number of the requests behind it that have
  been announced and not withdrawn (`Announcers`); requests are launched in the
  order of their times, the users of a second before its deletions, so when a
  deletion is launched all of them have been announced; and once its thread has
  found the slot empty, all of them have the lock behind them. Requests of another
  second that share the slot only make it larger. The hypothesis is that no slot starts negative: the array
  comes from `malloc`, and with -1 in it an announced request would go unseen.
* `Refinement`: every step of the threads is a step of `FileService` or changes
  nothing there. Admission needs `MonitorInv`.

`CowMemoryProofs` proves, for any finite set of processes and any numbers of
pages and frames (`ConstantsAssumption`), that `CowMemory` keeps `MemoryInv`
(`MemoryInvariant`).
`CountsExact` alone is not inductive, because whether a step moves a reference
depends on where every call is. `MemoryInv` adds:

* `LocalInv`: for each point of each call, which pages are mapped (`MapOK`), what
  the locals hold (`CallOK`), and that `PTE_W` and `PTE_COW` exclude each other
  (`PteOK`).
* `ForkInv`: the child of a running fork is a prefix of its parent, and belongs
  to that fork only.
* `FrameInv`: a frame without references is free or carried by exactly one call,
  between the critical sections of `kalloc` or of `kfree`.
* `OwnerInv`: a reference that may be written through is the only one.

The references to frames are `Slots`: a page of a process, or the frame a call
holds. A step either leaves all slots alone or changes slots of one process
(and, in `fork`, of its child), so that a count changes by one exactly when one
slot enters or leaves `Refs(f)`. `CowLocalProofs`, `CowCallProofs` and
`CowForkProofs` show the first part, step by step, together with `LocalInv` and
`ForkInv`; the lemmas `Count...` of `CowMemoryProofs` show the second. The step
lemmas are in several modules because the prover slows down in long ones.

From `MemoryInvariant` follow `TypesAreKept`, `CountsAreExact`, `FramesAreKept`,
`WritersAreAlone`, `KfreeNeverPanics` and `SizesAreMapped`. `SharedFramesAreKept`
needs `TextInv` besides, and has a hypothesis: no system call is given a
destination in program text. Without it the property is false, which is what the
run `cow_readonly` shows.

`CopyOnWriteIsInvisible` is the refinement of `PrivateMemory`, under the same
hypothesis. The memory of a process is `ViewOf(p)`: the contents of the frames in
its table below its size, or of the frame that a call holds while the page is
between its old and its new frame. The argument has four parts.

* Nobody else refers to the frame that a step writes (`OthersUnwritten`). A page
  written by a program or by `copyout` has `PTE_W`, and `OwnerInv` makes it the
  only reference; `kalloc` fills a free frame, `CopyPage` and `FillPage` one
  that the call holds, `kfree` one whose last reference it drops. `CountsExact` and
  `OwnerInv` are what this needs.
* Every page that a live process should see is there (`Covered`, from `MapOK`), so
  the view of everybody else stays the same (`SameUnseen`).
* `ViewInv` says what the process itself must find at the steps where its view
  moves to another frame: the copy equals its original until the original has
  been dropped, the child of a fork has the frames of its parent, and the
  pages that `sbrk` has mapped are zero. It is kept by every step
  (`PrivateStep`).
* Each step is then one of `PrivateMemory`: a store, and the mapping of
  `copyout`'s copy, is a write; `exit` and a fault that kills, an exit; the
  beginning of a shrinking `sbrk` and the last page of a growing one, a
  resize; the return of `fork`, a fork. Nobody sees the others: not the
  allocator, not the copy in the page-fault handler, not a fork that fails.

`OrderInv` and `ViewInv` were checked with TLC before they were proved, under the
constants of `LazySafety.cfg`, and with two processes, three pages and four frames; no run lists them,
because the theorems say more.

Only model-checked, and why:

* Liveness (`EveryRequestAnswered`, `LazyGoesBackToSleep`, `CallsReturn`,
  `Terminates`, `Finishes`): the
  prover does not handle fairness.
* `Sort`: that the output is sorted is an induction over what the recursive
  `merge` and the folds of the prefix sums compute.
* `Log`: the routines are sequences of steps put together from sequences
  (`FlattenSeq`), so an invariant about where a process is speaks about what such a
  definition computes, again an induction over data.
* `Kernel`: the command lines of its programs go through the recursive parser of the
  shell, and the prover cannot be used with recursive operators.
* `Fs`: its properties speak of folds over the bitmap, the blocks of an inode and
  the entries of a directory, and of the outcome of given programs.

## What is not modelled

Formatting and printing, and the parsing of LAZY's and the sorts' input, which no
property is about. Assembly, start-up, the interrupt controller and access to
hardware registers: straight-line code. Page-table walks, the loading of segments
in `exec`, and `copyin`: private memory of one process. The tests of `usertests.c`
about `sbrk`, bad addresses and system call arguments, for the same reason. User
programs that make one call or compute in their own memory. `ramdisk.c`, which
is not built. Disk errors, at which the kernel panics.

A process that uses pipes and inodes at the same time, and copy-on-write memory
under the process table, are in different models; what they share is the file
table and `fork`, which each of the models has.
