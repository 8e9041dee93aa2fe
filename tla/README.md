# A TLA+ development for xv6 with multi-level scheduling

The kernel is xv6 (x86, several CPUs) extended with scheduling policies, four
scheduling queues, priorities, time accounting and a history of system calls
per process. This directory holds TLA+ specifications of it and of the user
programs it cannot do without, TLC configurations that check them on small
instances, and TLAPS proofs of what matters most for every size of the
instance.

## 1. The system

| Part | Operations | What makes it hard |
|---|---|---|
| process life cycle (`proc.c`, `trap.c`, `sysproc.c`) | allocproc, fork, exit, wait, kill, sleep, wakeup, yield, sched, forkret | the lock is handed over by swtch(); fork() fills a slot in without it; `killed` is tested without it; lost wakeups |
| scheduler (`proc.c`) | scheduler(), changepolicy, setPriority, setqueue | locals go stale while a process runs; the round over the queues starts from a value that changes meanwhile |
| scheduling queues, findPriority (`proc.c`) | append, drop, rotate; one loop, three modes | entries are removed lazily; no test for full; sentinels, ties |
| time accounting, system call history (`proc.c`, `syscall.c`) | at every change of state; at every call, exit and kill | a change of state that forgets it; a list freed by another CPU |
| spin locks, sleep locks (`spinlock.c`, `sleeplock.c`) | acquire, release, pushcli, popcli, acquiresleep, releasesleep | nesting; interrupts; a thread goes on on another CPU |
| buffer cache, disk driver (`bio.c`, `ide.c`) | bget, bread, bwrite, brelse, iderw, ideintr | recycling a buffer in use; order of interrupts |
| write-ahead log (`log.c`) | begin_op, log_write, end_op, commit, recovery | a crash at any step, also of recovery; reservation of space |
| inodes, directories, path names (`fs.c`, `sysfile.c`) | ialloc, iget, iput, create, link, unlink, open, mkdir, chdir | the last reference dropped while another looks the inode up; order of locks |
| contents of files (`fs.c`, `file.c`), mkfs | balloc, bmap, readi, writei, itrunc, filewrite in chunks | edges of blocks; the disk full half-way |
| files, descriptors (`file.c`, `sysfile.c`), init and shell | filealloc, filedup, fileclose, dup, pipe; runcmd | an end of a pipe left open somewhere |
| pipes (`pipe.c`) | piperead, pipewrite, pipeclose | counters wrap around; wakeups; use after free; kill |
| memory (`kalloc.c`, `vm.c`, `exec.c`), malloc (`umalloc.c`) | kalloc, allocuvm, copyuvm, exec, sbrk; malloc, free | failure half-way; sizes at the edge of a page |
| console, clock (`console.c`, `trap.c`) | consoleintr, consoleread; ticks, sys_sleep | indexes that come round; a full buffer |

Interactions: exit, wait and kill meet in the process table; every blocking
part (log, pipes, buffers, console, clock) sleeps and wakes through it; the
scheduler reads the table and the queues that allocproc() and setqueue() fill;
the log stands on the buffer cache and the file system on the log; fork, exec
and exit move descriptors, and which descriptors stay open decides when a pipe
ends.

`PROJECT.json` lists every component with its status, and every hazard at the
line where it bites with the properties that would catch it.

## 2. Modules

| Abstract | Detailed | Models |
|---|---|---|
| `ProcStates` | `Proc` | the process table on several CPUs |
| `ProcStates` | `Sched` | scheduler() under its four policies, with the queues |
| `EntryQueue` | `RunQueue` | a scheduling queue: a sequence, a circular array |
| `FindPriority` | `FindPriorityLoop` | which process findPriority() may return; its loop |
| | `Times`, `History` | the accounts of time; the list of system call counters |
| | `Spinlock` | the interrupt flag, `ncli`, `intena`, threads that change CPU |
| `BlockStore` | `Bcache` | a store of blocks; buffer cache, sleep locks and disk driver |
| `AtomicDisk` | `Log` | operations that are atomic with respect to crashes; `log.c` |
| | `Inodes` | inodes, directories and path names under concurrent calls |
| `ByteFile` | `FileBlocks` | a file as a sequence of bytes; direct and indirect blocks |
| | `Mkfs` | the image mkfs writes (`FsLayout`: what it shares with `FileBlocks`) |
| | `FileTable`, `Shell` | open files and descriptors; init, sh and what they start |
| a grammar | `ShellParser` | the commands a line denotes; the recursive descent of `sh.c` |
| `ByteFifo` | `Pipe` | a queue of bytes; `pipe.c` |
| `Memory` | `Vm` | contents of an address space; page tables, exec, fork, sbrk |
| | `Umalloc` | malloc() and free() |
| `Terminal` | `Console` | a line being edited behind lines handed over; the input ring |
| | `Clock` | ticks and sys_sleep() |

`ProcTable` holds the names of the table that several modules share. `MCProc`,
`MCLog` and `MCPipe` instantiate one component for TLC; `Sched` and `Times` have
a configuration of their own (`SchedStarve.cfg`, `TimesReady.cfg`);
`MCSleep` (the log and the process table), `MCKernel`, `MCFs` and `MCParts` hold
several parts side by side, where a behaviour is one of the part chosen at the
start. The proofs are in `ProcProofs`, `ProcWaitProofs`,
`RunQueueProofs`, `FindPriorityProofs`, `PipeProofs`, `LogProofs`, `ConsoleProofs`
and, for the arithmetic they share, `RingArithmetic`.

Conventions. A critical section is one action; a lock is a variable only where
the code keeps it across swtch() or sleep(), or reads something outside it.
Operators keep the names of the C code. A definition called `X_Something` is X
with a plausible mistake; it is used nowhere in the specifications and serves to
show that the properties notice the mistake.

**Proc.** A slot is its index; `proc[c]` says on whose kernel stack CPU c is,
`at[c]` where it is between scheduler() and a process, `pc[p]` where the
kernel thread of p is. `lock` is ptable.lock: `Stop` takes it, `Sched` carries it
through swtch(), `Resume` (the end of yield(), sleep() or forkret()) drops it.
fork() is four steps (allocproc; failure; filling in; RUNNABLE), since the slot
is filled in without the lock. wait() keeps the lock from its scan into
sleep(). kill() finds the first slot with the pid *in any state*, as the code
does. Killing init, which ends in `panic("init exiting")`, is left out. Which
RUNNABLE process is picked is left open here and decided in `Sched`.

**Sched.** All of the control of scheduler(): the branch on `policy`, whose
two tests are two steps, as changepolicy() takes no lock and may come between
them; the four iterations with `newQueue = (lastQueue + i) % 4`; the inner loop
that drops and rotates entries; the process run inside the loop over a priority
queue; and the final test of the local `p`, which may stem from an earlier
iteration. The return points of swtch() are values of `ret[c]`. The processes are reduced to
their changes of state, a priority queue to whether its size is zero, since its
array is never read. Queue numbers above 3, which index out of the table of
queues, are left out.

**RunQueue** is the array with `front`, `rear` and `size`. Nothing in the code
tests for a full array, and `EntryQueue` says what that amounts to: an entry
appended to NPROC or more entries also replaces the one NPROC places before
it. `Sched` uses the operators of `EntryQueue`.

**FindPriorityLoop** is one step per slot. `Sched` uses `Selectable`, which the
loop is shown to respect.

**Times** is the arithmetic on `last_time` and the totals at the lines that change
a state. Two reads of `ticks` in one critical section may find two values, as
trap() counts under another lock. The history variable `spent` counts the ticks
really passed in each state. `RunningIsRun` and `ReadyIsReady` say that the
totals never exceed it. **History** follows, sets or frees one link per step; one process makes
calls, another CPU may kill it and free the list under it.

**Spinlock.** A CPU works on the stack of a thread or of its scheduler, and a
frame of a stack is the rest of the steps of a kernel path: a timer interrupt
pushes a frame, swtch() changes the stack, and `ncli` and `intena` belong to the
CPU as in the code. A timer interrupt yields if the thread is RUNNING, which is
left open. `InterruptsRestored` also says that a CPU that owns a lock has its
interrupts off. The other modules take mutual exclusion for granted.

**Bcache.** A critical section under bcache.lock, under the spin lock of a sleep
lock or under idelock is one action. A thread may leave a buffer B_DIRTY, as
log_write() does, and may read a second block with the first one held, as bmap(),
write_log() and install_trans() do (`Nested`). When the disk reports an error,
ideintr() marks the buffer valid with the contents it had: the action does so too,
and `ImplementsBlockStore` is checked for a disk without errors
(`IdeResults = {TRUE}`), as the code does not handle them.

**Log.** `cache`, `home`, `slots` and `head` are the blocks in memory, at home,
in the log and the header on disk. One step per block written. A crash may
come before any step, during recovery too, and loses what is in memory. A
block write is atomic. The test of `log.lh.n` in log_write() is a step of
its own, as it is made before log.lock is taken. `nlog` blocks on disk belong to
the log, its header included; a block of the log beyond them is written over the
home block that follows there (`Behind`), and read back from it.

**Inodes.** What a process does with an inode between taking its sleep lock and
giving it back is one action, unless it waits for another lock with the first
one held; iput() is four: the lock, the test of `ref` with what follows from it, the
release of the lock, the decrement. The cache has an entry for every inode, so
iget() never panics. A call is a transaction of the log, so a crash finds
the disk as it was at a moment without calls in progress.

**FileTable** and **Shell.** A system call is one action. A process is the list of the
calls it still has to make; runcmd() unfolds a command into them. The programs
echo, cat and yes are external and known by what ends them.

**FileBlocks**, **Vm**, **Umalloc**, **Mkfs** and **ShellParser** are sequential: a call (in
`FileBlocks` a chunk of a write, in `Mkfs` an append) is one action, with every
failure path, and its result is compared with a simpler account of it. A write to a
full disk panics in balloc(); what it had allocated stays. `ByteFile` compares
the bytes a read returns as well as the contents. `Nunits` in `Umalloc` wraps
around as the unsigned sum does, and malloc(0) gets a block; requests for which
the int argument of sbrk() would be negative are left out. `Vm` has no TLB:
after sbrk(-sz) growproc() returns before switchuvm(), and what the process may
still reach through stale translations is left out. In `Mkfs` the assertion
that the used blocks fit in one bitmap block ends the program.

**Pipe.** The counters are modulo `UINT`; piperead() and pipewrite() are one step
from acquiring the lock to the next sleep() or return. The way from the test of
`killed` into sleep() is a step of its own, as kill() does not take p->lock. The
last process of a side to close calls pipeclose().

**Console.** consoleintr() and consoleread() are one step from acquiring cons.lock
to the next sleep() or return; `r`, `w` and `e` are modulo `INDEXMOD`. **Clock.**
`ticks` wraps around; the argument of sys_sleep() is signed and compared as
unsigned. In both the way from the test of `killed` into sleep() is a step of its
own: a kill() in between wakes nobody. In `Clock` the next tick does, in `Console`
the next line.

## 3. Runs

| Run | Instance | Shows |
|---|---|---|
| `proc` | 3 slots, 2 CPUs, one channel, pids up to 4 | one CPU per kernel stack, parents that can wait, no lost wakeup of wait(), refinement of `ProcStates` |
| `sleep` | log: 2 operations, 2 blocks, 2 values, crashes; processes: 3 slots, 1 CPU, one channel, pids up to 3 | refinement of `AtomicDisk`, durability once all is quiet, space, sleepers wake; a killed process becomes a zombie |
| `pipe` | 1 reader, 2 writers, 2 bytes, counters modulo 4, one killable | refinement of `ByteFifo`, no lost wakeup, no use after free, nobody left behind by a close |
| `kernel` | cache, console, clock, shell, scheduler | refinement of `BlockStore` and `Terminal`; bget() panics only when every buffer is dirty or in use; no lost wakeup of a reader of the console; sys_sleep() returns and not too early; files and pipe ends are open as long as they have a descriptor; a command line never leaves all processes waiting; every RUNNABLE process of the default queue runs |
| `fs` | names, mkfs, spin locks, findPriority | no inode freed in use, link counts and references add up, the image reads back, interrupts are as the thread left them, findPriority() takes the process scheduled least |
| `parts` | blocks of files, memory, queue, history, times, malloc, parser, scheduler | refinement of `ByteFile`, `Memory`, `EntryQueue` and `ProcStates`; no page leaked or used twice; the heap is partitioned; running times; counters answer what was called; the parser agrees with the grammar; nobody falls out of the queues |
| `proc_born_killed` | 3 slots, 1 CPU | *violation*: kill(0) marks a free slot, and the next process in it starts killed |
| `sched_starved` | 3 slots, 1 CPU, queues 0 and 3 | *violation*: a RUNNABLE process of queue 0 never runs |
| `log_full` | 2 operations, 4 blocks, no crash | *violation*: the log outgrows its blocks on disk |
| `pipe_killed` | 1 reader, 1 writer, both killable | *violation*: a kill between test and sleep() is not noticed |
| `times` | 1 process, 4 ticks | *violation*: a run is counted again as ready time |
| `fs_deadlock` | 2 processes, 2 names | *violation*: create() and unlink() of one name wait for each other for ever |

The six violations are disagreements between the code and what a comment, an
assertion or a test of it says; `PROJECT.json` quotes the lines. Where a
property holds only with an exception, the property says so:

* a writer killed after it filled the pipe returns without waking the readers
  (`SleepersWait`);
* `NobodyForgotten` holds while no queue has more than NPROC entries; setqueue()
  appends without a test for room, and with `MaxEntries` above the number of
  slots an entry is overwritten and its process lost;
* `KilledExits` leaves out a process killed after its test of `killed` and before the
  sleep() that follows; wait() makes the test under ptable.lock and has no such
  gap. `ReadersWait` says nothing of a killed reader for the same reason;
* the running time may fall short: exit() leaves out the last run and kill() the one
  it falls into (`RunningIsRun` bounds it from above);
* kill() frees the list of counters under a process that may be walking it on
  another CPU, so `CountAnswered` speaks of processes nobody kills;
* an entry made in a directory that is being removed is lost with it, and its
  inode keeps the link (`LinksCounted`); a ".." that names a removed directory
  ends in a panic;
* mkfs rounds the size of the root directory up past its last block when its
  entries fill their blocks (`ImageReadsBack`).

Further observations on the way, without a property of their own:
sbrk(-sz) frees everything and then growproc() returns -1; the cache has as many
buffers as the log may pin; sys_setpriority() turns what is above 6 into 5;
`infos[pid]` is written past the array for large pids; getsyscallcounter()
follows a null list when nothing was counted yet; two iput()s that both find
`ref` at 2 before either counts it down leave an inode without links
allocated.

**Bounds.** Three slots are init, a child and a grandchild: enough for
reparenting, for a zombie passed on, for a full table and for a slot used again.
Two CPUs are what ptable.lock has to keep apart. `MaxPid` bounds forks and so
the reuse of slots. The queue of `RunQueue` goes past twice its array; in `Sched`
`MaxEntries` keeps the arrays from overflowing. The log has one block less on
disk than in the header (nlog = LOGSIZE includes the header block, as mkfs lays
it out); two operations of two blocks reserve all of the header, so begin_op() has to
refuse and commits have to be grouped. The two blocks of `sleep` fit on disk, the four
of `log_full` do not. A pipe of two bytes with calls of up to
three makes writers block in mid-call, and counters modulo 4 wrap around; the
same holds for the console's two characters and its indexes modulo 4. `ticks`
modulo 8 comes round within a sleep, and -1 asks for the longest one. Two
buffers, one of them dirty, for two threads and three blocks, two of which a
thread holds together, make bget() recycle and panic. Five processes are fewer
than a pipeline of three commands needs, so fork() fails too; four files and two
pipes are soon used up. Four calls on two names by two
processes with three inodes are enough for a removed current directory, a link
to a file being unlinked and the lack of inodes. Files of one direct and one indirect
block, with five blocks for two files, cross every edge of bmap() and fill the
disk. Eleven page frames, of which others leave 1, 3 or
all, make fork(), exec() and sbrk() fail half-way.
Lines of up to five characters contain every pair of operators with words
between them. CPUs and processes are symmetric in runs without liveness.
Deadlock is checked except in `log_full`, where a panic stops the machine.

**Fairness.**

* `Proc`: the loop of scheduler() and the return through swtch() are weakly
  fair (`GoesOn`). The timer interrupt (`Interrupted`) and the steps of a running
  process other than init (`Works`) are strongly fair: timer interrupts recur, one
  that arrives with interrupts off stays pending, and between two of them the
  process executes. `Picked`, picking a process that is RUNNABLE
  again and again is strongly fair, which is an assumption on the scheduler:
  `EveryoneRuns` in `kernel` shows it for processes in the default queue, and
  `sched_starved` that it fails when processes move between the round-robin
  queues. `KilledExits` holds under the former. It is checked on one CPU, where
  ptable.lock is never contended.
* `Sched`: weak fairness of scheduler(), of swtch() and of the timer interrupt.
* `Log`: an operation and a commit that have begun go on; an operation writes a
  bounded number of blocks, hence ends (strong fairness of end_op). Beginning
  an operation and crashing are not fair.
* `Pipe`: a process in the kernel goes on; a killed one closes its end. Nobody
  has to call read() or write().
* `Clock`: timer interrupts recur, and a process on its way into sleep() or woken in
  sys_sleep() goes on.

## 4. Proofs

The theorems hold for every value of the constants that satisfies the named
assumption of the module. Each invariant is inductive: the proof has a step for
the initial states and one for each action.

* `ProcProofs`, from `ProcAssumption` (at least one slot; channels and CPUs are
  not slots). `TypeCorrect`, `OneCpuPerProcessCorrect` and
  `EmbryoHasOneForkerCorrect` follow from `StackInv`, the conjunction of the
  three. They are proved together: that no two CPUs are on one stack when
  fork() makes a slot RUNNABLE rests on the slot being EMBRYO, and that a slot
  is EMBRYO for one forker only rests on a process running on one CPU.
  `RefinesProcStates` uses `StackInv`: a slot is dispatched or reaped by a
  CPU that holds ptable.lock, and whoever is still on the stack of a process
  that is not RUNNING would hold it too.
* `ProcWaitProofs`: `PidsDifferCorrect`; `ParentCanWaitCorrect` from
  `FamilyInv`, which adds that nobody is its own parent, that init never
  exits, and that a slot in the making has no parent until fork() has filled it
  in and then its forker; `WaitersWaitCorrect` from both invariants, since a
  child that becomes a zombie wakes the parent the family invariant names.
* `RunQueueProofs`, from `QueueAssumption` (an array of at least one place):
  `QueueTypeCorrect`, `FrontIsProcessCorrect` from `QueueInv` (either the places
  written so far are the first ones, or all are written), and
  `RefinesEntryQueue` from `(rear + 1) % NPROC = (front + size) % NPROC`.
* `FindPriorityProofs`, from `LoopAssumption` (priorities and counts are
  integers): the loop invariant says that the process remembered is the best of
  the slots seen (`ReturnsSelectableCorrect`), and that it was scheduled least
  often among the equally urgent ones considered (`LeastScheduledCorrect`).
* `LogProofs`, from `LogAssumption` (finitely many operations, none of which
  modifies more than MAXOPBLOCKS blocks). The log may outgrow its blocks on disk
  (`log_full`), and what it then writes over is lost, so the proof is in two
  parts. `LogInv`, which needs nothing else, adds to the types who is
  where (`log.outstanding` counts the operations inside, a commit has none
  inside, recovery nobody at all: `WhoInv`), that what an operation has modified
  is locked or recorded in the header in memory (`WroteInv`), what the headers name
  in each phase of commit() and of recovery (`PhaseInv`), and `LogReserved`.
  `LogReservedCorrect`: log_write() absorbs a block that is recorded already,
  so a new record uses up a block of its operation's share. `LogFitsCorrect`: with
  more blocks on disk than entries in the header, nlog > LOGSIZE, nothing behind
  the log is written over; `LogReserved` is what it takes. `DataInv` says what the
  blocks of the log and the homes hold, and that a block that differs from its home
  is locked or recorded (`CacheInv`); a step keeps it when `LogFits` holds before
  the step (`Keeps`). `QuietMeansDurableCorrect` and `RefinesAtomicDisk` are
  therefore stated for behaviours with []`LogFits`, which `LogFitsCorrect` gives
  for the larger disk. The refinement maps the abstract disk to the homes overlaid
  with the log once the header is on disk: writing the header is the abstract
  commit, every other block write changes nothing, and a crash loses what the
  header does not name.
* `PipeProofs`, from `PipeAssumption` (PIPESIZE divides UINT and is smaller).
  `PipeInv` adds to the types who has p->lock on the way into sleep() (`LockInv`),
  that the tests made before still hold then (`StopInv`), and in which order the
  sides, the ends and the memory go (`EndInv`). From it follow `PipeTypeCorrect`
  (never more than PIPESIZE bytes between counters that wrap around),
  `SleepersWaitCorrect` and `FreedIsUnusedCorrect`. `RefinesByteFifo`: a write puts
  its bytes behind the contents, a read takes them from the front. This is
  where PIPESIZE has to divide UINT: the place of a byte is a remainder of a
  counter that is itself a remainder.
* `ConsoleProofs`, from `ConsoleAssumption` (INPUT_BUF divides INDEXMOD and is
  smaller, a screen of two rows or more). `ConsoleInv` adds to the types that what
  is handed over and what is being edited fit in the buffer together, and
  `ReadersWait`. `ReadersWaitCorrect`: a reader that sleeps, or is on its way
  into sleep(), has nothing to read. `RefinesTerminal`: the stretch of the ring
  from r to w is the lines, the one from w to e the line being edited;
  control-U and consoleread() stop at the first character that ends them, which
  exists as the well-founded order of the numbers has minima.
* `RingArithmetic` holds what these share: remainders by a quotient and a
  remainder named explicitly, places of a ring that differ, and the stretch of
  a ring as a sequence when it is extended, shortened or split.

Only model-checked:

* liveness (`KilledExits`, `SleepersWake`, `OtherEndCloses`,
  `SleepEnds`, `EveryoneRuns`), which is out of the prover's reach;
* `ParsesGrammar`: the parser is recursive and its correctness an induction over
  the line;
* `NobodyForgotten` and the refinement for `Sched`, `Bcache`, `Spinlock`, `Times`,
  `History`, `FileTable` with `Shell`, `Inodes`, `FileBlocks`, `Mkfs`, `Vm` and
  `Umalloc`: no proof has been written yet. `Spinlock`, `Bcache` and `Sched` come
  next. `FileBlocks` and `Vm` compute with folds over sequences of blocks and pages,
  whose results for every input need induction over data.

## 5. Not modelled

`PROJECT.json` gives the reason for each part. Device registers (keyboard, serial
line, interrupt controllers, multiprocessor tables), boot code and the assembly
of swtch() are input and output or start-up. Queries that change nothing
(getchildren, getparentid, getinfo, getpid), library routines over strings and
numbers, user programs other than init and the shell, and the tests are left
out. Of the console, procdump and the formats of cprintf are left out; of
traps, the fetching of arguments; of spin locks, getcallerpcs.
Modelled without a property of their own are the sleeping times, `infos`,
what exit() and kill() free of the history, and how free() joins neighbouring
blocks beyond `HeapPartitioned`.
