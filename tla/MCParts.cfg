\* Files of one direct and one indirect block on a disk that two of them fill; eleven
\* page frames; three slots and a queue that overflows twice over; lines of five
\* characters.  Sched: two CPUs and two slots, moves to a priority queue and back to the
\* round-robin queue, a change from the multi-level policy to the priority policy;
\* MaxEntries keeps the arrays of the queues from overflowing.
CONSTANTS
  Files = {f, g}
  Bytes = {0, 1}
  NDIRECT = 1
  NINDIRECT = 1
  BSIZE = 2
  NBLOCKS = 5
  CHUNK = 2
  FUINT = 6
  MaxCount = 3
  MaxOps = 4
  VmProcs = {p1, p2}
  NFRAMES = 11
  PGSIZE = 2
  MAXPAGES = 5
  NPTENTRIES = 2
  KPTS = 1
  Programs <- ExecFiles
  Deltas <- SbrkDeltas
  Left = {1, 3, 11}
  MaxSteps = 9
  Vals = {0, 1}
  NPROC = 3
  MaxSize = 7
  NCOUNTERS = 2
  Nums = {1, 2, 3}
  MaxSyscalls = 3
  Tasks = {1}
  MaxTicks = 4
  MaxPids = 2
  NINFO = 3
  HEAP = 9
  MINCORE = 4
  HEADER = 2
  HUINT = 64
  Sizes = {0, 1, 4, 8, 63}
  MaxGap = 1
  MAXARGS = 3
  MaxLine = 5
  Cpus = {c1, c2}
  SchedSlots = 2
  Calls = {"fork", "exit"}
  Policies = {2}
  Queues = {0, 2}
  Priorities = {}
  MaxEntries = 2
SPECIFICATION PartsSpec
SYMMETRY CpuSymmetry
INVARIANTS TypesOK PagesConserved HeapPartitioned RunningIsRun ParsesGrammar NobodyForgotten
PROPERTIES SchedulerImplementsProcStates
PROPERTIES ImplementsByteFile ImplementsMemory ImplementsEntryQueue CountAnswered
