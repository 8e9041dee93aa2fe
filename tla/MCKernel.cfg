\* Two threads, three blocks and two buffers, of which the log keeps one; two
\* readers of the console, an input buffer of two characters and a screen of six;
\* a clock that comes round; two lines typed to a shell with five processes, four
\* files and two pipes; three processes on one CPU.
CONSTANTS
  Threads = {t1, t2}
  DiskBlocks = {"k1", "k2", "k3"}
  DiskVals = {0, 1}
  NBUF = 2
  MaxDirty = 1
  Nested <- HeldPairs
  IdeResults = {TRUE}
  ConsReaders = {p1, p2}
  INPUT_BUF = 2
  INDEXMOD = 4
  MaxRead = 2
  COLS = 2
  ROWS = 3
  ClockProcs = {1}
  UINTMOD = 8
  Asked <- SleepArgs
  NFILE = 4
  NOFILE = 6
  NPIPE = 2
  Users <- FiveUsers
  Lines <- Typed
  MaxLines = 2
  NPROC = 3
  Cpus = {c1}
  Policies = {0, 1}
  Priorities = {3}
  Calls = {"fork", "sleep", "exit"}
  MaxSize = 3
SPECIFICATION PartsSpec
INVARIANTS TypesOK ReadersWait OpenByDescriptors NobodyStuck
PROPERTIES ImplementsBlockStore PanicOnlyWhenFull ImplementsTerminal SleepEnds EveryoneRuns
