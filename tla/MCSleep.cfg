\* Log: two operations, crashes at any step.  Proc: one CPU, where ptable.lock is
\* never contended, init and two more slots.
CONSTANTS
  Ops = {o1, o2}
  Blocks = {x, y}
  Vals = {0, 1}
  MAXOPBLOCKS = 2
  LOGSIZE = 4
  nlog = 4
  Behind <- InodeBlocks
  OpBlocks = 2
  Crashes = TRUE
  NPROC = 3
  Cpus = {c1}
  Chans = {ticks}
  Calls = {"fork", "wait", "sleep", "kill"}
  MaxPid = 3
SPECIFICATION PartsSpec
INVARIANTS QuietMeansDurable LogReserved
PROPERTIES ImplementsAtomicDisk SleepersWake KilledExits
