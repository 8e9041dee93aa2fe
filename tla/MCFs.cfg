\* Two processes and four calls on two names; images of three files; two CPUs
\* and two threads; all tables of three processes.
CONSTANTS
  Procs = {t1, t2}
  NINODES = 4
  Names = {"a", "b"}
  Calls <- FsCalls
  MaxCalls = 4
  NDIRECT = 1
  NINDIRECT = 2
  BSIZE = 2
  NMETA = 3
  BITS = 14
  MaxFiles = 3
  MaxLength = 7
  SpinCpus = {0, 1}
  Threads = {"a", "b"}
  NPROC = 3
  Priorities = {1, 2}
  Times = {0, 1}
SYMMETRY ProcSymmetry
SPECIFICATION PartsSpec
INVARIANTS NotFreedInUse LinksCounted RefsGivenBack ImageReadsBack InterruptsRestored LeastScheduled
