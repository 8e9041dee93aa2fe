\* Moves between the two round-robin queues, multi-level policy only.
CONSTANTS
  NPROC = 3
  Cpus = {c1}
  Policies = {}
  Queues = {0, 3}
  Priorities = {}
  Calls = {"fork"}
  MaxSize = 3
SPECIFICATION FairSpec
PROPERTY EveryoneRuns
