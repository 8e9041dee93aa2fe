\* A kill of pid 0 and the next fork.
CONSTANTS
  NPROC = 3
  Cpus = {c1}
  Chans = {ticks}
  Calls = {"fork", "wait", "sleep", "kill", "exit"}
  MaxPid = 3
SPECIFICATION Spec
PROPERTY BornAlive
