\* Two CPUs, init and two more slots, every call.
CONSTANTS
  Cpus = {c1, c2}
  NPROC = 3
  Calls = {"fork", "wait", "sleep", "kill", "exit"}
  Chans = {ticks}
  MaxPid = 4
SPECIFICATION Spec
SYMMETRY CpuSymmetry
INVARIANTS OneCpuPerProcess ParentCanWait WaitersWait
PROPERTY ImplementsProcStates
