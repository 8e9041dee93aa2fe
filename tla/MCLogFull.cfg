\* As many blocks as two operations may write; the machine stops on a panic.
CONSTANTS
  Ops = {o1, o2}
  Blocks = {w, x, y, z}
  Vals = {0}
  MAXOPBLOCKS = 2
  LOGSIZE = 4
  nlog = 4
  Behind <- InodeBlocks
  OpBlocks = 2
  Crashes = FALSE
SPECIFICATION Spec
CHECK_DEADLOCK FALSE
INVARIANT LogFits
