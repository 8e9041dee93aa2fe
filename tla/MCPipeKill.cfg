\* One reader and one writer, both of which may be killed.
CONSTANTS
  Readers = {r1}
  Writers = {w1}
  PIPESIZE = 2
  UINT = 4
  Vals = {0}
  MaxCount = 3
  Kills = {r1, w1}
SPECIFICATION FairSpec
PROPERTY KilledReturns
