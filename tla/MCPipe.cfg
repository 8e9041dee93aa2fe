\* Two writers, bytes that differ, counters that wrap around.
CONSTANTS
  Readers = {r1}
  Writers = {w1, w2}
  PIPESIZE = 2
  UINT = 4
  Vals = {0, 1}
  MaxCount = 3
  Kills = {w1}
SPECIFICATION FairSpec
INVARIANTS SleepersWait FreedIsUnused
PROPERTIES ImplementsByteFifo OtherEndCloses
