------------------------------ MODULE MCParts -------------------------------
(***************************************************************************)
(* The blocks of files, memory, the queue of the scheduler, the history of *)
(* system calls, the accounts of time, malloc(), the parser of the shell   *)
(* and the scheduler with its queues, side by side: a behaviour is one of  *)
(* the part chosen at the start; the others stay in an initial state.      *)
(***************************************************************************)
EXTENDS FileBlocks, Vm, RunQueue, History, Times, Umalloc, ShellParser, TLC

CONSTANTS Cpus, SchedSlots, Calls, Policies, Queues, Priorities, MaxEntries   \* of Sched

VARIABLES part,
          state, priority, queueNumber, named, rrq, pused, policy, lastQueue,
          slock, sproc, sat, ret, i, cand

S == INSTANCE Sched WITH NPROC <- SchedSlots, MaxSize <- MaxEntries,
                         lock <- slock, proc <- sproc, at <- sat

ASSUME PartsAssumption == S!SchedAssumption

SchedVars == <<state, priority, queueNumber, named, rrq, pused, policy, lastQueue,
               slock, sproc, sat, ret, i, cand>>

Parts == {"files", "vm", "queue", "history", "times", "umalloc", "parser", "sched"}

PartVars == <<part, FileVars, VmVars, vars, HistoryVars, TimesVars, HeapVars, line,
              SchedVars>>

PartsInit == /\ part \in Parts
             /\ FilesInit /\ VmInit /\ Init /\ HistoryInit /\ TimesInit /\ UmallocInit
             /\ ParserInit /\ S!Init

Still(x, v) == part # x => UNCHANGED v

PartsNext ==
  \/ /\ \/ part = "files" /\ FilesNext
        \/ part = "vm" /\ VmNext
        \/ part = "queue" /\ Next
        \/ part = "history" /\ HistoryNext
        \/ part = "times" /\ TimesNext
        \/ part = "umalloc" /\ UmallocNext
        \/ part = "parser" /\ ParserNext
        \/ part = "sched" /\ S!Next
     /\ UNCHANGED part
     /\ Still("files", FileVars) /\ Still("vm", VmVars) /\ Still("queue", vars)
     /\ Still("history", HistoryVars) /\ Still("times", TimesVars)
     /\ Still("umalloc", HeapVars) /\ Still("parser", line)
     /\ Still("sched", SchedVars)
  \* Lines grow up to a bound.
  \/ part = "parser" /\ UNCHANGED PartVars

PartsSpec == PartsInit /\ [][PartsNext]_PartVars

-----------------------------------------------------------------------------
(* Properties.                                                             *)

\* The block maps and sizes of files, page tables and page frames, the indices of the
\* queue and the headers of free() keep to their types.
TypesOK == FilesTypeOK /\ VmTypeOK /\ TypeOK /\ UmallocTypeOK

\* As long as no queue holds more than NPROC entries, nobody falls out of the queues
\* of scheduler(), whatever setqueue() moves and whenever changepolicy() is called.
\* setqueue() does not test for room: with MaxEntries above SchedSlots an entry is
\* overwritten and its process is lost.
NobodyForgotten == S!NobodyForgotten

\* scheduler() runs only RUNNABLE processes, each on one CPU, also with a local p
\* that is left over from an earlier iteration.
SchedulerImplementsProcStates == S!ImplementsProcStates

-----------------------------------------------------------------------------
(* Values of the constants.                                                *)

\* The CPUs are interchangeable.
CpuSymmetry == Permutations(Cpus)

LoadSeg(at, fsz, msz) ==
  [vaddr |-> at, filesz |-> fsz, memsz |-> msz, val |-> 1, short |-> FALSE]
Program(segs, args) == [segs |-> segs, args |-> args]
ExecFiles == {Program(<<LoadSeg(0, 1, 2)>>, 1), Program(<<LoadSeg(0, 2, 3)>>, 3),
              Program(<<LoadSeg(0, 1, 1), LoadSeg(2, 1, 1)>>, 1),
              Program(<<LoadSeg(1, 1, 1)>>, 1), Program(<<LoadSeg(0, 2, 1)>>, 1),
              Program(<<LoadSeg(38, 1, 4)>>, 1),
              Program(<<[LoadSeg(0, 1, 2) EXCEPT !.short = TRUE]>>, 1)}
SbrkDeltas == {-4, -3, 3}
=============================================================================
