------------------------------ MODULE MCKernel ------------------------------
(***************************************************************************)
(* The buffer cache with the disk driver, the console, the clock, the      *)
(* shell on the file table, and the scheduler (for what must come about in *)
(* it), side by side: a behaviour is one of the part chosen at the start;  *)
(* the others stay in an initial state.                                    *)
(***************************************************************************)
EXTENDS Bcache, Console, Clock, Shell

CONSTANTS NPROC, Cpus, Policies, Priorities, Calls, MaxSize   \* of Sched

VARIABLES part,
          state, priority, queueNumber, named, rrq, pused, policy, lastQueue,
          lock, proc, at, ret, i, cand                        \* of Sched

S == INSTANCE Sched WITH Queues <- {}

ASSUME KernelAssumption == S!SchedAssumption

SchedVars  == <<state, priority, queueNumber, named, rrq, pused, policy, lastQueue,
                lock, proc, at, ret, i, cand>>
KernelVars == <<part, CacheVars, ConsoleVars, ClockVars, ShellVars, SchedVars>>

PartsInit == /\ part \in {"cache", "console", "clock", "shell", "sched"}
             /\ CacheInit /\ ConsoleInit /\ ClockInit /\ ShellInit /\ S!Init
             /\ part # "cache" => /\ \A x \in Bufs : data[x] = 0
                                  /\ \A k \in DiskBlocks : diskdata[k] = 0
             /\ part # "console" => pos = 0
             /\ part # "clock" => tick = 0

Still(x, v) == part # x => UNCHANGED v

PartsNext ==
  /\ \/ part = "cache" /\ CacheNext
     \/ part = "console" /\ ConsoleNext
     \/ part = "clock" /\ ClockNext
     \/ part = "shell" /\ ShellNext
     \/ part = "sched" /\ S!Next
  /\ UNCHANGED part
  /\ Still("cache", CacheVars) /\ Still("console", ConsoleVars)
  /\ Still("clock", ClockVars) /\ Still("shell", ShellVars) /\ Still("sched", SchedVars)

\* Interrupts keep coming, and a process that is runnable runs.
ClockFairness ==
  /\ WF_ClockVars(part = "clock" /\ TimerTick)
  /\ \A t \in ClockProcs : /\ WF_ClockVars(part = "clock" /\ SleepGoesOn(t))
                            /\ WF_ClockVars(part = "clock" /\ SleepBlocks(t))
                            /\ WF_ClockVars(part = "clock" /\ SleepReturns(t))

\* The fairness of Sched.
SchedFairness ==
  /\ \A c \in Cpus : WF_SchedVars(part = "sched" /\ S!Scheduler(c))
  /\ \A c \in Cpus, p \in S!Procs :
       /\ WF_SchedVars(part = "sched" /\ S!Sched(c, p))
       /\ WF_SchedVars(part = "sched" /\ S!YieldTick(c, p))
       /\ WF_SchedVars(part = "sched" /\ S!YieldQuantum(c, p))

PartsSpec == /\ PartsInit /\ [][PartsNext]_KernelVars
             /\ ClockFairness /\ SchedFairness

-----------------------------------------------------------------------------
(* Properties.                                                             *)

\* Every runnable process runs eventually as long as all are in the default
\* queue, under the default and under the round-robin policy of scheduler().
EveryoneRuns == part = "sched" => S!EveryoneRuns

\* The parts of the kernel keep to the types of their state: buffers, disk queue and
\* locks, the console's indices and screen, the file table with its descriptors, and
\* the scheduler's queues with its loop variables.
TypesOK == CacheTypeOK /\ ConsoleTypeOK /\ FileTableTypeOK /\ S!TypeOK

-----------------------------------------------------------------------------
(* Values of the constants.                                                *)

ExecCmd(p)      == [type |-> "EXEC", prog |-> p]
PipeCmd(a, b2)  == [type |-> "PIPE", left |-> a, right |-> b2]
ListCmd(a, b2)  == [type |-> "LIST", left |-> a, right |-> b2]
RedirCmd(a, fd) == [type |-> "REDIR", cmd |-> a, fd |-> fd]
BackCmd(a)      == [type |-> "BACK", cmd |-> a]

\* yes | cat | echo; echo > f ; none; and echo | cat < f &.
Typed == {PipeCmd(ExecCmd("yes"), PipeCmd(ExecCmd("cat"), ExecCmd("echo"))),
          ListCmd(RedirCmd(ExecCmd("echo"), 1), ExecCmd("none")),
          BackCmd(PipeCmd(ExecCmd("echo"), RedirCmd(ExecCmd("cat"), 0)))}
FiveUsers == 1 .. 5

\* Block k1 is held while k2 is read, as an indirect block is while
\* balloc() reads the bitmap, and a block of the log while its home is read.
HeldPairs == {<<"k1", "k2">>}

\* Arguments of sys_sleep().
SleepArgs == {0, 1, 2, 5, -1}
=============================================================================
