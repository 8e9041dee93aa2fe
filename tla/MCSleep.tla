------------------------------- MODULE MCSleep ------------------------------
(***************************************************************************)
(* The log, in which operations sleep until a commit is over, and the life *)
(* of processes on one CPU, where parents sleep until a child is a zombie, *)
(* side by side: a behaviour is one of the part chosen at the start; the   *)
(* other stays in its initial state.                                       *)
(***************************************************************************)
EXTENDS MCLog

CONSTANTS NPROC, Cpus, Chans, Calls, MaxPid                            \* of Proc

VARIABLES part,
          state, pid, parent, killed, chan, nextpid, lock, proc, at, thread, np

P == INSTANCE Proc WITH pc <- thread

ProcVars  == <<state, pid, parent, killed, chan, nextpid, lock, proc, at, thread, np>>
SleepVars == <<part, vars, ProcVars>>

PartsInit == /\ part \in {"log", "proc"}
             /\ Init /\ P!Init
             /\ part = "proc" => \A b \in Blocks : home[b] = 0
             /\ \A j \in 1 .. nlog - 1 : slots[j] = 0

PartsNext == \/ part = "log" /\ Next /\ UNCHANGED <<part, ProcVars>>
             \/ part = "proc" /\ P!Next /\ UNCHANGED <<part, vars>>

\* Each part is fair in its own way.
PartsSpec == /\ PartsInit /\ [][PartsNext]_SleepVars
             /\ \/ part = "log" /\ Fairness
                \/ part = "proc" /\ P!Fairness

-----------------------------------------------------------------------------
(* Properties.                                                             *)

\* A killed process becomes a zombie, if the kill did not come between its test of
\* killed and the sleep() outside of wait() that follows it: kill() wakes whom it finds
\* asleep, and who is woken does not sleep again.
KilledExits == part = "proc" => P!KilledExits
=============================================================================
