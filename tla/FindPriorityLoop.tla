-------------------------- MODULE FindPriorityLoop --------------------------
(***************************************************************************)
(* The loop of findPriority() (proc.c), which selects the process that the *)
(* priority policy (mode 3) or a priority queue of the multi-level policy  *)
(* (modes 1 and 2) runs next.  It runs under ptable.lock, so the table     *)
(* does not change meanwhile; the initial states are all small tables.     *)
(***************************************************************************)
EXTENDS FindPriority

CONSTANTS Priorities,  \* values of priority in the tables
          Times        \* values of scheduled_times in the tables

ASSUME LoopAssumption == /\ NPROC \in Nat /\ Priorities \subseteq Int
                         /\ Times \subseteq Int

VARIABLES mode, state, queueNumber, priority, scheduled_times,  \* the input
          p,           \* the loop variable
          selectedP

input == <<mode, state, queueNumber, priority, scheduled_times>>
loopvars  == <<mode, state, queueNumber, priority, scheduled_times, p, selectedP>>

LoopInit == /\ mode \in 1 .. 3
        /\ state \in [Slots -> {"RUNNABLE", "SLEEPING"}]
        /\ queueNumber \in [Slots -> 0 .. 3]
        /\ priority \in [Slots -> Priorities]
        /\ scheduled_times \in [Slots -> Times]
        /\ p = 0 /\ selectedP = None

\* The branch on mode: p becomes the selected process if it is the first one
\* considered or more urgent than the selected one.
ByPriority == IF /\ Considers(mode, queueNumber[p])
                 /\ selectedP = None \/ Beats(mode, priority[p], priority[selectedP])
              THEN p ELSE selectedP

\* Mutant: ties go to the process scheduled more often.
ByTimes_More(s) == IF /\ s # None /\ priority[s] = priority[p]
                      /\ scheduled_times[s] < scheduled_times[p]
                   THEN p ELSE s

\* The tie-break: p takes the place of s if it was scheduled less often.
ByTimes(s) == IF /\ s # None /\ priority[s] = priority[p]
                 /\ scheduled_times[s] > scheduled_times[p]
              THEN p ELSE s

\* One iteration.
Step == /\ p < NPROC
        /\ selectedP' = IF state[p] # "RUNNABLE" THEN selectedP
                                                 ELSE ByTimes(ByPriority)
        /\ p' = p + 1
        /\ UNCHANGED input

LoopSpec == LoopInit /\ [][Step]_loopvars

-----------------------------------------------------------------------------
\* Every variable stays in its range.
LoopTypeOK == /\ mode \in 1 .. 3
          /\ state \in [Slots -> {"RUNNABLE", "SLEEPING"}]
          /\ queueNumber \in [Slots -> 0 .. 3]
          /\ priority \in [Slots -> Int] /\ scheduled_times \in [Slots -> Int]
          /\ p \in 0 .. NPROC /\ selectedP \in Slots \cup {None}

\* findPriority() returns a process scheduler() may run under this mode, and
\* the null pointer exactly when there is none.
ReturnsSelectable ==
  LET S == Selectable(mode, state, queueNumber, priority)
  IN p = NPROC => IF S = {} THEN selectedP = None ELSE selectedP \in S

\* No process considered that is as urgent as the one returned has been
\* scheduled less often.
LeastScheduled ==
  p = NPROC /\ selectedP # None =>
    \A q \in Slots : /\ state[q] = "RUNNABLE" /\ Considers(mode, queueNumber[q])
                     /\ priority[q] = priority[selectedP]
                     => scheduled_times[selectedP] <= scheduled_times[q]
=============================================================================
