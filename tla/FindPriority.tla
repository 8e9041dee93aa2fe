---------------------------- MODULE FindPriority ----------------------------
(***************************************************************************)
(* What findPriority() of proc.c promises to scheduler(): which processes  *)
(* of the table it may select.  FindPriorityLoop has its loop.             *)
(***************************************************************************)
EXTENDS ProcTable

QUEUE_DEFAULT          == 0
QUEUE_PRIORITY         == 1
QUEUE_PRIORITY_REVERSE == 2
QUEUE_PRIORITY_RR      == 3

\* Whether the pass considers a slot with this queueNumber: modes 1 and 2 are
\* a queue's, mode 3 is the whole table.
Considers(mode, queueNumber) ==
  \/ mode = 1 /\ queueNumber = QUEUE_PRIORITY
  \/ mode = 2 /\ queueNumber = QUEUE_PRIORITY_REVERSE
  \/ mode = 3

\* More urgent: a smaller value, except in the reverse queue.
Beats(mode, x, y) == IF mode = 2 THEN x > y ELSE x < y

\* A RUNNABLE process with the most urgent priority among those the mode
\* considers.  It need not be one of them: the tie-break on scheduled_times
\* is made for every RUNNABLE slot.
Selectable(mode, state, queueNumber, priority) ==
  LET R == {p \in DOMAIN state : state[p] = "RUNNABLE"}
      C == {p \in R : Considers(mode, queueNumber[p])}
  IN {p \in R : \E q \in C : /\ priority[p] = priority[q]
                             /\ \A r \in C : ~Beats(mode, priority[r], priority[q])}
=============================================================================
