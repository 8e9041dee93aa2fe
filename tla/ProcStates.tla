----------------------------- MODULE ProcStates -----------------------------
(***************************************************************************)
(* What the process table promises, whatever the scheduling policy: the    *)
(* life cycle of a table slot (enum procstate, proc.h) and the rule that a *)
(* kernel stack is used by one CPU at a time.  stack[c] is the process on  *)
(* whose kernel stack CPU c executes, None while c is on its scheduler     *)
(* stack.  A slot's state changes before its CPU has left the stack, so    *)
(* Dispatch and Reap must wait until no CPU is on it: proc.c obtains that  *)
(* by holding ptable.lock across swtch().  Proc and Sched implement this   *)
(* module.                                                                 *)
(***************************************************************************)
EXTENDS Integers

CONSTANTS Procs, Cpus, None, initproc

VARIABLES state, stack

vars == <<state, stack>>

Init == /\ state = [p \in Procs |-> IF p = initproc THEN "RUNNABLE"
                                                    ELSE "UNUSED"]
        /\ stack = [c \in Cpus |-> None]

OffStack(p) == \A c \in Cpus : stack[c] # p

\* The sleepers a wakeup may make RUNNABLE.
Sleepers == {p \in Procs : state[p] = "SLEEPING"}

Woken(W) == [p \in Procs |-> IF p \in W THEN "RUNNABLE" ELSE state[p]]

Move(p, from, to) == /\ state[p] = from
                     /\ state' = [state EXCEPT ![p] = to]
                     /\ UNCHANGED stack

Allocate(p) == Move(p, "UNUSED", "EMBRYO")
Abandon(p)  == Move(p, "EMBRYO", "UNUSED")
Ready(p)    == Move(p, "EMBRYO", "RUNNABLE")
Reap(p)     == OffStack(p) /\ Move(p, "ZOMBIE", "UNUSED")

Wake(W) == state' = Woken(W) /\ UNCHANGED stack

Dispatch(c, p) == /\ stack[c] = None /\ OffStack(p)
                  /\ state[p] = "RUNNABLE"
                  /\ state' = [state EXCEPT ![p] = "RUNNING"]
                  /\ stack' = [stack EXCEPT ![c] = p]

\* The running process gives up the CPU; exit() wakes sleepers in the same
\* critical section.
Stop(c, p, s, W) == /\ stack[c] = p /\ state[p] = "RUNNING"
                    /\ state' = [Woken(W) EXCEPT ![p] = s]
                    /\ UNCHANGED stack

Leave(c, p) == /\ stack[c] = p /\ state[p] # "RUNNING"
               /\ stack' = [stack EXCEPT ![c] = None]
               /\ UNCHANGED state

Next ==
  \/ \E p \in Procs : Allocate(p) \/ Abandon(p) \/ Ready(p) \/ Reap(p)
  \/ \E W \in SUBSET Sleepers : Wake(W)
  \/ \E c \in Cpus, p \in Procs : Dispatch(c, p) \/ Leave(c, p)
  \/ \E c \in Cpus, p \in Procs, W \in SUBSET Sleepers,
        s \in {"RUNNABLE", "SLEEPING", "ZOMBIE"} : Stop(c, p, s, W)

Spec == Init /\ [][Next]_vars
=============================================================================
