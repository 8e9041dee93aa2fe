-------------------------------- MODULE Proc --------------------------------
(***************************************************************************)
(* The life of a process (proc.c, trap.c): allocproc, fork, exit, wait,    *)
(* kill, sleep, wakeup, yield, sched and swtch, by several CPUs under      *)
(* ptable.lock.  A slot of ptable.proc is its index; a critical section    *)
(* under ptable.lock is one action, except that the lock is a variable     *)
(* where the code keeps it across swtch() or inside wait().  The scheduler *)
(* picks any RUNNABLE process: Sched says which one.                       *)
(***************************************************************************)
EXTENDS Integers, FiniteSets

CONSTANTS NPROC,   \* slots of ptable.proc
          Cpus,    \* CPUs running scheduler()
          Chans,   \* channels of sleepers other than wait(), e.g. &ticks
          Calls,   \* the system calls processes make
          MaxPid   \* bound on nextpid

Procs    == 0 .. NPROC - 1
None     == -1     \* the null pointer; also a free ptable.lock
initproc == 0

ASSUME ProcAssumption == /\ NPROC \in Nat \ {0} /\ MaxPid \in Nat \ {0}
                         /\ Calls \subseteq {"fork", "wait", "sleep", "kill",
                                             "exit"}
                         /\ (Chans \cup Cpus) \cap (Procs \cup {None}) = {}

VARIABLES state, pid, parent, killed, chan,  \* fields of struct proc
          nextpid,
          lock,    \* CPU holding ptable.lock, or None
          proc,    \* cpus[c].proc: on whose kernel stack c is
          at,      \* where CPU c is, see CpuPoints
          pc,      \* where the kernel thread of p is, see ThreadPoints
          np       \* fork()'s local: the slot p allocated for its child

table == <<pid, parent, nextpid>>
vars  == <<state, pid, parent, killed, chan, nextpid, lock, proc, at, pc, np>>

States == {"UNUSED", "EMBRYO", "SLEEPING", "RUNNABLE", "RUNNING", "ZOMBIE"}

\* top: between release and acquire of scheduler(); pick: its loop over the
\* processes, lock held; proc: executing a process; sched: that process has
\* called sched() and not yet left its stack.
CpuPoints == {"top", "pick", "proc", "sched"}

\* user: user code; fork: entered fork(); copy: child allocated; ready: child
\* filled in; wait: in wait(); sleep: about to test killed in sys_sleep;
\* block: on its way into sleep(); kill: in kill(); exit: in exit().
ThreadPoints == {"user", "fork", "copy", "ready", "wait", "sleep", "block",
                 "kill", "exit"}

Kids(p)    == {q \in Procs : parent[q] = p}
\* Mutant: wait() takes any child that is set up.
Zombies_AnyChild(p) == {q \in Kids(p) : state[q] # "EMBRYO"}
Zombies(p) == {q \in Kids(p) : state[q] = "ZOMBIE"}
FirstOf(S) == CHOOSE x \in S : \A y \in S : x <= y

\* Process p executes on CPU c and holds no spinlock.
On(c, p) == /\ at[c] = "proc" /\ proc[c] = p /\ lock # c

\* wakeup1(): every sleeper on a channel of C becomes RUNNABLE.
wakeup1(C) == [q \in Procs |-> IF state[q] = "SLEEPING" /\ chan[q] \in C
                               THEN "RUNNABLE" ELSE state[q]]

\* userinit(): init is RUNNABLE and every CPU enters scheduler().
Init == /\ state   = [p \in Procs |-> IF p = initproc THEN "RUNNABLE"
                                                      ELSE "UNUSED"]
        /\ pid     = [p \in Procs |-> IF p = initproc THEN 1 ELSE 0]
        /\ parent  = [p \in Procs |-> None]
        /\ killed  = [p \in Procs |-> FALSE]
        /\ chan    = [p \in Procs |-> None]
        /\ nextpid = 2
        /\ lock    = None
        /\ proc    = [c \in Cpus |-> None]
        /\ at      = [c \in Cpus |-> "top"]
        /\ pc      = [p \in Procs |-> "user"]
        /\ np      = [p \in Procs |-> None]

-----------------------------------------------------------------------------
(* trap(), as far as it concerns the life of a process.                    *)

\* Bound: the calls of fork() under way get no pid above MaxPid.
ForkBudget == nextpid + Cardinality({p \in Procs : pc[p] = "fork"}) <= MaxPid

\* A system call enters the kernel unless the process has been killed.
Syscall(c, p, k) ==
  /\ On(c, p) /\ pc[p] = "user" /\ ~killed[p]
  /\ k = "fork" => ForkBudget
  /\ k = "exit" => p # initproc
  /\ pc' = [pc EXCEPT ![p] = k]
  /\ UNCHANGED <<state, table, killed, chan, lock, proc, at, np>>

\* A killed process exits at its next trap from, or return to, user space.
KilledTrap(c, p) ==
  /\ On(c, p) /\ pc[p] = "user" /\ killed[p] /\ p # initproc
  /\ pc' = [pc EXCEPT ![p] = "exit"]
  /\ UNCHANGED <<state, table, killed, chan, lock, proc, at, np>>

\* An exception in user code kills the process.
Fault(c, p) ==
  /\ On(c, p) /\ pc[p] = "user" /\ ~killed[p] /\ p # initproc
  /\ killed' = [killed EXCEPT ![p] = TRUE]
  /\ UNCHANGED <<state, table, chan, lock, proc, at, pc, np>>

\* Mutant: the lock is released before sched().
Stop_Unlocked(c, p, newState) ==
  /\ lock = None
  /\ state' = newState
  /\ at' = [at EXCEPT ![c] = "sched"]
  /\ UNCHANGED <<proc, lock>>

\* Acquire ptable.lock, change the state of the running process and call
\* sched().
Stop(c, p, newState) ==
  /\ lock = None /\ lock' = c
  /\ state' = newState
  /\ at' = [at EXCEPT ![c] = "sched"]
  /\ UNCHANGED proc

\* yield(), on a timer interrupt in user or kernel mode.
Yield(c, p) ==
  /\ On(c, p) /\ (pc[p] = "user" => ~killed[p])
  /\ Stop(c, p, [state EXCEPT ![p] = "RUNNABLE"])
  /\ UNCHANGED <<table, killed, chan, pc, np>>

-----------------------------------------------------------------------------
(* fork().                                                                 *)

\* allocproc() up to its release: the first UNUSED slot becomes EMBRYO.  The
\* slot keeps the killed flag it has.
Allocproc(c, p) ==
  LET q == FirstOf({r \in Procs : state[r] = "UNUSED"})
  IN /\ On(c, p) /\ pc[p] = "fork" /\ lock = None
     /\ \E r \in Procs : state[r] = "UNUSED"
     /\ state' = [state EXCEPT ![q] = "EMBRYO"]
     /\ pid' = [pid EXCEPT ![q] = nextpid]
     /\ nextpid' = nextpid + 1
     /\ np' = [np EXCEPT ![p] = q]
     /\ pc' = [pc EXCEPT ![p] = "copy"]
     /\ UNCHANGED <<parent, killed, chan, lock, proc, at>>

\* allocproc() finds no UNUSED slot: fork() returns -1.
TableFull(c, p) ==
  /\ On(c, p) /\ pc[p] = "fork" /\ lock = None
  /\ \A r \in Procs : state[r] # "UNUSED"
  /\ pc' = [pc EXCEPT ![p] = "user"]
  /\ UNCHANGED <<state, table, killed, chan, lock, proc, at, np>>

\* kalloc() of the kernel stack or copyuvm() fails: the slot is given back
\* without ptable.lock and keeps its pid.
ForkFail(c, p) ==
  /\ On(c, p) /\ pc[p] = "copy"
  /\ state' = [state EXCEPT ![np[p]] = "UNUSED"]
  /\ np' = [np EXCEPT ![p] = None]
  /\ pc' = [pc EXCEPT ![p] = "user"]
  /\ UNCHANGED <<table, killed, chan, lock, proc, at>>

\* The child is filled in, its parent included, without ptable.lock.
ForkCopy(c, p) ==
  /\ On(c, p) /\ pc[p] = "copy"
  /\ parent' = [parent EXCEPT ![np[p]] = p]
  /\ pc' = [pc EXCEPT ![p] = "ready"]
  /\ UNCHANGED <<state, pid, nextpid, killed, chan, lock, proc, at, np>>

\* The child becomes RUNNABLE and will start in forkret().
ForkDone(c, p) ==
  /\ On(c, p) /\ pc[p] = "ready" /\ lock = None
  /\ state' = [state EXCEPT ![np[p]] = "RUNNABLE"]
  /\ np' = [np EXCEPT ![p] = None]
  /\ pc' = [pc EXCEPT ![p] = "user", ![np[p]] = "user"]
  /\ UNCHANGED <<table, killed, chan, lock, proc, at>>

-----------------------------------------------------------------------------
(* exit() and wait().                                                      *)

\* Mutant: the parent is not woken.
WakesAtExit_NotParent(p) == IF Zombies(p) # {} THEN {initproc} ELSE {}
\* exit() wakes its parent, and init if it passes a zombie on to it.
WakesAtExit(p) == {parent[p]} \cup (IF Zombies(p) # {} THEN {initproc} ELSE {})

\* Mutant: children keep their dead parent.
PassChildren_Not(p) == parent
\* exit() passes its children to init.
PassChildren(p) == [q \in Procs |-> IF parent[q] = p THEN initproc
                                                     ELSE parent[q]]

\* exit() from its acquire to sched().
Exit(c, p) ==
  /\ On(c, p) /\ pc[p] = "exit"
  /\ Stop(c, p, [wakeup1(WakesAtExit(p)) EXCEPT ![p] = "ZOMBIE"])
  /\ parent' = PassChildren(p)
  /\ UNCHANGED <<pid, nextpid, killed, chan, pc, np>>

\* wait() acquires ptable.lock.
WaitAcquire(c, p) ==
  /\ On(c, p) /\ pc[p] = "wait" /\ lock = None
  /\ lock' = c
  /\ UNCHANGED <<state, table, killed, chan, proc, at, pc, np>>

\* Process p scans the table in wait(), either for the first time or back
\* from sleep(), whose last act is p->chan = 0.
Scanning(c, p) == at[c] = "proc" /\ proc[c] = p /\ lock = c /\ pc[p] = "wait"

\* wait() frees the first zombie child and returns its pid.
WaitReap(c, p) ==
  LET q == FirstOf(Zombies(p))
  IN /\ Scanning(c, p) /\ Zombies(p) # {}
     /\ state'  = [state EXCEPT ![q] = "UNUSED"]
     /\ pid'    = [pid EXCEPT ![q] = 0]
     /\ parent' = [parent EXCEPT ![q] = None]
     /\ killed' = [killed EXCEPT ![q] = FALSE]
     /\ chan'   = [chan EXCEPT ![p] = None]
     /\ lock'   = None
     /\ pc'     = [pc EXCEPT ![p] = "user"]
     /\ UNCHANGED <<nextpid, proc, at, np>>

\* wait() returns -1: no children, or killed.
WaitGiveUp(c, p) ==
  /\ Scanning(c, p) /\ Zombies(p) = {} /\ (Kids(p) = {} \/ killed[p])
  /\ chan' = [chan EXCEPT ![p] = None]
  /\ lock' = None
  /\ pc'   = [pc EXCEPT ![p] = "user"]
  /\ UNCHANGED <<state, table, killed, proc, at, np>>

\* wait() sleeps on its own slot, keeping ptable.lock.
WaitSleep(c, p) ==
  /\ Scanning(c, p) /\ Zombies(p) = {} /\ Kids(p) # {} /\ ~killed[p]
  /\ chan'  = [chan EXCEPT ![p] = p]
  /\ state' = [state EXCEPT ![p] = "SLEEPING"]
  /\ at'    = [at EXCEPT ![c] = "sched"]
  /\ UNCHANGED <<table, killed, lock, proc, pc, np>>

-----------------------------------------------------------------------------
(* sleep() on other channels, wakeup() and kill().                         *)

\* The loop of sys_sleep: return when the time is over or the process has
\* been killed, else call sleep().  The test of killed is not made under
\* ptable.lock.
SleepTest(c, p) ==
  /\ On(c, p) /\ pc[p] = "sleep"
  /\ \/ pc' = [pc EXCEPT ![p] = "user"]
     \/ ~killed[p] /\ pc' = [pc EXCEPT ![p] = "block"]
  /\ UNCHANGED <<state, table, killed, chan, lock, proc, at, np>>

\* sleep(chan, lk).
Sleep(c, p, ch) ==
  /\ On(c, p) /\ pc[p] = "block"
  /\ Stop(c, p, [state EXCEPT ![p] = "SLEEPING"])
  /\ chan' = [chan EXCEPT ![p] = ch]
  /\ UNCHANGED <<table, killed, pc, np>>

\* wakeup(chan), by an interrupt handler or another process.
Wakeup(ch) ==
  /\ lock = None
  /\ state' = wakeup1({ch})
  /\ UNCHANGED <<table, killed, chan, lock, proc, at, pc, np>>

\* Mutant: a sleeper is not woken.
Kill_NoWake(c, p, n) ==
  LET q == FirstOf({r \in Procs : pid[r] = n})
  IN /\ On(c, p) /\ pc[p] = "kill" /\ lock = None
     /\ n # pid[initproc] /\ \E r \in Procs : pid[r] = n
     /\ killed' = [killed EXCEPT ![q] = TRUE]
     /\ pc' = [pc EXCEPT ![p] = "user"]
     /\ UNCHANGED <<state, table, chan, lock, proc, at, np>>

\* kill(n): the first slot whose pid is n, in whatever state.  Killing init
\* ends in panic("init exiting") and is left out.
Kill(c, p, n) ==
  LET q == FirstOf({r \in Procs : pid[r] = n})
  IN /\ On(c, p) /\ pc[p] = "kill" /\ lock = None
     /\ n # pid[initproc] /\ \E r \in Procs : pid[r] = n
     /\ killed' = [killed EXCEPT ![q] = TRUE]
     /\ state' = [state EXCEPT ![q] = IF @ = "SLEEPING" THEN "RUNNABLE"
                                                        ELSE @]
     /\ pc' = [pc EXCEPT ![p] = "user"]
     /\ UNCHANGED <<table, chan, lock, proc, at, np>>

\* kill() finds no such pid.
KillNone(c, p) ==
  /\ On(c, p) /\ pc[p] = "kill" /\ lock = None
  /\ pc' = [pc EXCEPT ![p] = "user"]
  /\ UNCHANGED <<state, table, killed, chan, lock, proc, at, np>>

-----------------------------------------------------------------------------
(* scheduler(), swtch() and the return from sched().                       *)

\* swtch() to the scheduler's stack, then c->proc = 0.
Sched(c, p) ==
  /\ at[c] = "sched" /\ proc[c] = p
  /\ at'   = [at EXCEPT ![c] = "pick"]
  /\ proc' = [proc EXCEPT ![c] = None]
  /\ UNCHANGED <<state, table, killed, chan, lock, pc, np>>

SchedAcquire(c) ==
  /\ at[c] = "top" /\ lock = None
  /\ at'   = [at EXCEPT ![c] = "pick"]
  /\ lock' = c
  /\ UNCHANGED <<state, table, killed, chan, proc, pc, np>>

\* swtch() to a RUNNABLE process, which starts with ptable.lock held.
Pick(c, p) ==
  /\ at[c] = "pick" /\ state[p] = "RUNNABLE"
  /\ state' = [state EXCEPT ![p] = "RUNNING"]
  /\ at'    = [at EXCEPT ![c] = "proc"]
  /\ proc'  = [proc EXCEPT ![c] = p]
  /\ UNCHANGED <<table, killed, chan, lock, pc, np>>

SchedRelease(c) ==
  /\ at[c] = "pick"
  /\ at'   = [at EXCEPT ![c] = "top"]
  /\ lock' = None
  /\ UNCHANGED <<state, table, killed, chan, proc, pc, np>>

\* forkret(), or the end of yield() or sleep(): tidy up, release ptable.lock.
Resume(c, p) ==
  /\ at[c] = "proc" /\ proc[c] = p /\ lock = c /\ pc[p] # "wait"
  /\ lock' = None
  /\ chan' = [chan EXCEPT ![p] = None]
  /\ pc'   = [pc EXCEPT ![p] = IF @ = "block" THEN "sleep" ELSE @]
  /\ UNCHANGED <<state, table, killed, proc, at, np>>

-----------------------------------------------------------------------------
\* The steps of a process that runs, other than entering the kernel.
Work(c, p) == \/ KilledTrap(c, p)
              \/ Allocproc(c, p) \/ TableFull(c, p) \/ ForkCopy(c, p)
              \/ ForkDone(c, p)
              \/ Exit(c, p)
              \/ WaitAcquire(c, p) \/ WaitReap(c, p) \/ WaitGiveUp(c, p)
              \/ WaitSleep(c, p)
              \/ SleepTest(c, p) \/ (\E ch \in Chans : Sleep(c, p, ch))
              \/ KillNone(c, p)

Next ==
  \/ \E c \in Cpus, p \in Procs :
       \/ \E k \in Calls : Syscall(c, p, k)
       \/ \E n \in 0 .. MaxPid : Kill(c, p, n)
       \/ Work(c, p) \/ Fault(c, p) \/ Yield(c, p) \/ ForkFail(c, p)
       \/ Sched(c, p) \/ Pick(c, p) \/ Resume(c, p)
  \/ \E c \in Cpus : SchedAcquire(c) \/ SchedRelease(c)
  \/ \E ch \in Chans : Wakeup(ch)

Spec == Init /\ [][Next]_vars

-----------------------------------------------------------------------------
(* Fairness.  scheduler() never stops looping, and who holds ptable.lock,  *)
(* with interrupts off, goes on to release it.  Timer interrupts keep      *)
(* coming and one that arrives with interrupts off is kept pending, so a   *)
(* process that goes on executing yields again and again; between two of   *)
(* them a process executes.  The scheduler does not pass a RUNNABLE process*)
(* over for ever: so Sched as long as every process is in the default      *)
(* queue, and not with other queues.  Nothing is asked of init, and nothing*)
(* promises a wakeup().                                                    *)
GoesOn(c) == \/ SchedAcquire(c) \/ SchedRelease(c)
             \/ \E p \in Procs : \/ Sched(c, p) \/ Resume(c, p) \/ WaitReap(c, p)
                                 \/ WaitGiveUp(c, p) \/ WaitSleep(c, p)
Interrupted(c) == \E p \in Procs : Yield(c, p)
Picked(p)      == \E c \in Cpus : Pick(c, p)
Works(p)       == \E c \in Cpus : Work(c, p)

Fairness == /\ \A c \in Cpus : WF_vars(GoesOn(c)) /\ SF_vars(Interrupted(c))
            /\ \A p \in Procs \ {initproc} : SF_vars(Picked(p)) /\ SF_vars(Works(p))

-----------------------------------------------------------------------------
(* Properties.                                                             *)

Live == {p \in Procs : state[p] \in {"SLEEPING", "RUNNABLE", "RUNNING"}}

\* Every variable stays in its range.
TypeOK == /\ state \in [Procs -> States]
          /\ pid \in [Procs -> Nat]
          /\ parent \in [Procs -> Procs \cup {None}]
          /\ killed \in [Procs -> BOOLEAN]
          /\ chan \in [Procs -> Procs \cup Chans \cup {None}]
          /\ nextpid \in Nat
          /\ lock \in Cpus \cup {None}
          /\ proc \in [Cpus -> Procs \cup {None}]
          /\ at \in [Cpus -> CpuPoints]
          /\ pc \in [Procs -> ThreadPoints]
          /\ np \in [Procs -> Procs \cup {None}]

\* ptable.lock, the state of a process and c->proc agree: a CPU is on the
\* stack of a process that is not RUNNING only inside sched() with the lock
\* held, no two CPUs are on one stack, and every RUNNING process has a CPU.
OneCpuPerProcess ==
  /\ \A c \in Cpus :
       /\ at[c] \in {"pick", "sched"} => lock = c
       /\ lock = c => at[c] # "top"
       /\ at[c] \in {"top", "pick"} <=> proc[c] = None
       /\ at[c] = "proc" => state[proc[c]] = "RUNNING"
       /\ at[c] = "sched" =>
            state[proc[c]] \in {"RUNNABLE", "SLEEPING", "ZOMBIE"}
  /\ \A c, d \in Cpus : c # d /\ proc[c] = proc[d] => proc[c] = None
  /\ \A p \in Procs : state[p] = "RUNNING" => \E c \in Cpus : proc[c] = p

\* A slot is EMBRYO exactly while one fork() is filling it in.
EmbryoHasOneForker ==
  /\ \A p \in Procs : np[p] # None =>
       p \in Live /\ pc[p] \in {"copy", "ready"} /\ state[np[p]] = "EMBRYO"
  /\ \A p, q \in Procs : np[p] = np[q] /\ np[p] # None => p = q
  /\ \A p \in Live : pc[p] \in {"copy", "ready"} => np[p] # None
  /\ \A q \in Procs : state[q] = "EMBRYO" => \E p \in Procs : np[p] = q

\* exit() passes its children on in time: the parent of a process, or of a
\* zombie, is always a process that can still call wait(); an UNUSED slot is
\* nobody's child, an EMBRYO at most the child of the process that forks it.
ParentCanWait ==
  /\ initproc \in Live /\ parent[initproc] = None
  /\ \A p \in Procs \ {initproc} :
       CASE state[p] = "UNUSED" -> parent[p] = None
         [] state[p] = "EMBRYO" -> parent[p] # None => np[parent[p]] = p
         [] OTHER -> parent[p] \in Live

\* No wakeup of wait() is lost: a parent asleep in wait() has a child, no
\* child of it is a zombie, and it has not been killed.
WaitersWait ==
  \A p \in Procs : state[p] = "SLEEPING" /\ pc[p] = "wait" =>
     chan[p] = p /\ Kids(p) # {} /\ Zombies(p) = {} /\ ~killed[p]

\* A pid names one slot, and every process has one.
PidsDiffer ==
  /\ \A p, q \in Procs : pid[p] = pid[q] /\ p # q => pid[p] = 0
  /\ \A p \in Procs : pid[p] < nextpid /\ (state[p] # "UNUSED" => pid[p] # 0)

\* The table implements the abstract life cycle: in particular a process is
\* dispatched or reaped only when no CPU is on its kernel stack.
Abs == INSTANCE ProcStates WITH stack <- proc
ImplementsProcStates == Abs!Spec

\* kill() marks the process with the given pid and no other: a slot that
\* allocproc() hands out for a new process is not marked already.
BornAlive == [][\A p \in Procs : state[p] = "UNUSED" /\ state'[p] = "EMBRYO"
                                => ~killed'[p]]_vars

\* Process p is asleep, or on its way into a sleep() that it called after it tested
\* killed for the last time; wait() tests it under ptable.lock.
PastTest(p) == pc[p] = "block" /\ (chan[p] = None \/ state[p] = "SLEEPING")

\* A killed process becomes a zombie, if the kill did not come between its test of
\* killed and the sleep() outside of wait() that follows it: kill() wakes whom it
\* finds asleep, and who is woken does not sleep again.
KilledExits ==
  \A p \in Procs \ {initproc} :
    (p \in Live /\ killed[p] /\ ~PastTest(p)) ~> (state[p] = "ZOMBIE")
=============================================================================
