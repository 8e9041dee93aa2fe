----------------------------- MODULE ProcProofs -----------------------------
(***************************************************************************)
(* The process table for every number of slots, CPUs and channels: every   *)
(* variable keeps its type, a kernel stack is used by one CPU at a time,   *)
(* and a slot is EMBRYO exactly while one fork() fills it in.              *)
(***************************************************************************)
EXTENDS Proc, WellFoundedInduction, TLAPS

USE ProcAssumption

-----------------------------------------------------------------------------
\* The first slot of a set of slots is in it: the loops of allocproc(), wait()
\* and kill() find one.
LEMMA FirstInSet ==
  ASSUME NEW S \in SUBSET Procs, S # {}
  PROVE  FirstOf(S) \in S
<1>1. S \subseteq Nat
  BY DEF Procs
<1>2. PICK x \in S : \A y \in S : ~ (<<y, x>> \in OpToRel(<, Nat))
  BY <1>1, WFMin, NatLessThanWellFounded
<1>3. \A y \in S : x <= y
  <2> SUFFICES ASSUME NEW y \in S, y < x PROVE FALSE
    BY <1>1
  <2>1. <<y, x>> \in Nat \X Nat /\ <<y, x>>[1] < <<y, x>>[2]
    BY <1>1
  <2>2. <<y, x>> \in OpToRel(<, Nat)
    BY <2>1, Zenon DEF OpToRel
  <2> QED BY <1>2, <2>2
<1> QED BY <1>3 DEF FirstOf

\* allocproc() takes the slot q, wait() frees it, kill() marks it.
AllocprocAt(c, p, q) ==
  /\ On(c, p) /\ pc[p] = "fork" /\ lock = None /\ state[q] = "UNUSED"
  /\ state' = [state EXCEPT ![q] = "EMBRYO"]
  /\ pid' = [pid EXCEPT ![q] = nextpid]
  /\ nextpid' = nextpid + 1
  /\ np' = [np EXCEPT ![p] = q]
  /\ pc' = [pc EXCEPT ![p] = "copy"]
  /\ UNCHANGED <<parent, killed, chan, lock, proc, at>>

WaitReapAt(c, p, q) ==
  /\ Scanning(c, p) /\ parent[q] = p /\ state[q] = "ZOMBIE"
  /\ state' = [state EXCEPT ![q] = "UNUSED"]
  /\ pid' = [pid EXCEPT ![q] = 0]
  /\ parent' = [parent EXCEPT ![q] = None]
  /\ killed' = [killed EXCEPT ![q] = FALSE]
  /\ chan' = [chan EXCEPT ![p] = None]
  /\ lock' = None
  /\ pc' = [pc EXCEPT ![p] = "user"]
  /\ UNCHANGED <<nextpid, proc, at, np>>

KillAt(c, p, q) ==
  /\ On(c, p) /\ pc[p] = "kill" /\ lock = None
  /\ killed' = [killed EXCEPT ![q] = TRUE]
  /\ state' = [state EXCEPT ![q] = IF state[q] = "SLEEPING" THEN "RUNNABLE"
                                                            ELSE state[q]]
  /\ pc' = [pc EXCEPT ![p] = "user"]
  /\ UNCHANGED <<pid, parent, nextpid, chan, lock, proc, at, np>>

LEMMA AllocprocSlot ==
  ASSUME NEW c, NEW p, Allocproc(c, p)
  PROVE  \E q \in Procs : AllocprocAt(c, p, q)
<1> DEFINE S == {r \in Procs : state[r] = "UNUSED"}
<1>1. S \in SUBSET Procs /\ S # {}
  BY DEF Allocproc
<1>2. FirstOf(S) \in S
  BY <1>1, FirstInSet
<1> QED BY <1>2, Zenon DEF Allocproc, AllocprocAt

LEMMA WaitReapSlot ==
  ASSUME NEW c, NEW p, WaitReap(c, p)
  PROVE  \E q \in Procs : WaitReapAt(c, p, q)
<1>1. Zombies(p) \in SUBSET Procs /\ Zombies(p) # {}
  BY Zenon DEF WaitReap, Zombies, Kids
<1>2. FirstOf(Zombies(p)) \in Zombies(p)
  BY <1>1, FirstInSet
<1> QED BY <1>2, Zenon DEF WaitReap, WaitReapAt, Zombies, Kids

LEMMA KillSlot ==
  ASSUME NEW c, NEW p, NEW n, Kill(c, p, n)
  PROVE  \E q \in Procs : KillAt(c, p, q)
<1> DEFINE S == {r \in Procs : pid[r] = n}
<1>1. S \in SUBSET Procs /\ S # {}
  BY DEF Kill
<1>2. FirstOf(S) \in S
  BY <1>1, FirstInSet
<1> QED BY <1>2, Zenon DEF Kill, KillAt, table

\* wakeup1() makes some sleepers RUNNABLE and touches nobody else.
LEMMA WakeupStates ==
  ASSUME TypeOK, NEW C
  PROVE  /\ wakeup1(C) \in [Procs -> States]
         /\ \A q \in Procs :
              \/ wakeup1(C)[q] = state[q]
              \/ state[q] = "SLEEPING" /\ wakeup1(C)[q] = "RUNNABLE"
BY Zenon DEF TypeOK, wakeup1, States

LEMMA PassChildrenType == TypeOK => \A p \in Procs :
                            PassChildren(p) \in [Procs -> Procs \cup {None}]
BY DEF TypeOK, PassChildren, initproc, Procs

-----------------------------------------------------------------------------
LEMMA InitType == Init => TypeOK
BY DEF Init, TypeOK, Procs, initproc, None, States, CpuPoints, ThreadPoints

LEMMA NextType ==
  ASSUME TypeOK, [Next]_vars
  PROVE  TypeOK'
<1> USE DEF TypeOK, table, On, Stop, States, CpuPoints, ThreadPoints
<1>1. ASSUME NEW c \in Cpus, NEW p \in Procs,
             \/ \E k \in Calls : Syscall(c, p, k)
             \/ \E n \in 0 .. MaxPid : Kill(c, p, n)
             \/ Work(c, p) \/ Fault(c, p) \/ Yield(c, p) \/ ForkFail(c, p)
             \/ Sched(c, p) \/ Pick(c, p) \/ Resume(c, p)
      PROVE  TypeOK'
  <2>1. ASSUME NEW k \in Calls, Syscall(c, p, k) PROVE TypeOK'
    BY <2>1 DEF Syscall
  <2>2. ASSUME NEW n \in 0 .. MaxPid, Kill(c, p, n) PROVE TypeOK'
    <3>1. PICK q \in Procs : KillAt(c, p, q)
      BY <2>2, KillSlot
    <3>2. killed' \in [Procs -> BOOLEAN]
      BY <3>1 DEF KillAt
    <3> QED BY <3>1, <3>2 DEF KillAt
  <2>3. CASE KilledTrap(c, p)
    BY <2>3 DEF KilledTrap
  <2>4. CASE Allocproc(c, p)
    <3>1. PICK q \in Procs : AllocprocAt(c, p, q)
      BY <2>4, AllocprocSlot
    <3> QED BY <3>1 DEF AllocprocAt
  <2>5. CASE TableFull(c, p)
    BY <2>5 DEF TableFull
  <2>6. CASE ForkCopy(c, p)
    BY <2>6, Zenon DEF ForkCopy
  <2>7. CASE ForkDone(c, p)
    BY <2>7, Zenon DEF ForkDone
  <2>8. CASE Exit(c, p)
    <3>1. wakeup1(WakesAtExit(p)) \in [Procs -> States]
      BY WakeupStates
    <3>2. parent' \in [Procs -> Procs \cup {None}]
      BY <2>8, PassChildrenType DEF Exit
    <3> QED BY <2>8, <3>1, <3>2 DEF Exit
  <2>9. CASE WaitAcquire(c, p)
    BY <2>9 DEF WaitAcquire
  <2>10. CASE WaitReap(c, p)
    <3>1. PICK q \in Procs : WaitReapAt(c, p, q)
      BY <2>10, WaitReapSlot
    <3> QED BY <3>1 DEF WaitReapAt
  <2>11. CASE WaitGiveUp(c, p)
    BY <2>11 DEF WaitGiveUp
  <2>12. CASE WaitSleep(c, p)
    BY <2>12 DEF WaitSleep
  <2>13. CASE SleepTest(c, p)
    BY <2>13 DEF SleepTest
  <2>14. ASSUME NEW ch \in Chans, Sleep(c, p, ch) PROVE TypeOK'
    BY <2>14 DEF Sleep
  <2>15. CASE KillNone(c, p)
    BY <2>15 DEF KillNone
  <2>16. CASE Fault(c, p)
    BY <2>16 DEF Fault
  <2>17. CASE Yield(c, p)
    BY <2>17 DEF Yield
  <2>18. CASE ForkFail(c, p)
    BY <2>18, Zenon DEF ForkFail
  <2>19. CASE Sched(c, p)
    BY <2>19 DEF Sched
  <2>20. CASE Pick(c, p)
    BY <2>20 DEF Pick
  <2>21. CASE Resume(c, p)
    BY <2>21 DEF Resume
  <2> QED BY <1>1, <2>1, <2>2, <2>3, <2>4, <2>5, <2>6, <2>7, <2>8, <2>9,
             <2>10, <2>11, <2>12, <2>13, <2>14, <2>15, <2>16, <2>17,
             <2>18, <2>19, <2>20, <2>21, Zenon DEF Work
<1>2. ASSUME NEW c \in Cpus, SchedAcquire(c) PROVE TypeOK'
  BY <1>2 DEF SchedAcquire
<1>3. ASSUME NEW c \in Cpus, SchedRelease(c) PROVE TypeOK'
  BY <1>3 DEF SchedRelease
<1>4. ASSUME NEW ch \in Chans, Wakeup(ch) PROVE TypeOK'
  BY <1>4, WakeupStates DEF Wakeup
<1>5. CASE UNCHANGED vars
  BY <1>5 DEF vars
<1> QED BY <1>1, <1>2, <1>3, <1>4, <1>5 DEF Next

-----------------------------------------------------------------------------
(* A kernel stack is used by one CPU at a time.                            *)

Stopped == {"RUNNABLE", "SLEEPING", "ZOMBIE"}

\* What OneCpuPerProcess says of one CPU.
CpuOK(d) == /\ at[d] \in {"pick", "sched"} => lock = d
            /\ lock = d => at[d] # "top"
            /\ at[d] \in {"top", "pick"} <=> proc[d] = None
            /\ at[d] = "proc" => state[proc[d]] = "RUNNING"
            /\ at[d] = "sched" => state[proc[d]] \in Stopped

\* A CPU that holds ptable.lock, or for which it is free, executes a process;
\* then no other CPU is inside sched() or its scheduler's loop.
LEMMA OthersOutside ==
  ASSUME TypeOK, OneCpuPerProcess, NEW c \in Cpus, at[c] = "proc",
         lock \in {None, c}
  PROVE  \A d \in Cpus : at[d] \notin {"pick", "sched"}
BY DEF OneCpuPerProcess

\* Steps that leave every CPU on its stack: nobody starts or stops RUNNING,
\* and the lock changes hands only while no CPU relies on it.
LEMMA KeepsStacks ==
  ASSUME TypeOK, OneCpuPerProcess, UNCHANGED <<proc, at>>,
         \/ lock' = lock
         \/ /\ \A d \in Cpus : at[d] \notin {"pick", "sched"}
            /\ \/ lock' = None
               \/ lock' \in Cpus /\ at[lock'] = "proc",
         \A q \in Procs : state'[q] = "RUNNING" <=> state[q] = "RUNNING",
         \A d \in Cpus : at[d] = "sched" => state'[proc[d]] \in Stopped
  PROVE  OneCpuPerProcess'
<1>1. ASSUME NEW d \in Cpus PROVE CpuOK(d)'
  <2>1. proc[d] \in Procs \cup {None} /\ at[d] \in CpuPoints
    BY DEF TypeOK
  <2> QED BY <2>1 DEF OneCpuPerProcess, CpuOK, CpuPoints, Stopped, None
<1>2. \A d, e \in Cpus : d # e /\ proc'[d] = proc'[e] => proc'[d] = None
  BY DEF OneCpuPerProcess
<1>3. \A q \in Procs : state'[q] = "RUNNING" => \E d \in Cpus : proc'[d] = q
  BY DEF OneCpuPerProcess
<1> QED BY <1>1, <1>2, <1>3, Zenon DEF OneCpuPerProcess, CpuOK, Stopped

\* Steps into sched(): the running process of one CPU stops RUNNING.
LEMMA StopsOnStack ==
  ASSUME TypeOK, OneCpuPerProcess, NEW c \in Cpus, NEW p \in Procs,
         at[c] = "proc", proc[c] = p, lock \in {None, c}, lock' = c,
         at' = [at EXCEPT ![c] = "sched"], UNCHANGED proc,
         state'[p] \in Stopped,
         \A q \in Procs \ {p} : state'[q] = "RUNNING" <=> state[q] = "RUNNING"
  PROVE  OneCpuPerProcess'
<1>0. \A d \in Cpus : at[d] \notin {"pick", "sched"}
  BY OthersOutside
<1>1. ASSUME NEW d \in Cpus PROVE CpuOK(d)'
  <2>1. at'[d] = IF d = c THEN "sched" ELSE at[d]
    BY DEF TypeOK
  <2>2. CASE d = c
    BY <2>1, <2>2 DEF CpuOK, Stopped, Procs, None
  <2>3. CASE d # c
    <3>1. proc[d] \in Procs \cup {None} /\ at[d] \in {"proc", "top"}
      BY <1>0, Zenon DEF TypeOK, CpuPoints
    <3>2. proc[d] # p
      BY <2>3 DEF OneCpuPerProcess, Procs, None
    <3> QED BY <2>1, <2>3, <3>1, <3>2, Zenon DEF OneCpuPerProcess, CpuOK
  <2> QED BY <2>2, <2>3
<1>2. \A d, e \in Cpus : d # e /\ proc'[d] = proc'[e] => proc'[d] = None
  BY DEF OneCpuPerProcess
<1>3. \A q \in Procs : state'[q] = "RUNNING" => \E d \in Cpus : proc'[d] = q
  BY DEF OneCpuPerProcess, Stopped
<1> QED BY <1>1, <1>2, <1>3, Zenon DEF OneCpuPerProcess, CpuOK, Stopped

LEMMA SameStacks ==
  ASSUME OneCpuPerProcess, UNCHANGED <<state, lock, proc, at>>
  PROVE  OneCpuPerProcess'
BY DEF OneCpuPerProcess

\* With the lock in the scheduler's hands nobody is on the stack of a RUNNABLE
\* process.
LEMMA PickedIsOffStack ==
  ASSUME TypeOK, OneCpuPerProcess, NEW c \in Cpus, NEW p \in Procs,
         at[c] = "pick", lock = c, state[p] = "RUNNABLE"
  PROVE  \A d \in Cpus : proc[d] # p
<1> SUFFICES ASSUME NEW d \in Cpus, proc[d] = p PROVE FALSE
  OBVIOUS
<1>1. at[d] \in {"top", "pick", "proc", "sched"} /\ p # None
  BY DEF TypeOK, CpuPoints, Procs, None
<1>2. at[d] \in {"proc", "sched"}
  BY <1>1 DEF OneCpuPerProcess
<1>3. at[d] # "proc" /\ at[d] # "sched"
  BY DEF OneCpuPerProcess
<1> QED BY <1>2, <1>3

LEMMA NextOneCpu ==
  ASSUME TypeOK, OneCpuPerProcess, EmbryoHasOneForker, [Next]_vars
  PROVE  OneCpuPerProcess'
<1>1. ASSUME NEW c \in Cpus, NEW p \in Procs,
             \/ \E k \in Calls : Syscall(c, p, k)
             \/ \E n \in 0 .. MaxPid : Kill(c, p, n)
             \/ Work(c, p) \/ Fault(c, p) \/ Yield(c, p) \/ ForkFail(c, p)
             \/ Sched(c, p) \/ Pick(c, p) \/ Resume(c, p)
      PROVE  OneCpuPerProcess'
  <2>1. ASSUME NEW k \in Calls, Syscall(c, p, k) PROVE OneCpuPerProcess'
    BY <2>1, SameStacks, Zenon DEF Syscall, table
  <2>2. ASSUME NEW n \in 0 .. MaxPid, Kill(c, p, n) PROVE OneCpuPerProcess'
    <3>1. PICK q \in Procs : KillAt(c, p, q)
      BY <2>2, KillSlot
    <3>2. \A r \in Procs : state'[r] = "RUNNING" <=> state[r] = "RUNNING"
      BY <3>1, Zenon DEF KillAt, TypeOK
    <3>3. \A d \in Cpus : at[d] = "sched" => state'[proc[d]] \in Stopped
      BY <3>1, Zenon DEF KillAt, TypeOK, OneCpuPerProcess, Stopped
    <3> QED BY <3>1, <3>2, <3>3, KeepsStacks DEF KillAt
  <2>3. CASE KilledTrap(c, p)
    BY <2>3, SameStacks, Zenon DEF KilledTrap, table
  <2>4. CASE Allocproc(c, p)
    <3>1. PICK q \in Procs : AllocprocAt(c, p, q)
      BY <2>4, AllocprocSlot
    <3>2. \A r \in Procs : state'[r] = "RUNNING" <=> state[r] = "RUNNING"
      BY <3>1, Zenon DEF AllocprocAt, TypeOK
    <3>3. \A d \in Cpus : at[d] = "sched" => state'[proc[d]] \in Stopped
      BY <3>1, Zenon DEF AllocprocAt, TypeOK, OneCpuPerProcess, Stopped
    <3> QED BY <3>1, <3>2, <3>3, KeepsStacks DEF AllocprocAt
  <2>5. CASE TableFull(c, p)
    BY <2>5, SameStacks, Zenon DEF TableFull, table
  <2>6. CASE ForkCopy(c, p)
    BY <2>6, SameStacks, Zenon DEF ForkCopy, table
  <2>7. CASE ForkDone(c, p)
    <3>1. state[np[p]] = "EMBRYO"
      BY <2>7 DEF ForkDone, On, EmbryoHasOneForker, OneCpuPerProcess, Live
    <3>2. \A r \in Procs : state'[r] = "RUNNING" <=> state[r] = "RUNNING"
      BY <2>7, <3>1, Zenon DEF ForkDone, TypeOK
    <3>3. \A d \in Cpus : at[d] = "sched" => state'[proc[d]] \in Stopped
      BY <2>7, <3>1, Zenon DEF ForkDone, TypeOK, OneCpuPerProcess, Stopped
    <3> QED BY <2>7, <3>2, <3>3, KeepsStacks DEF ForkDone
  <2>8. CASE Exit(c, p)
    <3> DEFINE W == wakeup1(WakesAtExit(p))
    <3>1. /\ W \in [Procs -> States]
          /\ \A q \in Procs :
               \/ W[q] = state[q]
               \/ state[q] = "SLEEPING" /\ W[q] = "RUNNABLE"
      BY WakeupStates
    <3>2. state' = [W EXCEPT ![p] = "ZOMBIE"]
      BY <2>8, Zenon DEF Exit, Stop
    <3> HIDE DEF W
    <3>3. state'[p] \in Stopped
      BY <3>1, <3>2 DEF Stopped
    <3>4. \A q \in Procs \ {p} : state'[q] = "RUNNING" <=> state[q] = "RUNNING"
      BY <3>1, <3>2
    <3> QED BY <2>8, <3>3, <3>4, StopsOnStack, Zenon DEF Exit, On, Stop
  <2>9. CASE WaitAcquire(c, p)
    <3>1. \A d \in Cpus : at[d] \notin {"pick", "sched"}
      BY <2>9, OthersOutside, Zenon DEF WaitAcquire, On
    <3> QED BY <2>9, <3>1, KeepsStacks, Zenon DEF WaitAcquire, On
  <2>10. CASE WaitReap(c, p)
    <3>1. PICK q \in Procs : WaitReapAt(c, p, q)
      BY <2>10, WaitReapSlot
    <3>2. \A r \in Procs : state'[r] = "RUNNING" <=> state[r] = "RUNNING"
      BY <3>1, Zenon DEF WaitReapAt, TypeOK
    <3>3. \A d \in Cpus : at[d] \notin {"pick", "sched"}
      BY <3>1, OthersOutside, Zenon DEF WaitReapAt, Scanning
    <3> QED BY <3>1, <3>2, <3>3, KeepsStacks DEF WaitReapAt
  <2>11. CASE WaitGiveUp(c, p)
    <3>1. \A d \in Cpus : at[d] \notin {"pick", "sched"}
      BY <2>11, OthersOutside, Zenon DEF WaitGiveUp, Scanning
    <3> QED BY <2>11, <3>1, KeepsStacks, Zenon DEF WaitGiveUp, Scanning
  <2>12. CASE WaitSleep(c, p)
    <3>1. state'[p] \in Stopped
      BY <2>12, Zenon DEF WaitSleep, Scanning, TypeOK, Stopped
    <3>2. \A q \in Procs \ {p} : state'[q] = "RUNNING" <=> state[q] = "RUNNING"
      BY <2>12, Zenon DEF WaitSleep, Scanning, TypeOK
    <3> QED BY <2>12, <3>1, <3>2, StopsOnStack, Zenon DEF WaitSleep, Scanning
  <2>13. CASE SleepTest(c, p)
    BY <2>13, SameStacks, Zenon DEF SleepTest, table
  <2>14. ASSUME NEW ch \in Chans, Sleep(c, p, ch) PROVE OneCpuPerProcess'
    <3>1. state'[p] \in Stopped
      BY <2>14, Zenon DEF Sleep, On, Stop, TypeOK, Stopped
    <3>2. \A q \in Procs \ {p} : state'[q] = "RUNNING" <=> state[q] = "RUNNING"
      BY <2>14, Zenon DEF Sleep, On, Stop, TypeOK
    <3> QED BY <2>14, <3>1, <3>2, StopsOnStack, Zenon DEF Sleep, On, Stop
  <2>15. CASE KillNone(c, p)
    BY <2>15, SameStacks, Zenon DEF KillNone, table
  <2>16. CASE Fault(c, p)
    BY <2>16, SameStacks, Zenon DEF Fault, table
  <2>17. CASE Yield(c, p)
    <3>1. state'[p] \in Stopped
      BY <2>17, Zenon DEF Yield, On, Stop, TypeOK, Stopped
    <3>2. \A q \in Procs \ {p} : state'[q] = "RUNNING" <=> state[q] = "RUNNING"
      BY <2>17, Zenon DEF Yield, On, Stop, TypeOK
    <3> QED BY <2>17, <3>1, <3>2, StopsOnStack, Zenon DEF Yield, On, Stop
  <2>18. CASE ForkFail(c, p)
    <3>1. state[np[p]] = "EMBRYO"
      BY <2>18 DEF ForkFail, On, EmbryoHasOneForker, OneCpuPerProcess, Live
    <3>2. \A r \in Procs : state'[r] = "RUNNING" <=> state[r] = "RUNNING"
      BY <2>18, <3>1, Zenon DEF ForkFail, TypeOK
    <3>3. \A d \in Cpus : at[d] = "sched" => state'[proc[d]] \in Stopped
      BY <2>18, <3>1 DEF ForkFail, TypeOK, OneCpuPerProcess, Stopped
    <3> QED BY <2>18, <3>2, <3>3, KeepsStacks DEF ForkFail
  <2>19. CASE Sched(c, p)
    <3>1. at[c] = "sched" /\ lock = c /\ proc[c] = p /\ state[p] # "RUNNING"
      BY <2>19, Zenon DEF Sched, OneCpuPerProcess
    <3>2. \A d \in Cpus :
            /\ at'[d] = IF d = c THEN "pick" ELSE at[d]
            /\ proc'[d] = IF d = c THEN None ELSE proc[d]
      BY <2>19, Zenon DEF Sched, TypeOK
    <3>3. state' = state /\ lock' = lock
      BY <2>19 DEF Sched
    <3>4. ASSUME NEW d \in Cpus PROVE CpuOK(d)'
      BY <3>1, <3>2, <3>3 DEF OneCpuPerProcess, CpuOK, Stopped
    <3>5. \A d, e \in Cpus : d # e /\ proc'[d] = proc'[e] => proc'[d] = None
      BY <3>2 DEF OneCpuPerProcess
    <3>6. \A q \in Procs : state'[q] = "RUNNING" => \E d \in Cpus : proc'[d] = q
      BY <3>1, <3>2, <3>3 DEF OneCpuPerProcess
    <3> QED BY <3>4, <3>5, <3>6, Zenon DEF OneCpuPerProcess, CpuOK, Stopped
  <2>20. CASE Pick(c, p)
    <3>1. at[c] = "pick" /\ lock = c /\ proc[c] = None /\ state[p] = "RUNNABLE"
      BY <2>20, Zenon DEF Pick, OneCpuPerProcess
    <3>2. \A d \in Cpus : proc[d] # p
      BY <3>1, PickedIsOffStack
    <3>3. \A d \in Cpus :
            /\ at'[d] = IF d = c THEN "proc" ELSE at[d]
            /\ proc'[d] = IF d = c THEN p ELSE proc[d]
      BY <2>20, Zenon DEF Pick, TypeOK
    <3>4. /\ lock' = lock /\ state'[p] = "RUNNING"
          /\ \A r : r # p => state'[r] = state[r]
      BY <2>20 DEF Pick, TypeOK
    <3>5. ASSUME NEW d \in Cpus PROVE CpuOK(d)'
      <4>1. CASE d = c
        BY <3>3, <3>4, <4>1 DEF CpuOK, Procs, None
      <4>2. CASE d # c
        BY <3>1, <3>2, <3>3, <3>4, <4>2 DEF OneCpuPerProcess, CpuOK, Stopped
      <4> QED BY <4>1, <4>2
    <3>6. \A d, e \in Cpus : d # e /\ proc'[d] = proc'[e] => proc'[d] = None
      BY <3>2, <3>3 DEF OneCpuPerProcess
    <3>7. \A q \in Procs : state'[q] = "RUNNING" => \E d \in Cpus : proc'[d] = q
      BY <3>1, <3>3, <3>4 DEF OneCpuPerProcess, Procs, None
    <3> QED BY <3>5, <3>6, <3>7, Zenon DEF OneCpuPerProcess, CpuOK, Stopped
  <2>21. CASE Resume(c, p)
    <3>1. \A d \in Cpus : at[d] \notin {"pick", "sched"}
      BY <2>21, OthersOutside DEF Resume
    <3> QED BY <2>21, <3>1, KeepsStacks DEF Resume
  <2> QED BY <1>1, <2>1, <2>2, <2>3, <2>4, <2>5, <2>6, <2>7, <2>8, <2>9,
             <2>10, <2>11, <2>12, <2>13, <2>14, <2>15, <2>16, <2>17,
             <2>18, <2>19, <2>20, <2>21, Zenon DEF Work
<1>2. ASSUME NEW c \in Cpus, SchedAcquire(c) PROVE OneCpuPerProcess'
  BY <1>2, SMTT(30) DEF SchedAcquire, OneCpuPerProcess, TypeOK, Procs, None
<1>3. ASSUME NEW c \in Cpus, SchedRelease(c) PROVE OneCpuPerProcess'
  BY <1>3, SMTT(30) DEF SchedRelease, OneCpuPerProcess, TypeOK, Procs, None
<1>4. ASSUME NEW ch \in Chans, Wakeup(ch) PROVE OneCpuPerProcess'
  <2>1. \A q \in Procs :
          \/ state'[q] = state[q]
          \/ state[q] = "SLEEPING" /\ state'[q] = "RUNNABLE"
    <3>1. state' = wakeup1({ch})
      BY <1>4 DEF Wakeup
    <3>2. \A q \in Procs :
            \/ wakeup1({ch})[q] = state[q]
            \/ state[q] = "SLEEPING" /\ wakeup1({ch})[q] = "RUNNABLE"
      BY WakeupStates, Zenon
    <3> QED BY <3>1, <3>2
  <2>2. \A d \in Cpus : at[d] = "sched" => state'[proc[d]] \in Stopped
    <3> SUFFICES ASSUME NEW d \in Cpus, at[d] = "sched"
                 PROVE  state'[proc[d]] \in Stopped
      OBVIOUS
    <3>1. proc[d] \in Procs /\ state[proc[d]] \in Stopped
      BY DEF OneCpuPerProcess, TypeOK, Stopped
    <3> QED BY <2>1, <3>1 DEF Stopped
  <2> QED BY <1>4, <2>1, <2>2, KeepsStacks DEF Wakeup
<1>5. CASE UNCHANGED vars
  BY <1>5, SameStacks DEF vars
<1> QED BY <1>1, <1>2, <1>3, <1>4, <1>5 DEF Next

-----------------------------------------------------------------------------
(* A slot is EMBRYO exactly while one fork() fills it in.                  *)

\* A process that executes is Live, and no EMBRYO.
LEMMA RunningIsLive ==
  ASSUME TypeOK, OneCpuPerProcess, NEW c \in Cpus, NEW p \in Procs,
         at[c] = "proc", proc[c] = p
  PROVE  state[p] = "RUNNING" /\ p \in Live
BY Zenon DEF OneCpuPerProcess, Live

\* Steps that leave the forks under way alone: no slot becomes EMBRYO or
\* stops being it, and who forks neither dies nor leaves fork().
LEMMA KeepsForks ==
  ASSUME TypeOK, EmbryoHasOneForker, UNCHANGED np,
         \A q \in Procs : state'[q] = "EMBRYO" <=> state[q] = "EMBRYO",
         \A q \in Procs : np[q] # None =>
            /\ pc'[q] \in {"copy", "ready"}
            /\ state'[q] \in {"SLEEPING", "RUNNABLE", "RUNNING"},
         \A q \in Procs : pc'[q] \in {"copy", "ready"} =>
            pc[q] \in {"copy", "ready"},
         \A q \in Procs : q \in Live' => q \in Live
  PROVE  EmbryoHasOneForker'
<1>1. \A q \in Procs : np'[q] # None =>
        /\ q \in Live' /\ pc'[q] \in {"copy", "ready"}
        /\ state'[np'[q]] = "EMBRYO"
  BY DEF EmbryoHasOneForker, Live, TypeOK
<1>2. \A q, r \in Procs : np'[q] = np'[r] /\ np'[q] # None => q = r
  BY DEF EmbryoHasOneForker
<1>3. \A q \in Live' : pc'[q] \in {"copy", "ready"} => np'[q] # None
  BY Zenon DEF EmbryoHasOneForker, Live
<1>4. \A r \in Procs : state'[r] = "EMBRYO" => \E q \in Procs : np'[q] = r
  BY DEF EmbryoHasOneForker
<1> QED BY <1>1, <1>2, <1>3, <1>4 DEF EmbryoHasOneForker

\* The same for steps that change only where processes are.
LEMMA KeepsForksPc ==
  ASSUME TypeOK, EmbryoHasOneForker, UNCHANGED <<np, state>>,
         \A q \in Procs : pc'[q] \in {"copy", "ready"}
                          <=> pc[q] \in {"copy", "ready"}
  PROVE  EmbryoHasOneForker'
<1>1. \A q \in Procs : np[q] # None =>
            /\ pc'[q] \in {"copy", "ready"}
            /\ state'[q] \in {"SLEEPING", "RUNNABLE", "RUNNING"}
  BY Zenon DEF EmbryoHasOneForker, Live, TypeOK
<1>2. Live' = Live
  BY DEF Live
<1> QED BY <1>1, <1>2, KeepsForks

LEMMA SameForks ==
  ASSUME EmbryoHasOneForker, UNCHANGED <<state, pc, np>>
  PROVE  EmbryoHasOneForker'
BY Zenon DEF EmbryoHasOneForker, Live

LEMMA NextEmbryo ==
  ASSUME TypeOK, OneCpuPerProcess, EmbryoHasOneForker, [Next]_vars
  PROVE  EmbryoHasOneForker'
<1>1. ASSUME NEW c \in Cpus, NEW p \in Procs,
             \/ \E k \in Calls : Syscall(c, p, k)
             \/ \E n \in 0 .. MaxPid : Kill(c, p, n)
             \/ Work(c, p) \/ Fault(c, p) \/ Yield(c, p) \/ ForkFail(c, p)
             \/ Sched(c, p) \/ Pick(c, p) \/ Resume(c, p)
      PROVE  EmbryoHasOneForker'
  <2>1. ASSUME NEW k \in Calls, Syscall(c, p, k) PROVE EmbryoHasOneForker'
    <3>1. \A q \in Procs : pc'[q] \in {"copy", "ready"}
                          <=> pc[q] \in {"copy", "ready"}
      BY <2>1, Zenon DEF Syscall, TypeOK
    <3> QED BY <2>1, <3>1, KeepsForksPc DEF Syscall
  <2>2. ASSUME NEW n \in 0 .. MaxPid, Kill(c, p, n) PROVE EmbryoHasOneForker'
    <3>1. PICK q \in Procs : KillAt(c, p, q)
      BY <2>2, KillSlot
    <3>2. \A r \in Procs : state'[r] = "EMBRYO" <=> state[r] = "EMBRYO"
      BY <3>1, Zenon DEF KillAt, TypeOK
    <3>3. \A r \in Procs : r \in Live <=> r \in Live'
      BY <3>1, Zenon DEF KillAt, TypeOK, Live
    <3>4. \A r \in Procs : np[r] # None => pc'[r] = pc[r]
      BY <3>1 DEF KillAt, TypeOK, EmbryoHasOneForker
    <3>5. \A r \in Procs : pc'[r] = pc[r] \/ pc'[r] = "user"
      BY <3>1, Zenon DEF KillAt, TypeOK
    <3>6. UNCHANGED np
      BY <3>1 DEF KillAt
    <3> QED BY <3>2, <3>3, <3>4, <3>5, <3>6, KeepsForks, Zenon
         DEF EmbryoHasOneForker, Live
  <2>3. CASE KilledTrap(c, p)
    <3>1. \A q \in Procs : pc'[q] \in {"copy", "ready"}
                          <=> pc[q] \in {"copy", "ready"}
      BY <2>3, Zenon DEF KilledTrap, TypeOK
    <3> QED BY <2>3, <3>1, KeepsForksPc DEF KilledTrap
  <2>4. CASE Allocproc(c, p)
    <3>1. PICK x \in Procs : AllocprocAt(c, p, x)
      BY <2>4, AllocprocSlot
    <3>2. state[p] = "RUNNING" /\ p \in Live /\ p # x /\ x # None
      BY <3>1, RunningIsLive DEF AllocprocAt, On, Procs, None
    <3>3. \A q \in Procs :
            /\ np'[q] = (IF q = p THEN x ELSE np[q])
            /\ pc'[q] = (IF q = p THEN "copy" ELSE pc[q])
            /\ state'[q] = (IF q = x THEN "EMBRYO" ELSE state[q])
      BY <3>1, Zenon DEF AllocprocAt, TypeOK
    <3>4. \A q \in Procs : q \in Live' <=> q \in Live
      BY <3>1, <3>3 DEF AllocprocAt, Live
    <3>5. \A q \in Procs : np[q] # None => np[q] # x /\ np[q] \in Procs /\ q # p
      BY <3>1, <3>2 DEF AllocprocAt, EmbryoHasOneForker, TypeOK
    <3>6. \A q \in Procs : np'[q] # None =>
            /\ q \in Live' /\ pc'[q] \in {"copy", "ready"}
            /\ state'[np'[q]] = "EMBRYO"
      BY <3>2, <3>3, <3>4, <3>5 DEF EmbryoHasOneForker
    <3>7. \A q, r \in Procs : np'[q] = np'[r] /\ np'[q] # None => q = r
      BY <3>2, <3>3, <3>5 DEF EmbryoHasOneForker
    <3>8. \A q \in Live' : pc'[q] \in {"copy", "ready"} => np'[q] # None
      BY <3>2, <3>3, <3>4 DEF EmbryoHasOneForker, Live
    <3>9. \A r \in Procs : state'[r] = "EMBRYO" => \E q \in Procs : np'[q] = r
      <4> SUFFICES ASSUME NEW r \in Procs, state'[r] = "EMBRYO"
                   PROVE  \E q \in Procs : np'[q] = r
        OBVIOUS
      <4>1. CASE r = x
        BY <3>3, <4>1
      <4>2. CASE r # x
        <5>1. PICK q \in Procs : np[q] = r
          BY <3>3, <4>2 DEF EmbryoHasOneForker
        <5>2. q # p
          BY <3>5, <5>1 DEF Procs, None
        <5> QED BY <3>3, <5>1, <5>2
      <4> QED BY <4>1, <4>2
    <3> QED BY <3>6, <3>7, <3>8, <3>9 DEF EmbryoHasOneForker
  <2>5. CASE TableFull(c, p)
    <3>1. \A q \in Procs : pc'[q] \in {"copy", "ready"}
                          <=> pc[q] \in {"copy", "ready"}
      BY <2>5, Zenon DEF TableFull, TypeOK
    <3> QED BY <2>5, <3>1, KeepsForksPc DEF TableFull
  <2>6. CASE ForkCopy(c, p)
    <3>1. \A q \in Procs : pc'[q] = (IF q = p THEN "ready" ELSE pc[q])
      BY <2>6, Zenon DEF ForkCopy, TypeOK
    <3>2. pc[p] = "copy" /\ UNCHANGED <<np, state>>
      BY <2>6 DEF ForkCopy
    <3>3. \A q \in Procs : pc'[q] \in {"copy", "ready"}
                          <=> pc[q] \in {"copy", "ready"}
      BY <3>1, <3>2
    <3> QED BY <3>2, <3>3, KeepsForksPc
  <2>7. CASE ForkDone(c, p)
    <3>1. state[p] = "RUNNING" /\ p \in Live
      BY <2>7, RunningIsLive, Zenon DEF ForkDone, On
    <3>2. np[p] \in Procs /\ state[np[p]] = "EMBRYO" /\ np[p] # p
      BY <2>7, <3>1 DEF ForkDone, EmbryoHasOneForker, TypeOK
    <3>3. \A q \in Procs :
            /\ np'[q] = (IF q = p THEN None ELSE np[q])
            /\ pc'[q] = (IF q = p \/ q = np[p] THEN "user" ELSE pc[q])
            /\ state'[q] = (IF q = np[p] THEN "RUNNABLE" ELSE state[q])
      BY <2>7, <3>2, Zenon DEF ForkDone, TypeOK
    <3>4. \A q \in Procs \ {np[p]} : q \in Live' <=> q \in Live
      BY <3>3 DEF Live
    <3>5. \A q \in Procs : np[q] # None /\ q # p =>
            np[q] # np[p] /\ np[q] \in Procs /\ q # np[p]
      BY <3>2 DEF EmbryoHasOneForker, TypeOK, Live
    <3>6. \A q \in Procs : np'[q] # None =>
            /\ q \in Live' /\ pc'[q] \in {"copy", "ready"}
            /\ state'[np'[q]] = "EMBRYO"
      BY <3>3, <3>4, <3>5 DEF EmbryoHasOneForker
    <3>7. \A q, r \in Procs : np'[q] = np'[r] /\ np'[q] # None => q = r
      BY <3>3 DEF EmbryoHasOneForker
    <3>8. \A q \in Live' : pc'[q] \in {"copy", "ready"} => np'[q] # None
      BY <3>3, <3>4 DEF EmbryoHasOneForker, Live
    <3>9. \A r \in Procs : state'[r] = "EMBRYO" => \E q \in Procs : np'[q] = r
      BY <3>2, <3>3 DEF EmbryoHasOneForker
    <3> QED BY <3>6, <3>7, <3>8, <3>9 DEF EmbryoHasOneForker
  <2>8. CASE Exit(c, p)
    <3> DEFINE W == wakeup1(WakesAtExit(p))
    <3>1. /\ W \in [Procs -> States]
          /\ \A q \in Procs :
               \/ W[q] = state[q]
               \/ state[q] = "SLEEPING" /\ W[q] = "RUNNABLE"
      BY WakeupStates
    <3>2. state' = [W EXCEPT ![p] = "ZOMBIE"]
      BY <2>8, Zenon DEF Exit, Stop
    <3> HIDE DEF W
    <3>3. state[p] = "RUNNING" /\ np[p] = None /\ UNCHANGED <<np, pc>>
      <4>1. On(c, p) /\ pc[p] = "exit" /\ UNCHANGED <<np, pc>>
        BY <2>8 DEF Exit
      <4>2. state[p] = "RUNNING"
        BY <4>1, RunningIsLive DEF On
      <4>3. np[p] = None
        BY <4>1 DEF EmbryoHasOneForker
      <4> QED BY <4>1, <4>2, <4>3
    <3>4. \A q \in Procs : state'[q] = "EMBRYO" <=> state[q] = "EMBRYO"
      BY <3>1, <3>2, <3>3
    <3>5. \A q \in Procs \ {p} : q \in Live <=> q \in Live'
      BY <3>1, <3>2 DEF Live
    <3>6. p \in Live
      BY <3>3 DEF Live
    <3> QED BY <3>3, <3>4, <3>5, <3>6, KeepsForks, Zenon DEF EmbryoHasOneForker, Live
  <2>9. CASE WaitAcquire(c, p)
    BY <2>9, SameForks DEF WaitAcquire
  <2>10. CASE WaitReap(c, p)
    <3>1. PICK q \in Procs : WaitReapAt(c, p, q)
      BY <2>10, WaitReapSlot
    <3>2. \A r \in Procs : state'[r] = "EMBRYO" <=> state[r] = "EMBRYO"
      BY <3>1, Zenon DEF WaitReapAt, TypeOK
    <3>3. \A r \in Procs : r \in Live <=> r \in Live'
      BY <3>1, Zenon DEF WaitReapAt, TypeOK, Live
    <3>4. \A r \in Procs : np[r] # None => pc'[r] = pc[r]
      BY <3>1 DEF WaitReapAt, Scanning, TypeOK, EmbryoHasOneForker
    <3>5. \A r \in Procs : pc'[r] = pc[r] \/ pc'[r] = "user"
      BY <3>1, Zenon DEF WaitReapAt, TypeOK
    <3>6. UNCHANGED np
      BY <3>1 DEF WaitReapAt
    <3> QED BY <3>2, <3>3, <3>4, <3>5, <3>6, KeepsForks, Zenon
         DEF EmbryoHasOneForker, Live
  <2>11. CASE WaitGiveUp(c, p)
    <3>1. \A q \in Procs : pc'[q] \in {"copy", "ready"}
                          <=> pc[q] \in {"copy", "ready"}
      BY <2>11, Zenon DEF WaitGiveUp, Scanning, TypeOK
    <3> QED BY <2>11, <3>1, KeepsForksPc DEF WaitGiveUp
  <2>12. CASE WaitSleep(c, p)
    <3>1. state[p] = "RUNNING"
      BY <2>12, RunningIsLive, Zenon DEF WaitSleep, Scanning
    <3>2. \A q \in Procs : state'[q] = "EMBRYO" <=> state[q] = "EMBRYO"
      BY <2>12, <3>1, Zenon DEF WaitSleep, Scanning, TypeOK
    <3>3. \A q \in Procs : q \in Live => q \in Live'
      BY <2>12, <3>1, Zenon DEF WaitSleep, Scanning, TypeOK, Live
    <3>4. \A q \in Procs : q \in Live' => q \in Live
      BY <2>12, <3>1, Zenon DEF WaitSleep, Scanning, TypeOK, Live
    <3> QED BY <2>12, <3>1, <3>2, <3>3, <3>4, KeepsForks, Zenon
         DEF WaitSleep, Scanning, EmbryoHasOneForker, Live
  <2>13. CASE SleepTest(c, p)
    <3>1. \A q \in Procs : pc'[q] \in {"copy", "ready"}
                          <=> pc[q] \in {"copy", "ready"}
      BY <2>13, Zenon DEF SleepTest, TypeOK
    <3> QED BY <2>13, <3>1, KeepsForksPc DEF SleepTest
  <2>14. ASSUME NEW ch \in Chans, Sleep(c, p, ch) PROVE EmbryoHasOneForker'
    <3>1. state[p] = "RUNNING"
      BY <2>14, RunningIsLive, Zenon DEF Sleep, On
    <3>2. \A q \in Procs : state'[q] = "EMBRYO" <=> state[q] = "EMBRYO"
      BY <2>14, <3>1, Zenon DEF Sleep, On, Stop, TypeOK
    <3>3. \A q \in Procs : q \in Live => q \in Live'
      BY <2>14, <3>1, Zenon DEF Sleep, On, Stop, TypeOK, Live
    <3>4. \A q \in Procs : q \in Live' => q \in Live
      BY <2>14, <3>1, Zenon DEF Sleep, On, Stop, TypeOK, Live
    <3> QED BY <2>14, <3>1, <3>2, <3>3, <3>4, KeepsForks, Zenon
         DEF Sleep, On, Stop, EmbryoHasOneForker, Live
  <2>15. CASE KillNone(c, p)
    <3>1. \A q \in Procs : pc'[q] \in {"copy", "ready"}
                          <=> pc[q] \in {"copy", "ready"}
      BY <2>15, Zenon DEF KillNone, TypeOK
    <3> QED BY <2>15, <3>1, KeepsForksPc DEF KillNone
  <2>16. CASE Fault(c, p)
    BY <2>16, SameForks DEF Fault
  <2>17. CASE Yield(c, p)
    <3>1. state[p] = "RUNNING"
      BY <2>17, RunningIsLive, Zenon DEF Yield, On
    <3>2. \A q \in Procs : state'[q] = "EMBRYO" <=> state[q] = "EMBRYO"
      BY <2>17, <3>1, Zenon DEF Yield, On, Stop, TypeOK
    <3>3. \A q \in Procs : q \in Live => q \in Live'
      BY <2>17, <3>1, Zenon DEF Yield, On, Stop, TypeOK, Live
    <3>4. \A q \in Procs : q \in Live' => q \in Live
      BY <2>17, <3>1, Zenon DEF Yield, On, Stop, TypeOK, Live
    <3> QED BY <2>17, <3>1, <3>2, <3>3, <3>4, KeepsForks, Zenon
         DEF Yield, On, Stop, EmbryoHasOneForker, Live
  <2>18. CASE ForkFail(c, p)
    <3>1. state[p] = "RUNNING" /\ p \in Live
      BY <2>18, RunningIsLive, Zenon DEF ForkFail, On
    <3>2. np[p] \in Procs /\ state[np[p]] = "EMBRYO" /\ np[p] # p
      BY <2>18, <3>1 DEF ForkFail, EmbryoHasOneForker, TypeOK
    <3>3. \A q \in Procs :
            /\ np'[q] = (IF q = p THEN None ELSE np[q])
            /\ pc'[q] = (IF q = p THEN "user" ELSE pc[q])
            /\ state'[q] = (IF q = np[p] THEN "UNUSED" ELSE state[q])
      BY <2>18, <3>2, Zenon DEF ForkFail, TypeOK
    <3>4. \A q \in Procs \ {np[p]} : q \in Live' <=> q \in Live
      BY <3>3 DEF Live
    <3>5. \A q \in Procs : np[q] # None /\ q # p =>
            np[q] # np[p] /\ np[q] \in Procs /\ q # np[p]
      BY <3>2 DEF EmbryoHasOneForker, TypeOK, Live
    <3>6. \A q \in Procs : np'[q] # None =>
            /\ q \in Live' /\ pc'[q] \in {"copy", "ready"}
            /\ state'[np'[q]] = "EMBRYO"
      BY <3>3, <3>4, <3>5 DEF EmbryoHasOneForker
    <3>7. \A q, r \in Procs : np'[q] = np'[r] /\ np'[q] # None => q = r
      BY <3>3 DEF EmbryoHasOneForker
    <3>8. \A q \in Live' : pc'[q] \in {"copy", "ready"} => np'[q] # None
      BY <3>3, <3>4 DEF EmbryoHasOneForker, Live
    <3>9. \A r \in Procs : state'[r] = "EMBRYO" => \E q \in Procs : np'[q] = r
      BY <3>2, <3>3 DEF EmbryoHasOneForker
    <3> QED BY <3>6, <3>7, <3>8, <3>9 DEF EmbryoHasOneForker
  <2>19. CASE Sched(c, p)
    BY <2>19, SameForks DEF Sched
  <2>20. CASE Pick(c, p)
    <3>2. \A q \in Procs : state'[q] = "EMBRYO" <=> state[q] = "EMBRYO"
      BY <2>20, Zenon DEF Pick, TypeOK
    <3>3. \A q \in Procs : q \in Live => q \in Live'
      BY <2>20, Zenon DEF Pick, TypeOK, Live
    <3>4. \A q \in Procs : q \in Live' => q \in Live
      BY <2>20, Zenon DEF Pick, TypeOK, Live
    <3> QED BY <2>20, <3>2, <3>3, <3>4, KeepsForks, Zenon
         DEF Pick, EmbryoHasOneForker, Live
  <2>21. CASE Resume(c, p)
    <3>1. \A q \in Procs : pc'[q] \in {"copy", "ready"}
                          <=> pc[q] \in {"copy", "ready"}
      BY <2>21, Zenon DEF Resume, TypeOK
    <3> QED BY <2>21, <3>1, KeepsForksPc DEF Resume
  <2> QED BY <1>1, <2>1, <2>2, <2>3, <2>4, <2>5, <2>6, <2>7, <2>8, <2>9,
             <2>10, <2>11, <2>12, <2>13, <2>14, <2>15, <2>16, <2>17,
             <2>18, <2>19, <2>20, <2>21, Zenon DEF Work
<1>2. ASSUME NEW c \in Cpus, SchedAcquire(c) PROVE EmbryoHasOneForker'
  BY <1>2, SameForks DEF SchedAcquire
<1>3. ASSUME NEW c \in Cpus, SchedRelease(c) PROVE EmbryoHasOneForker'
  BY <1>3, SameForks DEF SchedRelease
<1>4. ASSUME NEW ch \in Chans, Wakeup(ch) PROVE EmbryoHasOneForker'
  <2>1. \A q \in Procs :
          \/ state'[q] = state[q]
          \/ state[q] = "SLEEPING" /\ state'[q] = "RUNNABLE"
    <3>1. state' = wakeup1({ch})
      BY <1>4 DEF Wakeup
    <3>2. \A q \in Procs :
            \/ wakeup1({ch})[q] = state[q]
            \/ state[q] = "SLEEPING" /\ wakeup1({ch})[q] = "RUNNABLE"
      BY WakeupStates, Zenon
    <3> QED BY <3>1, <3>2
  <2>2. \A q \in Procs : state'[q] = "EMBRYO" <=> state[q] = "EMBRYO"
    BY <2>1
  <2>3. \A q \in Procs : q \in Live <=> q \in Live'
    BY <2>1 DEF Live
  <2>4. UNCHANGED <<np, pc>>
    BY <1>4 DEF Wakeup
  <2> QED BY <2>2, <2>3, <2>4, KeepsForks, Zenon DEF EmbryoHasOneForker, Live
<1>5. CASE UNCHANGED vars
  BY <1>5, SameForks DEF vars
<1> QED BY <1>1, <1>2, <1>3, <1>4, <1>5 DEF Next

-----------------------------------------------------------------------------
\* The inductive invariant: whose stack a CPU is on depends on which slots
\* are EMBRYO, and which processes fork on who is running.
StackInv == TypeOK /\ OneCpuPerProcess /\ EmbryoHasOneForker

LEMMA InitStackInv == Init => StackInv
<1> SUFFICES ASSUME Init PROVE StackInv
  OBVIOUS
<1>1. TypeOK
  BY InitType
<1>2. OneCpuPerProcess
  BY Zenon DEF Init, OneCpuPerProcess, Procs, None
<1>3. EmbryoHasOneForker
  BY Zenon DEF Init, EmbryoHasOneForker, Live
<1> QED BY <1>1, <1>2, <1>3 DEF StackInv

LEMMA SpecStackInv == Spec => []StackInv
<1>1. StackInv /\ [Next]_vars => StackInv'
  BY NextType, NextOneCpu, NextEmbryo DEF StackInv
<1> QED BY <1>1, InitStackInv, PTL DEF Spec

\* Every field of the process table, ptable.lock and every cpus[c].proc keep
\* their type under all handlers.
THEOREM TypeCorrect == Spec => []TypeOK
<1>1. StackInv => TypeOK
  BY DEF StackInv
<1> QED BY <1>1, SpecStackInv, PTL

\* ptable.lock held across swtch() does its work: a kernel stack is used by
\* one CPU at a time, on a machine of any size.
THEOREM OneCpuPerProcessCorrect == Spec => []OneCpuPerProcess
<1>1. StackInv => OneCpuPerProcess
  BY DEF StackInv
<1> QED BY <1>1, SpecStackInv, PTL

\* fork() leaves no EMBRYO behind and no two forks share one, although it fills
\* the slot in, or gives it back, without ptable.lock.
THEOREM EmbryoHasOneForkerCorrect == Spec => []EmbryoHasOneForker
<1>1. StackInv => EmbryoHasOneForker
  BY DEF StackInv
<1> QED BY <1>1, SpecStackInv, PTL

-----------------------------------------------------------------------------
(* The table implements the life cycle of ProcStates.                      *)

\* wakeup1() as a set of sleepers that wake.
LEMMA WakeupIsWoken ==
  ASSUME TypeOK, NEW C
  PROVE  \E W \in SUBSET Abs!Sleepers : wakeup1(C) = Abs!Woken(W)
<1> DEFINE W == {q \in Procs : state[q] = "SLEEPING" /\ chan[q] \in C}
<1>1. W \in SUBSET Abs!Sleepers
  BY DEF Abs!Sleepers
<1>2. wakeup1(C) = Abs!Woken(W)
  BY Zenon DEF wakeup1, Abs!Woken
<1> QED BY <1>1, <1>2

LEMMA NobodyWoken == TypeOK => {} \in SUBSET Abs!Sleepers /\ Abs!Woken({}) = state
BY Zenon DEF TypeOK, Abs!Woken

LEMMA NextProcStates ==
  ASSUME TypeOK, OneCpuPerProcess, EmbryoHasOneForker, [Next]_vars
  PROVE  [Abs!Next]_(Abs!vars)
<1>1. ASSUME NEW c \in Cpus, NEW p \in Procs,
             \/ \E k \in Calls : Syscall(c, p, k)
             \/ \E n \in 0 .. MaxPid : Kill(c, p, n)
             \/ Work(c, p) \/ Fault(c, p) \/ Yield(c, p) \/ ForkFail(c, p)
             \/ Sched(c, p) \/ Pick(c, p) \/ Resume(c, p)
      PROVE  [Abs!Next]_(Abs!vars)
  <2>1. ASSUME NEW k \in Calls, Syscall(c, p, k) PROVE [Abs!Next]_(Abs!vars)
    BY <2>1, Zenon DEF Syscall, Abs!vars
  <2>2. ASSUME NEW n \in 0 .. MaxPid, Kill(c, p, n) PROVE [Abs!Next]_(Abs!vars)
    <3>1. PICK q \in Procs : KillAt(c, p, q)
      BY <2>2, KillSlot
    <3> DEFINE W == {q} \cap Abs!Sleepers
    <3>2. state' = Abs!Woken(W)
      BY <3>1, Zenon DEF KillAt, TypeOK, Abs!Woken, Abs!Sleepers
    <3>3. W \in SUBSET Abs!Sleepers /\ UNCHANGED proc
      BY <3>1 DEF KillAt
    <3> QED BY <3>2, <3>3, Zenon DEF Abs!Next, Abs!Wake
  <2>3. CASE KilledTrap(c, p)
    BY <2>3, Zenon DEF KilledTrap, Abs!vars
  <2>4. CASE Allocproc(c, p)
    <3>1. PICK q \in Procs : AllocprocAt(c, p, q)
      BY <2>4, AllocprocSlot
    <3>2. Abs!Allocate(q)
      BY <3>1, Zenon DEF AllocprocAt, Abs!Allocate, Abs!Move
    <3> QED BY <3>2 DEF Abs!Next
  <2>5. CASE TableFull(c, p)
    BY <2>5, Zenon DEF TableFull, Abs!vars
  <2>6. CASE ForkCopy(c, p)
    BY <2>6, Zenon DEF ForkCopy, Abs!vars
  <2>7. CASE ForkDone(c, p)
    <3>1. p \in Live
      BY <2>7, RunningIsLive, Zenon DEF ForkDone, On
    <3>2. np[p] \in Procs /\ state[np[p]] = "EMBRYO"
      BY <2>7, <3>1, SMTT(30) DEF ForkDone, EmbryoHasOneForker, TypeOK
    <3>3. Abs!Ready(np[p])
      BY <2>7, <3>2, Zenon DEF ForkDone, Abs!Ready, Abs!Move
    <3> QED BY <3>2, <3>3, Zenon DEF Abs!Next
  <2>8. CASE Exit(c, p)
    <3>1. state[p] = "RUNNING"
      BY <2>8, RunningIsLive, Zenon DEF Exit, On
    <3>2. PICK W \in SUBSET Abs!Sleepers :
            wakeup1(WakesAtExit(p)) = Abs!Woken(W)
      BY WakeupIsWoken
    <3>3. Abs!Stop(c, p, "ZOMBIE", W)
      BY <2>8, <3>1, <3>2, Zenon DEF Exit, On, Stop, Abs!Stop
    <3> QED BY <3>3 DEF Abs!Next
  <2>9. CASE WaitAcquire(c, p)
    BY <2>9, Zenon DEF WaitAcquire, Abs!vars
  <2>10. CASE WaitReap(c, p)
    <3>1. PICK q \in Procs : WaitReapAt(c, p, q)
      BY <2>10, WaitReapSlot
    <3>2. \A d \in Cpus : at[d] \notin {"pick", "sched"}
      BY <3>1, OthersOutside, Zenon DEF WaitReapAt, Scanning
    <3>3. Abs!OffStack(q)
      <4> SUFFICES ASSUME NEW d \in Cpus, proc[d] = q PROVE FALSE
        BY DEF Abs!OffStack
      <4>1. at[d] \in {"top", "proc"} /\ q # None
        BY <3>2 DEF TypeOK, CpuPoints, Procs, None
      <4>2. at[d] = "proc"
        BY <4>1 DEF OneCpuPerProcess
      <4> QED BY <3>1, <4>2, Zenon DEF OneCpuPerProcess, WaitReapAt
    <3>4. Abs!Reap(q)
      BY <3>1, <3>3, Zenon DEF WaitReapAt, Abs!Reap, Abs!Move
    <3> QED BY <3>4 DEF Abs!Next
  <2>11. CASE WaitGiveUp(c, p)
    BY <2>11, Zenon DEF WaitGiveUp, Abs!vars
  <2>12. CASE WaitSleep(c, p)
    <3>1. state[p] = "RUNNING"
      BY <2>12, RunningIsLive, Zenon DEF WaitSleep, Scanning
    <3>2. {} \in SUBSET Abs!Sleepers /\ Abs!Stop(c, p, "SLEEPING", {})
      BY <2>12, <3>1, NobodyWoken, Zenon DEF WaitSleep, Scanning, Abs!Stop
    <3> QED BY <3>2 DEF Abs!Next
  <2>13. CASE SleepTest(c, p)
    BY <2>13, Zenon DEF SleepTest, Abs!vars
  <2>14. ASSUME NEW ch \in Chans, Sleep(c, p, ch) PROVE [Abs!Next]_(Abs!vars)
    <3>1. state[p] = "RUNNING"
      BY <2>14, RunningIsLive, Zenon DEF Sleep, On
    <3>2. {} \in SUBSET Abs!Sleepers /\ Abs!Stop(c, p, "SLEEPING", {})
      BY <2>14, <3>1, NobodyWoken, Zenon DEF Sleep, On, Stop, Abs!Stop
    <3> QED BY <3>2 DEF Abs!Next
  <2>15. CASE KillNone(c, p)
    BY <2>15, Zenon DEF KillNone, Abs!vars
  <2>16. CASE Fault(c, p)
    BY <2>16, Zenon DEF Fault, Abs!vars
  <2>17. CASE Yield(c, p)
    <3>1. state[p] = "RUNNING"
      BY <2>17, RunningIsLive, Zenon DEF Yield, On
    <3>2. {} \in SUBSET Abs!Sleepers /\ Abs!Stop(c, p, "RUNNABLE", {})
      BY <2>17, <3>1, NobodyWoken, Zenon DEF Yield, On, Stop, Abs!Stop
    <3> QED BY <3>2 DEF Abs!Next
  <2>18. CASE ForkFail(c, p)
    <3>1. p \in Live
      BY <2>18, RunningIsLive, Zenon DEF ForkFail, On
    <3>2. np[p] \in Procs /\ state[np[p]] = "EMBRYO"
      BY <2>18, <3>1 DEF ForkFail, EmbryoHasOneForker, TypeOK
    <3>3. Abs!Abandon(np[p])
      BY <2>18, <3>2, Zenon DEF ForkFail, Abs!Abandon, Abs!Move
    <3> QED BY <3>2, <3>3, Zenon DEF Abs!Next
  <2>19. CASE Sched(c, p)
    <3>1. state[p] # "RUNNING"
      BY <2>19, Zenon DEF Sched, OneCpuPerProcess
    <3>2. Abs!Leave(c, p)
      BY <2>19, <3>1, Zenon DEF Sched, Abs!Leave
    <3> QED BY <3>2 DEF Abs!Next
  <2>20. CASE Pick(c, p)
    <3>1. at[c] = "pick" /\ lock = c /\ proc[c] = None /\ state[p] = "RUNNABLE"
      BY <2>20, Zenon DEF Pick, OneCpuPerProcess
    <3>2. Abs!OffStack(p)
      BY <3>1, PickedIsOffStack DEF Abs!OffStack
    <3>3. Abs!Dispatch(c, p)
      BY <2>20, <3>1, <3>2, Zenon DEF Pick, Abs!Dispatch
    <3> QED BY <3>3 DEF Abs!Next
  <2>21. CASE Resume(c, p)
    BY <2>21, Zenon DEF Resume, Abs!vars
  <2> QED BY <1>1, <2>1, <2>2, <2>3, <2>4, <2>5, <2>6, <2>7, <2>8, <2>9,
             <2>10, <2>11, <2>12, <2>13, <2>14, <2>15, <2>16, <2>17,
             <2>18, <2>19, <2>20, <2>21, Zenon DEF Work
<1>2. ASSUME NEW c \in Cpus, SchedAcquire(c) PROVE [Abs!Next]_(Abs!vars)
  BY <1>2, Zenon DEF SchedAcquire, Abs!vars
<1>3. ASSUME NEW c \in Cpus, SchedRelease(c) PROVE [Abs!Next]_(Abs!vars)
  BY <1>3, Zenon DEF SchedRelease, Abs!vars
<1>4. ASSUME NEW ch \in Chans, Wakeup(ch) PROVE [Abs!Next]_(Abs!vars)
  <2>1. PICK W \in SUBSET Abs!Sleepers : wakeup1({ch}) = Abs!Woken(W)
    BY WakeupIsWoken
  <2>2. Abs!Wake(W)
    BY <1>4, <2>1, Zenon DEF Wakeup, Abs!Wake
  <2> QED BY <2>2 DEF Abs!Next
<1>5. CASE UNCHANGED vars
  BY <1>5, Zenon DEF vars, Abs!vars
<1> QED BY <1>1, <1>2, <1>3, <1>4, <1>5 DEF Next

\* The process table implements the life cycle of ProcStates: no process is
\* dispatched or reaped while a CPU is still on its kernel stack.
THEOREM RefinesProcStates == Spec => ImplementsProcStates
<1>1. Init => Abs!Init
  BY Zenon DEF Init, Abs!Init
<1>2. StackInv /\ [Next]_vars => [Abs!Next]_(Abs!vars)
  BY NextProcStates DEF StackInv
<1> QED BY <1>1, <1>2, SpecStackInv, PTL
     DEF Spec, ImplementsProcStates, Abs!Spec
=============================================================================
