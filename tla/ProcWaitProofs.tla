--------------------------- MODULE ProcWaitProofs ---------------------------
(***************************************************************************)
(* Parents and children for every number of slots, CPUs and channels: pids *)
(* differ, exit() passes its children on in time, and no wakeup of wait()  *)
(* is lost.                                                                *)
(***************************************************************************)
EXTENDS ProcProofs

-----------------------------------------------------------------------------
(* A pid names one slot.                                                   *)

\* Steps that hand out no pid and allocate no slot.
LEMMA KeepsPids ==
  ASSUME TypeOK, PidsDiffer, UNCHANGED <<pid, nextpid>>,
         \A q \in Procs : state'[q] # "UNUSED" => state[q] # "UNUSED"
  PROVE  PidsDiffer'
BY DEF PidsDiffer

LEMMA NextPids ==
  ASSUME TypeOK, OneCpuPerProcess, EmbryoHasOneForker, PidsDiffer, [Next]_vars
  PROVE  PidsDiffer'
<1>1. ASSUME NEW c \in Cpus, NEW p \in Procs,
             \/ \E k \in Calls : Syscall(c, p, k)
             \/ \E n \in 0 .. MaxPid : Kill(c, p, n)
             \/ Work(c, p) \/ Fault(c, p) \/ Yield(c, p) \/ ForkFail(c, p)
             \/ Sched(c, p) \/ Pick(c, p) \/ Resume(c, p)
      PROVE  PidsDiffer'
  <2>1. ASSUME NEW k \in Calls, Syscall(c, p, k) PROVE PidsDiffer'
    BY <2>1, KeepsPids, Zenon DEF Syscall, table
  <2>2. ASSUME NEW n \in 0 .. MaxPid, Kill(c, p, n) PROVE PidsDiffer'
    <3>1. PICK q \in Procs : KillAt(c, p, q)
      BY <2>2, KillSlot
    <3>2. \A r \in Procs : state'[r] # "UNUSED" => state[r] # "UNUSED"
      BY <3>1, Zenon DEF KillAt, TypeOK
    <3> QED BY <3>1, <3>2, KeepsPids DEF KillAt
  <2>3. CASE KilledTrap(c, p)
    BY <2>3, KeepsPids, Zenon DEF KilledTrap, table
  <2>4. CASE Allocproc(c, p)
    <3>1. PICK x \in Procs : AllocprocAt(c, p, x)
      BY <2>4, AllocprocSlot
    <3>2. \A q \in Procs :
            /\ pid'[q] = (IF q = x THEN nextpid ELSE pid[q])
            /\ state'[q] = (IF q = x THEN "EMBRYO" ELSE state[q])
            /\ pid[q] \in Nat
      BY <3>1, Zenon DEF AllocprocAt, TypeOK
    <3>3. nextpid' = nextpid + 1 /\ nextpid \in Nat /\ nextpid # 0
      BY <3>1, <3>2 DEF AllocprocAt, TypeOK, PidsDiffer
    <3>4. \A q, r \in Procs : pid'[q] = pid'[r] /\ q # r => pid'[q] = 0
      BY <3>2, <3>3 DEF PidsDiffer
    <3>5. \A q \in Procs :
            /\ pid'[q] < nextpid'
            /\ state'[q] # "UNUSED" => pid'[q] # 0
      BY <3>2, <3>3 DEF PidsDiffer
    <3> QED BY <3>4, <3>5 DEF PidsDiffer
  <2>5. CASE TableFull(c, p)
    BY <2>5, KeepsPids, Zenon DEF TableFull, table
  <2>6. CASE ForkCopy(c, p)
    BY <2>6, KeepsPids, Zenon DEF ForkCopy, table
  <2>7. CASE ForkDone(c, p)
    <3>1. p \in Live
      BY <2>7, RunningIsLive, Zenon DEF ForkDone, On
    <3>2. state[np[p]] = "EMBRYO"
      BY <2>7, <3>1, Zenon DEF ForkDone, EmbryoHasOneForker
    <3>3. \A q \in Procs : state'[q] # "UNUSED" => state[q] # "UNUSED"
      BY <2>7, <3>2, Zenon DEF ForkDone, TypeOK
    <3> QED BY <2>7, <3>3, KeepsPids, Zenon DEF ForkDone, table
  <2>8. CASE Exit(c, p)
    <3> DEFINE W == wakeup1(WakesAtExit(p))
    <3>1. /\ W \in [Procs -> States]
          /\ \A q \in Procs :
               \/ W[q] = state[q]
               \/ state[q] = "SLEEPING" /\ W[q] = "RUNNABLE"
      BY WakeupStates
    <3>2. state' = [W EXCEPT ![p] = "ZOMBIE"] /\ UNCHANGED <<pid, nextpid>>
      BY <2>8, Zenon DEF Exit, Stop
    <3> HIDE DEF W
    <3>3. state[p] = "RUNNING"
      BY <2>8, RunningIsLive, Zenon DEF Exit, On
    <3>4. \A q \in Procs : state'[q] # "UNUSED" => state[q] # "UNUSED"
      BY <3>1, <3>2, <3>3
    <3> QED BY <3>2, <3>4, KeepsPids
  <2>9. CASE WaitAcquire(c, p)
    BY <2>9, KeepsPids, Zenon DEF WaitAcquire, table
  <2>10. CASE WaitReap(c, p)
    <3>1. PICK x \in Procs : WaitReapAt(c, p, x)
      BY <2>10, WaitReapSlot
    <3>2. \A q \in Procs :
            /\ pid'[q] = (IF q = x THEN 0 ELSE pid[q])
            /\ state'[q] = (IF q = x THEN "UNUSED" ELSE state[q])
            /\ pid[q] \in Nat
      BY <3>1, Zenon DEF WaitReapAt, TypeOK
    <3>3. nextpid' = nextpid /\ nextpid \in Nat
      BY <3>1, Zenon DEF WaitReapAt, TypeOK
    <3> QED BY <3>2, <3>3 DEF PidsDiffer
  <2>11. CASE WaitGiveUp(c, p)
    BY <2>11, KeepsPids, Zenon DEF WaitGiveUp, table
  <2>12. CASE WaitSleep(c, p)
    <3>1. state[p] = "RUNNING"
      BY <2>12, RunningIsLive, Zenon DEF WaitSleep, Scanning
    <3>2. \A q \in Procs : state'[q] # "UNUSED" => state[q] # "UNUSED"
      BY <2>12, <3>1, Zenon DEF WaitSleep, Scanning, TypeOK
    <3> QED BY <2>12, <3>2, KeepsPids, Zenon DEF WaitSleep, table
  <2>13. CASE SleepTest(c, p)
    BY <2>13, KeepsPids, Zenon DEF SleepTest, table
  <2>14. ASSUME NEW ch \in Chans, Sleep(c, p, ch) PROVE PidsDiffer'
    <3>1. state[p] = "RUNNING"
      BY <2>14, RunningIsLive, Zenon DEF Sleep, On
    <3>2. \A q \in Procs : state'[q] # "UNUSED" => state[q] # "UNUSED"
      BY <2>14, <3>1, Zenon DEF Sleep, On, Stop, TypeOK
    <3> QED BY <2>14, <3>2, KeepsPids, Zenon DEF Sleep, table
  <2>15. CASE KillNone(c, p)
    BY <2>15, KeepsPids, Zenon DEF KillNone, table
  <2>16. CASE Fault(c, p)
    BY <2>16, KeepsPids, Zenon DEF Fault, table
  <2>17. CASE Yield(c, p)
    <3>1. state[p] = "RUNNING"
      BY <2>17, RunningIsLive, Zenon DEF Yield, On
    <3>2. \A q \in Procs : state'[q] # "UNUSED" => state[q] # "UNUSED"
      BY <2>17, <3>1, Zenon DEF Yield, On, Stop, TypeOK
    <3> QED BY <2>17, <3>2, KeepsPids, Zenon DEF Yield, table
  <2>18. CASE ForkFail(c, p)
    <3>1. p \in Live
      BY <2>18, RunningIsLive, Zenon DEF ForkFail, On
    <3>2. state[np[p]] = "EMBRYO"
      BY <2>18, <3>1, Zenon DEF ForkFail, EmbryoHasOneForker
    <3>3. \A q \in Procs : state'[q] # "UNUSED" => state[q] # "UNUSED"
      BY <2>18, <3>2, Zenon DEF ForkFail, TypeOK
    <3> QED BY <2>18, <3>3, KeepsPids, Zenon DEF ForkFail, table
  <2>19. CASE Sched(c, p)
    BY <2>19, KeepsPids, Zenon DEF Sched, table
  <2>20. CASE Pick(c, p)
    <3>1. \A q \in Procs : state'[q] # "UNUSED" => state[q] # "UNUSED"
      BY <2>20, Zenon DEF Pick, TypeOK
    <3> QED BY <2>20, <3>1, KeepsPids, Zenon DEF Pick, table
  <2>21. CASE Resume(c, p)
    BY <2>21, KeepsPids, Zenon DEF Resume, table
  <2> QED BY <1>1, <2>1, <2>2, <2>3, <2>4, <2>5, <2>6, <2>7, <2>8, <2>9,
             <2>10, <2>11, <2>12, <2>13, <2>14, <2>15, <2>16, <2>17,
             <2>18, <2>19, <2>20, <2>21 DEF Work
<1>2. ASSUME NEW c \in Cpus, SchedAcquire(c) PROVE PidsDiffer'
  BY <1>2, KeepsPids, Zenon DEF SchedAcquire, table
<1>3. ASSUME NEW c \in Cpus, SchedRelease(c) PROVE PidsDiffer'
  BY <1>3, KeepsPids, Zenon DEF SchedRelease, table
<1>4. ASSUME NEW ch \in Chans, Wakeup(ch) PROVE PidsDiffer'
  <2>1. state' = wakeup1({ch}) /\ UNCHANGED <<pid, nextpid>>
    BY <1>4, Zenon DEF Wakeup, table
  <2>2. \A q \in Procs : state'[q] # "UNUSED" => state[q] # "UNUSED"
    BY <2>1, WakeupStates
  <2> QED BY <2>1, <2>2, KeepsPids
<1>5. CASE UNCHANGED vars
  BY <1>5, KeepsPids, Zenon DEF vars, table
<1> QED BY <1>1, <1>2, <1>3, <1>4, <1>5 DEF Next

\* kill() and wait() can name a process by its pid: allocproc() never hands out
\* one that is still in the table (nextpid does not wrap around here).
THEOREM PidsDifferCorrect == Spec => []PidsDiffer
<1>1. Init => PidsDiffer
  BY DEF Init, PidsDiffer
<1>2. StackInv /\ PidsDiffer /\ [Next]_vars => PidsDiffer'
  BY NextPids DEF StackInv
<1> QED BY <1>1, <1>2, SpecStackInv, PTL DEF Spec

-----------------------------------------------------------------------------
(* Parents.                                                                *)

\* What ParentCanWait says of one slot other than init's.
ParentOK(q) ==
  /\ state[q] = "UNUSED" => parent[q] = None
  /\ state[q] = "EMBRYO" /\ parent[q] # None => np[parent[q]] = q
  /\ state[q] \notin {"UNUSED", "EMBRYO"} => parent[q] \in Live

\* The inductive invariant: init does not exit, nobody is its own parent, and
\* an EMBRYO has its parent from the moment fork() fills it in.
FamilyInv ==
  /\ initproc \in Live /\ parent[initproc] = None /\ pc[initproc] # "exit"
  /\ \A q \in Procs \ {initproc} : ParentOK(q)
  /\ \A q \in Procs : parent[q] # q
  /\ \A q \in Procs : np[q] # None =>
       parent[np[q]] = IF pc[q] = "copy" THEN None ELSE q

LEMMA InitIsSlot == initproc \in Procs
BY ProcAssumption DEF initproc, Procs

LEMMA FamilyParents == FamilyInv => ParentCanWait
BY Zenon DEF FamilyInv, ParentOK, ParentCanWait

\* Steps that leave the families alone.
LEMMA KeepsFamily ==
  ASSUME TypeOK, EmbryoHasOneForker, FamilyInv, UNCHANGED <<parent, np>>,
         \A q \in Procs : state'[q] = state[q] \/ (q \in Live /\ q \in Live'),
         \A q \in Procs : np[q] # None => pc'[q] = pc[q],
         pc'[initproc] # "exit"
  PROVE  FamilyInv'
<1>1. \A q \in Procs : q \in Live <=> q \in Live'
  BY DEF Live
<1>2. ASSUME NEW q \in Procs \ {initproc} PROVE ParentOK(q)'
  <2>1. /\ ParentOK(q) /\ parent[q] \in Procs \cup {None}
        /\ parent' = parent /\ np' = np
    BY Zenon DEF FamilyInv, TypeOK
  <2>2. CASE state'[q] = state[q]
    BY <1>1, <2>1, <2>2, Zenon DEF ParentOK, Live
  <2>3. CASE q \in Live /\ q \in Live'
    BY <1>1, <2>1, <2>3, Zenon DEF ParentOK, Live
  <2> QED BY <2>2, <2>3
<1>3. \A q \in Procs : np'[q] # None =>
        parent'[np'[q]] = IF pc'[q] = "copy" THEN None ELSE q
  BY DEF FamilyInv
<1> QED BY <1>1, <1>2, <1>3, InitIsSlot DEF FamilyInv

LEMMA NextFamily ==
  ASSUME TypeOK, OneCpuPerProcess, EmbryoHasOneForker, FamilyInv, [Next]_vars
  PROVE  FamilyInv'
<1>1. ASSUME NEW c \in Cpus, NEW p \in Procs,
             \/ \E k \in Calls : Syscall(c, p, k)
             \/ \E n \in 0 .. MaxPid : Kill(c, p, n)
             \/ Work(c, p) \/ Fault(c, p) \/ Yield(c, p) \/ ForkFail(c, p)
             \/ Sched(c, p) \/ Pick(c, p) \/ Resume(c, p)
      PROVE  FamilyInv'
  <2>1. ASSUME NEW k \in Calls, Syscall(c, p, k) PROVE FamilyInv'
    <3>1. \A q \in Procs : np[q] # None => pc'[q] = pc[q]
      BY <2>1, Zenon DEF Syscall, On, TypeOK, EmbryoHasOneForker
    <3>2. pc'[initproc] # "exit"
      BY <2>1 DEF Syscall, TypeOK, FamilyInv
    <3>3. UNCHANGED <<state, parent, np>>
      BY <2>1, Zenon DEF Syscall, table
    <3> QED BY <3>1, <3>2, <3>3, KeepsFamily
  <2>2. ASSUME NEW n \in 0 .. MaxPid, Kill(c, p, n) PROVE FamilyInv'
    <3>1. PICK x \in Procs : KillAt(c, p, x)
      BY <2>2, KillSlot
    <3>2. \A q \in Procs : state'[q] = state[q] \/ (q \in Live /\ q \in Live')
      BY <3>1, Zenon DEF KillAt, TypeOK, Live
    <3>3. \A q \in Procs : np[q] # None => pc'[q] = pc[q]
      BY <3>1, Zenon DEF KillAt, TypeOK, EmbryoHasOneForker
    <3>4. pc'[initproc] # "exit" /\ UNCHANGED <<parent, np>>
      BY <3>1 DEF KillAt, TypeOK, FamilyInv
    <3> QED BY <3>2, <3>3, <3>4, KeepsFamily
  <2>3. CASE KilledTrap(c, p)
    <3>1. \A q \in Procs : np[q] # None => pc'[q] = pc[q]
      BY <2>3, Zenon DEF KilledTrap, On, TypeOK, EmbryoHasOneForker
    <3>2. pc'[initproc] # "exit"
      BY <2>3 DEF KilledTrap, TypeOK, FamilyInv
    <3>3. UNCHANGED <<state, parent, np>>
      BY <2>3, Zenon DEF KilledTrap, table
    <3> QED BY <3>1, <3>2, <3>3, KeepsFamily
  <2>4. CASE Allocproc(c, p)
    <3>1. PICK x \in Procs : AllocprocAt(c, p, x)
      BY <2>4, AllocprocSlot
    <3>2. /\ \A q \in Procs :
               /\ np'[q] = (IF q = p THEN x ELSE np[q])
               /\ pc'[q] = (IF q = p THEN "copy" ELSE pc[q])
               /\ state'[q] = (IF q = x THEN "EMBRYO" ELSE state[q])
          /\ parent' = parent /\ state[x] = "UNUSED"
      BY <3>1, Zenon DEF AllocprocAt, TypeOK
    <3>3. /\ np[p] = None /\ x # initproc /\ parent[x] = None
          /\ \A q \in Procs : q \in Live <=> q \in Live'
      BY <3>1, <3>2 DEF AllocprocAt, EmbryoHasOneForker, FamilyInv, ParentOK, Live
    <3>4. ASSUME NEW q \in Procs \ {initproc} PROVE ParentOK(q)'
      <4>1. ParentOK(q) /\ parent[q] \in Procs \cup {None}
        BY Zenon DEF FamilyInv, TypeOK
      <4>2. CASE q = x
        BY <3>2, <3>3, <4>2 DEF ParentOK
      <4>3. CASE q # x
        <5>1. state'[q] = state[q] /\ parent'[q] = parent[q]
          BY <3>2, <4>3
        <5>2. CASE state[q] = "EMBRYO" /\ parent[q] # None
          <6>1. np[parent[q]] = q /\ parent[q] \in Procs /\ q # None
            BY <4>1, <5>2 DEF ParentOK, Procs, None
          <6>2. parent[q] # p
            BY <3>3, <6>1
          <6> QED BY <3>2, <5>1, <5>2, <6>1, <6>2 DEF ParentOK
        <5>3. CASE ~ (state[q] = "EMBRYO" /\ parent[q] # None)
          BY <3>3, <4>1, <5>1, <5>3, Zenon DEF ParentOK, Live
        <5> QED BY <5>2, <5>3
      <4> QED BY <4>2, <4>3
    <3>5. \A q \in Procs : np'[q] # None =>
            parent'[np'[q]] = IF pc'[q] = "copy" THEN None ELSE q
      BY <3>2, <3>3 DEF FamilyInv
    <3> QED BY <3>2, <3>3, <3>4, <3>5, InitIsSlot DEF FamilyInv
  <2>5. CASE TableFull(c, p)
    <3>1. \A q \in Procs : np[q] # None => pc'[q] = pc[q]
      BY <2>5, Zenon DEF TableFull, On, TypeOK, EmbryoHasOneForker
    <3>2. pc'[initproc] # "exit"
      BY <2>5 DEF TableFull, TypeOK, FamilyInv
    <3>3. UNCHANGED <<state, parent, np>>
      BY <2>5, Zenon DEF TableFull, table
    <3> QED BY <3>1, <3>2, <3>3, KeepsFamily
  <2>6. CASE ForkCopy(c, p)
    <3>1. p \in Live
      BY <2>6, RunningIsLive, Zenon DEF ForkCopy, On
    <3>2. /\ np[p] \in Procs /\ state[np[p]] = "EMBRYO" /\ np[p] # p
          /\ np[p] # initproc
      BY <2>6, <3>1 DEF ForkCopy, EmbryoHasOneForker, TypeOK, FamilyInv, Live
    <3>3. \A q \in Procs :
            /\ parent'[q] = (IF q = np[p] THEN p ELSE parent[q])
            /\ pc'[q] = (IF q = p THEN "ready" ELSE pc[q])
      BY <2>6, Zenon DEF ForkCopy, TypeOK
    <3>4. UNCHANGED <<state, np>> /\ Live' = Live
      BY <2>6, Zenon DEF ForkCopy, Live
    <3>5. ASSUME NEW q \in Procs \ {initproc} PROVE ParentOK(q)'
      BY <3>2, <3>3, <3>4, Zenon DEF FamilyInv, ParentOK
    <3>6. \A q \in Procs : np[q] # None /\ q # p => np[q] # np[p] /\ np[q] \in Procs
      BY <3>2 DEF EmbryoHasOneForker, TypeOK
    <3>7. \A q \in Procs : np'[q] # None =>
            parent'[np'[q]] = IF pc'[q] = "copy" THEN None ELSE q
      BY <3>2, <3>3, <3>4, <3>6 DEF FamilyInv
    <3> QED BY <3>2, <3>3, <3>4, <3>5, <3>7, InitIsSlot DEF FamilyInv
  <2>7. CASE ForkDone(c, p)
    <3>1. p \in Live
      BY <2>7, RunningIsLive, Zenon DEF ForkDone, On
    <3>2. /\ np[p] \in Procs /\ state[np[p]] = "EMBRYO" /\ np[p] # p
          /\ np[p] # initproc /\ parent[np[p]] = p
      BY <2>7, <3>1 DEF ForkDone, EmbryoHasOneForker, TypeOK, FamilyInv, Live
    <3>3. /\ \A q \in Procs :
               /\ np'[q] = (IF q = p THEN None ELSE np[q])
               /\ pc'[q] = (IF q = p \/ q = np[p] THEN "user" ELSE pc[q])
               /\ state'[q] = (IF q = np[p] THEN "RUNNABLE" ELSE state[q])
          /\ parent' = parent
      BY <2>7, <3>2, Zenon DEF ForkDone, TypeOK, table
    <3>4. \A q \in Procs : q \in Live => q \in Live'
      BY <3>2, <3>3 DEF Live
    <3>5. ASSUME NEW q \in Procs \ {initproc} PROVE ParentOK(q)'
      <4>1. ParentOK(q) /\ parent[q] \in Procs \cup {None}
        BY Zenon DEF FamilyInv, TypeOK
      <4>2. CASE q = np[p]
        BY <3>1, <3>2, <3>3, <3>4, <4>2 DEF ParentOK
      <4>3. CASE q # np[p]
        <5>1. state'[q] = state[q] /\ parent'[q] = parent[q]
          BY <3>3, <4>3
        <5>2. CASE state[q] = "EMBRYO" /\ parent[q] # None
          <6>1. np[parent[q]] = q /\ parent[q] \in Procs /\ parent[q] # p
            BY <4>1, <4>3, <5>2 DEF ParentOK
          <6> QED BY <3>3, <5>1, <5>2, <6>1 DEF ParentOK
        <5>3. CASE ~ (state[q] = "EMBRYO" /\ parent[q] # None)
          BY <3>4, <4>1, <5>1, <5>3, Zenon DEF ParentOK, Live
        <5> QED BY <5>2, <5>3
      <4> QED BY <4>2, <4>3
    <3>6. \A q \in Procs : np[q] # None => q # np[p]
      BY <3>2, Zenon DEF EmbryoHasOneForker, Live
    <3>7. \A q \in Procs : np'[q] # None =>
            parent'[np'[q]] = IF pc'[q] = "copy" THEN None ELSE q
      BY <3>2, <3>3, <3>6 DEF FamilyInv
    <3> QED BY <3>2, <3>3, <3>4, <3>5, <3>7, InitIsSlot DEF FamilyInv
  <2>8. CASE Exit(c, p)
    <3> DEFINE W == wakeup1(WakesAtExit(p))
    <3>1. /\ W \in [Procs -> States]
          /\ \A q \in Procs :
               \/ W[q] = state[q]
               \/ state[q] = "SLEEPING" /\ W[q] = "RUNNABLE"
      BY WakeupStates
    <3>2. state' = [W EXCEPT ![p] = "ZOMBIE"] /\ UNCHANGED <<np, pc>>
      BY <2>8, Zenon DEF Exit, Stop
    <3> HIDE DEF W
    <3>3. /\ p # initproc /\ state[p] = "RUNNING" /\ np[p] = None
      BY <2>8, RunningIsLive, Zenon DEF Exit, On, EmbryoHasOneForker, FamilyInv
    <3>4. \A q \in Procs : parent'[q] = IF parent[q] = p THEN initproc ELSE parent[q]
      BY <2>8, Zenon DEF Exit, PassChildren
    <3>5. \A q \in Procs \ {p} : q \in Live <=> q \in Live'
      BY <3>1, <3>2 DEF Live
    <3>6. \A q \in Procs :
            /\ state'[q] = "EMBRYO" <=> state[q] = "EMBRYO"
            /\ state'[q] = "UNUSED" <=> state[q] = "UNUSED"
      BY <3>1, <3>2, <3>3
    <3>7. initproc \in Live' /\ initproc # None
      BY <3>3, <3>5, InitIsSlot, Zenon DEF FamilyInv, initproc, None
    <3>8. ASSUME NEW q \in Procs \ {initproc} PROVE ParentOK(q)'
      <4>1. ParentOK(q) /\ parent[q] \in Procs \cup {None}
        BY Zenon DEF FamilyInv, TypeOK
      <4>2. state[q] = "EMBRYO" => parent[q] # p
        BY <3>3, <4>1 DEF ParentOK, Procs, None
      <4>3. CASE parent[q] = p
        BY <3>4, <3>6, <3>7, <4>1, <4>2, <4>3 DEF ParentOK, Procs, None
      <4>4. CASE parent[q] # p
        <5>1. parent'[q] = parent[q] /\ (parent[q] \in Live => parent[q] \in Live')
          BY <3>4, <3>5, <4>4 DEF Live
        <5> QED BY <3>2, <3>6, <4>1, <5>1 DEF ParentOK
      <4> QED BY <4>3, <4>4
    <3>9. \A q \in Procs : parent'[q] # q
      BY <3>3, <3>4, InitIsSlot DEF FamilyInv, Procs, None
    <3>10. \A q \in Procs : np'[q] # None =>
             parent'[np'[q]] = IF pc'[q] = "copy" THEN None ELSE q
      <4> SUFFICES ASSUME NEW q \in Procs, np[q] # None
                   PROVE  parent'[np[q]] = IF pc[q] = "copy" THEN None ELSE q
        BY <3>2
      <4>1. np[q] \in Procs /\ q # p
        BY <3>3 DEF TypeOK
      <4> QED BY <3>4, <4>1 DEF FamilyInv, Procs, None
    <3> QED BY <3>2, <3>3, <3>4, <3>7, <3>8, <3>9, <3>10, InitIsSlot, Zenon
         DEF FamilyInv, Procs, None
  <2>9. CASE WaitAcquire(c, p)
    BY <2>9, KeepsFamily, Zenon DEF WaitAcquire, table, FamilyInv
  <2>10. CASE WaitReap(c, p)
    <3>1. PICK x \in Procs : WaitReapAt(c, p, x)
      BY <2>10, WaitReapSlot
    <3>2. /\ \A q \in Procs :
               /\ parent'[q] = (IF q = x THEN None ELSE parent[q])
               /\ pc'[q] = (IF q = p THEN "user" ELSE pc[q])
               /\ state'[q] = (IF q = x THEN "UNUSED" ELSE state[q])
          /\ np' = np /\ state[x] = "ZOMBIE" /\ pc[p] = "wait"
      BY <3>1, Zenon DEF WaitReapAt, TypeOK, Scanning
    <3>3. /\ x # initproc /\ np[p] = None
          /\ \A q \in Procs : q \in Live <=> q \in Live'
      BY <3>2, Zenon DEF EmbryoHasOneForker, FamilyInv, Live
    <3>4. ASSUME NEW q \in Procs \ {initproc} PROVE ParentOK(q)'
      <4>1. ParentOK(q) /\ parent[q] \in Procs \cup {None}
        BY Zenon DEF FamilyInv, TypeOK
      <4>2. CASE q = x
        BY <3>2, <4>2 DEF ParentOK
      <4>3. CASE q # x
        BY <3>2, <3>3, <4>1, <4>3, Zenon DEF ParentOK, Live
      <4> QED BY <4>2, <4>3
    <3>5. \A q \in Procs : np[q] # None => np[q] # x /\ np[q] \in Procs
      BY <3>2 DEF EmbryoHasOneForker, TypeOK
    <3>6. \A q \in Procs : np'[q] # None =>
            parent'[np'[q]] = IF pc'[q] = "copy" THEN None ELSE q
      BY <3>2, <3>3, <3>5, SMTT(30) DEF FamilyInv
    <3> QED BY <3>2, <3>3, <3>4, <3>6, InitIsSlot DEF FamilyInv, Procs, None
  <2>11. CASE WaitGiveUp(c, p)
    <3>1. \A q \in Procs : np[q] # None => pc'[q] = pc[q]
      BY <2>11 DEF WaitGiveUp, Scanning, TypeOK, EmbryoHasOneForker
    <3>2. pc'[initproc] # "exit"
      BY <2>11 DEF WaitGiveUp, TypeOK, FamilyInv
    <3>3. UNCHANGED <<state, parent, np>>
      BY <2>11, Zenon DEF WaitGiveUp, table
    <3> QED BY <3>1, <3>2, <3>3, KeepsFamily
  <2>12. CASE WaitSleep(c, p)
    <3>1. state[p] = "RUNNING"
      BY <2>12, RunningIsLive, Zenon DEF WaitSleep, Scanning
    <3>2. \A q \in Procs : state'[q] = state[q] \/ (q \in Live /\ q \in Live')
      BY <2>12, <3>1, Zenon DEF WaitSleep, Scanning, TypeOK, Live
    <3> QED BY <2>12, <3>2, KeepsFamily, Zenon DEF WaitSleep, table, FamilyInv
  <2>13. CASE SleepTest(c, p)
    <3>1. \A q \in Procs : np[q] # None => pc'[q] = pc[q]
      BY <2>13 DEF SleepTest, On, TypeOK, EmbryoHasOneForker
    <3>2. pc'[initproc] # "exit"
      <4>1. pc'[initproc] \in {pc[initproc], "user", "block"}
        BY <2>13, InitIsSlot, Zenon DEF SleepTest, TypeOK
      <4> QED BY <4>1 DEF FamilyInv
    <3>3. UNCHANGED <<state, parent, np>>
      BY <2>13, Zenon DEF SleepTest, table
    <3> QED BY <3>1, <3>2, <3>3, KeepsFamily
  <2>14. ASSUME NEW ch \in Chans, Sleep(c, p, ch) PROVE FamilyInv'
    <3>1. state[p] = "RUNNING"
      BY <2>14, RunningIsLive, Zenon DEF Sleep, On
    <3>2. \A q \in Procs : state'[q] = state[q] \/ (q \in Live /\ q \in Live')
      BY <2>14, <3>1, Zenon DEF Sleep, On, Stop, TypeOK, Live
    <3> QED BY <2>14, <3>2, KeepsFamily, Zenon DEF Sleep, table, FamilyInv
  <2>15. CASE KillNone(c, p)
    <3>1. \A q \in Procs : np[q] # None => pc'[q] = pc[q]
      BY <2>15, Zenon DEF KillNone, On, TypeOK, EmbryoHasOneForker
    <3>2. pc'[initproc] # "exit"
      BY <2>15 DEF KillNone, TypeOK, FamilyInv
    <3>3. UNCHANGED <<state, parent, np>>
      BY <2>15, Zenon DEF KillNone, table
    <3> QED BY <3>1, <3>2, <3>3, KeepsFamily
  <2>16. CASE Fault(c, p)
    BY <2>16, KeepsFamily, Zenon DEF Fault, table, FamilyInv
  <2>17. CASE Yield(c, p)
    <3>1. state[p] = "RUNNING"
      BY <2>17, RunningIsLive, Zenon DEF Yield, On
    <3>2. \A q \in Procs : state'[q] = state[q] \/ (q \in Live /\ q \in Live')
      BY <2>17, <3>1, Zenon DEF Yield, On, Stop, TypeOK, Live
    <3> QED BY <2>17, <3>2, KeepsFamily, Zenon DEF Yield, table, FamilyInv
  <2>18. CASE ForkFail(c, p)
    <3>1. p \in Live
      BY <2>18, RunningIsLive, Zenon DEF ForkFail, On
    <3>2. /\ np[p] \in Procs /\ state[np[p]] = "EMBRYO" /\ np[p] # p
          /\ np[p] # initproc /\ parent[np[p]] = None
      BY <2>18, <3>1 DEF ForkFail, EmbryoHasOneForker, TypeOK, FamilyInv, Live
    <3>3. /\ \A q \in Procs :
               /\ np'[q] = (IF q = p THEN None ELSE np[q])
               /\ pc'[q] = (IF q = p THEN "user" ELSE pc[q])
               /\ state'[q] = (IF q = np[p] THEN "UNUSED" ELSE state[q])
          /\ parent' = parent
      BY <2>18, <3>2, Zenon DEF ForkFail, TypeOK, table
    <3>4. \A q \in Procs : q \in Live => q \in Live'
      BY <3>2, <3>3 DEF Live
    <3>5. ASSUME NEW q \in Procs \ {initproc} PROVE ParentOK(q)'
      <4>1. ParentOK(q) /\ parent[q] \in Procs \cup {None}
        BY Zenon DEF FamilyInv, TypeOK
      <4>2. CASE q = np[p]
        BY <3>1, <3>2, <3>3, <3>4, <4>2 DEF ParentOK
      <4>3. CASE q # np[p]
        <5>1. state'[q] = state[q] /\ parent'[q] = parent[q]
          BY <3>3, <4>3
        <5>2. CASE state[q] = "EMBRYO" /\ parent[q] # None
          <6>1. np[parent[q]] = q /\ parent[q] \in Procs /\ parent[q] # p
            BY <4>1, <4>3, <5>2 DEF ParentOK
          <6> QED BY <3>3, <5>1, <5>2, <6>1 DEF ParentOK
        <5>3. CASE ~ (state[q] = "EMBRYO" /\ parent[q] # None)
          BY <3>4, <4>1, <5>1, <5>3, Zenon DEF ParentOK, Live
        <5> QED BY <5>2, <5>3
      <4> QED BY <4>2, <4>3
    <3>6. \A q \in Procs : np[q] # None => q # np[p]
      BY <3>2, Zenon DEF EmbryoHasOneForker, Live
    <3>7. \A q \in Procs : np'[q] # None =>
            parent'[np'[q]] = IF pc'[q] = "copy" THEN None ELSE q
      BY <3>2, <3>3, <3>6 DEF FamilyInv
    <3> QED BY <3>2, <3>3, <3>4, <3>5, <3>7, InitIsSlot DEF FamilyInv
  <2>19. CASE Sched(c, p)
    BY <2>19, KeepsFamily, Zenon DEF Sched, table, FamilyInv
  <2>20. CASE Pick(c, p)
    <3>1. \A q \in Procs : state'[q] = state[q] \/ (q \in Live /\ q \in Live')
      BY <2>20, Zenon DEF Pick, TypeOK, Live
    <3> QED BY <2>20, <3>1, KeepsFamily, Zenon DEF Pick, table, FamilyInv
  <2>21. CASE Resume(c, p)
    <3>1. \A q \in Procs : np[q] # None => pc'[q] = pc[q]
      BY <2>21 DEF Resume, TypeOK, EmbryoHasOneForker
    <3>2. pc'[initproc] # "exit"
      BY <2>21 DEF Resume, TypeOK, FamilyInv
    <3>3. UNCHANGED <<state, parent, np>>
      BY <2>21, Zenon DEF Resume, table
    <3> QED BY <3>1, <3>2, <3>3, KeepsFamily
  <2> QED BY <1>1, <2>1, <2>2, <2>3, <2>4, <2>5, <2>6, <2>7, <2>8, <2>9,
             <2>10, <2>11, <2>12, <2>13, <2>14, <2>15, <2>16, <2>17,
             <2>18, <2>19, <2>20, <2>21 DEF Work
<1>2. ASSUME NEW c \in Cpus, SchedAcquire(c) PROVE FamilyInv'
  BY <1>2, KeepsFamily, Zenon DEF SchedAcquire, table, FamilyInv
<1>3. ASSUME NEW c \in Cpus, SchedRelease(c) PROVE FamilyInv'
  BY <1>3, KeepsFamily, Zenon DEF SchedRelease, table, FamilyInv
<1>4. ASSUME NEW ch \in Chans, Wakeup(ch) PROVE FamilyInv'
  <2>1. state' = wakeup1({ch}) /\ UNCHANGED <<parent, np, pc>>
    BY <1>4, Zenon DEF Wakeup, table
  <2>2. \A q \in Procs : state'[q] = state[q] \/ (q \in Live /\ q \in Live')
    <3> SUFFICES ASSUME NEW q \in Procs
                 PROVE  state'[q] = state[q] \/ (q \in Live /\ q \in Live')
      OBVIOUS
    <3>1. \/ state'[q] = state[q]
          \/ state[q] = "SLEEPING" /\ state'[q] = "RUNNABLE"
      BY <2>1, WakeupStates
    <3> QED BY <3>1 DEF Live
  <2>3. pc'[initproc] # "exit"
    BY <2>1 DEF FamilyInv
  <2> QED BY <2>1, <2>2, <2>3, KeepsFamily
<1>5. CASE UNCHANGED vars
  BY <1>5, KeepsFamily, Zenon DEF vars, table, FamilyInv
<1> QED BY <1>1, <1>2, <1>3, <1>4, <1>5 DEF Next

LEMMA SpecFamilyInv == Spec => []FamilyInv
<1>1. Init => FamilyInv
  BY InitIsSlot DEF Init, FamilyInv, ParentOK, Live, Procs, None
<1>2. StackInv /\ FamilyInv /\ [Next]_vars => FamilyInv'
  BY NextFamily DEF StackInv
<1> QED BY <1>1, <1>2, SpecStackInv, PTL DEF Spec

\* exit() passes its children on in time: the parent of a process or zombie
\* can always still call wait(), although fork() sets it without ptable.lock.
THEOREM ParentCanWaitCorrect == Spec => []ParentCanWait
BY SpecFamilyInv, FamilyParents, PTL

-----------------------------------------------------------------------------
(* No wakeup of wait() is lost.                                            *)

\* What WaitersWait says of one process, without sets.
Waiting(q) == state[q] = "SLEEPING" /\ pc[q] = "wait"
WaiterOK(q) == /\ chan[q] = q /\ ~ killed[q]
               /\ \E r \in Procs : parent[r] = q
               /\ \A r \in Procs : parent[r] = q => state[r] # "ZOMBIE"

LEMMA WaitersOneByOne ==
  WaitersWait <=> \A q \in Procs : Waiting(q) => WaiterOK(q)
BY Zenon DEF WaitersWait, Waiting, WaiterOK, Kids, Zombies

\* A waiter that slept already, to which a step brings no kill, no new zombie
\* and no loss of a child.
LEMMA KeepsWaiter ==
  ASSUME NEW q \in Procs, WaiterOK(q), chan'[q] = chan[q],
         killed'[q] => killed[q],
         \A r \in Procs : parent[r] = q => parent'[r] = q,
         \A r \in Procs : parent'[r] = q /\ state'[r] = "ZOMBIE" =>
            parent[r] = q /\ state[r] = "ZOMBIE"
  PROVE  WaiterOK(q)'
BY DEF WaiterOK

\* Steps that pass no child on and make no zombie.
LEMMA KeepsWaiters ==
  ASSUME WaitersWait, UNCHANGED parent,
         \A q \in Procs : Waiting(q)' =>
           Waiting(q) /\ chan'[q] = chan[q] /\ (killed'[q] => killed[q]),
         \A q \in Procs : state'[q] = "ZOMBIE" => state[q] = "ZOMBIE"
  PROVE  WaitersWait'
<1>1. ASSUME NEW q \in Procs, Waiting(q)' PROVE WaiterOK(q)'
  <2>1. WaiterOK(q)
    BY <1>1, WaitersOneByOne
  <2> QED BY <1>1, <2>1, KeepsWaiter
<1> QED BY <1>1 DEF WaitersWait, Waiting, WaiterOK, Kids, Zombies

LEMMA NextWaiters ==
  ASSUME TypeOK, OneCpuPerProcess, EmbryoHasOneForker,
         FamilyInv, WaitersWait, [Next]_vars
  PROVE  WaitersWait'
<1>1. ASSUME NEW c \in Cpus, NEW p \in Procs,
             \/ \E k \in Calls : Syscall(c, p, k)
             \/ \E n \in 0 .. MaxPid : Kill(c, p, n)
             \/ Work(c, p) \/ Fault(c, p) \/ Yield(c, p) \/ ForkFail(c, p)
             \/ Sched(c, p) \/ Pick(c, p) \/ Resume(c, p)
      PROVE  WaitersWait'
  <2>1. ASSUME NEW k \in Calls, Syscall(c, p, k) PROVE WaitersWait'
    <3>1. state[p] = "RUNNING"
      BY <2>1, RunningIsLive, Zenon DEF Syscall, On
    <3>2. \A q \in Procs : Waiting(q)' =>
            Waiting(q) /\ chan'[q] = chan[q] /\ (killed'[q] => killed[q])
      BY <2>1, <3>1, Zenon DEF Syscall, TypeOK, Waiting
    <3>3. \A q \in Procs : state'[q] = "ZOMBIE" => state[q] = "ZOMBIE"
      BY <2>1, <3>1, Zenon DEF Syscall, TypeOK
    <3> QED BY <2>1, <3>1, <3>2, <3>3, KeepsWaiters, Zenon DEF Syscall, table
  <2>2. ASSUME NEW n \in 0 .. MaxPid, Kill(c, p, n) PROVE WaitersWait'
    <3>1. PICK x \in Procs : KillAt(c, p, x)
      BY <2>2, KillSlot
    <3>2. \A q \in Procs : Waiting(q)' =>
            Waiting(q) /\ chan'[q] = chan[q] /\ (killed'[q] => killed[q])
      BY <3>1, Zenon DEF KillAt, TypeOK, Waiting
    <3>3. \A q \in Procs : state'[q] = "ZOMBIE" => state[q] = "ZOMBIE"
      BY <3>1, Zenon DEF KillAt, TypeOK
    <3> QED BY <3>1, <3>2, <3>3, KeepsWaiters, Zenon DEF KillAt, table
  <2>3. CASE KilledTrap(c, p)
    <3>1. state[p] = "RUNNING"
      BY <2>3, RunningIsLive, Zenon DEF KilledTrap, On
    <3>2. \A q \in Procs : Waiting(q)' =>
            Waiting(q) /\ chan'[q] = chan[q] /\ (killed'[q] => killed[q])
      BY <2>3, <3>1, Zenon DEF KilledTrap, TypeOK, Waiting
    <3>3. \A q \in Procs : state'[q] = "ZOMBIE" => state[q] = "ZOMBIE"
      BY <2>3, <3>1, Zenon DEF KilledTrap, TypeOK
    <3> QED BY <2>3, <3>1, <3>2, <3>3, KeepsWaiters, Zenon DEF KilledTrap, table
  <2>4. CASE Allocproc(c, p)
    <3>1. PICK x \in Procs : AllocprocAt(c, p, x)
      BY <2>4, AllocprocSlot
    <3>2. \A q \in Procs : Waiting(q)' =>
            Waiting(q) /\ chan'[q] = chan[q] /\ (killed'[q] => killed[q])
      BY <3>1, Zenon DEF AllocprocAt, TypeOK, Waiting
    <3>3. \A q \in Procs : state'[q] = "ZOMBIE" => state[q] = "ZOMBIE"
      BY <3>1, Zenon DEF AllocprocAt, TypeOK
    <3> QED BY <3>1, <3>2, <3>3, KeepsWaiters, Zenon DEF AllocprocAt, table
  <2>5. CASE TableFull(c, p)
    <3>1. state[p] = "RUNNING"
      BY <2>5, RunningIsLive, Zenon DEF TableFull, On
    <3>2. \A q \in Procs : Waiting(q)' =>
            Waiting(q) /\ chan'[q] = chan[q] /\ (killed'[q] => killed[q])
      BY <2>5, <3>1, Zenon DEF TableFull, TypeOK, Waiting
    <3>3. \A q \in Procs : state'[q] = "ZOMBIE" => state[q] = "ZOMBIE"
      BY <2>5, <3>1, Zenon DEF TableFull, TypeOK
    <3> QED BY <2>5, <3>1, <3>2, <3>3, KeepsWaiters, Zenon DEF TableFull, table
  <2>6. CASE ForkCopy(c, p)
    <3>1. state[p] = "RUNNING" /\ p \in Live
      BY <2>6, RunningIsLive, Zenon DEF ForkCopy, On
    <3>2. np[p] \in Procs /\ parent[np[p]] = None
      BY <2>6, <3>1 DEF ForkCopy, EmbryoHasOneForker, TypeOK, FamilyInv
    <3>3. /\ \A r \in Procs : parent'[r] = IF r = np[p] THEN p ELSE parent[r]
          /\ \A r \in Procs : pc'[r] = IF r = p THEN "ready" ELSE pc[r]
          /\ UNCHANGED <<state, chan, killed>>
      BY <2>6, Zenon DEF ForkCopy, TypeOK
    <3>4. ASSUME NEW q \in Procs, Waiting(q)' PROVE WaiterOK(q)'
      <4>1. Waiting(q) /\ q # p /\ q # None
        BY <3>1, <3>3, <3>4 DEF Waiting, Procs, None
      <4>2. WaiterOK(q)
        BY <4>1, WaitersOneByOne
      <4> QED BY <3>2, <3>3, <4>1, <4>2, KeepsWaiter
    <3> QED BY <3>4, ZenonT(60) DEF WaitersWait, Waiting, WaiterOK, Kids, Zombies
  <2>7. CASE ForkDone(c, p)
    <3>1. \A q \in Procs : Waiting(q)' =>
            Waiting(q) /\ chan'[q] = chan[q] /\ (killed'[q] => killed[q])
      BY <2>7, Zenon DEF ForkDone, TypeOK, Waiting
    <3>2. \A q \in Procs : state'[q] = "ZOMBIE" => state[q] = "ZOMBIE"
      BY <2>7, Zenon DEF ForkDone, TypeOK
    <3> QED BY <2>7, <3>1, <3>2, KeepsWaiters, Zenon DEF ForkDone, table
  <2>8. CASE Exit(c, p)
    <3>1. /\ state[p] = "RUNNING" /\ parent[p] # p
          /\ UNCHANGED <<chan, killed, pc>>
      BY <2>8, RunningIsLive, Zenon DEF Exit, On, FamilyInv
    <3>2. \A r \in Procs :
            /\ parent'[r] = (IF parent[r] = p THEN initproc ELSE parent[r])
            /\ state'[r] = (IF r = p THEN "ZOMBIE"
                            ELSE IF state[r] = "SLEEPING"
                                      /\ chan[r] \in WakesAtExit(p)
                                 THEN "RUNNABLE" ELSE state[r])
      BY <2>8, Zenon DEF Exit, Stop, PassChildren, wakeup1
    <3>3. ASSUME NEW q \in Procs, Waiting(q)' PROVE WaiterOK(q)'
      <4>1. Waiting(q) /\ q # p /\ chan[q] \notin WakesAtExit(p)
        BY <3>1, <3>2, <3>3 DEF Waiting
      <4>2. WaiterOK(q) /\ chan[q] = q
        BY <4>1, WaitersOneByOne DEF WaiterOK
      <4>3. q # parent[p] /\ (q = initproc => Zombies(p) = {})
        BY <4>1, <4>2 DEF WakesAtExit
      <4>4. \A r \in Procs : parent'[r] = q /\ state'[r] = "ZOMBIE" =>
              parent[r] = q /\ state[r] = "ZOMBIE"
        <5> SUFFICES ASSUME NEW r \in Procs, parent'[r] = q, state'[r] = "ZOMBIE"
                     PROVE  parent[r] = q /\ state[r] = "ZOMBIE"
          OBVIOUS
        <5>1. r # p
          BY <3>1, <3>2, <4>3
        <5>2. state[r] = "ZOMBIE"
          BY <3>2, <5>1
        <5>3. parent[r] # p
          BY <3>2, <4>3, <5>2, Zenon DEF Zombies, Kids
        <5> QED BY <3>2, <5>2, <5>3
      <4>5. \A r \in Procs : parent[r] = q => parent'[r] = q
        BY <3>2, <4>1
      <4> QED BY <3>1, <4>2, <4>4, <4>5, KeepsWaiter
    <3> QED BY <3>3, ZenonT(60) DEF WaitersWait, Waiting, WaiterOK, Kids, Zombies
  <2>9. CASE WaitAcquire(c, p)
    <3>1. state[p] = "RUNNING"
      BY <2>9, RunningIsLive, Zenon DEF WaitAcquire, On
    <3>2. \A q \in Procs : Waiting(q)' =>
            Waiting(q) /\ chan'[q] = chan[q] /\ (killed'[q] => killed[q])
      BY <2>9, <3>1, Zenon DEF WaitAcquire, TypeOK, Waiting
    <3>3. \A q \in Procs : state'[q] = "ZOMBIE" => state[q] = "ZOMBIE"
      BY <2>9, <3>1, Zenon DEF WaitAcquire, TypeOK
    <3> QED BY <2>9, <3>1, <3>2, <3>3, KeepsWaiters, Zenon DEF WaitAcquire, table
  <2>10. CASE WaitReap(c, p)
    <3>1. PICK x \in Procs : WaitReapAt(c, p, x)
      BY <2>10, WaitReapSlot
    <3>2. state[p] = "RUNNING"
      BY <3>1, RunningIsLive, Zenon DEF WaitReapAt, Scanning
    <3>3. /\ parent[x] = p /\ state[x] = "ZOMBIE"
          /\ \A r \in Procs :
               /\ parent'[r] = (IF r = x THEN None ELSE parent[r])
               /\ pc'[r] = (IF r = p THEN "user" ELSE pc[r])
               /\ state'[r] = (IF r = x THEN "UNUSED" ELSE state[r])
               /\ chan'[r] = (IF r = p THEN None ELSE chan[r])
               /\ killed'[r] => killed[r]
      BY <3>1, Zenon DEF WaitReapAt, TypeOK
    <3>4. ASSUME NEW q \in Procs, Waiting(q)' PROVE WaiterOK(q)'
      <4>1. Waiting(q) /\ q # p /\ q # None
        BY <3>2, <3>3, <3>4 DEF Waiting, Procs, None
      <4>2. WaiterOK(q)
        BY <4>1, WaitersOneByOne
      <4> QED BY <3>3, <4>1, <4>2, KeepsWaiter
    <3> QED BY <3>4, ZenonT(60) DEF WaitersWait, Waiting, WaiterOK, Kids, Zombies
  <2>11. CASE WaitGiveUp(c, p)
    <3>1. state[p] = "RUNNING"
      BY <2>11, RunningIsLive, Zenon DEF WaitGiveUp, Scanning
    <3>2. \A q \in Procs : Waiting(q)' =>
            Waiting(q) /\ chan'[q] = chan[q] /\ (killed'[q] => killed[q])
      BY <2>11, <3>1, Zenon DEF WaitGiveUp, TypeOK, Waiting
    <3>3. \A q \in Procs : state'[q] = "ZOMBIE" => state[q] = "ZOMBIE"
      BY <2>11, <3>1, Zenon DEF WaitGiveUp, TypeOK
    <3> QED BY <2>11, <3>1, <3>2, <3>3, KeepsWaiters, Zenon DEF WaitGiveUp, table
  <2>12. CASE WaitSleep(c, p)
    <3>1. /\ state[p] = "RUNNING" /\ pc[p] = "wait" /\ ~ killed[p]
          /\ Zombies(p) = {} /\ Kids(p) # {}
          /\ UNCHANGED <<parent, killed, pc>>
      BY <2>12, RunningIsLive, Zenon DEF WaitSleep, Scanning, table
    <3>2. \A q \in Procs :
            /\ chan'[q] = (IF q = p THEN p ELSE chan[q])
            /\ state'[q] = (IF q = p THEN "SLEEPING" ELSE state[q])
      BY <2>12, Zenon DEF WaitSleep, TypeOK
    <3>3. ASSUME NEW q \in Procs, Waiting(q)' PROVE WaiterOK(q)'
      <4>1. CASE q = p
        BY <3>1, <3>2, <4>1, Zenon DEF WaiterOK, Kids, Zombies
      <4>2. CASE q # p
        <5>1. WaiterOK(q)
          BY <3>1, <3>2, <3>3, <4>2, WaitersOneByOne DEF Waiting
        <5> QED BY <3>1, <3>2, <4>2, <5>1, KeepsWaiter
      <4> QED BY <4>1, <4>2
    <3> QED BY <3>3, ZenonT(60) DEF WaitersWait, Waiting, WaiterOK, Kids, Zombies
  <2>13. CASE SleepTest(c, p)
    <3>1. state[p] = "RUNNING"
      BY <2>13, RunningIsLive, Zenon DEF SleepTest, On
    <3>2. \A q \in Procs : Waiting(q)' =>
            Waiting(q) /\ chan'[q] = chan[q] /\ (killed'[q] => killed[q])
      BY <2>13, <3>1, Zenon DEF SleepTest, TypeOK, Waiting
    <3>3. \A q \in Procs : state'[q] = "ZOMBIE" => state[q] = "ZOMBIE"
      BY <2>13, <3>1, Zenon DEF SleepTest, TypeOK
    <3> QED BY <2>13, <3>1, <3>2, <3>3, KeepsWaiters, Zenon DEF SleepTest, table
  <2>14. ASSUME NEW ch \in Chans, Sleep(c, p, ch) PROVE WaitersWait'
    <3>1. \A q \in Procs : Waiting(q)' =>
            Waiting(q) /\ chan'[q] = chan[q] /\ (killed'[q] => killed[q])
      BY <2>14, Zenon DEF Sleep, On, Stop, TypeOK, Waiting
    <3>2. \A q \in Procs : state'[q] = "ZOMBIE" => state[q] = "ZOMBIE"
      BY <2>14, Zenon DEF Sleep, On, Stop, TypeOK
    <3> QED BY <2>14, <3>1, <3>2, KeepsWaiters, Zenon DEF Sleep, On, Stop, table
  <2>15. CASE KillNone(c, p)
    <3>1. state[p] = "RUNNING"
      BY <2>15, RunningIsLive, Zenon DEF KillNone, On
    <3>2. \A q \in Procs : Waiting(q)' =>
            Waiting(q) /\ chan'[q] = chan[q] /\ (killed'[q] => killed[q])
      BY <2>15, <3>1, Zenon DEF KillNone, TypeOK, Waiting
    <3>3. \A q \in Procs : state'[q] = "ZOMBIE" => state[q] = "ZOMBIE"
      BY <2>15, <3>1, Zenon DEF KillNone, TypeOK
    <3> QED BY <2>15, <3>1, <3>2, <3>3, KeepsWaiters, Zenon DEF KillNone, table
  <2>16. CASE Fault(c, p)
    <3>1. state[p] = "RUNNING"
      BY <2>16, RunningIsLive, Zenon DEF Fault, On
    <3>2. \A q \in Procs : Waiting(q)' =>
            Waiting(q) /\ chan'[q] = chan[q] /\ (killed'[q] => killed[q])
      BY <2>16, <3>1, Zenon DEF Fault, TypeOK, Waiting
    <3>3. \A q \in Procs : state'[q] = "ZOMBIE" => state[q] = "ZOMBIE"
      BY <2>16, <3>1, Zenon DEF Fault, TypeOK
    <3> QED BY <2>16, <3>1, <3>2, <3>3, KeepsWaiters, Zenon DEF Fault, table
  <2>17. CASE Yield(c, p)
    <3>1. \A q \in Procs : Waiting(q)' =>
            Waiting(q) /\ chan'[q] = chan[q] /\ (killed'[q] => killed[q])
      BY <2>17, Zenon DEF Yield, On, Stop, TypeOK, Waiting
    <3>2. \A q \in Procs : state'[q] = "ZOMBIE" => state[q] = "ZOMBIE"
      BY <2>17, Zenon DEF Yield, On, Stop, TypeOK
    <3> QED BY <2>17, <3>1, <3>2, KeepsWaiters, Zenon DEF Yield, On, Stop, table
  <2>18. CASE ForkFail(c, p)
    <3>1. \A q \in Procs : Waiting(q)' =>
            Waiting(q) /\ chan'[q] = chan[q] /\ (killed'[q] => killed[q])
      BY <2>18, Zenon DEF ForkFail, TypeOK, Waiting
    <3>2. \A q \in Procs : state'[q] = "ZOMBIE" => state[q] = "ZOMBIE"
      BY <2>18, Zenon DEF ForkFail, TypeOK
    <3> QED BY <2>18, <3>1, <3>2, KeepsWaiters, Zenon DEF ForkFail, table
  <2>19. CASE Sched(c, p)
    <3>1. \A q \in Procs : Waiting(q)' =>
            Waiting(q) /\ chan'[q] = chan[q] /\ (killed'[q] => killed[q])
      BY <2>19, Zenon DEF Sched, TypeOK, Waiting
    <3>2. \A q \in Procs : state'[q] = "ZOMBIE" => state[q] = "ZOMBIE"
      BY <2>19, Zenon DEF Sched, TypeOK
    <3> QED BY <2>19, <3>1, <3>2, KeepsWaiters, Zenon DEF Sched, table
  <2>20. CASE Pick(c, p)
    <3>1. \A q \in Procs : Waiting(q)' =>
            Waiting(q) /\ chan'[q] = chan[q] /\ (killed'[q] => killed[q])
      BY <2>20, Zenon DEF Pick, TypeOK, Waiting
    <3>2. \A q \in Procs : state'[q] = "ZOMBIE" => state[q] = "ZOMBIE"
      BY <2>20, Zenon DEF Pick, TypeOK
    <3> QED BY <2>20, <3>1, <3>2, KeepsWaiters, Zenon DEF Pick, table
  <2>21. CASE Resume(c, p)
    <3>1. state[p] = "RUNNING"
      BY <2>21, RunningIsLive DEF Resume
    <3>2. \A q \in Procs : Waiting(q)' =>
            Waiting(q) /\ chan'[q] = chan[q] /\ (killed'[q] => killed[q])
      BY <2>21, <3>1, Zenon DEF Resume, TypeOK, Waiting
    <3>3. \A q \in Procs : state'[q] = "ZOMBIE" => state[q] = "ZOMBIE"
      BY <2>21, <3>1, Zenon DEF Resume, TypeOK
    <3> QED BY <2>21, <3>1, <3>2, <3>3, KeepsWaiters, Zenon DEF Resume, table
  <2> QED BY <1>1, <2>1, <2>2, <2>3, <2>4, <2>5, <2>6, <2>7, <2>8, <2>9,
             <2>10, <2>11, <2>12, <2>13, <2>14, <2>15, <2>16, <2>17,
             <2>18, <2>19, <2>20, <2>21 DEF Work
<1>2. ASSUME NEW c \in Cpus, SchedAcquire(c) PROVE WaitersWait'
  <2>1. \A q \in Procs : Waiting(q)' =>
          Waiting(q) /\ chan'[q] = chan[q] /\ (killed'[q] => killed[q])
    BY <1>2, Zenon DEF SchedAcquire, TypeOK, Waiting
  <2>2. \A q \in Procs : state'[q] = "ZOMBIE" => state[q] = "ZOMBIE"
    BY <1>2, Zenon DEF SchedAcquire, TypeOK
  <2> QED BY <1>2, <2>1, <2>2, KeepsWaiters, Zenon DEF SchedAcquire, table
<1>3. ASSUME NEW c \in Cpus, SchedRelease(c) PROVE WaitersWait'
  <2>1. \A q \in Procs : Waiting(q)' =>
          Waiting(q) /\ chan'[q] = chan[q] /\ (killed'[q] => killed[q])
    BY <1>3, Zenon DEF SchedRelease, TypeOK, Waiting
  <2>2. \A q \in Procs : state'[q] = "ZOMBIE" => state[q] = "ZOMBIE"
    BY <1>3, Zenon DEF SchedRelease, TypeOK
  <2> QED BY <1>3, <2>1, <2>2, KeepsWaiters, Zenon DEF SchedRelease, table
<1>4. ASSUME NEW ch \in Chans, Wakeup(ch) PROVE WaitersWait'
  <2>1. state' = wakeup1({ch}) /\ UNCHANGED <<parent, pc, chan, killed>>
    BY <1>4, Zenon DEF Wakeup, table
  <2>2. \A q \in Procs :
          \/ state'[q] = state[q]
          \/ state[q] = "SLEEPING" /\ state'[q] = "RUNNABLE"
    BY <2>1, WakeupStates
  <2>3. \A q \in Procs : Waiting(q)' =>
          Waiting(q) /\ chan'[q] = chan[q] /\ (killed'[q] => killed[q])
    BY <2>1, <2>2 DEF Waiting
  <2> QED BY <2>1, <2>2, <2>3, KeepsWaiters
<1>5. CASE UNCHANGED vars
  <2>1. \A q \in Procs : Waiting(q)' =>
          Waiting(q) /\ chan'[q] = chan[q] /\ (killed'[q] => killed[q])
    BY <1>5, Zenon DEF vars, TypeOK, Waiting
  <2>2. \A q \in Procs : state'[q] = "ZOMBIE" => state[q] = "ZOMBIE"
    BY <1>5, Zenon DEF vars, TypeOK
  <2> QED BY <1>5, <2>1, <2>2, KeepsWaiters, Zenon DEF vars, table
<1> QED BY <1>1, <1>2, <1>3, <1>4, <1>5 DEF Next

\* No wakeup of wait() is lost: between wait()'s scan of the table and its
\* sleep no child can become a zombie unnoticed, whoever exits or kills.
THEOREM WaitersWaitCorrect == Spec => []WaitersWait
<1>1. Init => WaitersWait
  BY Zenon DEF Init, WaitersWait
<1>2. StackInv /\ FamilyInv /\ WaitersWait /\ [Next]_vars => WaitersWait'
  BY NextWaiters DEF StackInv
<1> QED BY <1>1, <1>2, SpecStackInv, SpecFamilyInv, PTL DEF Spec
=============================================================================
