------------------------------- MODULE Times --------------------------------
(***************************************************************************)
(* The time accounting of proc.c: last_time and the three totals of a      *)
(* process, at the lines of scheduler(), yield(), sleep(), wakeup1(),      *)
(* kill(), allocproc() and exit() that touch them and the table infos[]    *)
(* that getinfo() reads.  They read ticks under ptable.lock, and trap()    *)
(* counts it up under tickslock: in a critical section that reads it twice *)
(* it may change between the two.  spent, a history variable, counts the   *)
(* ticks a process really passed in each state.                            *)
(***************************************************************************)
EXTENDS Integers, FiniteSets

CONSTANTS Tasks,     \* the slots of the process table
          MaxTicks,  \* bound on the clock
          MaxPids,   \* bound on the processes made
          NINFO      \* the length of infos[], NPROC

ASSUME TimesAssumption == MaxTicks \in Nat /\ MaxPids \in Nat /\ NINFO \in Nat

VARIABLES ticks, tstate, acct, infos, nextpid,
          filling,     \* slots between the two halves of allocproc()
          spent        \* history: time really spent

TimesVars == <<ticks, tstate, acct, infos, nextpid, filling, spent>>

NoTimes == [pid |-> 0, created |-> 0, last |-> 0, running |-> 0, ready |-> 0, sleep |-> 0]
NoSpent == [EMBRYO |-> 0, RUNNING |-> 0, RUNNABLE |-> 0, SLEEPING |-> 0]
NoInfo == [running |-> 0, ready |-> 0, sleep |-> 0, created |-> 0, ended |-> 0]

TimesInit == /\ ticks = 0 /\ nextpid = 1 /\ filling = {}
             /\ tstate = [p \in Tasks |-> "UNUSED"]
             /\ acct = [p \in Tasks |-> NoTimes] /\ spent = [p \in Tasks |-> NoSpent]
             /\ infos = [i \in 0 .. NINFO - 1 |-> NoInfo]

\* trap() counts a timer interrupt, which finds the processes in the states st.
Tick(st) == /\ ticks < MaxTicks /\ ticks' = ticks + 1
            /\ spent' = [p \in Tasks |-> [s \in DOMAIN NoSpent |->
                           spent[p][s] + (IF st[p] = s THEN 1 ELSE 0)]]

\* Between two reads of ticks, the second of which gets ticks'.
MayTick(st) == Tick(st) \/ UNCHANGED <<ticks, spent>>

\* p goes from one state to another.
Goes(p, from, to) == /\ tstate[p] = from /\ tstate' = [tstate EXCEPT ![p] = to]
                     /\ UNCHANGED <<infos, nextpid, filling>>

\* The accounts of p with the time since last_time added to one of them; Stamped
\* also sets last_time, with the next read of ticks.
Charged(p, total) == [acct[p] EXCEPT ![total] = @ + ticks - acct[p].last]
Stamped(times) == [times EXCEPT !.last = ticks']

\* allocproc() under ptable.lock, and after it.
TimesAlloc(p) ==
  /\ tstate[p] = "UNUSED" /\ nextpid <= MaxPids
  /\ tstate' = [tstate EXCEPT ![p] = "EMBRYO"]
  /\ acct' = [acct EXCEPT ![p].pid = nextpid]
  /\ nextpid' = nextpid + 1 /\ filling' = filling \cup {p}
  /\ spent' = [spent EXCEPT ![p] = NoSpent]
  /\ UNCHANGED <<ticks, infos>>

TimesCreate(p) ==
  /\ p \in filling
  /\ acct' = [acct EXCEPT ![p] = [NoTimes EXCEPT !.pid = acct[p].pid, !.created = ticks,
                                                 !.last = ticks]]
  /\ filling' = filling \ {p}
  /\ UNCHANGED <<ticks, tstate, infos, nextpid, spent>>

\* No page for the kernel stack, or in fork() none for a copy of the memory.
TimesNoPage(p) == /\ tstate[p] = "EMBRYO" /\ tstate' = [tstate EXCEPT ![p] = "UNUSED"]
                  /\ filling' = filling \ {p}
                  /\ UNCHANGED <<ticks, acct, infos, nextpid, spent>>

\* The end of fork() makes the process runnable.
TimesFork(p) == /\ p \notin filling /\ Goes(p, "EMBRYO", "RUNNABLE")
                /\ UNCHANGED <<ticks, spent, acct>>

\* Mutant: last_time stays, and the time in the queue is counted again as run time.
TimesDispatch_NoStamp(p) == /\ Goes(p, "RUNNABLE", "RUNNING")
                            /\ MayTick(tstate) \/ MayTick(tstate')
                            /\ acct' = [acct EXCEPT ![p] = Charged(p, "ready")]

\* The four places of scheduler() that switch to a process; yield(), when it is
\* switched to again, sets last_time once more.
TimesDispatch(p) == /\ Goes(p, "RUNNABLE", "RUNNING")
                    /\ MayTick(tstate) \/ MayTick(tstate')
                    /\ acct' = [acct EXCEPT ![p] = Stamped(Charged(p, "ready"))]

TimesYield(p) == /\ Goes(p, "RUNNING", "RUNNABLE") /\ UNCHANGED <<ticks, spent>>
                 /\ acct' = [acct EXCEPT ![p] = Charged(p, "running")]

TimesSleep(p) == /\ Goes(p, "RUNNING", "SLEEPING") /\ MayTick(tstate)
                 /\ acct' = [acct EXCEPT ![p] = Stamped(Charged(p, "running"))]

TimesWakeup(p) == /\ Goes(p, "SLEEPING", "RUNNABLE")
                  /\ MayTick(tstate) \/ MayTick(tstate')
                  /\ acct' = [acct EXCEPT ![p] = Stamped(Charged(p, "sleep"))]

KillTimes(p) == IF tstate[p] = "SLEEPING" THEN Charged(p, "sleep") ELSE acct[p]

TimesKill(p) ==
  /\ tstate[p] # "UNUSED"
  /\ tstate' = [tstate EXCEPT ![p] = IF @ = "SLEEPING" THEN "RUNNABLE" ELSE @]
  /\ MayTick(tstate')
  /\ acct' = [acct EXCEPT ![p] = Stamped(KillTimes(p))]
  /\ UNCHANGED <<infos, nextpid, filling>>

InfoIndex(p) == acct[p].pid

\* exit() fills infos[pid]; what a pid past the end of infos[] overwrites is not
\* part of the model.  Nobody reads what is counted afterwards, until wait() frees
\* the slot.
TimesExit(p) ==
  /\ tstate[p] = "RUNNING"
  /\ tstate' = [tstate EXCEPT ![p] = "UNUSED"]
  /\ infos' = [i \in DOMAIN infos |->
                 IF i # InfoIndex(p) THEN infos[i]
                 ELSE [running |-> acct[p].running, ready |-> acct[p].ready,
                       sleep |-> acct[p].sleep, created |-> acct[p].created, ended |-> ticks]]
  /\ UNCHANGED <<ticks, acct, nextpid, filling, spent>>

TimesTick == Tick(tstate) /\ UNCHANGED <<tstate, acct, infos, nextpid, filling>>

TimesOver == ticks = MaxTicks /\ UNCHANGED TimesVars

TimesNext == \/ \E p \in Tasks : \/ TimesAlloc(p) \/ TimesCreate(p) \/ TimesNoPage(p)
                                 \/ TimesFork(p) \/ TimesDispatch(p) \/ TimesYield(p)
                                 \/ TimesSleep(p) \/ TimesWakeup(p) \/ TimesKill(p)
                                 \/ TimesExit(p)
             \/ TimesTick \/ TimesOver

TimesSpec == TimesInit /\ [][TimesNext]_TimesVars

-----------------------------------------------------------------------------
(* Properties.                                                             *)

Accounted == {p \in Tasks \ filling : tstate[p] # "UNUSED"}

\* running_time is "total time in which the process is running" (proc.h) as far as it
\* never counts more than that: not the time in a queue, not a sleep, whenever kill()
\* and the timer come.  (It counts less: exit() leaves out the last run, kill() the one
\* it falls into.)
RunningIsRun == \A p \in Accounted : acct[p].running <= spent[p].RUNNING

\* ready_time is "total time in which the process is ready" (proc.h), at any rate no
\* more than that and the time fork() took to make the process.
ReadyIsReady == \A p \in Accounted : acct[p].ready <= spent[p].EMBRYO + spent[p].RUNNABLE
=============================================================================
