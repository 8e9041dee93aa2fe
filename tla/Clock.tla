------------------------------- MODULE Clock --------------------------------
(***************************************************************************)
(* The clock: the timer part of trap(), sys_sleep() and sys_uptime().  The *)
(* counter ticks is unsigned and comes round; it changes, and is tested,   *)
(* under tickslock, which sleep() lets go of.  kill() does not take this   *)
(* lock: the test of killed and sleep() are two steps.  The number asked   *)
(* for is signed and is compared as unsigned.                              *)
(***************************************************************************)
EXTENDS Integers

CONSTANTS ClockProcs,  \* processes
          UINTMOD,     \* ticks is counted modulo UINTMOD (2^32 in the kernel)
          Asked        \* arguments of sys_sleep(), negative ones included

ASSUME ClockAssumption == UINTMOD \in Nat /\ UINTMOD > 1
                          /\ \A n \in Asked : -UINTMOD <= n /\ n < UINTMOD

VARIABLES tick,       \* ticks
          slpc,       \* where process t is, see SleepPoints
          ticks0, asked,
          slkilled,
          waited,     \* history: timer interrupts since the call
          late        \* history: those of them that came after it was killed

ClockVars == <<tick, slpc, ticks0, asked, slkilled, waited, late>>

\* out: not in sys_sleep(); block: has tested killed and calls sleep() with tickslock
\* held; asleep: in sleep(); woken: before the test; slept: returned 0; cut: returned -1.
SleepPoints == {"out", "block", "asleep", "woken", "slept", "cut"}

Unsigned(x) == x % UINTMOD

ClockInit == /\ tick \in 0 .. UINTMOD - 1
             /\ slpc = [t \in ClockProcs |-> "out"] /\ slkilled = [t \in ClockProcs |-> FALSE]
             /\ ticks0 = [t \in ClockProcs |-> 0] /\ asked = [t \in ClockProcs |-> 0]
             /\ waited = [t \in ClockProcs |-> 0] /\ late = [t \in ClockProcs |-> 0]

\* ticks - ticks0 < n
TimeLeft(t0, n) == Unsigned(tick - t0) < Unsigned(n)

\* Nobody is on the way into sleep() with tickslock.
TicksUnlocked == \A t \in ClockProcs : slpc[t] # "block"

\* Mutant: killed is not tested.
Loop_Goes(t, t0, n) == /\ TicksUnlocked
                       /\ slpc' = [slpc EXCEPT ![t] = IF TimeLeft(t0, n) THEN "block" ELSE "slept"]
\* The tests of the loop, up to the call of sleep() or the return.
Loop(t, t0, n) == /\ TicksUnlocked
                  /\ slpc' = [slpc EXCEPT ![t] = IF ~TimeLeft(t0, n) THEN "slept"
                                               ELSE IF slkilled[t] THEN "cut" ELSE "block"]

SysSleep(t, n) ==
  /\ slpc[t] = "out"
  /\ ticks0' = [ticks0 EXCEPT ![t] = tick] /\ asked' = [asked EXCEPT ![t] = n]
  /\ waited' = [waited EXCEPT ![t] = 0] /\ late' = [late EXCEPT ![t] = 0]
  /\ Loop(t, tick, n)
  /\ UNCHANGED <<tick, slkilled>>

SleepGoesOn(t) == /\ slpc[t] = "woken" /\ Loop(t, ticks0[t], asked[t])
                  /\ UNCHANGED <<tick, ticks0, asked, slkilled, waited, late>>

\* sleep(&ticks, &tickslock): killed is not tested again.
SleepBlocks(t) == /\ slpc[t] = "block" /\ slpc' = [slpc EXCEPT ![t] = "asleep"]
                  /\ UNCHANGED <<tick, ticks0, asked, slkilled, waited, late>>

\* Back to user code, where a killed process exits; its slot starts anew.
SleepReturns(t) == /\ slpc[t] \in {"slept", "cut"}
                   /\ slpc' = [slpc EXCEPT ![t] = "out"]
                   /\ slkilled' = [slkilled EXCEPT ![t] = FALSE]
                   /\ ticks0' = [ticks0 EXCEPT ![t] = 0] /\ asked' = [asked EXCEPT ![t] = 0]
                   /\ waited' = [waited EXCEPT ![t] = 0] /\ late' = [late EXCEPT ![t] = 0]
                   /\ UNCHANGED tick

\* wakeup(&ticks)
Awake == [t \in ClockProcs |-> IF slpc[t] = "asleep" THEN "woken" ELSE slpc[t]]

\* A timer interrupt on CPU 0.  That a process which is woken runs before the
\* counter has come round is taken for granted.
TimerTick ==
  /\ TicksUnlocked /\ \A t \in ClockProcs : waited[t] < UINTMOD - 1
  /\ tick' = Unsigned(tick + 1) /\ slpc' = Awake
  /\ waited' = [t \in ClockProcs |-> IF slpc[t] \in {"asleep", "woken"} THEN waited[t] + 1
                                     ELSE waited[t]]
  /\ late' = [t \in ClockProcs |-> IF slkilled[t] THEN late[t] + waited'[t] - waited[t]
                                   ELSE late[t]]
  /\ UNCHANGED <<ticks0, asked, slkilled>>

ClockKill(t) == /\ ~slkilled[t]
                /\ slkilled' = [slkilled EXCEPT ![t] = TRUE]
                /\ slpc' = [slpc EXCEPT ![t] = IF @ = "asleep" THEN "woken" ELSE @]
                /\ UNCHANGED <<tick, ticks0, asked, waited, late>>

ClockNext == \/ \E t \in ClockProcs : \/ \E n \in Asked : SysSleep(t, n)
                                      \/ SleepGoesOn(t) \/ SleepBlocks(t) \/ SleepReturns(t)
                                      \/ ClockKill(t)
             \/ TimerTick

ClockSpec == ClockInit /\ [][ClockNext]_ClockVars

-----------------------------------------------------------------------------
(* Properties.                                                             *)

\* sys_sleep(n) returns, and returns 0 only after n timer interrupts, also when the
\* counter comes round meanwhile.  A kill ends it by the next interrupt, even one that
\* comes between the test of killed and sleep(): no killed process is still asleep, or
\* asleep again, after an interrupt.
SleepEnds ==
  \A t \in ClockProcs :
    /\ slpc[t] \in {"block", "asleep", "woken"} ~>
         (slpc[t] = "cut" \/ (slpc[t] = "slept" /\ waited[t] >= Unsigned(asked[t])))
    /\ [](slpc[t] \in {"block", "asleep"} => late[t] = 0)
=============================================================================
