------------------------------ MODULE Spinlock ------------------------------
(***************************************************************************)
(* Spin locks and interrupts (spinlock.c, with sched() and the loop of     *)
(* scheduler() in proc.c and the timer part of trap()): the interrupt flag *)
(* of a CPU, the nesting ncli, the flag intena that popcli() restores, and *)
(* kernel threads that are interrupted at any step and go on on another    *)
(* CPU.  A CPU works on the stack of a thread or of its scheduler; a frame *)
(* of a stack is the rest of the steps of a kernel path.  Which threads    *)
(* are runnable is left open here: the scheduler may take any of them.     *)
(***************************************************************************)
EXTENDS Integers, Sequences, FiniteSets

CONSTANTS SpinCpus,  \* CPUs, numbers from 0 on
          Threads    \* kernel threads

ASSUME SpinlockAssumption == 0 \in SpinCpus /\ SpinCpus \subseteq Nat

SpinLocks == {"tickslock", "ptable.lock"}
NoCpu == -1
NoThread == "scheduler"

VARIABLES owner,     \* the CPU that has a lock, as locked and cpu tell it
          fl,        \* FL_IF of a CPU
          ncli, intena,
          curthread, \* the thread on a CPU, or NoThread
          stacks,    \* the stacks of threads that are in the kernel
          loops,     \* the stack of the scheduler of a CPU
          saved,     \* the local intena of sched(), of a thread that is off
          stop       \* the panic that ended it all, or "no"

SpinVars == <<owner, fl, ncli, intena, curthread, stacks, loops, saved, stop>>

-----------------------------------------------------------------------------
(* Kernel paths as steps.                                                  *)

Acquire(l) == << <<"pushcli", l>>, <<"xchg", l>> >>
Release(l) == << <<"unlock", l>>, <<"popcli", l>> >>
Sched == << <<"sched", "ptable.lock">> >>

\* acquire(&ptable.lock), sched(), release(&ptable.lock).
Yield == Acquire("ptable.lock") \o Sched \o Release("ptable.lock")

\* sys_uptime() takes a lock, sys_sleep() sleeps with one: sleep() takes
\* ptable.lock before it lets go of the other, and takes that again.
Uptime == Acquire("tickslock") \o Release("tickslock")
SleepTicks == Acquire("tickslock") \o Acquire("ptable.lock") \o Release("tickslock") \o Sched
                \o Release("ptable.lock") \o Acquire("tickslock") \o Release("tickslock")

\* The timer interrupt: CPU 0 counts and wakes up; a thread that was interrupted may
\* have to yield, as the policy, its queue and the ticks decide, the scheduler never.
Timer(c, yields) ==
  (IF c = 0 THEN Acquire("tickslock") \o Acquire("ptable.lock") \o Release("ptable.lock")
                   \o Release("tickslock") ELSE << >>)
    \o (IF curthread[c] # NoThread /\ yields THEN Yield ELSE << >>)

\* forkret() lets go of the lock that scheduler() took.
Forkret == Release("ptable.lock")

\* for (;;) { sti(); acquire(&ptable.lock); ... release(&ptable.lock); }
SchedulerLoop == << <<"sti", "">> >> \o Acquire("ptable.lock") \o << <<"pick", "">> >>
                   \o Release("ptable.lock")

Frame(k, steps) == [kind |-> k, steps |-> steps]

-----------------------------------------------------------------------------
SpinInit == /\ owner = [l \in SpinLocks |-> NoCpu]
            /\ fl = [c \in SpinCpus |-> FALSE] /\ intena = [c \in SpinCpus |-> FALSE]
            /\ ncli = [c \in SpinCpus |-> 0]
            /\ curthread = [c \in SpinCpus |-> NoThread]
            /\ stacks = [t \in Threads |-> << Frame("new", Forkret) >>]
            /\ loops = [c \in SpinCpus |-> << Frame("loop", SchedulerLoop) >>]
            /\ saved = [t \in Threads |-> FALSE] /\ stop = "no"

Stack(c) == IF curthread[c] = NoThread THEN loops[c] ELSE stacks[curthread[c]]

\* The stack CPU c works on becomes s.
SetStack(c, s) ==
  IF curthread[c] = NoThread THEN loops' = [loops EXCEPT ![c] = s] /\ UNCHANGED stacks
  ELSE stacks' = [stacks EXCEPT ![curthread[c]] = s] /\ UNCHANGED loops

Top(c) == Stack(c)[Len(Stack(c))]
Below(c) == SubSeq(Stack(c), 1, Len(Stack(c)) - 1)
AtOp(c, op) == /\ stop = "no" /\ Stack(c) # << >> /\ Top(c).steps # << >>
               /\ Head(Top(c).steps)[1] = op
Lock(c) == Head(Top(c).steps)[2]
Advance(c) == SetStack(c, Append(Below(c), [Top(c) EXCEPT !.steps = Tail(@)]))

SpinPanic(c, why) == /\ stop' = why
                     /\ UNCHANGED <<owner, fl, ncli, intena, curthread, stacks, loops, saved>>

Holding(c, l) == owner[l] = c

\* if (mycpu()->ncli == 0) mycpu()->intena = eflags & FL_IF.
Notes(c) == ncli[c] = 0

\* acquire(): pushcli() and the test; holding() pushes and pops in between.
PushCli(c) ==
  /\ AtOp(c, "pushcli")
  /\ IF Holding(c, Lock(c)) THEN SpinPanic(c, "acquire")
     ELSE /\ fl' = [fl EXCEPT ![c] = FALSE]
          /\ intena' = IF Notes(c) THEN [intena EXCEPT ![c] = fl[c]] ELSE intena
          /\ ncli' = [ncli EXCEPT ![c] = @ + 1]
          /\ Advance(c)
          /\ UNCHANGED <<owner, curthread, saved, stop>>

\* acquire(): the exchange that finds the lock free.
Xchg(c) == /\ AtOp(c, "xchg") /\ owner[Lock(c)] = NoCpu
           /\ owner' = [owner EXCEPT ![Lock(c)] = c]
           /\ Advance(c)
           /\ UNCHANGED <<fl, ncli, intena, curthread, saved, stop>>

\* release(), up to its popcli().
Unlock(c) ==
  /\ AtOp(c, "unlock")
  /\ IF ~Holding(c, Lock(c)) THEN SpinPanic(c, "release")
     ELSE /\ owner' = [owner EXCEPT ![Lock(c)] = NoCpu]
          /\ Advance(c)
          /\ UNCHANGED <<fl, ncli, intena, curthread, saved, stop>>

Popped(c) == ncli[c] - 1

Sti(c) == Popped(c) = 0 /\ intena[c]

PopCli(c) ==
  /\ AtOp(c, "popcli")
  /\ IF fl[c] THEN SpinPanic(c, "popcli - interruptible")
     ELSE IF ncli[c] < 1 THEN SpinPanic(c, "popcli")
     ELSE /\ ncli' = [ncli EXCEPT ![c] = Popped(c)]
          /\ fl' = [fl EXCEPT ![c] = Sti(c)]
          /\ Advance(c)
          /\ UNCHANGED <<owner, intena, curthread, saved, stop>>

-----------------------------------------------------------------------------
(* scheduler() and sched().                                                *)

LoopSti(c) == /\ AtOp(c, "sti") /\ fl' = [fl EXCEPT ![c] = TRUE]
              /\ Advance(c)
              /\ UNCHANGED <<owner, ncli, intena, curthread, saved, stop>>

\* Mutant: sched() does not put intena back.
Intena_Stays(c, t) == intena[c]
Intena(c, t) == IF stacks[t] = << Frame("new", Forkret) >> THEN intena[c] ELSE saved[t]

\* The scheduler switches to a thread: sched() returns there and sets intena, or
\* a new thread starts in forkret(), which does not.
Pick(c, t) ==
  /\ AtOp(c, "pick") /\ \A d \in SpinCpus : curthread[d] # t
  /\ curthread' = [curthread EXCEPT ![c] = t]
  /\ intena' = [intena EXCEPT ![c] = Intena(c, t)]
  /\ UNCHANGED <<owner, fl, ncli, stacks, loops, saved, stop>>

PickNone(c) == /\ AtOp(c, "pick") /\ Advance(c)
               /\ UNCHANGED <<owner, fl, ncli, intena, curthread, saved, stop>>

LoopAgain(c) == /\ stop = "no" /\ Stack(c) # << >> /\ Top(c) = Frame("loop", << >>)
                /\ loops' = [loops EXCEPT ![c] = << Frame("loop", SchedulerLoop) >>]
                /\ UNCHANGED <<owner, fl, ncli, intena, curthread, stacks, saved, stop>>

\* sched(): the tests, the local intena, the switch to the scheduler.
SwitchOut(c) ==
  /\ AtOp(c, "sched")
  /\ IF ~Holding(c, "ptable.lock") THEN SpinPanic(c, "sched ptable.lock")
     ELSE IF ncli[c] # 1 THEN SpinPanic(c, "sched locks")
     ELSE IF fl[c] THEN SpinPanic(c, "sched interruptible")
     ELSE /\ saved' = [saved EXCEPT ![curthread[c]] = intena[c]]
          /\ curthread' = [curthread EXCEPT ![c] = NoThread]
          /\ Advance(c)
          /\ UNCHANGED <<owner, fl, ncli, intena, stop>>

-----------------------------------------------------------------------------
(* Into the kernel and out of it.                                          *)

\* A system call comes through a trap gate, which leaves interrupts on.
Syscalled(c) == /\ stop = "no" /\ curthread[c] # NoThread /\ Stack(c) = << >>
                /\ \E path \in {Uptime, SleepTicks} : SetStack(c, << Frame("sys", path) >>)
                /\ UNCHANGED <<owner, fl, ncli, intena, curthread, saved, stop>>

\* The timer interrupt comes through an interrupt gate, which turns them off.
Interrupt(c) == /\ stop = "no" /\ fl[c]
                /\ \E yields \in BOOLEAN :
                     SetStack(c, Append(Stack(c), Frame("irq", Timer(c, yields))))
                /\ fl' = [fl EXCEPT ![c] = FALSE]
                /\ UNCHANGED <<owner, ncli, intena, curthread, saved, stop>>

\* iret restores the flag of what was interrupted, where interrupts were on; user
\* code has them on.
Iret(c) == /\ stop = "no" /\ Stack(c) # << >> /\ Top(c).steps = << >> /\ Top(c).kind # "loop"
           /\ SetStack(c, Below(c)) /\ fl' = [fl EXCEPT ![c] = TRUE]
           /\ UNCHANGED <<owner, ncli, intena, curthread, saved, stop>>

SpinStep(c) == \/ PushCli(c) \/ Xchg(c) \/ Unlock(c) \/ PopCli(c) \/ LoopSti(c) \/ LoopAgain(c)
               \/ PickNone(c) \/ (\E t \in Threads : Pick(c, t)) \/ SwitchOut(c)
               \/ Syscalled(c) \/ Interrupt(c) \/ Iret(c)

SpinNext == \E c \in SpinCpus : SpinStep(c)
SpinSpec == SpinInit /\ [][SpinNext]_SpinVars

-----------------------------------------------------------------------------
(* Properties.                                                             *)

\* "intena is a property of this kernel thread, not this CPU": outside of locks a
\* system call is interruptible and a handler is not, on whatever CPU it goes on; and
\* no interrupt comes while a CPU has a lock that a handler might want.
InterruptsRestored ==
  /\ \A l \in SpinLocks : owner[l] # NoCpu => ~fl[owner[l]]
  /\ \A c \in SpinCpus : ncli[c] = 0 /\ curthread[c] # NoThread =>
       /\ Stack(c) = << >> => fl[c]
       /\ Stack(c) # << >> /\ Top(c).kind = "sys" => fl[c]
       /\ Stack(c) # << >> /\ Top(c).kind = "irq" => ~fl[c]
=============================================================================
