-------------------------------- MODULE Sched --------------------------------
(***************************************************************************)
(* scheduler() of proc.c under its four policies, with the multi-level     *)
(* queues: circular arrays of NPROC process pointers that allocproc() and  *)
(* setqueue() append to and that only the scheduler removes from, lazily,  *)
(* when the entry at the front turns out to be dead or to have moved.      *)
(* The life of a process is reduced to its state changes (Proc has the     *)
(* rest): the queues, the local variables of scheduler() and its points of *)
(* return from swtch() are all here.                                       *)
(***************************************************************************)
EXTENDS Integers, Sequences, SequencesExt

CONSTANTS NPROC,       \* slots of ptable.proc, and of a queue's array
          Cpus,
          Policies,    \* policies set by changepolicy()
          Queues,      \* queues processes are moved to by setqueue()
          Priorities,  \* priorities given by setpriority()
          Calls,       \* the other calls processes make
          MaxSize      \* bound on the entries of a round-robin queue

Procs    == 0 .. NPROC - 1
initproc == 0

INSTANCE FindPriority
Q == INSTANCE EntryQueue WITH entries <- << >>

POLICY_DEFAULT     == 0
POLICY_ROUND_ROBIN == 1
POLICY_PRIORITY    == 2
POLICY_MLQ         == 3

AllQueues == 0 .. 3
RRQueues  == {QUEUE_DEFAULT, QUEUE_PRIORITY_RR}

\* What the constants may be.
SchedAssumption ==
  /\ NPROC \in Nat \ {0} /\ MaxSize \in Nat \ {0}
  /\ Cpus \cap {None} = {}
  /\ Policies \subseteq 0 .. 3 /\ Queues \subseteq AllQueues
  /\ Priorities \subseteq 1 .. 6 /\ Calls \subseteq {"fork", "sleep", "exit"}

VARIABLES state, priority, queueNumber,  \* fields of struct proc
          named,      \* slots whose pid is not 0
          rrq,        \* entries of the two round-robin queues
          pused,      \* whether size # 0 for the two priority queues: their
                      \* arrays are never read, their sizes only grow
          policy,
          lastQueue,  \* per CPU: queue of the process that ran last
          lock,       \* CPU holding ptable.lock, or None
          proc,       \* cpus[c].proc
          at,         \* where CPU c is in scheduler(), see CpuPoints
          ret,        \* where scheduler() continues after swtch()
          i,          \* its loop index: 1..4 over queues, or a table index
          cand        \* its local p in the loop over the queues

fields == <<priority, queueNumber, named>>
queues == <<rrq, pused>>
locals == <<i, cand>>
vars   == <<state, priority, queueNumber, named, rrq, pused, policy, lastQueue,
            lock, proc, at, ret, i, cand>>

\* top: no lock held; else: not POLICY_PRIORITY when it was tested; prio,
\* iter, table: in the branch of a policy; pop: in the loop that takes
\* entries from a queue; check, next: before and after the run of p at the
\* end of an iteration; end: before release; proc, sched: executing a
\* process, and that process inside sched().
CpuPoints == {"top", "else", "prio", "iter", "pop", "check", "next", "table",
              "end", "proc", "sched"}

PQueues   == {QUEUE_PRIORITY, QUEUE_PRIORITY_REVERSE}
Empty(k)  == IF k \in RRQueues THEN rrq[k] = << >> ELSE ~pused[k]

\* Append the processes of P, in table order, to queue k.
Push(k, P) ==
  IF k \in RRQueues
  THEN rrq' = [rrq EXCEPT ![k] = FoldLeft(Q!Enqueue, @, SetToSortSeq(P, <))]
       /\ UNCHANGED pused
  ELSE pused' = [pused EXCEPT ![k] = TRUE] /\ UNCHANGED rrq

\* userinit(): the queues are set up and init is in the default queue.
Init == /\ state = [p \in Procs |-> IF p = initproc THEN "RUNNABLE"
                                                    ELSE "UNUSED"]
        /\ priority = [p \in Procs |-> IF p = initproc THEN 3 ELSE 0]
        /\ queueNumber = [p \in Procs |-> QUEUE_DEFAULT]
        /\ named = {initproc}
        /\ rrq = [k \in RRQueues |-> IF k = QUEUE_DEFAULT THEN <<initproc>>
                                                         ELSE << >>]
        /\ pused = [k \in PQueues |-> FALSE]
        /\ policy = POLICY_MLQ
        /\ lastQueue = [c \in Cpus |-> 0]
        /\ lock = None
        /\ proc = [c \in Cpus |-> None]
        /\ at   = [c \in Cpus |-> "top"]
        /\ ret  = [c \in Cpus |-> "top"]
        /\ i    = [c \in Cpus |-> 0]
        /\ cand = [c \in Cpus |-> None]

-----------------------------------------------------------------------------
(* scheduler().                                                            *)

Goto(c, point) == at' = [at EXCEPT ![c] = point]

\* acquire(&ptable.lock) and the first test of policy.
Acquire(c) ==
  /\ at[c] = "top" /\ lock = None
  /\ lock' = c
  /\ \/ policy = POLICY_PRIORITY /\ Goto(c, "prio")
     \/ policy # POLICY_PRIORITY /\ Goto(c, "else")
  /\ UNCHANGED <<state, fields, queues, policy, lastQueue, proc, ret, locals>>

\* The second test: changepolicy() may have come in between.
ElseBranch(c) ==
  /\ at[c] = "else"
  /\ \/ policy = POLICY_MLQ /\ Goto(c, "iter") /\ i' = [i EXCEPT ![c] = 1]
     \/ policy # POLICY_MLQ /\ Goto(c, "table") /\ UNCHANGED i
  /\ UNCHANGED <<state, fields, queues, policy, lastQueue, lock, proc, ret, cand>>

\* release(&ptable.lock); the locals are set afresh in the next round.
Release(c) ==
  /\ lock' = None
  /\ Goto(c, "top")
  /\ i' = [i EXCEPT ![c] = 0]
  /\ cand' = [cand EXCEPT ![c] = None]

\* swtch() to p, which releases ptable.lock in forkret(), yield() or sleep();
\* scheduler() will continue at point r.
Dispatch(c, p, r) ==
  /\ proc'  = [proc EXCEPT ![c] = p]
  /\ state' = [state EXCEPT ![p] = "RUNNING"]
  /\ ret'   = [ret EXCEPT ![c] = r]
  /\ lock'  = None
  /\ Goto(c, "proc")

\* findPriority(mode); scheduled_times, which only breaks ties, is left out.
Find(mode) == Selectable(mode, state, queueNumber, priority)

\* POLICY_PRIORITY.
RunPriority(c) ==
  /\ at[c] = "prio"
  /\ \/ (\E p \in Find(3) : Dispatch(c, p, "end")) /\ UNCHANGED locals
     \/ Find(3) = {} /\ Release(c) /\ UNCHANGED <<state, proc, ret>>
  /\ UNCHANGED <<fields, queues, policy, lastQueue>>

newQueue(c) == (lastQueue[c] + i[c]) % 4

\* The next of the four iterations, or the end of the round.
NextIter(c) == \/ /\ i[c] < 4 /\ Goto(c, "iter")
                  /\ i' = [i EXCEPT ![c] = @ + 1]
                  /\ UNCHANGED <<lock, cand>>
               \/ i[c] = 4 /\ Release(c)

\* The queue of this iteration is empty.
SkipQueue(c) ==
  /\ at[c] = "iter" /\ Empty(newQueue(c))
  /\ NextIter(c)
  /\ UNCHANGED <<state, fields, queues, policy, lastQueue, proc, ret>>

\* Mutant: whoever cannot run now is dropped.
Stays_Runnable(p) == state[p] \in {"RUNNABLE", "RUNNING"} /\ queueNumber[p] \in RRQueues

\* An entry is kept unless its process is dead or in a priority queue.
Stays(p) == state[p] \notin {"UNUSED", "ZOMBIE"} /\ queueNumber[p] \in RRQueues

\* A round-robin queue: take p from the front; drop it and go on, or append
\* it again.
PopQueue(c) ==
  LET k == newQueue(c)
      p == Head(rrq[k])
  IN /\ at[c] \in {"iter", "pop"} /\ k \in RRQueues /\ ~Empty(k)
     /\ cand' = [cand EXCEPT ![c] = p]
     /\ \/ ~Stays(p) /\ rrq' = [rrq EXCEPT ![k] = Q!Drop(@)] /\ Goto(c, "pop")
        \/ Stays(p) /\ rrq' = [rrq EXCEPT ![k] = Q!Rotate(@)] /\ Goto(c, "check")
     /\ UNCHANGED <<state, fields, pused, policy, lastQueue, lock, proc, ret, i>>

\* The loop emptied the queue; p keeps the last entry dropped.
QueueEmptied(c) ==
  /\ at[c] = "pop" /\ Empty(newQueue(c))
  /\ Goto(c, "check")
  /\ UNCHANGED <<state, fields, queues, policy, lastQueue, lock, proc, ret,
                 locals>>

\* A priority queue: run what findPriority() selects, if anything.
PriorityQueue(c) ==
  LET k == newQueue(c)
  IN /\ at[c] = "iter" /\ k \in PQueues /\ ~Empty(k)
     /\ \/ \E p \in Find(k) : Dispatch(c, p, "check")
        \/ Find(k) = {} /\ Goto(c, "check") /\ UNCHANGED <<state, lock, proc, ret>>
     /\ UNCHANGED <<fields, queues, policy, lastQueue, locals>>

\* Mutant: the state of p is not tested.
Runs_Anyhow(p) == p # None

Runs(p) == p # None /\ state[p] = "RUNNABLE"

\* The end of every iteration: run p if it is RUNNABLE.  In an iteration over
\* a priority queue p is what an earlier iteration left in it.
CheckCand(c) ==
  /\ at[c] = "check"
  /\ \/ Runs(cand[c]) /\ Dispatch(c, cand[c], "next") /\ UNCHANGED locals
     \/ ~Runs(cand[c]) /\ NextIter(c) /\ UNCHANGED <<state, proc, ret>>
  /\ UNCHANGED <<fields, queues, policy, lastQueue>>

\* Back from the run of p.
AfterCand(c) ==
  /\ at[c] = "next"
  /\ NextIter(c)
  /\ UNCHANGED <<state, fields, queues, policy, lastQueue, proc, ret>>

\* The other policies: the next RUNNABLE slot of the pass over the table.
RunTable(c) ==
  /\ at[c] = "table"
  /\ \/ \E p \in i[c] .. NPROC - 1 :
          /\ state[p] = "RUNNABLE"
          /\ \A q \in i[c] .. p - 1 : state[q] # "RUNNABLE"
          /\ Dispatch(c, p, "table")
          /\ i' = [i EXCEPT ![c] = p + 1]
          /\ UNCHANGED cand
     \/ /\ \A p \in i[c] .. NPROC - 1 : state[p] # "RUNNABLE"
        /\ Release(c)
        /\ UNCHANGED <<state, proc, ret>>
  /\ UNCHANGED <<fields, queues, policy, lastQueue>>

\* Back from the run of POLICY_PRIORITY's process.
EndRound(c) ==
  /\ at[c] = "end"
  /\ Release(c)
  /\ UNCHANGED <<state, fields, queues, policy, lastQueue, proc, ret>>

Scheduler(c) == \/ Acquire(c) \/ ElseBranch(c) \/ RunPriority(c) \/ SkipQueue(c)
                \/ PopQueue(c) \/ QueueEmptied(c) \/ PriorityQueue(c) \/ CheckCand(c)
                \/ AfterCand(c) \/ RunTable(c) \/ EndRound(c)

-----------------------------------------------------------------------------
(* The processes, as far as the scheduler sees them.                       *)

\* Process p executes on CPU c.
On(c, p) == at[c] = "proc" /\ proc[c] = p

\* Acquire ptable.lock, change state and call sched(), which records the
\* queue of p.
Stop(c, p, newState) ==
  /\ On(c, p) /\ lock = None
  /\ lock' = c
  /\ state' = newState
  /\ lastQueue' = [lastQueue EXCEPT ![c] = queueNumber[p]]
  /\ Goto(c, "sched")
  /\ UNCHANGED <<fields, queues, policy, proc, ret, locals>>

\* A timer interrupt.  Under the multi-level policy a process outside the
\* round-robin queue yields only when ticks % QUANTUM = 0.
YieldTick(c, p) ==
  /\ policy # POLICY_MLQ \/ queueNumber[p] = QUEUE_PRIORITY_RR
  /\ Stop(c, p, [state EXCEPT ![p] = "RUNNABLE"])
YieldQuantum(c, p) ==
  /\ policy = POLICY_MLQ /\ queueNumber[p] # QUEUE_PRIORITY_RR
  /\ Stop(c, p, [state EXCEPT ![p] = "RUNNABLE"])

Sleep(c, p) == /\ "sleep" \in Calls
               /\ Stop(c, p, [state EXCEPT ![p] = "SLEEPING"])

Sleepers == {p \in Procs : state[p] = "SLEEPING"}
Woken(W) == [p \in Procs |-> IF p \in W THEN "RUNNABLE" ELSE state[p]]

\* exit(), which wakes the parent or init if they wait.
Exit(c, p, W) == /\ "exit" \in Calls /\ p # initproc
                 /\ Stop(c, p, [Woken(W) EXCEPT ![p] = "ZOMBIE"])

\* swtch() back to scheduler(), then c->proc = 0.
Sched(c, p) ==
  /\ at[c] = "sched" /\ proc[c] = p
  /\ proc' = [proc EXCEPT ![c] = None]
  /\ Goto(c, ret[c])
  /\ ret' = [ret EXCEPT ![c] = "top"]
  /\ UNCHANGED <<state, fields, queues, policy, lastQueue, lock,
                 locals>>

SchedOnly == <<queues, policy, lastQueue, lock, proc, at, ret, locals>>

\* wakeup() or kill(); W is what slept on the channel.
Wakeup(W) == /\ lock = None
             /\ state' = Woken(W)
             /\ UNCHANGED <<fields, SchedOnly>>

\* allocproc() up to its release: the first UNUSED slot, put in the default
\* queue.
Allocproc(q) ==
  /\ "fork" \in Calls /\ lock = None /\ state[q] = "UNUSED"
  /\ \A r \in 0 .. q - 1 : state[r] # "UNUSED"
  /\ Len(rrq[QUEUE_DEFAULT]) < MaxSize
  /\ state' = [state EXCEPT ![q] = "EMBRYO"]
  /\ priority' = [priority EXCEPT ![q] = 3]
  /\ queueNumber' = [queueNumber EXCEPT ![q] = QUEUE_DEFAULT]
  /\ named' = named \cup {q}
  /\ Push(QUEUE_DEFAULT, {q})
  /\ UNCHANGED <<policy, lastQueue, lock, proc, at, ret, locals>>

\* fork() fails, without ptable.lock; its queue entry stays.
ForkFail(q) == /\ state[q] = "EMBRYO"
               /\ state' = [state EXCEPT ![q] = "UNUSED"]
               /\ UNCHANGED <<fields, SchedOnly>>

ForkDone(q) == /\ lock = None /\ state[q] = "EMBRYO"
               /\ state' = [state EXCEPT ![q] = "RUNNABLE"]
               /\ UNCHANGED <<fields, SchedOnly>>

\* wait() frees a zombie; its queue entries stay.
Reap(q) == /\ lock = None /\ state[q] = "ZOMBIE"
           /\ state' = [state EXCEPT ![q] = "UNUSED"]
           /\ named' = named \ {q}
           /\ UNCHANGED <<priority, queueNumber, SchedOnly>>

\* setPriority(), of the first slot with the pid: 0 is the pid of the slots
\* that were never used or that wait() freed.  The test of queueNumber at the
\* end is always true, so the size of the priority queue grows whatever the
\* queue of q.
setPriority(q, n) ==
  /\ lock = None
  /\ q \in named \/ \A r \in 0 .. q - 1 : r \in named
  /\ priority' = [priority EXCEPT ![q] = n]
  /\ pused' = [pused EXCEPT ![QUEUE_PRIORITY] = TRUE]
  /\ UNCHANGED <<state, queueNumber, named, rrq, policy, lastQueue, lock, proc,
                 at, ret, locals>>

\* setqueue(), of every slot with the pid of q: append to the new queue, leave
\* the entry in the old one.
SamePid(q) == IF q \in named THEN {q} ELSE Procs \ named
setqueue(q, k) ==
  /\ lock = None
  /\ k \in RRQueues => Len(rrq[k]) + Cardinality(SamePid(q)) <= MaxSize
  /\ queueNumber' = [p \in Procs |-> IF p \in SamePid(q) THEN k
                                                         ELSE queueNumber[p]]
  /\ Push(k, SamePid(q))
  /\ UNCHANGED <<state, priority, named, policy, lastQueue, lock, proc, at, ret,
                 locals>>

\* changepolicy(), without a lock.
changepolicy(n) ==
  /\ policy' = n
  /\ UNCHANGED <<state, fields, queues, lastQueue, lock, proc, at,
                 ret, locals>>

\* What a process may ask for while it executes.
Request ==
  \/ \E q \in Procs : Allocproc(q) \/ ForkFail(q) \/ ForkDone(q) \/ Reap(q)
  \/ \E q \in Procs, n \in Priorities : setPriority(q, n)
  \/ \E q \in Procs, k \in Queues : setqueue(q, k)
  \/ \E n \in Policies : changepolicy(n)

Next ==
  \/ \E c \in Cpus : Scheduler(c)
  \/ \E c \in Cpus, p \in Procs :
       \/ YieldTick(c, p) \/ YieldQuantum(c, p) \/ Sleep(c, p) \/ Sched(c, p)
       \/ \E W \in SUBSET Sleepers : Exit(c, p, W)
  \/ \E W \in SUBSET Sleepers \ {{}} : Wakeup(W)
  \/ (\E c \in Cpus : at[c] = "proc") /\ Request

Spec == Init /\ [][Next]_vars

\* scheduler() never stops looping and a process that goes on executing meets
\* a timer interrupt; one that arrives while interrupts are off is pending.
FairSpec ==
  /\ Spec
  /\ \A c \in Cpus : WF_vars(Scheduler(c))
  /\ \A c \in Cpus, p \in Procs :
       /\ WF_vars(Sched(c, p))
       /\ WF_vars(YieldTick(c, p)) /\ WF_vars(YieldQuantum(c, p))

-----------------------------------------------------------------------------
(* Properties.                                                             *)

\* Every variable stays in its range.
TypeOK ==
  /\ state \in [Procs -> {"UNUSED", "EMBRYO", "SLEEPING", "RUNNABLE",
                          "RUNNING", "ZOMBIE"}]
  /\ priority \in [Procs -> 0 .. 6] /\ named \subseteq Procs
  /\ queueNumber \in [Procs -> AllQueues]
  /\ rrq \in [RRQueues -> Seq(Procs)] /\ pused \in [PQueues -> BOOLEAN]
  /\ policy \in 0 .. 3 /\ lastQueue \in [Cpus -> AllQueues]
  /\ lock \in Cpus \cup {None} /\ proc \in [Cpus -> Procs \cup {None}]
  /\ at \in [Cpus -> CpuPoints]
  /\ ret \in [Cpus -> {"top", "end", "check", "next", "table"}]
  /\ i \in [Cpus -> 0 .. IF NPROC > 4 THEN NPROC ELSE 4] /\ cand \in [Cpus -> Procs \cup {None}]

\* The processes that have an entry in queue k.
Entries(k) == {rrq[k][j] : j \in 1 .. Len(rrq[k])}

\* No process falls out of the multi-level queues while no queue holds more
\* entries than its array: a process that is not dead is an entry of a
\* round-robin queue, or its priority queue is not taken for empty.
NobodyForgotten ==
  \A p \in Procs : state[p] \notin {"UNUSED", "ZOMBIE"} =>
    \/ queueNumber[p] \in RRQueues /\ \E k \in RRQueues : p \in Entries(k)
    \/ queueNumber[p] \notin RRQueues
         /\ pused[queueNumber[p]]

\* yield() gives up the CPU for one scheduling round, not for ever: every
\* RUNNABLE process is run by scheduler() again.
EveryoneRuns ==
  \A p \in Procs : (state[p] = "RUNNABLE") ~> (state[p] = "RUNNING")

\* The scheduler keeps the promise of the process table under every policy.
Abs == INSTANCE ProcStates WITH stack <- proc
ImplementsProcStates == Abs!Spec
=============================================================================
