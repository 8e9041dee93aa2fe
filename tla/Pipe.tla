-------------------------------- MODULE Pipe --------------------------------
(***************************************************************************)
(* One pipe (pipe.c) used by several readers and writers, with their end   *)
(* closed by fileclose() when they are done or have been killed.           *)
(* pipewrite() and piperead() hold p->lock except in sleep(); what they do *)
(* between acquiring it and the next sleep() or return is one action, and  *)
(* the step from the tests of the loop into sleep() another: kill() takes  *)
(* only ptable.lock.  Each process has the one end it uses open once.      *)
(***************************************************************************)
EXTENDS Integers, Sequences

CONSTANTS Readers, Writers,
          PIPESIZE,
          UINT,      \* the counters are modulo UINT (2^32)
          Vals,      \* bytes
          MaxCount,  \* bound on the count of a read or write call
          Kills      \* processes that kill() may hit

Users == Readers \cup Writers

ASSUME PipeAssumption ==
  /\ Readers \cap Writers = {} /\ Kills \subseteq Users
  /\ {"free", "nobody"} \cap Users = {}
  /\ PIPESIZE \in Nat \ {0} /\ UINT \in Nat /\ MaxCount \in Nat \ {0}
  /\ UINT % PIPESIZE = 0 /\ UINT > PIPESIZE

VARIABLES data, nread, nwrite, readopen, writeopen,  \* struct pipe
          freed,    \* the pipe has been given back by kfree()
          lock,     \* holder of p->lock, or "free"
          pc,       \* where process t is, see Points
          left,     \* bytes process t still has to copy in its call
          killed,
          got       \* bytes the last piperead() copied out

ring == <<data, nread, nwrite>>
ends == <<readopen, writeopen, freed>>
vars == <<data, nread, nwrite, readopen, writeopen, freed, lock, pc, left,
          killed, got>>

\* out: in user code; call: in piperead or pipewrite, without p->lock; block:
\* on its way into sleep(), with p->lock; asleep: in sleep(); close: in
\* pipeclose(); gone: its end is closed.
Points == {"out", "call", "block", "asleep", "close", "gone"}

Init == /\ data \in [0 .. PIPESIZE - 1 -> Vals]
        /\ nread = 0 /\ nwrite = 0
        /\ readopen = TRUE /\ writeopen = TRUE /\ freed = FALSE
        /\ lock = "free" /\ pc = [t \in Users |-> "out"]
        /\ left = [t \in Users |-> 0]
        /\ killed = [t \in Users |-> FALSE] /\ got = << >>

Goto(t, point) == pc' = [pc EXCEPT ![t] = point]

\* wakeup() on the channel of the processes of S; t itself goes to point.
Woken(S, t, point) ==
  [u \in Users |-> IF u = t THEN point
                   ELSE IF u \in S /\ pc[u] = "asleep" THEN "call" ELSE pc[u]]

\* Unsigned subtraction.
Avail == (nwrite - nread) % UINT

Space == PIPESIZE - Avail

Lesser(x, y) == IF x < y THEN x ELSE y

\* A process calls read() or write() on its end.
Call(t, n) == /\ pc[t] = "out" /\ ~killed[t]
              /\ Goto(t, "call")
              /\ left' = [left EXCEPT ![t] = n]
              /\ UNCHANGED <<ring, ends, lock, killed, got>>

-----------------------------------------------------------------------------
(* pipewrite().                                                            *)

\* Mutant: nwrite is advanced before the byte is stored.
CopyIn_Late(t, m, s) ==
  /\ data' = [x \in 0 .. PIPESIZE - 1 |->
                IF \E j \in 1 .. m : (nwrite + j) % PIPESIZE = x
                THEN s[CHOOSE j \in 1 .. m : (nwrite + j) % PIPESIZE = x]
                ELSE data[x]]
  /\ nwrite' = (nwrite + m) % UINT
  /\ left' = [left EXCEPT ![t] = @ - m]
  /\ UNCHANGED nread

\* Copy m bytes s from the caller.
CopyIn(t, m, s) ==
  /\ data' = [x \in 0 .. PIPESIZE - 1 |->
                IF \E j \in 1 .. m : (nwrite + j - 1) % PIPESIZE = x
                THEN s[CHOOSE j \in 1 .. m : (nwrite + j - 1) % PIPESIZE = x]
                ELSE data[x]]
  /\ nwrite' = (nwrite + m) % UINT
  /\ left' = [left EXCEPT ![t] = @ - m]
  /\ UNCHANGED nread

\* Mutant: a full pipe sends the writer to sleep without waking the readers.
WriteRest_Quiet(t) ==
  \/ /\ ~readopen \/ killed[t]
     /\ Goto(t, "out") /\ UNCHANGED lock
  \/ /\ readopen /\ ~killed[t]
     /\ Goto(t, "block") /\ lock' = t

\* Mutant: the writer waits for room even if nobody will read.
WriteRest_Spins(t) ==
  \/ killed[t] /\ Goto(t, "out") /\ UNCHANGED lock
  \/ ~readopen /\ ~killed[t] /\ UNCHANGED <<pc, lock>>
  \/ readopen /\ ~killed[t] /\ pc' = Woken(Readers, t, "block") /\ lock' = t

\* The pipe is full and bytes are left: return -1, or wake the readers and go
\* to sleep.
WriteRest(t) ==
  \/ /\ ~readopen \/ killed[t]
     /\ Goto(t, "out") /\ UNCHANGED lock
  \/ /\ readopen /\ ~killed[t]
     /\ pc' = Woken(Readers, t, "block") /\ lock' = t

\* From acquire(&p->lock) on: copy what fits.
Write(t, s) ==
  LET m == Lesser(left[t], Space)
  IN /\ t \in Writers /\ pc[t] = "call" /\ lock = "free"
     /\ s \in [1 .. m -> Vals]
     /\ CopyIn(t, m, s)
     /\ \/ m = left[t] /\ pc' = Woken(Readers, t, "out") /\ UNCHANGED lock
        \/ m < left[t] /\ WriteRest(t)
     /\ UNCHANGED <<ends, killed, got>>

-----------------------------------------------------------------------------
(* piperead().                                                             *)

Empty == nread = nwrite

\* From acquire(&p->lock) on: wait for bytes.
ReadWait(t) == /\ t \in Readers /\ pc[t] = "call" /\ lock = "free"
               /\ Empty /\ writeopen
               /\ \/ killed[t] /\ Goto(t, "out") /\ UNCHANGED lock
                  \/ ~killed[t] /\ Goto(t, "block") /\ lock' = t
               /\ UNCHANGED <<ring, ends, left, killed, got>>

\* Copy out what there is, at most what was asked for.
Read(t) ==
  LET m == Lesser(left[t], Avail)
  IN /\ t \in Readers /\ pc[t] = "call" /\ lock = "free"
     /\ ~Empty \/ ~writeopen
     /\ got' = [j \in 1 .. m |-> data[(nread + j - 1) % PIPESIZE]]
     /\ nread' = (nread + m) % UINT
     /\ left' = [left EXCEPT ![t] = 0]
     /\ pc' = Woken(Writers, t, "out")
     /\ UNCHANGED <<data, nwrite, ends, lock, killed>>

\* sleep(): acquire ptable.lock, release p->lock, become SLEEPING.
Sleep(t) == /\ pc[t] = "block"
            /\ Goto(t, "asleep") /\ lock' = "free"
            /\ UNCHANGED <<ring, ends, left, killed, got>>

-----------------------------------------------------------------------------
(* fileclose(), pipeclose() and kill().                                    *)

Side(t) == IF t \in Readers THEN Readers ELSE Writers

\* fileclose(): the last process of its side to close its end calls
\* pipeclose().
Close(t) == /\ pc[t] = "out"
            /\ Goto(t, IF \A u \in Side(t) \ {t} : pc[u] = "gone" THEN "close"
                                                                 ELSE "gone")
            /\ UNCHANGED <<ring, ends, lock, left, killed, got>>

\* Mutant: whoever closes its end frees the pipe.
Unused_Early(t) == TRUE

\* Both ends are closed when t has closed its own.
Unused(t) == IF t \in Readers THEN ~writeopen ELSE ~readopen

\* pipeclose().
PipeClose(t) ==
  /\ pc[t] = "close" /\ lock = "free"
  /\ readopen' = (readopen /\ t \notin Readers)
  /\ writeopen' = (writeopen /\ t \notin Writers)
  /\ pc' = Woken(IF t \in Readers THEN Writers ELSE Readers, t, "gone")
  /\ freed' = Unused(t)
  /\ UNCHANGED <<ring, lock, left, killed, got>>

\* kill(): mark t and wake it if it sleeps.
Kill(t) == /\ t \in Kills /\ ~killed[t] /\ pc[t] # "gone"
           /\ killed' = [killed EXCEPT ![t] = TRUE]
           /\ pc' = Woken({t}, "nobody", "call")
           /\ UNCHANGED <<ring, ends, lock, left, got>>

-----------------------------------------------------------------------------
\* The steps of t in the kernel.
Work(t) == \/ \E m \in 0 .. PIPESIZE : \E s \in [1 .. m -> Vals] : Write(t, s)
           \/ ReadWait(t) \/ Read(t) \/ Sleep(t) \/ PipeClose(t)

\* All ends are closed: the pipe is gone.
Over == (\A t \in Users : pc[t] = "gone") /\ UNCHANGED vars

Next == \/ \E t \in Users : Work(t) \/ Close(t) \/ Kill(t)
        \/ \E t \in Users, n \in 1 .. MaxCount : Call(t, n)
        \/ Over

Spec == Init /\ [][Next]_vars

\* A process in the kernel goes on, and a killed process closes its end.
FairSpec == Spec /\ \A t \in Users : WF_vars(Work(t)) /\ WF_vars(killed[t] /\ Close(t))

-----------------------------------------------------------------------------
(* Properties.                                                             *)

\* Every variable stays in its range.
TypeOK == /\ data \in [0 .. PIPESIZE - 1 -> Vals]
          /\ nread \in 0 .. UINT - 1 /\ nwrite \in 0 .. UINT - 1
          /\ readopen \in BOOLEAN /\ writeopen \in BOOLEAN /\ freed \in BOOLEAN
          /\ lock \in Users \cup {"free"} /\ pc \in [Users -> Points]
          /\ left \in [Users -> 0 .. MaxCount] /\ killed \in [Users -> BOOLEAN]
          /\ Avail <= PIPESIZE

\* Bytes come out of the pipe in the order they went in, none is lost or
\* overwritten, and the counters may wrap around.
Contents == [j \in 1 .. Avail |-> data[(nread + j - 1) % PIPESIZE]]
Abs == INSTANCE ByteFifo WITH bytes <- Contents
ImplementsByteFifo == Abs!Spec

\* No wakeup is lost: who sleeps has a reason to.  The exception is a writer
\* killed when it had filled the pipe: it returns without waking the readers.
SleepersWait ==
  /\ \A t \in Readers : pc[t] = "asleep" =>
       writeopen /\ (Empty \/ \E u \in Writers : killed[u])
  /\ \A t \in Writers : pc[t] = "asleep" => readopen /\ Avail = PIPESIZE

\* The memory of the pipe is not used once it is free.
FreedIsUnused == freed => \A t \in Users : pc[t] = "gone"

\* A reader or a writer is not left waiting when the other side is closed.
OtherEndCloses ==
  /\ \A t \in Readers : (~writeopen /\ pc[t] # "gone") ~> (pc[t] \in {"out", "gone"})
  /\ \A t \in Writers : (~readopen /\ pc[t] # "gone") ~> (pc[t] \in {"out", "gone"})

\* kill(): "Wake process from sleep if necessary": a killed process leaves
\* piperead() and pipewrite().
KilledReturns == \A t \in Users : killed[t] ~> (pc[t] = "gone")
=============================================================================
