----------------------------- MODULE PipeProofs -----------------------------
(***************************************************************************)
(* A pipe used by any readers and writers, of any size: the counters never *)
(* show more than the pipe holds, nobody sleeps without a reason, the      *)
(* memory of the pipe is not used once it is free, and bytes come out in   *)
(* the order they went in.                                                 *)
(***************************************************************************)
EXTENDS Pipe, RingArithmetic, TLAPS

Stopped == {"block", "asleep"}

\* p->lock belongs to the process that is on its way into sleep().
LockInv == \A t \in Users : (pc[t] = "block") <=> (lock = t)

\* SleepersWait, already on the way into sleep(): the tests made with p->lock still
\* hold when sleep() has released it.
StopInv ==
  /\ \A t \in Readers : pc[t] \in Stopped =>
       writeopen /\ (Empty \/ \E u \in Writers : killed[u])
  /\ \A t \in Writers : pc[t] \in Stopped => readopen /\ Avail = PIPESIZE

\* An end is closed after everyone of its side; the pipe is freed after both ends.
EndInv ==
  /\ ~readopen => \A t \in Readers : pc[t] = "gone"
  /\ ~writeopen => \A t \in Writers : pc[t] = "gone"
  /\ \A t \in Users : pc[t] = "close" => \A u \in Side(t) \ {t} : pc[u] = "gone"
  /\ freed => ~readopen /\ ~writeopen

PipeInv == TypeOK /\ LockInv /\ StopInv /\ EndInv

-----------------------------------------------------------------------------
(* The counters.                                                           *)

\* A difference modulo UINT that stays below UINT is an ordinary one.
LEMMA SmallDifference ==
  ASSUME NEW a \in Int, NEW d \in Int, (a % UINT) + d \in 0 .. UINT - 1
  PROVE  (a + d) % UINT = (a % UINT) + d
<1>1. UINT \in Nat \ {0}
  BY PipeAssumption
<1>2. ((a % UINT) + d) % UINT = (a + d) % UINT
  BY <1>1, StepAround, Zenon
<1>3. \A x \in 0 .. UINT - 1 : x % UINT = x
  BY <1>1
<1> QED BY <1>2, <1>3

\* pipewrite() advances nwrite by m bytes for which there is room.
LEMMA AvailAfterWrite ==
  ASSUME TypeOK, NEW m \in 0 .. Space, nwrite' = (nwrite + m) % UINT, nread' = nread
  PROVE  Avail' = Avail + m /\ nwrite' \in 0 .. UINT - 1
<1>1. /\ UINT \in Nat \ {0} /\ PIPESIZE \in Nat /\ PIPESIZE < UINT
      /\ nread \in Int /\ nwrite \in Int /\ m \in Int
  BY PipeAssumption DEF TypeOK, Space, Avail
<1>2. Avail \in 0 .. PIPESIZE
  BY <1>1 DEF TypeOK, Avail
<1>3. Avail' = ((nwrite + m) - nread) % UINT
  <2>1. PICK a \in Int, b \in Int : a = nwrite + m /\ b = -nread
    BY <1>1
  <2>2. ((a % UINT) + b) % UINT = (a + b) % UINT
    BY <1>1, StepAround, Zenon
  <2>3. a % UINT \in Int
    BY <1>1
  <2>4. (a % UINT) + b = nwrite' - nread' /\ a + b = (nwrite + m) - nread
    BY <1>1, <2>1, <2>3
  <2> QED BY <2>2, <2>4 DEF Avail
<1>4. ((nwrite - nread) + m) % UINT = Avail + m
  <2>1. Avail + m \in 0 .. UINT - 1 /\ nwrite - nread \in Int
    BY <1>1, <1>2 DEF Space
  <2> QED BY <1>1, <2>1, SmallDifference, Zenon DEF Avail
<1>5. nwrite' \in 0 .. UINT - 1
  BY <1>1
<1> QED BY <1>1, <1>3, <1>4, <1>5

\* piperead() advances nread by m bytes that are there.
LEMMA AvailAfterRead ==
  ASSUME TypeOK, NEW m \in 0 .. Avail, nread' = (nread + m) % UINT, nwrite' = nwrite
  PROVE  Avail' = Avail - m /\ nread' \in 0 .. UINT - 1
<1>1. /\ UINT \in Nat \ {0} /\ PIPESIZE \in Nat /\ PIPESIZE < UINT
      /\ nread \in Int /\ nwrite \in Int /\ m \in Int
  BY PipeAssumption DEF TypeOK, Avail
<1>2. Avail \in 0 .. PIPESIZE
  BY <1>1 DEF TypeOK, Avail
<1>3. PICK k \in Int, r \in 0 .. UINT - 1 : nread + m = UINT * k + r /\ (nread + m) % UINT = r
  <2>1. nread + m \in Int
    BY <1>1
  <2> QED BY <1>1, <2>1, Quotient, Zenon
<1>4. Avail' = ((nwrite - nread) + (0 - m)) % UINT
  <2>1. PICK a \in Int, b \in Int : a = nwrite - r /\ b = (nwrite - nread) + (0 - m)
    BY <1>1
  <2>2. a = b + UINT * k
    BY <1>1, <1>3, <2>1
  <2>3. a % UINT = b % UINT
    BY <1>1, <2>2, SameRemainder, Zenon
  <2> QED BY <1>3, <2>1, <2>3 DEF Avail
<1>5. ((nwrite - nread) + (0 - m)) % UINT = Avail + (0 - m)
  <2>1. Avail + (0 - m) \in 0 .. UINT - 1 /\ nwrite - nread \in Int /\ 0 - m \in Int
    BY <1>1, <1>2
  <2> QED BY <1>1, <2>1, SmallDifference, Zenon DEF Avail
<1>6. nread' \in 0 .. UINT - 1
  BY <1>1
<1> QED BY <1>1, <1>2, <1>4, <1>5, <1>6

-----------------------------------------------------------------------------
(* The steps.                                                              *)

LEMMA InitInv == Init => PipeInv
<1> SUFFICES ASSUME Init PROVE PipeInv
  OBVIOUS
<1>1. Avail = 0
  BY PipeAssumption DEF Init, Avail
<1>2. TypeOK
  BY <1>1, PipeAssumption DEF Init, TypeOK, Points
<1>3. LockInv /\ StopInv /\ EndInv
  BY PipeAssumption, Zenon DEF Init, LockInv, StopInv, EndInv, Stopped, Users
<1> QED BY <1>2, <1>3 DEF PipeInv

\* pipewrite(): the room that is left, and what it copies.
LEMMA WriteInv ==
  ASSUME PipeInv, NEW t \in Users, NEW s, Write(t, s) PROVE PipeInv'
<1> DEFINE m == Lesser(left[t], Space)
<1>1. /\ t \in Writers /\ pc[t] = "call" /\ lock = "free" /\ s \in [1 .. m -> Vals]
      /\ CopyIn(t, m, s) /\ UNCHANGED <<ends, killed>>
      /\ \/ m = left[t] /\ pc' = Woken(Readers, t, "out") /\ UNCHANGED lock
         \/ m < left[t] /\ WriteRest(t)
  BY DEF Write
<1>2. Avail \in 0 .. PIPESIZE /\ left[t] \in 0 .. MaxCount /\ PIPESIZE \in Nat /\ MaxCount \in Nat
  BY PipeAssumption DEF PipeInv, TypeOK, Avail
<1>3. m \in 0 .. Space /\ m \in 0 .. left[t] /\ (m < left[t] => m = Space)
  BY <1>2 DEF Lesser, Space
<1> HIDE DEF m
<1>4. Avail' = Avail + m /\ nwrite' \in 0 .. UINT - 1 /\ nread' = nread
  <2>1. nwrite' = (nwrite + m) % UINT /\ nread' = nread
    BY <1>1 DEF CopyIn
  <2> QED BY <1>3, <2>1, AvailAfterWrite DEF PipeInv
<1>5. data' \in [0 .. PIPESIZE - 1 -> Vals]
  BY <1>1, Zenon DEF CopyIn, PipeInv, TypeOK
<1>6. left' \in [Users -> 0 .. MaxCount]
  <2>1. left[t] - m \in 0 .. MaxCount
    BY <1>2, <1>3
  <2> QED BY <1>1, <2>1, Zenon DEF CopyIn, PipeInv, TypeOK
<1>7. /\ pc' \in [Users -> Points] /\ lock' \in Users \cup {"free"}
      /\ \A u \in Users \ {t} :
           pc'[u] = pc[u] \/ (pc[u] = "asleep" /\ u \in Readers /\ pc'[u] = "call")
      /\ \/ pc'[t] = "out" /\ lock' = "free"
            /\ (killed[t] \/ ~readopen \/ \A u \in Readers : pc'[u] # "asleep")
         \/ pc'[t] = "block" /\ lock' = t /\ readopen /\ Avail' = PIPESIZE
            /\ \A u \in Readers : pc'[u] # "asleep"
  BY <1>1, <1>2, <1>3, <1>4, PipeAssumption
  DEF WriteRest, Woken, Goto, PipeInv, TypeOK, Points, Users, Space
<1>8. /\ readopen' = readopen /\ writeopen' = writeopen /\ freed' = freed /\ killed' = killed
  BY <1>1 DEF ends
<1>9. TypeOK'
  BY <1>2, <1>3, <1>4, <1>5, <1>6, <1>7, <1>8 DEF PipeInv, TypeOK, Space
<1>10. LockInv'
  BY <1>1, <1>7, PipeAssumption, Zenon DEF PipeInv, LockInv
<1>11. StopInv'
  <2>1. ASSUME NEW u \in Readers, pc'[u] \in Stopped
        PROVE  writeopen' /\ (Empty \/ \E w \in Writers : killed[w])'
    <3>1. pc[u] \in Stopped /\ u \in Users \ {t}
      BY <1>1, <1>7, <2>1, PipeAssumption, Zenon DEF Stopped, Users
    <3>2. pc[u] = "asleep" /\ readopen
      BY <1>1, <3>1, PipeAssumption, Zenon DEF PipeInv, LockInv, EndInv, Stopped, Users
    <3>3. killed[t]
      BY <1>7, <2>1, <3>1, <3>2 DEF Stopped
    <3> QED BY <1>1, <1>8, <3>1, <3>3, Zenon DEF PipeInv, StopInv
  <2>2. ASSUME NEW u \in Writers, pc'[u] \in Stopped
        PROVE  readopen' /\ Avail' = PIPESIZE
    <3>1. CASE u = t
      BY <1>7, <1>8, <2>2, <3>1 DEF Stopped
    <3>2. CASE u # t
      <4>1. pc[u] \in Stopped
        BY <1>7, <2>2, <3>2, PipeAssumption, Zenon DEF Stopped, Users
      <4>2. readopen /\ Avail = PIPESIZE
        BY <4>1, Zenon DEF PipeInv, StopInv
      <4> QED BY <1>2, <1>3, <1>4, <1>8, <4>2 DEF Space
    <3> QED BY <3>1, <3>2
  <2> QED BY <2>1, <2>2 DEF StopInv
<1>12. EndInv'
  BY <1>1, <1>7, <1>8, PipeAssumption, Zenon DEF PipeInv, EndInv, Side, Users
<1> QED BY <1>9, <1>10, <1>11, <1>12 DEF PipeInv

\* piperead() once it need not wait.
LEMMA ReadInv ==
  ASSUME PipeInv, NEW t \in Users, Read(t) PROVE PipeInv'
<1> DEFINE m == Lesser(left[t], Avail)
<1>1. /\ t \in Readers /\ pc[t] = "call" /\ lock = "free" /\ (~Empty \/ ~writeopen)
      /\ nread' = (nread + m) % UINT /\ left' = [left EXCEPT ![t] = 0]
      /\ pc' = Woken(Writers, t, "out") /\ UNCHANGED <<data, nwrite, ends, lock, killed>>
  BY DEF Read
<1>2. Avail \in 0 .. PIPESIZE /\ left[t] \in 0 .. MaxCount /\ PIPESIZE \in Nat /\ MaxCount \in Nat
  BY PipeAssumption DEF PipeInv, TypeOK, Avail
<1>3. m \in 0 .. Avail
  BY <1>2 DEF Lesser
<1> HIDE DEF m
<1>4. Avail' = Avail - m /\ nread' \in 0 .. UINT - 1
  BY <1>1, <1>3, AvailAfterRead DEF PipeInv
<1>5. TypeOK'
  BY <1>1, <1>2, <1>3, <1>4 DEF PipeInv, TypeOK, Woken, Points, ends
<1>6. LockInv'
  BY <1>1, PipeAssumption, Zenon DEF PipeInv, LockInv, Woken
<1>7. StopInv'
  <2>1. ASSUME NEW u \in Readers, pc'[u] \in Stopped
        PROVE  writeopen' /\ (Empty \/ \E w \in Writers : killed[w])'
    <3>1. pc[u] \in Stopped
      BY <1>1, <2>1, PipeAssumption, Zenon DEF Stopped, Users, Woken
    <3> QED BY <1>1, <3>1, Zenon DEF PipeInv, StopInv, ends
  <2>2. \A u \in Writers : pc'[u] \notin Stopped
    BY <1>1, PipeAssumption DEF PipeInv, LockInv, Stopped, Users, Woken
  <2> QED BY <2>1, <2>2 DEF StopInv
<1>8. EndInv'
  BY <1>1, PipeAssumption, Zenon DEF PipeInv, EndInv, Side, Users, Woken, ends
<1> QED BY <1>5, <1>6, <1>7, <1>8 DEF PipeInv

\* The steps that leave the counters alone: read() and write() entered, piperead()
\* waiting, sleep() and fileclose() change the place of one process.
LEMMA QuietInv ==
  ASSUME PipeInv, NEW t \in Users, UNCHANGED <<ring, ends, killed>>,
         left' \in [Users -> 0 .. MaxCount],
         NEW point \in Points, Goto(t, point), lock' \in {lock, t, "free"},
         \* p->lock is taken when free and kept to the end of sleep().
         (point = "block") <=> (lock' = t), lock # t => lock \in {lock', "free"},
         \* Only a reader goes to sleep here.
         point \in Stopped => pc[t] = "block" \/ (t \in Readers /\ writeopen /\ Empty),
         pc[t] # "gone", pc[t] # "close",
         point = "close" => \A u \in Side(t) \ {t} : pc[u] = "gone"
  PROVE  PipeInv'
<1>1. /\ pc' = [pc EXCEPT ![t] = point] /\ Avail' = Avail /\ Empty' = Empty
      /\ readopen' = readopen /\ writeopen' = writeopen /\ freed' = freed
  BY Zenon DEF Goto, ring, ends, Avail, Empty
<1>2. TypeOK'
  BY <1>1, PipeAssumption, Zenon DEF PipeInv, TypeOK, ring, ends
<1>3. LockInv'
  BY <1>1, PipeAssumption, Zenon DEF PipeInv, TypeOK, LockInv
<1>4. StopInv'
  <2>1. \A u \in Readers : pc'[u] \in Stopped =>
          pc[u] \in Stopped \/ (writeopen /\ Empty)
    BY <1>1, Zenon DEF Stopped, Users, PipeInv, TypeOK
  <2>2. \A u \in Writers : pc'[u] \in Stopped => pc[u] \in Stopped
    BY <1>1, PipeAssumption, Zenon DEF Stopped, Users, PipeInv, TypeOK
  <2> QED BY <1>1, <2>1, <2>2, Zenon DEF PipeInv, StopInv
<1>5. EndInv'
  <2>1. readopen \/ t \notin Readers
    BY Zenon DEF PipeInv, EndInv
  <2>2. writeopen \/ t \notin Writers
    BY Zenon DEF PipeInv, EndInv
  <2>3. ASSUME NEW u \in Users, pc'[u] = "close"
        PROVE  \A v \in Side(u) \ {u} : pc'[v] = "gone"
    <3>1. t \in Side(t) /\ (t \in Side(u) \/ Side(u) # Side(t))
      BY Zenon DEF Side, Users
    <3>2. CASE u = t
      BY <1>1, <2>3, <3>2, Zenon DEF PipeInv, TypeOK, Side, Users
    <3>3. CASE u # t
      BY <1>1, <2>3, <3>3, Zenon DEF PipeInv, EndInv, TypeOK, Side, Users
    <3> QED BY <3>2, <3>3
  <2> QED BY <1>1, <2>1, <2>2, <2>3, Zenon DEF PipeInv, EndInv, TypeOK, Users
<1> QED BY <1>2, <1>3, <1>4, <1>5 DEF PipeInv

\* pipeclose(): the last process of its side wakes the other side.
LEMMA PipeCloseInv ==
  ASSUME PipeInv, NEW t \in Users, PipeClose(t) PROVE PipeInv'
<1>1. /\ Avail' = Avail /\ Empty' = Empty /\ killed' = killed /\ lock = "free" /\ lock' = "free"
      /\ readopen' = (readopen /\ t \notin Readers)
      /\ writeopen' = (writeopen /\ t \notin Writers)
      /\ freed' = (IF t \in Readers THEN ~writeopen ELSE ~readopen)
  BY Zenon DEF PipeClose, ring, Avail, Empty, Unused
<1>2. /\ pc[t] = "close" /\ pc'[t] = "gone" /\ pc' \in [Users -> Points]
      /\ \A u \in Users : pc'[u] \in {pc[u], "call"} \/ u = t
      /\ \A u \in Users : pc[u] # "asleep" => pc'[u] = pc[u] \/ u = t
      /\ \A u \in Users : pc'[u] = "asleep" => u \in Side(t)
  BY PipeAssumption, Zenon DEF PipeClose, Woken, PipeInv, TypeOK, Points, Side, Users
<1>3. TypeOK'
  BY <1>1, <1>2, Zenon DEF PipeClose, PipeInv, TypeOK, ring
<1>4. \A u \in Users : pc'[u] # "block"
  BY <1>1, <1>2, PipeAssumption, Zenon DEF PipeInv, LockInv
<1>5. \A u \in Side(t) : pc'[u] = "gone"
  BY <1>2, Zenon DEF PipeInv, EndInv, Side, Users
<1>6. LockInv' /\ StopInv'
  <2>1. \A u \in Users : pc'[u] \notin Stopped
    BY <1>2, <1>4, <1>5, Zenon DEF Stopped, Side, Users
  <2> QED BY <1>1, <1>4, <2>1, PipeAssumption, Zenon DEF LockInv, StopInv, Users
<1>7. EndInv'
  <2>1. ASSUME NEW u \in Users, pc'[u] = "close"
        PROVE  \A v \in Side(u) \ {u} : pc'[v] = "gone"
    <3>1. pc[u] = "close" /\ u # t
      BY <1>2, <2>1
    <3>2. \A v \in Side(u) \ {u} : pc[v] = "gone" /\ v \in Users
      BY <3>1, Zenon DEF PipeInv, EndInv, Side, Users
    <3> QED BY <1>2, <3>2
  <2>2. ~readopen' => \A u \in Readers : pc'[u] = "gone"
    BY <1>1, <1>2, <1>5, Zenon DEF PipeInv, EndInv, Side, Users
  <2>3. ~writeopen' => \A u \in Writers : pc'[u] = "gone"
    BY <1>1, <1>2, <1>5, PipeAssumption, Zenon DEF PipeInv, EndInv, Side, Users
  <2>4. freed' => ~readopen' /\ ~writeopen'
    BY <1>1, PipeAssumption, Zenon DEF Users
  <2> QED BY <2>1, <2>2, <2>3, <2>4 DEF EndInv
<1> QED BY <1>3, <1>6, <1>7 DEF PipeInv

\* kill(): nobody is put to sleep, and a killed writer stays killed.
LEMMA KillInv ==
  ASSUME PipeInv, NEW t \in Users, Kill(t) PROVE PipeInv'
<1>1. /\ Avail' = Avail /\ Empty' = Empty /\ lock' = lock
      /\ readopen' = readopen /\ writeopen' = writeopen /\ freed' = freed
      /\ killed' \in [Users -> BOOLEAN] /\ \A u \in Users : killed[u] => killed'[u]
  BY Zenon DEF Kill, ring, ends, Avail, Empty, PipeInv, TypeOK
<1>2. /\ pc' \in [Users -> Points]
      /\ \A u \in Users : pc'[u] = pc[u] \/ (pc[u] = "asleep" /\ pc'[u] = "call")
  BY PipeAssumption, Zenon DEF Kill, Woken, PipeInv, TypeOK, Points
<1>3. TypeOK'
  BY <1>1, <1>2, Zenon DEF Kill, PipeInv, TypeOK, ring, ends
<1>4. LockInv'
  BY <1>1, <1>2, Zenon DEF PipeInv, LockInv
<1>5. StopInv'
  <2>1. \A u \in Users : pc'[u] \in Stopped => pc[u] \in Stopped
    BY <1>2 DEF Stopped
  <2> QED BY <1>1, <2>1, Zenon DEF PipeInv, StopInv, Users
<1>6. EndInv'
  BY <1>1, <1>2, Zenon DEF PipeInv, EndInv, Side, Users
<1> QED BY <1>3, <1>4, <1>5, <1>6 DEF PipeInv

LEMMA NextInv == PipeInv /\ [Next]_vars => PipeInv'
<1> SUFFICES ASSUME PipeInv, [Next]_vars PROVE PipeInv'
  OBVIOUS
<1>1. ASSUME NEW t \in Users, NEW n \in 1 .. MaxCount, Call(t, n) PROVE PipeInv'
  <2>1. left' \in [Users -> 0 .. MaxCount]
    BY <1>1, PipeAssumption DEF Call, PipeInv, TypeOK
  <2>2. lock # t
    BY <1>1, Zenon DEF Call, PipeInv, LockInv
  <2> QED BY <1>1, <2>1, <2>2, QuietInv, Zenon DEF Call, Points, Stopped
<1>2. ASSUME NEW t \in Users, ReadWait(t) PROVE PipeInv'
  <2>1. left' \in [Users -> 0 .. MaxCount] /\ UNCHANGED <<ring, ends, killed>>
    BY <1>2, Zenon DEF ReadWait, PipeInv, TypeOK
  <2>2. t # "free"
    BY PipeAssumption
  <2>3. CASE Goto(t, "out") /\ UNCHANGED lock
    BY <1>2, <2>1, <2>2, <2>3, QuietInv, Zenon DEF ReadWait, Points, Stopped
  <2>4. CASE Goto(t, "block") /\ lock' = t
    BY <1>2, <2>1, <2>2, <2>4, QuietInv, Zenon DEF ReadWait, Points, Stopped
  <2> QED BY <1>2, <2>3, <2>4 DEF ReadWait
<1>3. ASSUME NEW t \in Users, Sleep(t) PROVE PipeInv'
  <2>1. left' \in [Users -> 0 .. MaxCount] /\ lock = t /\ t # "free"
    BY <1>3, PipeAssumption, Zenon DEF Sleep, PipeInv, TypeOK, LockInv
  <2> QED BY <1>3, <2>1, QuietInv, Zenon DEF Sleep, Points, Stopped
<1>4. ASSUME NEW t \in Users, Close(t) PROVE PipeInv'
  <2>1. /\ left' \in [Users -> 0 .. MaxCount] /\ lock # t /\ lock' = lock
        /\ UNCHANGED <<ring, ends, killed>> /\ pc[t] = "out"
    BY <1>4, Zenon DEF Close, PipeInv, TypeOK, LockInv
  <2>2. CASE \A u \in Side(t) \ {t} : pc[u] = "gone"
    <3>1. Goto(t, "close")
      BY <1>4, <2>2 DEF Close
    <3> QED BY <2>1, <2>2, <3>1, QuietInv, Zenon DEF Points, Stopped
  <2>3. CASE ~\A u \in Side(t) \ {t} : pc[u] = "gone"
    <3>1. Goto(t, "gone")
      BY <1>4, <2>3 DEF Close
    <3> QED BY <2>1, <3>1, QuietInv, Zenon DEF Points, Stopped
  <2> QED BY <2>2, <2>3
<1>5. CASE UNCHANGED vars
  BY <1>5, Zenon DEF vars, PipeInv, TypeOK, LockInv, StopInv, EndInv, Avail, Empty
<1>6. CASE Next
  BY <1>1, <1>2, <1>3, <1>4, <1>5, <1>6, WriteInv, ReadInv, PipeCloseInv, KillInv, Zenon
  DEF Next, Work, Over
<1> QED BY <1>5, <1>6

-----------------------------------------------------------------------------
(* The theorems.                                                           *)

LEMMA Invariant == Spec => []PipeInv
BY InitInv, NextInv, PTL DEF Spec

\* The unsigned difference of nwrite and nread never exceeds PIPESIZE, also when
\* a counter has wrapped around, and every variable stays in its range.
THEOREM PipeTypeCorrect == Spec => []TypeOK
<1>1. PipeInv => TypeOK
  BY DEF PipeInv
<1> QED BY Invariant, <1>1, PTL

\* No wakeup is lost in piperead(), pipewrite() and pipeclose(), for any number of
\* processes and any size of the pipe.
THEOREM SleepersWaitCorrect == Spec => []SleepersWait
<1>1. PipeInv => SleepersWait
  BY Zenon DEF PipeInv, StopInv, SleepersWait, Stopped
<1> QED BY Invariant, <1>1, PTL

\* pipeclose() frees the pipe when nobody can be in piperead(), pipewrite() or
\* pipeclose() any more.
THEOREM FreedIsUnusedCorrect == Spec => []FreedIsUnused
<1>1. PipeInv => FreedIsUnused
  BY Zenon DEF PipeInv, EndInv, FreedIsUnused, Users
<1> QED BY Invariant, <1>1, PTL

-----------------------------------------------------------------------------
(* The pipe is a first-in first-out buffer: each step of the pipe puts     *)
(* bytes behind the contents, takes some from the front, or leaves contents *)
(* and result alone.                                                       *)

LEMMA Sizes == PIPESIZE \in Nat \ {0} /\ UINT \in Nat \ {0} /\ UINT % PIPESIZE = 0
BY PipeAssumption

LEMMA PlaceAround ==
  ASSUME NEW a \in Int, NEW d \in Int
  PROVE  ((a % UINT) + d) % PIPESIZE = (a + d) % PIPESIZE
BY Sizes, CounterAround, ZenonT(30)

LEMMA ContentsAreStretch ==
  /\ Contents = Stretch(data, PIPESIZE, nread, Avail)
  /\ Contents' = Stretch(data', PIPESIZE, nread', Avail')
BY Zenon DEF Contents, Stretch, Avail

LEMMA ContentsSeq ==
  ASSUME TypeOK PROVE Contents \in Seq(Vals) /\ Len(Contents) = Avail
<1>1. PIPESIZE \in Nat \ {0} /\ nread \in Int /\ Avail \in Nat
  BY PipeAssumption DEF TypeOK, Avail
<1>2. data \in [0 .. PIPESIZE - 1 -> Vals]
  BY DEF TypeOK
<1>3. Shows(Stretch(data, PIPESIZE, nread, Avail), Vals, data, PIPESIZE, nread, Avail)
  BY <1>1, <1>2, StretchSeq, Zenon
<1> QED BY <1>3, ContentsAreStretch DEF Shows

\* p->nwrite % PIPESIZE is the place behind the contents, although nwrite and
\* nread wrap around at UINT.
LEMMA WritePlace ==
  ASSUME TypeOK, NEW j \in Int
  PROVE  (nread + Avail + j - 1) % PIPESIZE = (nwrite + j - 1) % PIPESIZE
<1>1. /\ PIPESIZE \in Nat \ {0} /\ UINT \in Nat \ {0} /\ UINT % PIPESIZE = 0
      /\ nread \in Int /\ nwrite \in Int /\ Avail \in Int
  BY PipeAssumption DEF TypeOK, Avail
<1>2. PICK x \in Int, y \in Int : x = nwrite - nread /\ y = nread + j - 1
  BY <1>1
<1>3. ((x % UINT) + y) % PIPESIZE = (x + y) % PIPESIZE
  BY PlaceAround
<1>4. (x % UINT) + y = nread + Avail + j - 1 /\ x + y = nwrite + j - 1
  BY <1>1, <1>2 DEF Avail
<1> QED BY <1>3, <1>4

\* The m bytes of s are stored at m different places.
LEMMA CopiedBytes ==
  ASSUME TypeOK, NEW t, NEW m \in 0 .. PIPESIZE, NEW s \in [1 .. m -> Vals], CopyIn(t, m, s)
  PROVE  Written(data', data, PIPESIZE, nread, Avail, s)
<1> DEFINE P(j) == (nwrite + j - 1) % PIPESIZE
<1>1. PIPESIZE \in Nat \ {0} /\ nwrite \in Int
  BY PipeAssumption DEF TypeOK
<1>2. \A j \in 1 .. m : (nread + Avail + j - 1) % PIPESIZE = P(j) /\ P(j) \in 0 .. PIPESIZE - 1
  BY <1>1, WritePlace
<1>3. ASSUME NEW i \in 1 .. m, NEW j \in 1 .. m, i < j PROVE P(i) # P(j)
  <2>1. PICK x \in Int, y \in Int : x = nwrite + j - 1 /\ y = nwrite + i - 1
    BY <1>1
  <2>2. x - y \in 1 .. PIPESIZE - 1
    BY <1>1, <1>3, <2>1
  <2>3. x % PIPESIZE # y % PIPESIZE
    BY <1>1, <2>2, DifferentPlaces, Zenon
  <2> QED BY <2>1, <2>3
<1>4. \A i, j \in 1 .. m : P(i) = P(j) => i = j
  BY <1>3
<1>5. data' = [x \in 0 .. PIPESIZE - 1 |->
                 IF \E j \in 1 .. m : P(j) = x THEN s[CHOOSE j \in 1 .. m : P(j) = x] ELSE data[x]]
  BY DEF CopyIn
<1> HIDE DEF P
<1>6. ASSUME NEW i \in 1 .. m PROVE data'[P(i)] = s[i]
  <2>1. (CHOOSE j \in 1 .. m : P(j) = P(i)) = i
    BY <1>4
  <2> QED BY <1>2, <1>5, <2>1, Zenon
<1>7. ASSUME NEW x \in 0 .. PIPESIZE - 1, \A i \in 1 .. m : P(i) # x PROVE data'[x] = data[x]
  BY <1>5, <1>7
<1>8. Len(s) = m
  OBVIOUS
<1> QED BY <1>2, <1>6, <1>7, <1>8 DEF Written

\* pipewrite() puts what it copies behind the contents.
LEMMA WriteRefines ==
  ASSUME PipeInv, NEW t \in Users, NEW s, Write(t, s), TypeOK'
  PROVE  [Abs!Next]_<<Contents, got>>
<1> DEFINE m == Lesser(left[t], Space)
<1>1. s \in [1 .. m -> Vals] /\ CopyIn(t, m, s) /\ got' = got
  BY DEF Write
<1>2. /\ Avail \in 0 .. PIPESIZE /\ left[t] \in 0 .. MaxCount /\ PIPESIZE \in Nat \ {0}
      /\ MaxCount \in Nat /\ nread \in Int
  BY PipeAssumption DEF PipeInv, TypeOK, Avail
<1>3. m \in 0 .. Space /\ m \in Nat /\ m <= PIPESIZE /\ Avail + m <= PIPESIZE /\ Avail \in Nat
  BY <1>2 DEF Lesser, Space
<1> HIDE DEF m
<1>4. Avail' = Avail + m /\ nread' = nread
  <2>1. nwrite' = (nwrite + m) % UINT /\ nread' = nread
    BY <1>1 DEF CopyIn
  <2> QED BY <1>3, <2>1, AvailAfterWrite DEF PipeInv
<1>5. Contents' = Contents \o s
  <2>1. data \in [0 .. PIPESIZE - 1 -> Vals] /\ data' \in [0 .. PIPESIZE - 1 -> Vals]
    BY Zenon DEF PipeInv, TypeOK
  <2>2. Written(data', data, PIPESIZE, nread, Avail, s)
    <3>1. TypeOK /\ m \in 0 .. PIPESIZE
      BY <1>2, <1>3 DEF PipeInv
    <3> QED BY <1>1, <3>1, CopiedBytes
  <2>3. IsArray(data, PIPESIZE, Vals) /\ IsArray(data', PIPESIZE, Vals)
    BY <1>2, <2>1 DEF IsArray
  <2>4. s \in Seq(Vals) /\ Len(s) = m
    BY <1>1, <1>3
  <2>5. PICK n \in Nat, k \in Nat : n = Avail /\ k = n + Len(s) /\ k <= PIPESIZE
    BY <1>3, <2>4
  <2>6. ASSUME NEW c, c = data'
        PROVE  Stretch(c, PIPESIZE, nread, k) = Stretch(data, PIPESIZE, nread, n) \o s
    <3>1. s \in Seq(Vals) /\ nread \in Int /\ k = n + Len(s) /\ k <= PIPESIZE
      BY <1>2, <2>4, <2>5
    <3>2. IsArray(data, PIPESIZE, Vals) /\ IsArray(c, PIPESIZE, Vals)
      BY <2>3, <2>6
    <3>3. Written(c, data, PIPESIZE, nread, n, s)
      BY <2>2, <2>5, <2>6
    <3> QED BY <3>1, <3>2, <3>3, StretchWrite
  <2> QED BY <1>4, <2>4, <2>5, <2>6, ContentsAreStretch
<1>6. Contents \in Seq(Vals) /\ Len(Contents) = Avail
  BY ContentsSeq DEF PipeInv
<1>7. CASE m = 0
  <2>1. s = << >>
    BY <1>1, <1>7
  <2>2. Contents' = Contents
    BY <1>5, <1>6, <2>1
  <2> QED BY <1>1, <2>2
<1>8. CASE m # 0
  <2>1. m \in 1 .. PIPESIZE /\ Len(s) = m
    BY <1>1, <1>3, <1>8
  <2>2. Abs!Put(s)
    BY <1>1, <1>3, <1>5, <1>6, <2>1 DEF Abs!Put
  <2> QED BY <1>1, <2>1, <2>2 DEF Abs!Next
<1> QED BY <1>7, <1>8

\* piperead() takes bytes from the front.
LEMMA ReadRefines ==
  ASSUME PipeInv, NEW t \in Users, Read(t)
  PROVE  [Abs!Next]_<<Contents, got>>
<1> DEFINE m == Lesser(left[t], Avail)
<1>1. /\ got' = Stretch(data, PIPESIZE, nread, m)
      /\ nread' = (nread + m) % UINT /\ data' = data /\ nwrite' = nwrite
  BY Zenon DEF Read, Stretch
<1>2. /\ Avail \in 0 .. PIPESIZE /\ left[t] \in 0 .. MaxCount /\ PIPESIZE \in Nat \ {0}
      /\ MaxCount \in Nat /\ nread \in Int /\ UINT \in Nat \ {0} /\ UINT % PIPESIZE = 0
  BY PipeAssumption DEF PipeInv, TypeOK, Avail
<1>3. m \in 0 .. Avail /\ Avail \in Nat /\ Avail - m \in Nat /\ nread + m \in Int
  BY <1>2 DEF Lesser
<1> HIDE DEF m
<1>4. Avail' = Avail - m
  BY <1>1, <1>3, AvailAfterRead DEF PipeInv
<1>5. IsArray(data, PIPESIZE, Vals)
  BY <1>2, Zenon DEF PipeInv, TypeOK, IsArray
<1>6. /\ SubSeq(Stretch(data, PIPESIZE, nread, Avail), 1, m) = Stretch(data, PIPESIZE, nread, m)
      /\ SubSeq(Stretch(data, PIPESIZE, nread, Avail), m + 1, Avail)
           = Stretch(data, PIPESIZE, nread + m, Avail - m)
  BY <1>2, <1>3, <1>5, StretchTake, SMTT(30)
<1>7. Stretch(data, PIPESIZE, (nread + m) % UINT, Avail - m)
        = Stretch(data, PIPESIZE, nread + m, Avail - m)
  <2>1. PICK a \in Int, n \in Nat : a = nread + m /\ n = Avail - m
    BY <1>3
  <2> DEFINE c == a % UINT
  <2>2. c \in Int
    BY <1>2
  <2>3. c % PIPESIZE = a % PIPESIZE
    <3>1. ((a % UINT) + 0) % PIPESIZE = (a + 0) % PIPESIZE
      BY PlaceAround
    <3> QED BY <2>2, <3>1
  <2> HIDE DEF c
  <2>4. Stretch(data, PIPESIZE, c, n) = Stretch(data, PIPESIZE, a, n)
    BY <1>2, <2>3, <2>2, StretchAround
  <2> QED BY <2>1, <2>4 DEF c
<1>8. Contents' = SubSeq(Contents, m + 1, Avail) /\ got' = SubSeq(Contents, 1, m)
  BY <1>1, <1>4, <1>6, <1>7, ContentsAreStretch, Zenon
<1>9. Len(Contents) = Avail
  BY ContentsSeq DEF PipeInv
<1>10. Abs!Get(m)
  BY <1>8, <1>9 DEF Abs!Get
<1> QED BY <1>3, <1>9, <1>10 DEF Abs!Next

\* Every step of the pipe is a step of the buffer or leaves it alone.
LEMMA NextRefines == PipeInv /\ PipeInv' /\ [Next]_vars => [Abs!Next]_<<Contents, got>>
<1> SUFFICES ASSUME PipeInv, PipeInv', [Next]_vars PROVE [Abs!Next]_<<Contents, got>>
  OBVIOUS
<1>1. CASE UNCHANGED <<ring, got>>
  <2>1. Contents' = Contents /\ got' = got
    BY <1>1, Zenon DEF ring, Contents, Avail
  <2> QED BY <2>1
<1>2. ASSUME NEW t \in Users, NEW s, Write(t, s) PROVE [Abs!Next]_<<Contents, got>>
  BY <1>2, WriteRefines DEF PipeInv
<1>3. ASSUME NEW t \in Users, Read(t) PROVE [Abs!Next]_<<Contents, got>>
  BY <1>3, ReadRefines
<1>4. \/ UNCHANGED <<ring, got>>
      \/ \E t \in Users : Read(t)
      \/ \E t \in Users : \E m \in 0 .. PIPESIZE : \E s \in [1 .. m -> Vals] : Write(t, s)
  BY Zenon DEF Next, Work, Over, Call, ReadWait, Sleep, PipeClose, Close, Kill, vars, ring
<1> QED BY <1>1, <1>2, <1>3, <1>4

\* piperead() and pipewrite() of any number of processes implement a first-in
\* first-out buffer of PIPESIZE bytes, for every PIPESIZE that divides the modulus
\* of the counters.
THEOREM RefinesByteFifo == Spec => ImplementsByteFifo
<1>1. Init => Abs!Init
  <2> SUFFICES ASSUME Init PROVE Abs!Init
    OBVIOUS
  <2>1. Avail = 0 /\ got = << >>
    BY PipeAssumption DEF Init, Avail
  <2>2. Contents = << >>
    BY <2>1 DEF Contents
  <2> QED BY <2>1, <2>2 DEF Abs!Init
<1> QED BY <1>1, Invariant, NextRefines, PTL DEF Spec, ImplementsByteFifo, Abs!Spec
=============================================================================
