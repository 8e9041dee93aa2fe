--------------------------- MODULE RunQueueProofs ---------------------------
(***************************************************************************)
(* The circular array of a scheduling queue, of every size: its indices    *)
(* stay inside the array, the place that scheduler() reads when size is    *)
(* not 0 has been written, and the array implements the queue of entries.  *)
(***************************************************************************)
EXTENDS RunQueue, RingArithmetic, SequenceTheorems, TLAPS

\* The places of the array below w are written, the others are not in use yet.
Filling(w) == /\ \A x \in 0 .. w - 1 : array[x] # None
              /\ front \in 0 .. w /\ size = w - front
              /\ rear = IF w = 0 THEN NPROC - 1 ELSE w - 1

\* Either every place has been written, or rear has not been around yet and
\* front has not passed it.
QueueInv == /\ TypeOK
            /\ \/ \A x \in Slots : array[x] # None
               \/ \E w \in Slots : Filling(w)

-----------------------------------------------------------------------------
\* The step of an index around the array.
LEMMA NextIndex ==
  ASSUME NEW x \in Slots
  PROVE  /\ (x + 1) % NPROC \in Slots
         /\ x + 1 < NPROC => (x + 1) % NPROC = x + 1
         /\ x + 1 = NPROC => (x + 1) % NPROC = 0
BY QueueAssumption DEF Slots

LEMMA InitQueueInv == Init => QueueInv
<1> SUFFICES ASSUME Init PROVE QueueInv
  OBVIOUS
<1>1. TypeOK
  BY QueueAssumption DEF Init, TypeOK, Slots
<1>2. 0 \in Slots /\ Filling(0)
  BY QueueAssumption DEF Init, Filling, Slots
<1> QED
  BY <1>1, <1>2 DEF QueueInv

\* What is taken from the front of a queue that is not empty is a process.
LEMMA InvFront == QueueInv => FrontIsProcess
<1> SUFFICES ASSUME QueueInv, size # 0 PROVE array[front] \in Slots
  BY DEF FrontIsProcess
<1>1. array[front] # None
  BY DEF QueueInv, Filling, TypeOK, Slots
<1> QED
  BY <1>1 DEF QueueInv, TypeOK

\* A process stored behind the last entry, front where it was or one further.
LEMMA StoreInv ==
  ASSUME QueueInv, NEW q \in Slots, Store(q),
         \/ front' = front /\ size' = size + 1
         \/ size # 0 /\ front' = (front + 1) % NPROC /\ size' = size
  PROVE  QueueInv'
<1>1. /\ front \in Slots /\ rear \in Slots /\ size \in Nat
      /\ array \in [Slots -> Slots \cup {None}]
  BY DEF QueueInv, TypeOK
<1>2. /\ rear' \in Slots /\ array' \in [Slots -> Slots \cup {None}]
      /\ array'[rear'] # None
      /\ \A x \in Slots : array[x] # None => array'[x] # None
  BY <1>1, NextIndex, QueueAssumption DEF Store, Slots, None
<1>3. TypeOK'
  BY <1>1, <1>2, NextIndex DEF TypeOK
<1>4. CASE \A x \in Slots : array[x] # None
  BY <1>2, <1>3, <1>4 DEF QueueInv
<1>5. CASE \E w \in Slots : Filling(w)
  <2>1. PICK w \in Slots : Filling(w)
    BY <1>5
  <2>2. rear' = w
    <3>1. rear' = (rear + 1) % NPROC
      BY DEF Store
    <3>2. /\ rear + 1 < NPROC => rear' = rear + 1
          /\ rear + 1 = NPROC => rear' = 0
      BY <1>1, <3>1, NextIndex
    <3>3. CASE w = 0
      <4>1. rear + 1 = NPROC
        BY <2>1, <3>3, QueueAssumption DEF Filling
      <4> QED BY <3>2, <3>3, <4>1
    <3>4. CASE w # 0
      <4>1. rear = w - 1 /\ w \in 1 .. NPROC - 1
        BY <2>1, <3>4, QueueAssumption DEF Filling, Slots
      <4>2. rear + 1 < NPROC /\ rear + 1 = w
        BY <4>1, QueueAssumption
      <4> QED BY <3>2, <4>2
    <3> QED BY <3>3, <3>4
  <2>3. \A x \in 0 .. w : x \in Slots /\ array'[x] # None
    <3> SUFFICES ASSUME NEW x \in 0 .. w PROVE x \in Slots /\ array'[x] # None
      OBVIOUS
    <3>1. x \in Slots /\ (x = w \/ x \in 0 .. w - 1)
      BY <2>1, QueueAssumption DEF Slots
    <3> QED BY <1>2, <2>1, <2>2, <3>1 DEF Filling
  <2>4. CASE w + 1 = NPROC
    BY <1>3, <2>1, <2>3, <2>4 DEF QueueInv, Slots
  <2>5. CASE w + 1 < NPROC
    <3>1. front' \in 0 .. w + 1 /\ size' = w + 1 - front'
      <4>1. front \in 0 .. w /\ size = w - front /\ w \in Nat
        BY <2>1, QueueAssumption DEF Filling, Slots
      <4>2. CASE front' = front /\ size' = size + 1
        BY <4>1, <4>2
      <4>3. CASE size # 0 /\ front' = (front + 1) % NPROC /\ size' = size
        <5>1. front + 1 < NPROC
          BY <2>5, <4>1, QueueAssumption
        <5>2. front' = front + 1
          BY <1>1, <4>3, <5>1, NextIndex
        <5> QED BY <4>1, <4>3, <5>2
      <4> QED BY <4>2, <4>3
    <3>2. w + 1 \in Slots /\ Filling(w + 1)'
      <4>1. w + 1 \in Slots /\ w + 1 # 0 /\ w = (w + 1) - 1
        BY <2>1, <2>5, QueueAssumption DEF Slots
      <4>2. rear' = (w + 1) - 1 /\ \A x \in 0 .. (w + 1) - 1 : array'[x] # None
        BY <2>2, <2>3, <4>1
      <4> QED BY <3>1, <4>1, <4>2 DEF Filling
    <3> QED BY <1>3, <3>2 DEF QueueInv
  <2> QED BY <2>4, <2>5, QueueAssumption DEF Slots
<1> QED BY <1>4, <1>5 DEF QueueInv

LEMMA NextQueueInv == QueueInv /\ [Next]_vars => QueueInv'
<1> SUFFICES ASSUME QueueInv, [Next]_vars PROVE QueueInv'
  OBVIOUS
<1>1. ASSUME NEW q \in Slots, Append1(q) PROVE QueueInv'
  BY <1>1, StoreInv DEF Append1
<1>2. CASE RotateFront
  BY <1>2, StoreInv, InvFront DEF RotateFront, FrontIsProcess
<1>3. CASE DropFront
  <2>1. TypeOK'
    BY <1>3, NextIndex DEF DropFront, QueueInv, TypeOK
  <2>2. CASE \A x \in Slots : array[x] # None
    BY <1>3, <2>1, <2>2 DEF DropFront, QueueInv
  <2>3. ASSUME NEW w \in Slots, Filling(w) PROVE Filling(w)'
    <3>1. front \in 0 .. w /\ size = w - front /\ w \in Nat /\ w < NPROC
      BY <2>3, QueueAssumption DEF Filling, Slots
    <3>2. front + 1 <= w /\ front + 1 < NPROC /\ front \in Slots
      BY <1>3, <3>1, QueueAssumption DEF DropFront, Slots
    <3>3. front' = front + 1
      BY <1>3, <3>2, NextIndex DEF DropFront
    <3>4. size' = size - 1 /\ UNCHANGED <<rear, array>>
      BY <1>3 DEF DropFront
    <3>5. front' \in 0 .. w /\ size' = w - front'
      BY <3>1, <3>2, <3>3, <3>4
    <3> QED BY <2>3, <3>4, <3>5 DEF Filling
  <2> QED BY <2>1, <2>2, <2>3 DEF QueueInv
<1>4. CASE UNCHANGED vars
  BY <1>4 DEF vars, QueueInv, TypeOK, Filling
<1> QED BY <1>1, <1>2, <1>3, <1>4 DEF Next

LEMMA SpecQueueInv == Spec => []QueueInv
BY InitQueueInv, NextQueueInv, PTL DEF Spec

-----------------------------------------------------------------------------
\* front and rear stay inside the array and size is never negative, although
\* allocproc() and setqueue() never test for a full array.
THEOREM QueueTypeCorrect == Spec => []TypeOK
<1>1. QueueInv => TypeOK
  BY DEF QueueInv
<1> QED BY <1>1, SpecQueueInv, PTL

\* scheduler() never follows a null pointer, whatever the order of the calls.
THEOREM FrontIsProcessCorrect == Spec => []FrontIsProcess
BY SpecQueueInv, InvFront, PTL

-----------------------------------------------------------------------------
\* rear is the place of the last entry, also when the queue has overflowed.
RearInv == (rear + 1) % NPROC = (front + size) % NPROC

LEMMA InitRearInv == Init => RearInv
<1> SUFFICES ASSUME Init PROVE RearInv
  OBVIOUS
<1>1. rear \in Slots /\ rear + 1 = NPROC /\ front + size = 0
  BY QueueAssumption DEF Init, Slots
<1>2. 0 % NPROC = 0
  BY QueueAssumption
<1> QED BY <1>1, <1>2, NextIndex DEF RearInv

\* An index that has gone around, and what rear is after a store.
LEMMA Around ==
  ASSUME TypeOK, NEW d \in Int
  PROVE  (((front + 1) % NPROC) + d) % NPROC = (front + 1 + d) % NPROC
<1>1. NPROC \in Nat \ {0} /\ front + 1 \in Int
  BY QueueAssumption DEF TypeOK, Slots
<1> QED BY <1>1, StepAround

LEMMA RearStep ==
  ASSUME TypeOK, RearInv, NEW q, Store(q)
  PROVE  /\ rear' = (front + size) % NPROC
         /\ (rear' + 1) % NPROC = (front + size + 1) % NPROC
<1>1. NPROC \in Nat \ {0} /\ front + size \in Int
  BY QueueAssumption DEF TypeOK, Slots
<1>2. rear' = (front + size) % NPROC
  BY DEF Store, RearInv
<1> QED BY <1>1, <1>2, StepAround

LEMMA NextRearInv == TypeOK /\ RearInv /\ [Next]_vars => RearInv'
<1> SUFFICES ASSUME TypeOK, RearInv, [Next]_vars PROVE RearInv'
  OBVIOUS
<1>0. front \in Int /\ size \in Int
  BY QueueAssumption DEF TypeOK, Slots
<1>1. ASSUME NEW q \in Slots, Append1(q) PROVE RearInv'
  <2>1. front' + size' = front + size + 1
    BY <1>0, <1>1 DEF Append1
  <2> QED BY <1>1, <2>1, RearStep DEF Append1, RearInv
<1>2. CASE DropFront
  <2>1. front + 1 + size' = front + size /\ size' \in Int
    BY <1>0, <1>2 DEF DropFront
  <2> QED BY <1>2, <2>1, Around DEF DropFront, RearInv
<1>3. CASE RotateFront
  <2>1. front + 1 + size = front + size + 1
    BY <1>0
  <2> QED BY <1>0, <1>3, <2>1, Around, RearStep DEF RotateFront, RearInv
<1>4. CASE UNCHANGED vars
  BY <1>4 DEF vars, RearInv
<1> QED BY <1>1, <1>2, <1>3, <1>4 DEF Next

-----------------------------------------------------------------------------
\* The place of the entry j is the one just stored exactly if j is a multiple
\* of NPROC before the new last entry.
LEMMA SamePlace ==
  ASSUME NEW x \in Int, NEW n \in Int, NEW j \in Int
  PROVE  (x + n) % NPROC = (x + j) % NPROC <=> (n - j) % NPROC = 0
<1>1. NPROC \in Nat \ {0} /\ x + n \in Int /\ x + j \in Int
      /\ (x + n) - (x + j) = n - j
  BY QueueAssumption
<1>2. ASSUME NEW a \in Int, NEW b \in Int, a - b = n - j
      PROVE  a % NPROC = b % NPROC <=> (n - j) % NPROC = 0
  <2>1. a % NPROC = b % NPROC <=> (a - b) % NPROC = 0
    BY <1>1, RemainderOfDifference, ZenonT(60)
  <2> QED BY <1>2, <2>1, Zenon
<1> QED BY <1>1, <1>2, Zenon

\* The entries as a sequence.
LEMMA WindowSeq ==
  ASSUME TypeOK
  PROVE  Window \in Seq(Slots \cup {None}) /\ Len(Window) = size
<1>1. ASSUME NEW j \in 1 .. size PROVE (front + j - 1) % NPROC \in Slots
  BY QueueAssumption DEF TypeOK, Slots
<1> QED BY <1>1 DEF Window, TypeOK

LEMMA AppendWindow ==
  ASSUME TypeOK, RearInv, NEW q \in Slots, Append1(q)
  PROVE  Window' = Abs!Enqueue(Window, q)
<1>1. front \in Int /\ size \in Nat /\ front' = front /\ size' = size + 1
  BY QueueAssumption DEF TypeOK, Slots, Append1
<1>2. rear' = (front + size) % NPROC /\ array' = [array EXCEPT ![rear'] = q]
  BY RearStep DEF Append1, Store
<1>3. ASSUME NEW j \in 1 .. size + 1
      PROVE  array'[(front + j - 1) % NPROC]
               = IF (size + 1 - j) % NPROC = 0 THEN q ELSE Window[j]
  <2>1. (front + j - 1) % NPROC \in Slots
    BY <1>1, QueueAssumption DEF Slots
  <2>2. (front + size) % NPROC = (front + j - 1) % NPROC
          <=> (size + 1 - j) % NPROC = 0
    <3>1. /\ j - 1 \in Int /\ front + (j - 1) = front + j - 1
          /\ size - (j - 1) = size + 1 - j
      BY <1>1
    <3>2. front \in Int /\ size \in Int
      BY <1>1
    <3>3. (front + size) % NPROC = (front + (j - 1)) % NPROC
            <=> (size - (j - 1)) % NPROC = 0
      BY <3>1, <3>2, SamePlace, Zenon
    <3> QED BY <3>1, <3>3, Zenon
  <2>3. CASE (size + 1 - j) % NPROC = 0
    BY <1>2, <2>1, <2>2, <2>3 DEF TypeOK
  <2>4. CASE (size + 1 - j) % NPROC # 0
    <3>1. 0 % NPROC = 0
      BY QueueAssumption
    <3>2. j \in 1 .. size
      BY <1>1, <2>4, <3>1
    <3> QED BY <1>2, <2>1, <2>2, <2>4, <3>2 DEF TypeOK, Window
  <2> QED BY <2>3, <2>4
<1> QED BY <1>1, <1>3, WindowSeq DEF Window, Abs!Enqueue

\* A sequence as a function on its domain.
LEMMA SeqAsFunction ==
  ASSUME NEW S, NEW t \in Seq(S), NEW n \in Nat, Len(t) = n
  PROVE  t = [j \in 1 .. n |-> t[j]]
OBVIOUS

LEMMA DropWindow ==
  ASSUME TypeOK, DropFront
  PROVE  Window' = Tail(Window) /\ Window # << >>
<1>1. front \in Int /\ size \in Nat /\ size # 0
      /\ front' = (front + 1) % NPROC /\ size' = size - 1 /\ array' = array
  BY QueueAssumption DEF TypeOK, Slots, DropFront
<1>2. ASSUME NEW j \in 1 .. size - 1
      PROVE  array[(front' + j - 1) % NPROC] = Window[j + 1]
  <2>1. /\ j - 1 \in Int /\ front + 1 + (j - 1) = front + (j + 1) - 1
        /\ j + 1 \in 1 .. size
    BY <1>1
  <2>2. (front' + (j - 1)) % NPROC = (front + (j + 1) - 1) % NPROC
    BY <1>1, <2>1, Around, Zenon
  <2>3. front' + (j - 1) = front' + j - 1
    BY <1>1, QueueAssumption
  <2> QED BY <2>1, <2>2, <2>3 DEF Window
<1>3. Window' = [j \in 1 .. size - 1 |-> Window[j + 1]]
  BY <1>1, <1>2 DEF Window
<1>4. Window \in Seq(Slots \cup {None}) /\ Len(Window) = size
  BY WindowSeq
<1>5. Window # << >>
  BY <1>1, <1>4
<1>6. Tail(Window) = [j \in 1 .. size - 1 |-> Window[j + 1]]
  <2>1. /\ Tail(Window) \in Seq(Slots \cup {None})
        /\ Len(Tail(Window)) = size - 1
        /\ \A j \in 1 .. size - 1 : Tail(Window)[j] = Window[j + 1]
    BY <1>4, <1>5, HeadTailProperties
  <2>2. size - 1 \in Nat
    BY <1>1
  <2>3. Tail(Window) = [j \in 1 .. size - 1 |-> Tail(Window)[j]]
    BY <2>1, <2>2, SeqAsFunction, Zenon
  <2>4. [j \in 1 .. size - 1 |-> Tail(Window)[j]]
          = [j \in 1 .. size - 1 |-> Window[j + 1]]
    BY <2>1
  <2> QED BY <2>3, <2>4, Zenon
<1> QED BY <1>3, <1>5, <1>6

LEMMA RotateWindow ==
  ASSUME TypeOK, RearInv, RotateFront
  PROVE  Window' = Abs!Rotate(Window) /\ Window # << >>
<1> DEFINE q == array[front]
<1>1. front \in Int /\ size \in Nat /\ size # 0
      /\ front' = (front + 1) % NPROC /\ size' = size
  BY QueueAssumption DEF TypeOK, Slots, RotateFront
<1>2. rear' = (front + size) % NPROC /\ array' = [array EXCEPT ![rear'] = q]
  BY RearStep DEF RotateFront, Store
<1>3. ASSUME NEW j \in 1 .. size
      PROVE  array'[(front' + j - 1) % NPROC]
               = IF (size - j) % NPROC = 0 THEN q ELSE Window[j + 1]
  <2>1. (front' + j - 1) % NPROC = (front + j) % NPROC
    <3>1. j - 1 \in Int /\ front + 1 + (j - 1) = front + j
      BY <1>1
    <3>2. (front' + (j - 1)) % NPROC = (front + j) % NPROC
      BY <1>1, <3>1, Around, Zenon
    <3>3. front' + (j - 1) = front' + j - 1
      BY <1>1, QueueAssumption
    <3> QED BY <3>2, <3>3
  <2>2. (front + j) % NPROC \in Slots
    BY <1>1, QueueAssumption DEF Slots
  <2>3. (front + size) % NPROC = (front + j) % NPROC <=> (size - j) % NPROC = 0
    <3>1. size \in Int /\ j \in Int
      BY <1>1
    <3> QED BY <1>1, <3>1, SamePlace, Zenon
  <2>4. CASE (size - j) % NPROC = 0
    BY <1>2, <2>1, <2>2, <2>3, <2>4 DEF TypeOK
  <2>5. CASE (size - j) % NPROC # 0
    <3>1. 0 % NPROC = 0
      BY QueueAssumption
    <3>2. j + 1 \in 1 .. size /\ front + (j + 1) - 1 = front + j
      BY <1>1, <2>5, <3>1
    <3>3. array'[(front + j) % NPROC] = array[(front + j) % NPROC]
      BY <1>2, <2>2, <2>3, <2>5 DEF TypeOK
    <3> QED BY <2>1, <2>5, <3>2, <3>3 DEF Window
  <2> QED BY <2>4, <2>5
<1>4. Head(Window) = q
  <2>1. 1 \in 1 .. size /\ front + 1 - 1 = front /\ front % NPROC = front
    BY <1>1, QueueAssumption DEF TypeOK, Slots
  <2> QED BY <2>1, WindowSeq DEF Window
<1>5. /\ Len(Tail(Window)) = size - 1 /\ Len(Tail(Window)) + 1 = size
      /\ \A j \in 1 .. size - 1 : Tail(Window)[j] = Window[j + 1]
      /\ Window # << >>
  BY <1>1, WindowSeq, HeadTailProperties
<1>6. ASSUME NEW j \in 1 .. size
      PROVE  array'[(front' + j - 1) % NPROC]
               = IF (size - j) % NPROC = 0 THEN Head(Window)
                                           ELSE Tail(Window)[j]
  <2>1. CASE j = size
    <3>1. (size - j) % NPROC = 0
      BY <1>1, <2>1, QueueAssumption
    <3> QED BY <1>3, <1>4, <3>1
  <2>2. CASE j \in 1 .. size - 1
    BY <1>3, <1>4, <1>5, <2>2
  <2>3. j = size \/ j \in 1 .. size - 1
    BY <1>1
  <2> QED BY <2>1, <2>2, <2>3, Zenon
<1>7. Window' = [j \in 1 .. size |-> IF (size - j) % NPROC = 0
                                     THEN Head(Window) ELSE Tail(Window)[j]]
  BY <1>1, <1>6 DEF Window
<1>8. Abs!Rotate(Window)
        = [j \in 1 .. size |-> IF (size - j) % NPROC = 0
                                THEN Head(Window) ELSE Tail(Window)[j]]
  <2>1. Tail(Window) \in Seq(Slots \cup {None})
    BY <1>5, WindowSeq, HeadTailProperties
  <2>2. ASSUME NEW h, NEW t \in Seq(Slots \cup {None}), Len(t) + 1 = size
        PROVE  Abs!Enqueue(t, h)
                 = [j \in 1 .. size |-> IF (size - j) % NPROC = 0
                                         THEN h ELSE t[j]]
    BY <1>1, <2>2 DEF Abs!Enqueue
  <2> QED BY <1>5, <2>1, <2>2, Zenon DEF Abs!Rotate
<1> QED BY <1>5, <1>7, <1>8, Zenon

\* The circular array of every size implements the queue of its entries: an
\* append writes behind the last entry (and over the entry NPROC places before
\* it, if there is one), the scheduler takes or moves the first.
THEOREM RefinesEntryQueue == Spec => ImplementsEntryQueue
<1>1. Init => Abs!Init
  BY DEF Init, Window, Abs!Init
<1>2. TypeOK /\ RearInv /\ [Next]_vars => [Abs!Next]_Window
  <2> SUFFICES ASSUME TypeOK, RearInv, [Next]_vars PROVE [Abs!Next]_Window
    OBVIOUS
  <2>1. ASSUME NEW q \in Slots, Append1(q) PROVE Abs!Next
    <3>1. Len(Window) < MaxSize
      BY <2>1, WindowSeq DEF Append1
    <3> QED BY <2>1, <3>1, AppendWindow DEF Abs!Next
  <2>2. CASE DropFront
    BY <2>2, DropWindow DEF Abs!Next, Abs!Drop
  <2>3. CASE RotateFront
    BY <2>3, RotateWindow DEF Abs!Next
  <2>4. CASE UNCHANGED vars
    BY <2>4 DEF vars, Window
  <2> QED BY <2>1, <2>2, <2>3, <2>4 DEF Next
<1>3. Spec => []TypeOK /\ []RearInv
  BY QueueTypeCorrect, InitRearInv, NextRearInv, PTL DEF Spec
<1> QED BY <1>1, <1>2, <1>3, PTL DEF Spec, ImplementsEntryQueue, Abs!Spec
=============================================================================
