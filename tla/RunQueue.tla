------------------------------ MODULE RunQueue ------------------------------
(***************************************************************************)
(* One round-robin scheduling queue of proc.c as it is stored: a circular  *)
(* array of process pointers with the indices front and rear and a size.   *)
(* allocproc() and setqueue() append, scheduler() takes from the front.    *)
(***************************************************************************)
EXTENDS ProcTable, Sequences

CONSTANT MaxSize   \* bound on size; the array has NPROC places

ASSUME QueueAssumption == NPROC \in Nat \ {0} /\ MaxSize \in Nat

VARIABLES front, rear, size, array

vars == <<front, rear, size, array>>

\* userinit().
Init == /\ front = 0 /\ rear = NPROC - 1 /\ size = 0
        /\ array = [x \in Slots |-> None]

\* Mutant: rear does not wrap around.
Store_NoWrap(p) == /\ rear' = rear + 1
                   /\ array' = [array EXCEPT ![rear'] = p]

\* Write p behind the last entry.
Store(p) == /\ rear' = (rear + 1) % NPROC
            /\ array' = [array EXCEPT ![rear'] = p]

\* allocproc() and setqueue(): there is no test for a full array.
Append1(p) == /\ size < MaxSize
              /\ Store(p)
              /\ size' = size + 1
              /\ UNCHANGED front

\* scheduler() takes the front entry and drops it: dead, or moved.
DropFront == /\ size # 0
             /\ front' = (front + 1) % NPROC
             /\ size' = size - 1
             /\ UNCHANGED <<rear, array>>

\* Mutant: the entry appended again is counted twice.
RotateFront_Counts == /\ size # 0 /\ size < MaxSize
                      /\ front' = (front + 1) % NPROC
                      /\ Store(array[front])
                      /\ size' = size + 1

\* scheduler() takes the front entry and appends it again.
RotateFront == /\ size # 0
               /\ front' = (front + 1) % NPROC
               /\ Store(array[front])
               /\ UNCHANGED size

Next == (\E p \in Slots : Append1(p)) \/ DropFront \/ RotateFront

Spec == Init /\ [][Next]_vars

-----------------------------------------------------------------------------
\* Every variable stays in its range.
TypeOK == /\ front \in Slots /\ rear \in Slots /\ size \in Nat
          /\ array \in [Slots -> Slots \cup {None}]

\* The scheduler never follows a null pointer: it takes the front entry only
\* when size is not 0, and that place has been written.
FrontIsProcess == size # 0 => array[front] \in Slots

\* The stored queue implements the sequence of entries, overwriting included.
Window == [j \in 1 .. size |-> array[(front + j - 1) % NPROC]]
Abs == INSTANCE EntryQueue WITH entries <- Window, Procs <- Slots
ImplementsEntryQueue == Abs!Spec
=============================================================================
