----------------------------- MODULE AtomicDisk -----------------------------
(***************************************************************************)
(* What the logging layer promises the file system (log.c): the contents   *)
(* that survive a crash change in one step only, at a moment when no file  *)
(* system operation is under way, to what the operations have written.  A  *)
(* crash therefore leaves all of the writes of an operation or none.       *)
(***************************************************************************)
CONSTANTS Ops, Blocks, Vals

VARIABLES mem,      \* contents as the operations read and write them
          durable,  \* contents after a crash and recovery
          open      \* operations between begin_op() and end_op()

Init == /\ durable \in [Blocks -> Vals] /\ mem = durable /\ open = {}

Begin(o) == o \notin open /\ open' = open \cup {o} /\ UNCHANGED <<mem, durable>>

Write(o, b, v) == /\ o \in open
                  /\ mem' = [mem EXCEPT ![b] = v]
                  /\ UNCHANGED <<durable, open>>

End(o) == o \in open /\ open' = open \ {o} /\ UNCHANGED <<mem, durable>>

Commit == open = {} /\ durable' = mem /\ UNCHANGED <<mem, open>>

Crash == mem' = durable /\ open' = {} /\ UNCHANGED durable

Next == \/ \E o \in Ops : \/ Begin(o) \/ End(o)
                          \/ \E b \in Blocks, v \in Vals : Write(o, b, v)
        \/ Commit \/ Crash

Spec == Init /\ [][Next]_<<mem, durable, open>>
=============================================================================
