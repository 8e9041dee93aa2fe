----------------------------- MODULE BlockStore -----------------------------
(***************************************************************************)
(* What the buffer cache promises the file system (bio.c): a block has one *)
(* holder at a time, who sees the contents last written to it and may      *)
(* change them.                                                            *)
(***************************************************************************)
CONSTANTS Threads, Blocks, Vals

VARIABLES contents, holders

Init == /\ contents \in [Blocks -> Vals]
        /\ holders = [k \in Blocks |-> {}]

Hold(t, k) == /\ holders[k] = {}
              /\ holders' = [holders EXCEPT ![k] = {t}]
              /\ UNCHANGED contents

Write(t, k, v) == /\ holders[k] = {t}
                  /\ contents' = [contents EXCEPT ![k] = v]
                  /\ UNCHANGED holders

Release(t, k) == /\ holders[k] = {t}
                 /\ holders' = [holders EXCEPT ![k] = {}]
                 /\ UNCHANGED contents

Next == \E t \in Threads, k \in Blocks :
          Hold(t, k) \/ Release(t, k) \/ \E v \in Vals : Write(t, k, v)

Spec == Init /\ [][Next]_<<contents, holders>>
=============================================================================
