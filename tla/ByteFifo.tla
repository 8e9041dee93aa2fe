------------------------------ MODULE ByteFifo ------------------------------
(***************************************************************************)
(* What a pipe promises: a first-in first-out buffer of at most PIPESIZE   *)
(* bytes.                                                                  *)
(***************************************************************************)
EXTENDS Integers, Sequences

CONSTANTS PIPESIZE, Vals

VARIABLES bytes,  \* bytes written and not yet read
          got     \* bytes the last read delivered

Init == bytes = << >> /\ got = << >>

Put(s) == /\ Len(bytes) + Len(s) <= PIPESIZE
          /\ bytes' = bytes \o s
          /\ UNCHANGED got

Get(k) == /\ got' = SubSeq(bytes, 1, k)
          /\ bytes' = SubSeq(bytes, k + 1, Len(bytes))

Next == \/ \E m \in 1 .. PIPESIZE : \E s \in [1 .. m -> Vals] : Put(s)
        \/ \E k \in 0 .. Len(bytes) : Get(k)

Spec == Init /\ [][Next]_<<bytes, got>>
=============================================================================
