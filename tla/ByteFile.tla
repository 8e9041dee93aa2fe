------------------------------ MODULE ByteFile ------------------------------
(***************************************************************************)
(* What fileread() and filewrite() promise (file.c): a file is a sequence  *)
(* of bytes with an offset, at which a read reads and a write replaces or  *)
(* appends, and which both move; a read delivers what is there.            *)
(***************************************************************************)
EXTENDS Naturals, Sequences

CONSTANTS Files, Bytes, MaxLen

VARIABLES contents, offset,
          result     \* what the last read delivered

Init == /\ contents = [i \in Files |-> << >>] /\ offset = [i \in Files |-> 0]
        /\ result = << >>

\* n copies of v written to c at off.
Overlay(c, off, n, v) ==
  [j \in 1 .. (IF off + n > Len(c) THEN off + n ELSE Len(c)) |->
     IF j > off /\ j <= off + n THEN v ELSE c[j]]

Write(i, n, v) == /\ offset[i] + n <= MaxLen
                  /\ contents' = [contents EXCEPT ![i] = Overlay(@, offset[i], n, v)]
                  /\ offset' = [offset EXCEPT ![i] = @ + n] /\ UNCHANGED result

Read(i, n) == /\ offset[i] + n <= Len(contents[i])
              /\ result' = SubSeq(contents[i], offset[i] + 1, offset[i] + n)
              /\ offset' = [offset EXCEPT ![i] = @ + n] /\ UNCHANGED contents

Reopen(i) == offset' = [offset EXCEPT ![i] = 0] /\ UNCHANGED <<contents, result>>

Truncate(i) == /\ contents' = [contents EXCEPT ![i] = << >>]
               /\ offset' = [offset EXCEPT ![i] = 0] /\ UNCHANGED result

Next == \E i \in Files :
          \/ Reopen(i) \/ Truncate(i)
          \/ \E n \in 0 .. MaxLen : Read(i, n) \/ \E v \in Bytes : Write(i, n, v)

Spec == Init /\ [][Next]_<<contents, offset, result>>
=============================================================================
