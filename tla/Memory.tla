------------------------------- MODULE Memory -------------------------------
(***************************************************************************)
(* What virtual memory promises processes (vm.c): each has its own pages,  *)
(* which only it changes; fork() gives the child a copy.                   *)
(***************************************************************************)
CONSTANTS Procs,
          Nothing   \* the image of a process that does not exist

VARIABLE image

Init == \E p \in Procs : \A q \in Procs \ {p} : image[q] = Nothing

\* One process changes its own image: a store, sbrk(), exec(), exit().
Change(p) == /\ image[p] # Nothing
             /\ image' = [image EXCEPT ![p] = image'[p]]

Fork(p, q) == /\ image[p] # Nothing /\ image[q] = Nothing
              /\ image' = [image EXCEPT ![q] = image[p]]

Next == \E p \in Procs : Change(p) \/ \E q \in Procs : Fork(p, q)

Spec == Init /\ [][Next]_image
=============================================================================
