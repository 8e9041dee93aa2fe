----------------------------- MODULE EntryQueue -----------------------------
(***************************************************************************)
(* A scheduling queue (struct queue, proc.h) as the sequence of its        *)
(* entries from front to rear.  The code keeps the entries in an array of  *)
(* NPROC places and never checks that there is room, so an entry appended  *)
(* to NPROC or more entries also replaces the entry that is NPROC places   *)
(* before it.  RunQueue, with the array and its indices, implements this.  *)
(***************************************************************************)
EXTENDS Integers, Sequences

CONSTANTS NPROC, Procs, MaxSize

VARIABLE entries

Enqueue(s, p) == [j \in 1 .. Len(s) + 1 |->
                    IF (Len(s) + 1 - j) % NPROC = 0 THEN p ELSE s[j]]
Drop(s)   == Tail(s)

\* Mutant: the front entry is not moved.
Rotate_Stays(s) == s
Rotate(s) == Enqueue(Tail(s), Head(s))

Init == entries = << >>

Next == \/ \E p \in Procs : Len(entries) < MaxSize
                            /\ entries' = Enqueue(entries, p)
        \/ entries # << >> /\ entries' \in {Drop(entries), Rotate(entries)}

Spec == Init /\ [][Next]_entries
=============================================================================
