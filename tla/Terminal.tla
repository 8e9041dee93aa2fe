------------------------------ MODULE Terminal ------------------------------
(***************************************************************************)
(* What the console promises its readers (console.c): characters typed on  *)
(* the current line may be erased; a line that is ended, and a full        *)
(* buffer, are handed to the readers, each character once and in order.    *)
(***************************************************************************)
EXTENDS Naturals, Sequences

CONSTANTS Chars, Size

VARIABLES line,    \* being edited
          lines    \* handed over

Init == line = << >> /\ lines = << >>

\* A newline, control-D, and the character that fills the buffer end the line.
Ends(c) == c \in {"nl", "eof"} \/ Len(lines) + Len(line) + 1 = Size

Enter(c) == LET l == Append(line, c) IN
            /\ Len(lines) + Len(line) < Size
            /\ \/ ~Ends(c) /\ line' = l /\ UNCHANGED lines
               \/ Ends(c) /\ line' = << >> /\ lines' = lines \o l

Erase(k) == k \in 0 .. Len(line) /\ line' = SubSeq(line, 1, k) /\ UNCHANGED lines

Take(k) == /\ k \in 0 .. Len(lines)
           /\ lines' = SubSeq(lines, k + 1, Len(lines)) /\ UNCHANGED line

Next == \/ \E c \in Chars : Enter(c)
        \/ \E k \in 0 .. Size : Erase(k) \/ Take(k)

Spec == Init /\ [][Next]_<<line, lines>>
=============================================================================
