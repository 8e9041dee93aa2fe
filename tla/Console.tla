------------------------------ MODULE Console -------------------------------
(***************************************************************************)
(* The console (console.c): characters typed at the keyboard or the serial *)
(* line, the input buffer, processes that read it, and the position of the *)
(* cursor on the screen.  consoleintr() and consoleread() hold cons.lock   *)
(* except in sleep(): what they do until then or until they return is one  *)
(* action, and the way from the test of killed into sleep() another one,   *)
(* since kill() does not take cons.lock.                                   *)
(***************************************************************************)
EXTENDS Integers, Sequences, FiniteSets

CONSTANTS ConsReaders,
          INPUT_BUF,
          INDEXMOD,  \* the indexes are modulo INDEXMOD (2^32)
          MaxRead,   \* bound on the count of a read
          COLS, ROWS

\* Typed characters: a letter, newline (or return), control-D; and the editing
\* keys, backspace and control-U.
Chars == {"x", "nl", "eof"}

ASSUME ConsoleAssumption ==
  /\ INPUT_BUF \in Nat \ {0} /\ INDEXMOD \in Nat
  /\ INDEXMOD % INPUT_BUF = 0 /\ INDEXMOD > INPUT_BUF
  /\ COLS \in Nat \ {0} /\ ROWS \in Nat \ {0, 1} /\ MaxRead \in Nat \ {0}

VARIABLES ibuf, r, w, e,     \* input
          want, target,      \* the count of reader t: what is left of it, all
          cpc,               \* where reader t is, see ReadPoints
          ckilled,
          pos                \* cursor: col + COLS * row

input == <<ibuf, r, w, e>>
ConsoleVars == <<ibuf, r, w, e, want, target, cpc, ckilled, pos>>

\* out: not in consoleread(); call: before acquire(), or back from sleep(); sleep:
\* has tested killed and calls sleep() with cons.lock held; asleep: in sleep().
ReadPoints == {"out", "call", "sleep", "asleep"}

\* Nobody is on the way into sleep() with cons.lock.
Unlocked == \A t \in ConsReaders : cpc[t] # "sleep"

\* The BIOS leaves the cursor on the screen.
ConsoleInit ==
  /\ ibuf = [x \in 0 .. INPUT_BUF - 1 |-> "x"] /\ r = 0 /\ w = 0 /\ e = 0
  /\ want = [t \in ConsReaders |-> 0] /\ target = [t \in ConsReaders |-> 0]
  /\ cpc = [t \in ConsReaders |-> "out"] /\ ckilled = [t \in ConsReaders |-> FALSE]
  /\ pos \in {0, COLS * ROWS - 1}

\* x + n, or x - (-n), of unsigned numbers.
Plus(x, n) == (x + n) % INDEXMOD
Slice(x, y) == [j \in 1 .. Plus(y, -x) |-> ibuf[Plus(x, j - 1) % INPUT_BUF]]

-----------------------------------------------------------------------------
(* cgaputc().                                                              *)

\* Mutant: the screen is not scrolled.
Scrolled_Not(p) == p
\* The position after the screen is scrolled up, if it has to be.
Scrolled(p) == IF p \div COLS >= ROWS - 1 THEN p - COLS ELSE p

\* consputc(): the position after a newline, another character, n backspaces.
Newline(p) == Scrolled(p + COLS - (p % COLS))
PutChar(p) == Scrolled(p + 1)
Backspaces(p, n) == IF p > n THEN p - n ELSE 0
Echo(c) == pos' = IF c = "nl" THEN Newline(pos) ELSE PutChar(pos)

-----------------------------------------------------------------------------
(* consoleintr().                                                          *)

\* Mutant: nobody is woken.
WakeReaders_Not == cpc
\* wakeup(&input.r)
WakeReaders == [t \in ConsReaders |-> IF cpc[t] = "asleep" THEN "call" ELSE cpc[t]]

\* c, stored at e, ends the line or fills the buffer.
EndsLine(c) == c \in {"nl", "eof"} \/ Plus(e, 1) = Plus(r, INPUT_BUF)

\* Any other character.
TypeChar(c) ==
  /\ Unlocked /\ c \in Chars /\ Plus(e, -r) < INPUT_BUF
  /\ ibuf' = [ibuf EXCEPT ![e % INPUT_BUF] = c]
  /\ e' = Plus(e, 1)
  /\ Echo(c)
  /\ IF EndsLine(c) THEN w' = e' /\ cpc' = WakeReaders
                    ELSE UNCHANGED <<w, cpc>>
  /\ UNCHANGED <<r, want, target, ckilled>>

\* A character for which there is no room is dropped.
DropChar == Unlocked /\ Plus(e, -r) = INPUT_BUF /\ UNCHANGED ConsoleVars

\* Control-U: the characters back to the last newline or to w.
KillLine ==
  LET edit == Slice(w, e)
      keep == {j \in 0 .. Len(edit) : j = 0 \/ edit[j] = "nl"}
      k == CHOOSE j \in keep : \A i \in keep : i <= j
  IN /\ Unlocked /\ e # w
     /\ e' = Plus(w, k) /\ pos' = Backspaces(pos, Len(edit) - k)
     /\ UNCHANGED <<ibuf, r, w, want, target, cpc, ckilled>>

\* Mutant: backspace erases what was handed over.
CanErase_Any == e # r
CanErase == e # w

Backspace == /\ Unlocked /\ CanErase
             /\ e' = Plus(e, -1) /\ pos' = Backspaces(pos, 1)
             /\ UNCHANGED <<ibuf, r, w, want, target, cpc, ckilled>>

-----------------------------------------------------------------------------
(* consoleread().                                                          *)

CallRead(t, n) ==
  /\ cpc[t] = "out" /\ ~ckilled[t]
  /\ cpc' = [cpc EXCEPT ![t] = "call"]
  /\ want' = [want EXCEPT ![t] = n] /\ target' = [target EXCEPT ![t] = n]
  /\ UNCHANGED <<input, ckilled, pos>>

\* The reader t returns, or goes on at point.
Reads(t, k, point) ==
  /\ r' = Plus(r, k)
  /\ cpc' = [cpc EXCEPT ![t] = point]
  /\ want' = [want EXCEPT ![t] = IF point = "out" THEN 0 ELSE want[t] - k]
  /\ target' = [target EXCEPT ![t] = IF point = "out" THEN 0 ELSE @]
  /\ UNCHANGED <<ibuf, w, e, ckilled, pos>>

\* From acquire(&cons.lock), or the return of sleep(), on.
ConsRead(t) ==
  LET avail == Slice(r, w)
      stops == {j \in 1 .. Len(avail) : j <= want[t] /\ avail[j] \in {"nl", "eof"}}
      stop  == CHOOSE j \in stops : \A i \in stops : j <= i
      begun == want[t] < target[t]
  IN /\ cpc[t] = "call" /\ Unlocked
     /\ \/ /\ stops # {} /\ avail[stop] = "nl" /\ Reads(t, stop, "out")
        \/ /\ stops # {} /\ avail[stop] = "eof"
           /\ Reads(t, IF begun \/ stop > 1 THEN stop - 1 ELSE stop, "out")
        \/ stops = {} /\ Len(avail) >= want[t] /\ Reads(t, want[t], "out")
        \/ /\ stops = {} /\ Len(avail) < want[t]
           /\ Reads(t, Len(avail), IF ckilled[t] THEN "out" ELSE "sleep")

\* sleep(&input.r, &cons.lock): killed is not tested again.
ReaderSleeps(t) == /\ cpc[t] = "sleep" /\ cpc' = [cpc EXCEPT ![t] = "asleep"]
                   /\ UNCHANGED <<input, want, target, ckilled, pos>>

\* kill(): mark t and wake it.
KillReader(t) == /\ ~ckilled[t] /\ ckilled' = [ckilled EXCEPT ![t] = TRUE]
                 /\ cpc' = [cpc EXCEPT ![t] = IF @ = "asleep" THEN "call" ELSE @]
                 /\ UNCHANGED <<input, want, target, pos>>

ConsoleNext == \/ \E c \in Chars : TypeChar(c)
               \/ DropChar \/ KillLine \/ Backspace
               \/ \E t \in ConsReaders : \/ ConsRead(t) \/ ReaderSleeps(t) \/ KillReader(t)
                                         \/ \E n \in 1 .. MaxRead : CallRead(t, n)

ConsoleSpec == ConsoleInit /\ [][ConsoleNext]_ConsoleVars

-----------------------------------------------------------------------------
(* Properties.                                                             *)

\* Every variable stays in its range.
ConsoleTypeOK ==
  /\ ibuf \in [0 .. INPUT_BUF - 1 -> Chars]
  /\ {r, w, e} \subseteq 0 .. INDEXMOD - 1
  /\ want \in [ConsReaders -> 0 .. MaxRead] /\ target \in [ConsReaders -> 0 .. MaxRead]
  /\ cpc \in [ConsReaders -> ReadPoints] /\ ckilled \in [ConsReaders -> BOOLEAN]
  /\ pos \in 0 .. COLS * ROWS - 1

\* The input buffer is a line being edited and the lines handed over, also when
\* the indexes wrap around, however reads, edits and a full buffer alternate.
Tty == INSTANCE Terminal WITH Size <- INPUT_BUF,
                              lines <- Slice(r, w), line <- Slice(w, e)
ImplementsTerminal == Tty!Spec

\* No wakeup is lost between the interrupts that fill the buffer and the readers that
\* empty it: who sleeps, or has decided to, has nothing to read.  (A kill that comes
\* between the test of killed and sleep() is not noticed before the next line.)
ReadersWait == \A t \in ConsReaders : cpc[t] \in {"sleep", "asleep"} => r = w
=============================================================================
