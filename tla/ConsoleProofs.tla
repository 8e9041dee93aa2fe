---------------------------- MODULE ConsoleProofs ---------------------------
(***************************************************************************)
(* The console for any readers, any size of the input buffer and of the    *)
(* screen: indexes and cursor stay in range, no reader sleeps while there  *)
(* is something to read, and the buffer is a line being edited behind the  *)
(* lines handed over.                                                      *)
(***************************************************************************)
EXTENDS Console, RingArithmetic, WellFoundedInduction, TLAPS

\* The number of characters handed over and not read, and of those being edited.
Handed == Plus(w, -r)
Edited == Plus(e, -w)

\* The buffer holds both.
FitsInv == Handed + Edited <= INPUT_BUF

ConsoleInv == ConsoleTypeOK /\ FitsInv /\ ReadersWait

-----------------------------------------------------------------------------
(* Indexes: unsigned numbers modulo INDEXMOD.                              *)

LEMMA BufSizes ==
  /\ INPUT_BUF \in Nat \ {0} /\ INDEXMOD \in Nat \ {0}
  /\ INDEXMOD % INPUT_BUF = 0 /\ INPUT_BUF < INDEXMOD
BY ConsoleAssumption

LEMMA PlusType ==
  ASSUME NEW x \in Int, NEW n \in Int PROVE Plus(x, n) \in 0 .. INDEXMOD - 1
BY BufSizes DEF Plus

LEMMA PlusSmall ==
  ASSUME NEW x \in 0 .. INDEXMOD - 1 PROVE Plus(x, 0) = x
BY BufSizes DEF Plus

LEMMA NoDistance ==
  ASSUME NEW x \in 0 .. INDEXMOD - 1 PROVE Plus(x, -x) = 0
BY BufSizes DEF Plus

LEMMA PlusPlus ==
  ASSUME NEW x \in Int, NEW a \in Int, NEW b \in Int
  PROVE  Plus(Plus(x, a), b) = Plus(x, a + b)
<1>1. INDEXMOD \in Nat \ {0}
  BY BufSizes
<1>2. PICK z \in Int : z = x + a
  OBVIOUS
<1>3. ((z % INDEXMOD) + b) % INDEXMOD = (z + b) % INDEXMOD
  BY <1>1, StepAround, Zenon
<1>4. z + b = x + (a + b)
  BY <1>2
<1> QED BY <1>2, <1>3, <1>4 DEF Plus

\* The distance to the place d behind x is d.
LEMMA PlusDistance ==
  ASSUME NEW x \in 0 .. INDEXMOD - 1, NEW d \in 0 .. INDEXMOD - 1
  PROVE  Plus(Plus(x, d), -x) = d
<1>1. x \in Int /\ d \in Int /\ -x \in Int /\ d + (-x) \in Int
  BY BufSizes
<1>2. Plus(Plus(x, d), -x) = Plus(x, d + (-x))
  BY <1>1, PlusPlus
<1>3. x + (d + (-x)) = d /\ d % INDEXMOD = d
  BY BufSizes
<1> QED BY <1>2, <1>3 DEF Plus

\* y is at its distance behind x.
LEMMA PlusBack ==
  ASSUME NEW x \in 0 .. INDEXMOD - 1, NEW y \in 0 .. INDEXMOD - 1
  PROVE  Plus(x, Plus(y, -x)) = y
<1>1. x \in Int /\ y \in Int /\ -x \in Int
  BY BufSizes
<1>2. PICK d \in Int : d = Plus(y, -x)
  BY <1>1, BufSizes DEF Plus
<1>3. Plus(x, d) = Plus(d, x)
  BY <1>1, <1>2 DEF Plus
<1>4. Plus(d, x) = Plus(y, (-x) + x)
  BY <1>1, <1>2, PlusPlus
<1>5. (-x) + x = 0
  BY <1>1
<1> QED BY <1>2, <1>3, <1>4, <1>5, PlusSmall

\* What the code computes from r, w and e when the buffer is in order.
LEMMA Indexes ==
  ASSUME ConsoleTypeOK, FitsInv
  PROVE  /\ r \in 0 .. INDEXMOD - 1 /\ w \in 0 .. INDEXMOD - 1 /\ e \in 0 .. INDEXMOD - 1
         /\ Handed \in Nat /\ Edited \in Nat /\ Handed + Edited <= INPUT_BUF
         /\ w = Plus(r, Handed) /\ e = Plus(w, Edited) /\ e = Plus(r, Handed + Edited)
         /\ Plus(e, -r) = Handed + Edited
<1>1. r \in 0 .. INDEXMOD - 1 /\ w \in 0 .. INDEXMOD - 1 /\ e \in 0 .. INDEXMOD - 1
  BY DEF ConsoleTypeOK
<1>2. r \in Int /\ w \in Int /\ e \in Int
  BY <1>1, BufSizes
<1>3. Handed \in 0 .. INDEXMOD - 1 /\ Edited \in 0 .. INDEXMOD - 1
  BY <1>2, BufSizes, PlusType DEF Handed, Edited
<1>4. w = Plus(r, Handed) /\ e = Plus(w, Edited)
  BY <1>1, PlusBack, Zenon DEF Handed, Edited
<1>5. e = Plus(r, Handed + Edited)
  BY <1>2, <1>3, <1>4, BufSizes, PlusPlus
<1>6. Handed + Edited \in 0 .. INDEXMOD - 1
  BY <1>3, BufSizes DEF FitsInv
<1>7. Plus(e, -r) = Handed + Edited
  BY <1>1, <1>5, <1>6, PlusDistance
<1> QED BY <1>1, <1>3, <1>4, <1>5, <1>7, BufSizes DEF FitsInv

-----------------------------------------------------------------------------
(* The loops of consoleintr() and consoleread() that look for a character: *)
(* what they choose exists.                                                *)

LEMMA Smallest ==
  ASSUME NEW T, T \subseteq Nat, T # {} PROVE \E x \in T : \A y \in T : x <= y
<1>1. IsWellFoundedOn(OpToRel(<, Nat), Nat)
  BY NatLessThanWellFounded
<1> DEFINE R == OpToRel(<, Nat)
<1>2. \A x, y \in Nat : <<y, x>> \in R <=> y < x
  BY DEF OpToRel
<1> HIDE DEF R
<1>3. PICK x \in T : \A y \in T : ~(<<y, x>> \in R)
  BY <1>1, WFMin DEF R
<1>4. \A y \in T : x \in Nat /\ y \in Nat /\ ~(y < x)
  BY <1>2, <1>3, Zenon
<1>5. \A y \in T : x <= y
  BY <1>4
<1> QED BY <1>5

LEMMA Largest ==
  ASSUME NEW n \in Nat, NEW T, T \subseteq 0 .. n, T # {}
  PROVE  \E x \in T : \A y \in T : y <= x
<1> DEFINE U == {u \in 0 .. n : n - u \in T}
<1>1. \A y \in T : y \in 0 .. n /\ n - y \in 0 .. n /\ n - (n - y) = y
  OBVIOUS
<1>2. U \subseteq Nat /\ U # {}
  <2>1. PICK y \in T : TRUE
    BY Zenon
  <2>2. n - y \in 0 .. n /\ n - (n - y) \in T
    BY <1>1, <2>1
  <2>3. n - y \in U
    BY <2>2
  <2>4. U # {}
    BY <2>3, Zenon
  <2>5. U \subseteq Nat
    OBVIOUS
  <2> QED BY <2>4, <2>5
<1>3. PICK u \in U : \A v \in U : u <= v
  BY <1>2, Smallest, Zenon
<1>4. \A y \in T : u <= n - y
  BY <1>1, <1>3
<1>5. n - u \in T /\ u \in Int
  OBVIOUS
<1>6. \A y \in T : y <= n - u
  BY <1>1, <1>4, <1>5
<1> QED BY <1>5, <1>6

LEMMA SliceLength ==
  ASSUME NEW x \in Int, NEW y \in Int
  PROVE  Len(Slice(x, y)) = Plus(y, -x)
<1>1. Plus(y, -x) \in Nat
  BY PlusType, BufSizes
<1> QED BY <1>1 DEF Slice

\* Control-U keeps a beginning of the line.
LEMMA KillLineKeeps ==
  ASSUME ConsoleInv, KillLine
  PROVE  \E k \in 0 .. Edited : e' = Plus(w, k) /\ pos' = Backspaces(pos, Edited - k)
<1> DEFINE edit == Slice(w, e)
           keep == {j \in 0 .. Len(edit) : j = 0 \/ edit[j] = "nl"}
           k == CHOOSE j \in keep : \A i \in keep : i <= j
<1>1. Len(edit) = Edited /\ Edited \in Nat
  BY Indexes, SliceLength, BufSizes DEF ConsoleInv, Edited
<1>2. e' = Plus(w, k) /\ pos' = Backspaces(pos, Len(edit) - k)
  BY DEF KillLine
<1>3. k \in keep
  <2>1. keep \subseteq 0 .. Edited /\ keep # {}
    BY <1>1
  <2> HIDE DEF keep
  <2>2. \E j \in keep : \A i \in keep : i <= j
    BY <1>1, <2>1, Largest, Zenon
  <2> QED BY <2>2
<1>4. k \in 0 .. Edited
  BY <1>1, <1>3
<1> QED BY <1>1, <1>2, <1>4, Zenon

\* A reader takes characters that were handed over; it goes to sleep when it has
\* taken them all.
LEMMA ConsReadTakes ==
  ASSUME ConsoleInv, NEW t \in ConsReaders, ConsRead(t)
  PROVE  \E k \in 0 .. Handed, point \in {"out", "sleep"} :
           /\ Reads(t, k, point) /\ k <= want[t]
           /\ point = "sleep" => k = Handed
<1> DEFINE avail == Slice(r, w)
           stops == {j \in 1 .. Len(avail) : j <= want[t] /\ avail[j] \in {"nl", "eof"}}
           stop  == CHOOSE j \in stops : \A i \in stops : j <= i
           begun == want[t] < target[t]
<1>1. Len(avail) = Handed /\ Handed \in Nat /\ want[t] \in Nat
  <2>1. r \in Int /\ w \in Int /\ Handed \in Nat
    BY Indexes, BufSizes DEF ConsoleInv
  <2>2. want[t] \in Nat
    BY ConsoleAssumption DEF ConsoleInv, ConsoleTypeOK
  <2> QED BY <2>1, <2>2, SliceLength DEF Handed
<1>2. \/ stops # {} /\ Reads(t, stop, "out")
      \/ stops # {} /\ Reads(t, IF begun \/ stop > 1 THEN stop - 1 ELSE stop, "out")
      \/ stops = {} /\ Len(avail) >= want[t] /\ Reads(t, want[t], "out")
      \/ /\ stops = {} /\ Len(avail) < want[t]
         /\ Reads(t, Len(avail), IF ckilled[t] THEN "out" ELSE "sleep")
  BY DEF ConsRead
<1>3. ASSUME stops # {} PROVE stop \in 1 .. Handed /\ stop <= want[t]
  <2>1. stops \subseteq Nat
    BY <1>1
  <2>2. stop \in stops
    <3> HIDE DEF stops
    <3>1. \E j \in stops : \A i \in stops : j <= i
      BY <1>3, <2>1, Smallest, Zenon
    <3> QED BY <3>1
  <2> QED BY <1>1, <2>2, Zenon
<1> HIDE DEF stops, stop, begun, avail
<1>4. CASE stops # {} /\ Reads(t, stop, "out")
  BY <1>1, <1>3, <1>4
<1>5. CASE stops # {} /\ Reads(t, IF begun \/ stop > 1 THEN stop - 1 ELSE stop, "out")
  <2>1. CASE begun \/ stop > 1
    <3>1. stop - 1 \in 0 .. Handed /\ stop - 1 <= want[t]
      BY <1>1, <1>3, <1>5
    <3> QED BY <1>5, <2>1, <3>1
  <2>2. CASE ~(begun \/ stop > 1)
    BY <1>1, <1>3, <1>5, <2>2
  <2> QED BY <2>1, <2>2
<1>6. CASE stops = {} /\ Len(avail) >= want[t] /\ Reads(t, want[t], "out")
  BY <1>1, <1>6
<1>7. CASE /\ stops = {} /\ Len(avail) < want[t]
           /\ Reads(t, Len(avail), IF ckilled[t] THEN "out" ELSE "sleep")
  <2>1. Handed \in 0 .. Handed /\ Handed <= want[t]
    BY <1>1, <1>7
  <2>2. CASE ckilled[t]
    BY <1>1, <1>7, <2>1, <2>2
  <2>3. CASE ~ckilled[t]
    BY <1>1, <1>7, <2>1, <2>3
  <2> QED BY <2>2, <2>3
<1> QED BY <1>2, <1>4, <1>5, <1>6, <1>7

-----------------------------------------------------------------------------
(* cgaputc() keeps the cursor on the screen.                               *)

OnScreen == 0 .. COLS * ROWS - 1

\* After a scroll the position is on the screen, if it was on the line below at most.
LEMMA ScrolledOnScreen ==
  ASSUME NEW p \in Nat, p - COLS < COLS * ROWS
  PROVE  Scrolled(p) \in OnScreen
<1>1. COLS \in Nat \ {0} /\ ROWS \in Nat /\ ROWS >= 2 /\ COLS * ROWS \in Nat
  BY ConsoleAssumption
<1>2. PICK q \in Int, z \in Int : q = p \div COLS /\ z = p % COLS
  BY <1>1
<1>3. p = COLS * q + z /\ 0 <= z /\ z < COLS
  BY <1>1, <1>2
<1>4. CASE q >= ROWS - 1
  <2>1. q >= 1
    BY <1>1, <1>4
  <2>2. COLS * q >= COLS
    BY <1>1, <2>1
  <2>3. p - COLS \in Nat
    BY <1>1, <1>3, <2>2
  <2> QED BY <1>1, <1>2, <1>4, <2>3 DEF Scrolled, OnScreen
<1>5. CASE q < ROWS - 1
  <2>1. ROWS >= q + 1
    BY <1>1, <1>5
  <2>2. COLS * ROWS >= COLS * (q + 1)
    BY <1>1, <2>1
  <2>3. COLS * (q + 1) = COLS * q + COLS
    BY <1>1
  <2>4. p < COLS * ROWS
    BY <1>1, <1>3, <2>2, <2>3
  <2> QED BY <1>1, <1>2, <1>5, <2>4 DEF Scrolled, OnScreen
<1> QED BY <1>1, <1>4, <1>5

LEMMA CursorOnScreen ==
  ASSUME pos \in OnScreen
  PROVE  /\ \A c \in Chars : Echo(c) => pos' \in OnScreen
         /\ \A n \in Nat : Backspaces(pos, n) \in OnScreen
<1>1. COLS \in Nat \ {0} /\ COLS * ROWS \in Nat /\ pos \in Nat /\ pos < COLS * ROWS
  BY ConsoleAssumption DEF OnScreen
<1>2. PutChar(pos) \in OnScreen
  <2>1. pos + 1 \in Nat /\ (pos + 1) - COLS < COLS * ROWS
    BY <1>1
  <2> QED BY <2>1, ScrolledOnScreen DEF PutChar
<1>3. Newline(pos) \in OnScreen
  <2>1. pos % COLS \in 0 .. COLS - 1
    BY <1>1
  <2>2. pos + COLS - (pos % COLS) \in Nat /\ (pos + COLS - (pos % COLS)) - COLS < COLS * ROWS
    BY <1>1, <2>1
  <2> QED BY <2>2, ScrolledOnScreen DEF Newline
<1>4. \A n \in Nat : Backspaces(pos, n) \in OnScreen
  BY <1>1 DEF Backspaces, OnScreen
<1> QED BY <1>2, <1>3, <1>4 DEF Echo

-----------------------------------------------------------------------------
(* The steps.                                                              *)

LEMMA InitConsole == ConsoleInit => ConsoleInv
<1> SUFFICES ASSUME ConsoleInit PROVE ConsoleInv
  OBVIOUS
<1>1. COLS * ROWS - 1 \in Nat
  <2>1. COLS >= 1 /\ ROWS >= 1 /\ COLS \in Nat /\ ROWS \in Nat
    BY ConsoleAssumption
  <2> QED BY <2>1
<1>2. Handed = 0 /\ Edited = 0
  BY BufSizes DEF ConsoleInit, Handed, Edited, Plus
<1>3. ConsoleTypeOK
  BY <1>1, BufSizes, ConsoleAssumption DEF ConsoleInit, ConsoleTypeOK, Chars, ReadPoints
<1> QED BY <1>2, <1>3, BufSizes DEF ConsoleInit, ConsoleInv, FitsInv, ReadersWait

\* consoleintr() with a character for which there is room: it lengthens the line,
\* or hands everything over.
LEMMA TypeCharIndexes ==
  ASSUME ConsoleInv, NEW c \in Chars, TypeChar(c)
  PROVE  /\ Handed + Edited < INPUT_BUF /\ e' \in 0 .. INDEXMOD - 1 /\ r' = r
         /\ \/ /\ w' = w /\ cpc' = cpc /\ Handed' = Handed /\ Edited' = Edited + 1
               /\ ~EndsLine(c)
            \/ /\ w' = e' /\ cpc' = WakeReaders
               /\ Handed' = Handed + Edited + 1 /\ Edited' = 0
               /\ EndsLine(c)
<1>1. /\ r \in 0 .. INDEXMOD - 1 /\ w \in 0 .. INDEXMOD - 1 /\ e \in 0 .. INDEXMOD - 1
      /\ Handed \in Nat /\ Edited \in Nat /\ e = Plus(w, Edited)
      /\ e = Plus(r, Handed + Edited) /\ Plus(e, -r) = Handed + Edited
  BY Indexes DEF ConsoleInv
<1>2. Handed + Edited < INPUT_BUF /\ e' = Plus(e, 1) /\ r' = r
  BY <1>1 DEF TypeChar
<1>3. PICK h \in Nat, d \in Nat, x \in Nat : h = Handed /\ d = Edited + 1 /\ x = Handed + Edited + 1
  BY <1>1
<1>4. r \in Int /\ w \in Int /\ d \in 0 .. INDEXMOD - 1 /\ x \in 0 .. INDEXMOD - 1
  BY <1>1, <1>2, <1>3, BufSizes
<1>5. e' = Plus(w, d) /\ e' = Plus(r, x)
  <2>1. PICK m \in Int, n \in Int, o \in Int : m = Edited /\ n = Handed + Edited /\ o = 1
    BY <1>1
  <2>2. Plus(Plus(w, m), o) = Plus(w, m + o)
    BY <1>4, PlusPlus
  <2>3. Plus(Plus(r, n), o) = Plus(r, n + o)
    BY <1>4, PlusPlus
  <2>4. d = m + o /\ x = n + o
    BY <1>1, <1>3, <2>1
  <2> QED BY <1>1, <1>2, <2>1, <2>2, <2>3, <2>4, Zenon
<1>6. Plus(e', -w) = d /\ Plus(e', -r) = x
  BY <1>1, <1>4, <1>5, PlusDistance, Zenon
<1>7. e' \in 0 .. INDEXMOD - 1
  BY <1>4, <1>5, PlusType
<1>8. CASE w' = w /\ cpc' = cpc /\ ~EndsLine(c)
  BY <1>2, <1>3, <1>6, <1>7, <1>8, Zenon DEF Handed, Edited, Plus
<1>9. CASE w' = e' /\ cpc' = WakeReaders /\ EndsLine(c)
  <2>1. Plus(e', -e') = 0
    BY <1>7, NoDistance
  <2> QED BY <1>2, <1>3, <1>6, <1>7, <1>9, <2>1, Zenon DEF Handed, Edited, Plus
<1> QED BY <1>8, <1>9 DEF TypeChar

\* The buffer is full when e has come round to r.
LEMMA EndsLineFull ==
  ASSUME ConsoleInv, NEW c, Handed + Edited < INPUT_BUF
  PROVE  EndsLine(c) <=> c \in {"nl", "eof"} \/ Handed + Edited + 1 = INPUT_BUF
<1>1. /\ r \in 0 .. INDEXMOD - 1 /\ r \in Int /\ Handed \in Nat /\ Edited \in Nat
      /\ e = Plus(r, Handed + Edited)
  BY Indexes, BufSizes DEF ConsoleInv
<1>2. PICK n \in Int, o \in Int, x \in Int : n = Handed + Edited /\ o = 1 /\ x = Handed + Edited + 1
  BY <1>1
<1>3. Plus(e, 1) = Plus(r, x)
  <2>1. Plus(Plus(r, n), o) = Plus(r, n + o)
    BY <1>1, PlusPlus
  <2>2. n + o = x
    BY <1>1, <1>2
  <2> QED BY <1>1, <1>2, <2>1, <2>2, Zenon
<1>4. x \in 0 .. INDEXMOD - 1 /\ INPUT_BUF \in 0 .. INDEXMOD - 1
  BY <1>1, <1>2, BufSizes
<1>5. Plus(Plus(r, x), -r) = x /\ Plus(Plus(r, INPUT_BUF), -r) = INPUT_BUF
  BY <1>1, <1>4, PlusDistance, Zenon
<1>6. Plus(r, x) = Plus(r, INPUT_BUF) <=> x = INPUT_BUF
  BY <1>5, Zenon
<1> QED BY <1>2, <1>3, <1>6, Zenon DEF EndsLine

LEMMA TypeCharInv ==
  ASSUME ConsoleInv, NEW c \in Chars, TypeChar(c) PROVE ConsoleInv'
<1>1. /\ Handed + Edited < INPUT_BUF /\ e' \in 0 .. INDEXMOD - 1 /\ r' = r
      /\ \/ /\ w' = w /\ cpc' = cpc /\ Handed' = Handed /\ Edited' = Edited + 1
         \/ /\ w' = e' /\ cpc' = WakeReaders
            /\ Handed' = Handed + Edited + 1 /\ Edited' = 0
  BY TypeCharIndexes, Zenon
<1>2. Handed \in Nat /\ Edited \in Nat
  BY Indexes DEF ConsoleInv
<1>3. /\ ibuf' \in [0 .. INPUT_BUF - 1 -> Chars]
      /\ want' = want /\ target' = target /\ ckilled' = ckilled /\ Echo(c)
  BY Zenon DEF TypeChar, ConsoleInv, ConsoleTypeOK
<1>4. pos' \in 0 .. COLS * ROWS - 1
  BY <1>3, CursorOnScreen, Zenon DEF OnScreen, ConsoleInv, ConsoleTypeOK
<1>5. /\ cpc' \in [ConsReaders -> ReadPoints]
      /\ (w' = w /\ cpc' = cpc) \/ \A t \in ConsReaders : cpc'[t] \notin {"sleep", "asleep"}
  <2>1. Unlocked
    BY DEF TypeChar
  <2>2. CASE cpc' = WakeReaders
    <3>1. ASSUME NEW t \in ConsReaders PROVE cpc'[t] \in ReadPoints \ {"sleep", "asleep"}
      BY <2>1, <2>2, <3>1 DEF WakeReaders, Unlocked, ConsoleInv, ConsoleTypeOK, ReadPoints
    <3> QED BY <2>2, <3>1, Zenon DEF WakeReaders
  <2> QED BY <1>1, <2>2, Zenon DEF ConsoleInv, ConsoleTypeOK
<1>6. ConsoleTypeOK'
  BY <1>1, <1>3, <1>4, <1>5, Zenon DEF ConsoleInv, ConsoleTypeOK
<1>7. FitsInv'
  BY <1>1, <1>2, BufSizes DEF FitsInv
<1>8. ReadersWait'
  BY <1>1, <1>3, <1>5, Zenon DEF ConsoleInv, ReadersWait
<1> QED BY <1>6, <1>7, <1>8 DEF ConsoleInv

\* Backspace and control-U shorten the line that is being edited.
LEMMA EraseIndexes ==
  ASSUME ConsoleInv, NEW k \in 0 .. Edited, e' = Plus(w, k), r' = r, w' = w
  PROVE  e' \in 0 .. INDEXMOD - 1 /\ Handed' = Handed /\ Edited' = k
<1>1. w \in 0 .. INDEXMOD - 1 /\ w \in Int /\ Handed \in Nat /\ Edited \in Nat /\ Edited < INDEXMOD
  BY Indexes, BufSizes DEF ConsoleInv
<1>2. k \in 0 .. INDEXMOD - 1 /\ k \in Int
  BY <1>1, BufSizes
<1>3. Plus(e', -w) = k /\ e' \in 0 .. INDEXMOD - 1
  BY <1>1, <1>2, PlusDistance, PlusType
<1> QED BY <1>3, Zenon DEF Handed, Edited, Plus

LEMMA BackspaceKeeps ==
  ASSUME ConsoleInv, Backspace
  PROVE  Edited - 1 \in 0 .. Edited /\ e' = Plus(w, Edited - 1)
<1>1. w \in 0 .. INDEXMOD - 1 /\ w \in Int /\ Edited \in Nat /\ e = Plus(w, Edited)
  BY Indexes, BufSizes DEF ConsoleInv
<1>2. Edited # 0
  BY <1>1, PlusSmall, Zenon DEF Backspace, CanErase
<1>3. e' = Plus(Plus(w, Edited), -1)
  BY <1>1 DEF Backspace
<1>4. Plus(Plus(w, Edited), -1) = Plus(w, Edited + (-1))
  <2>1. PICK m \in Int, n \in Int : m = Edited /\ n = -1
    BY <1>1
  <2>2. Plus(Plus(w, m), n) = Plus(w, m + n)
    BY <1>1, PlusPlus
  <2> QED BY <2>1, <2>2
<1>5. Edited + (-1) = Edited - 1
  BY <1>1
<1> QED BY <1>1, <1>2, <1>3, <1>4, <1>5

LEMMA EraseInv ==
  ASSUME ConsoleInv, NEW k \in 0 .. Edited, e' = Plus(w, k), NEW n \in Nat,
         pos' = Backspaces(pos, n), UNCHANGED <<ibuf, r, w, want, target, cpc, ckilled>>
  PROVE  ConsoleInv'
<1>1. e' \in 0 .. INDEXMOD - 1 /\ Handed' = Handed /\ Edited' = k
  BY EraseIndexes
<1>2. pos' \in 0 .. COLS * ROWS - 1
  BY CursorOnScreen, Zenon DEF OnScreen, ConsoleInv, ConsoleTypeOK
<1>3. ConsoleTypeOK'
  BY <1>1, <1>2, Zenon DEF ConsoleInv, ConsoleTypeOK
<1>4. FitsInv'
  BY <1>1, BufSizes, Indexes DEF ConsoleInv, FitsInv
<1> QED BY <1>3, <1>4, Zenon DEF ConsoleInv, ReadersWait

\* consoleread() takes k characters from the front.
LEMMA ReadIndexes ==
  ASSUME ConsoleInv, NEW k \in 0 .. Handed, r' = Plus(r, k), w' = w, e' = e
  PROVE  r' \in 0 .. INDEXMOD - 1 /\ Handed' = Handed - k /\ Edited' = Edited
<1>1. /\ r \in 0 .. INDEXMOD - 1 /\ r \in Int /\ Handed \in Nat /\ Handed < INDEXMOD
      /\ w = Plus(r, Handed)
  BY Indexes, BufSizes DEF ConsoleInv
<1>2. PICK d \in Int : d = Handed - k
  BY <1>1
<1>3. d \in 0 .. INDEXMOD - 1 /\ k \in Int /\ k + d = Handed
  BY <1>1, <1>2, BufSizes
<1>4. r' \in 0 .. INDEXMOD - 1
  BY <1>1, <1>3, PlusType
<1>5. Plus(r', d) = w
  <2>1. Plus(Plus(r, k), d) = Plus(r, k + d)
    BY <1>1, <1>3, PlusPlus
  <2> QED BY <1>1, <1>3, <2>1
<1>6. Plus(w, -r') = d
  BY <1>3, <1>4, <1>5, PlusDistance
<1> QED BY <1>2, <1>4, <1>6, Zenon DEF Handed, Edited, Plus

LEMMA ReadInv ==
  ASSUME ConsoleInv, NEW t \in ConsReaders, ConsRead(t) PROVE ConsoleInv'
<1>1. PICK k \in 0 .. Handed, point \in {"out", "sleep"} :
        /\ Reads(t, k, point) /\ k <= want[t]
        /\ point = "sleep" => k = Handed
  BY ConsReadTakes
<1>2. /\ r' = Plus(r, k) /\ w' = w /\ e' = e /\ ibuf' = ibuf /\ ckilled' = ckilled /\ pos' = pos
      /\ cpc' = [cpc EXCEPT ![t] = point]
      /\ want' = [want EXCEPT ![t] = IF point = "out" THEN 0 ELSE want[t] - k]
      /\ target' = [target EXCEPT ![t] = IF point = "out" THEN 0 ELSE @]
  BY <1>1 DEF Reads
<1>3. r' \in 0 .. INDEXMOD - 1 /\ Handed' = Handed - k /\ Edited' = Edited
  BY <1>2, ReadIndexes
<1>4. Handed \in Nat /\ Edited \in Nat /\ k \in Nat /\ r \in 0 .. INDEXMOD - 1
  BY Indexes DEF ConsoleInv
<1>5. want' \in [ConsReaders -> 0 .. MaxRead] /\ target' \in [ConsReaders -> 0 .. MaxRead]
  <2>1. want[t] \in 0 .. MaxRead /\ MaxRead \in Nat
    BY ConsoleAssumption, Zenon DEF ConsoleInv, ConsoleTypeOK
  <2>2. want[t] - k \in 0 .. MaxRead /\ 0 \in 0 .. MaxRead
    BY <1>1, <1>4, <2>1
  <2> QED BY <1>2, <2>2, Zenon DEF ConsoleInv, ConsoleTypeOK
<1>6. ConsoleTypeOK'
  BY <1>2, <1>3, <1>5, Zenon DEF ConsoleInv, ConsoleTypeOK, ReadPoints
<1>7. FitsInv'
  BY <1>3, <1>4, BufSizes DEF ConsoleInv, FitsInv
<1>8. ReadersWait'
  <2> SUFFICES ASSUME NEW u \in ConsReaders, cpc'[u] \in {"sleep", "asleep"} PROVE r' = w'
    BY DEF ReadersWait
  <2>1. CASE u = t
    <3>1. cpc'[t] = point
      BY <1>2, Zenon DEF ConsoleInv, ConsoleTypeOK
    <3>2. k = Handed
      BY <1>1, <2>1, <3>1
    <3>3. r' = w
      BY <1>2, <3>2, Indexes DEF ConsoleInv
    <3> QED BY <1>2, <3>3
  <2>2. CASE u # t
    <3>1. r = w
      BY <1>2, <2>2, Zenon DEF ConsoleInv, ConsoleTypeOK, ReadersWait
    <3>2. Handed = 0
      BY <1>4, <3>1, BufSizes DEF Handed, Plus
    <3>3. r' = r
      BY <1>2, <1>4, <3>2, PlusSmall
    <3> QED BY <1>2, <3>1, <3>3
  <2> QED BY <2>1, <2>2
<1> QED BY <1>6, <1>7, <1>8 DEF ConsoleInv

LEMMA NextConsole == ConsoleInv /\ [ConsoleNext]_ConsoleVars => ConsoleInv'
<1> SUFFICES ASSUME ConsoleInv, [ConsoleNext]_ConsoleVars PROVE ConsoleInv'
  OBVIOUS
<1>1. ASSUME UNCHANGED ConsoleVars PROVE ConsoleInv'
  BY <1>1, Zenon DEF ConsoleVars, ConsoleInv, ConsoleTypeOK, FitsInv, Handed, Edited, Plus, ReadersWait
<1>2. ASSUME KillLine PROVE ConsoleInv'
  <2>1. PICK k \in 0 .. Edited : e' = Plus(w, k) /\ pos' = Backspaces(pos, Edited - k)
    BY <1>2, KillLineKeeps
  <2>2. Edited - k \in Nat
    BY Indexes DEF ConsoleInv
  <2>3. UNCHANGED <<ibuf, r, w, want, target, cpc, ckilled>>
    BY <1>2 DEF KillLine
  <2> QED BY <2>1, <2>2, <2>3, EraseInv
<1>3. ASSUME Backspace PROVE ConsoleInv'
  <2>1. PICK k \in 0 .. Edited : e' = Plus(w, k)
    BY <1>3, BackspaceKeeps
  <2> QED BY <1>3, <2>1, EraseInv DEF Backspace
<1>4. ASSUME NEW t \in ConsReaders, KillReader(t) PROVE ConsoleInv'
  <2>1. /\ UNCHANGED <<ibuf, r, w, e, want, target, pos>>
        /\ ckilled' = [ckilled EXCEPT ![t] = TRUE]
        /\ cpc' = [cpc EXCEPT ![t] = IF @ = "asleep" THEN "call" ELSE @]
    BY <1>4, Zenon DEF KillReader, input
  <2>2. ConsoleTypeOK' /\ FitsInv'
    BY <2>1, Zenon DEF ConsoleInv, ConsoleTypeOK, ReadPoints, FitsInv, Handed, Edited, Plus
  <2>3. ReadersWait'
    BY <2>1, Zenon DEF ConsoleInv, ConsoleTypeOK, ReadersWait
  <2> QED BY <2>2, <2>3 DEF ConsoleInv
<1>5. ASSUME NEW t \in ConsReaders, NEW n \in 1 .. MaxRead, CallRead(t, n) PROVE ConsoleInv'
  <2>1. /\ UNCHANGED <<ibuf, r, w, e, ckilled, pos>> /\ n \in 0 .. MaxRead
        /\ want' = [want EXCEPT ![t] = n] /\ target' = [target EXCEPT ![t] = n]
        /\ cpc' = [cpc EXCEPT ![t] = "call"]
    BY <1>5, ConsoleAssumption DEF CallRead, input
  <2>2. ConsoleTypeOK' /\ FitsInv'
    BY <2>1, Zenon DEF ConsoleInv, ConsoleTypeOK, ReadPoints, FitsInv, Handed, Edited, Plus
  <2>3. ReadersWait'
    BY <2>1, Zenon DEF ConsoleInv, ConsoleTypeOK, ReadersWait
  <2> QED BY <2>2, <2>3 DEF ConsoleInv
<1>6. ASSUME NEW t \in ConsReaders, ReaderSleeps(t) PROVE ConsoleInv'
  <2>1. /\ UNCHANGED <<ibuf, r, w, e, want, target, ckilled, pos>>
        /\ cpc[t] = "sleep" /\ cpc' = [cpc EXCEPT ![t] = "asleep"]
    BY <1>6, Zenon DEF ReaderSleeps, input
  <2>2. ConsoleTypeOK' /\ FitsInv'
    BY <2>1, Zenon DEF ConsoleInv, ConsoleTypeOK, ReadPoints, FitsInv, Handed, Edited, Plus
  <2>3. ReadersWait'
    BY <2>1, Zenon DEF ConsoleInv, ConsoleTypeOK, ReadersWait
  <2> QED BY <2>2, <2>3 DEF ConsoleInv
<1> QED BY <1>1, <1>2, <1>3, <1>4, <1>5, <1>6, TypeCharInv, ReadInv, Zenon DEF ConsoleNext, DropChar

-----------------------------------------------------------------------------
(* The theorems.                                                           *)

LEMMA ConsoleInvariant == ConsoleSpec => []ConsoleInv
BY InitConsole, NextConsole, PTL DEF ConsoleSpec

\* The indexes of the input buffer and the cursor stay in range: cgaputc() never
\* writes beside the screen.
THEOREM ConsoleTypeCorrect == ConsoleSpec => []ConsoleTypeOK
<1>1. ConsoleInv => ConsoleTypeOK
  BY DEF ConsoleInv
<1> QED BY ConsoleInvariant, <1>1, PTL

\* No wakeup is lost between consoleintr() and the readers: whoever sleeps in
\* consoleread(), or is on its way into sleep(), has nothing to read.
THEOREM ReadersWaitCorrect == ConsoleSpec => []ReadersWait
<1>1. ConsoleInv => ReadersWait
  BY DEF ConsoleInv
<1> QED BY ConsoleInvariant, <1>1, PTL

-----------------------------------------------------------------------------
(* The buffer is a line being edited behind the lines handed over.         *)

Lines == Slice(r, w)
Line == Slice(w, e)

\* An index leads to the same place of the buffer before and after it wraps around.
LEMMA IndexAround ==
  ASSUME NEW z \in Int, NEW o \in Int
  PROVE  ((z % INDEXMOD) + o) % INPUT_BUF = (z + o) % INPUT_BUF
BY BufSizes, CounterAround, ZenonT(30)

LEMMA PlacePlus ==
  ASSUME NEW x \in Int, NEW d \in Int
  PROVE  Plus(x, d) % INPUT_BUF = (x + d) % INPUT_BUF
<1>1. INPUT_BUF \in Nat \ {0} /\ INDEXMOD \in Nat \ {0} /\ INDEXMOD % INPUT_BUF = 0
  BY BufSizes
<1>2. PICK z \in Int, o \in Int : z = x + d /\ o = 0
  OBVIOUS
<1>3. ((z % INDEXMOD) + o) % INPUT_BUF = (z + o) % INPUT_BUF
  BY IndexAround, Zenon
<1>4. (z % INDEXMOD) + o = Plus(x, d) /\ z + o = x + d
  BY <1>1, <1>2 DEF Plus
<1> QED BY <1>3, <1>4

\* Slice, of any buffer.
SliceOf(b, x, y) == [j \in 1 .. Plus(y, -x) |-> b[Plus(x, j - 1) % INPUT_BUF]]

LEMMA SliceIsStretch ==
  ASSUME NEW b, NEW x \in Int, NEW y \in Int
  PROVE  SliceOf(b, x, y) = Stretch(b, INPUT_BUF, x, Plus(y, -x))
<1>1. ASSUME NEW j \in 1 .. Plus(y, -x) PROVE Plus(x, j - 1) % INPUT_BUF = (x + j - 1) % INPUT_BUF
  <2>1. j \in Int
    BY PlusType, BufSizes
  <2>2. PICK d \in Int : d = j - 1
    BY <2>1
  <2>3. Plus(x, d) % INPUT_BUF = (x + d) % INPUT_BUF
    BY PlacePlus
  <2>4. x + d = x + j - 1
    BY <2>1, <2>2
  <2> QED BY <2>2, <2>3, <2>4
<1> QED BY <1>1, Zenon DEF SliceOf, Stretch

LEMMA LinesAreStretches ==
  ASSUME ConsoleTypeOK, ConsoleTypeOK'
  PROVE  /\ Lines = Stretch(ibuf, INPUT_BUF, r, Handed)
         /\ Line = Stretch(ibuf, INPUT_BUF, w, Edited)
         /\ Lines' = Stretch(ibuf', INPUT_BUF, r', Handed')
         /\ Line' = Stretch(ibuf', INPUT_BUF, w', Edited')
<1>1. r \in Int /\ w \in Int /\ e \in Int /\ r' \in Int /\ w' \in Int /\ e' \in Int
  BY BufSizes DEF ConsoleTypeOK
<1>2. /\ Lines = SliceOf(ibuf, r, w) /\ Lines' = SliceOf(ibuf', r', w')
      /\ Line = SliceOf(ibuf, w, e) /\ Line' = SliceOf(ibuf', w', e')
  BY Zenon DEF Lines, Line, Slice, SliceOf, Plus
<1>3. /\ Handed = Plus(w, -r) /\ Handed' = Plus(w', -r')
      /\ Edited = Plus(e, -w) /\ Edited' = Plus(e', -w')
  BY Zenon DEF Handed, Edited, Plus
<1> QED BY <1>1, <1>2, <1>3, SliceIsStretch

LEMMA LinesSeq ==
  ASSUME ConsoleInv
  PROVE  /\ Lines \in Seq(Chars) /\ Len(Lines) = Handed
         /\ Line \in Seq(Chars) /\ Len(Line) = Edited
<1>1. /\ r \in Int /\ w \in Int /\ e \in Int /\ Handed \in Nat /\ Edited \in Nat
      /\ INPUT_BUF \in Nat \ {0}
  BY Indexes, BufSizes DEF ConsoleInv
<1>2. ibuf \in [0 .. INPUT_BUF - 1 -> Chars]
  BY Zenon DEF ConsoleInv, ConsoleTypeOK
<1>3. /\ Lines = Stretch(ibuf, INPUT_BUF, r, Handed)
      /\ Line = Stretch(ibuf, INPUT_BUF, w, Edited)
  <2>1. Lines = SliceOf(ibuf, r, w) /\ Line = SliceOf(ibuf, w, e)
    BY Zenon DEF Lines, Line, Slice, SliceOf
  <2> QED BY <1>1, <2>1, SliceIsStretch, Zenon DEF Handed, Edited
<1>4. Shows(Stretch(ibuf, INPUT_BUF, r, Handed), Chars, ibuf, INPUT_BUF, r, Handed)
  BY <1>1, <1>2, StretchSeq, Zenon
<1>5. Shows(Stretch(ibuf, INPUT_BUF, w, Edited), Chars, ibuf, INPUT_BUF, w, Edited)
  BY <1>1, <1>2, StretchSeq, Zenon
<1> QED BY <1>3, <1>4, <1>5 DEF Shows

\* What the facts about stretches say of the input buffer.
LEMMA BufAppend ==
  ASSUME NEW b, IsArray(b, INPUT_BUF, Chars), NEW a \in Int, NEW n \in Nat, n < INPUT_BUF,
         NEW v \in Chars, NEW p \in Int, p = a + n
  PROVE  Stretch(Stored(b, INPUT_BUF, p, v), INPUT_BUF, a, n + 1)
           = Stretch(b, INPUT_BUF, a, n) \o <<v>>
BY StretchAppend, SMTT(30)

LEMMA BufFront ==
  ASSUME NEW b, IsArray(b, INPUT_BUF, Chars), NEW a \in Int, NEW n \in Nat, NEW k \in Nat, k <= n
  PROVE  SubSeq(Stretch(b, INPUT_BUF, a, n), 1, k) = Stretch(b, INPUT_BUF, a, k)
BY StretchTake

LEMMA BufTake ==
  ASSUME NEW b, IsArray(b, INPUT_BUF, Chars), NEW a \in Int, NEW n \in Nat, NEW k \in Nat, k <= n,
         NEW x \in Int, x = a + k, NEW m \in Nat, m = n - k
  PROVE  /\ SubSeq(Stretch(b, INPUT_BUF, a, n), 1, k) = Stretch(b, INPUT_BUF, a, k)
         /\ SubSeq(Stretch(b, INPUT_BUF, a, n), k + 1, n) = Stretch(b, INPUT_BUF, x, m)
BY StretchTake

\* The entries from a on without the first k.
Rest(b, a, n, k) == SubSeq(Stretch(b, INPUT_BUF, a, n), k + 1, n)
Moved(b, a, n, k) == Stretch(b, INPUT_BUF, Plus(a, k), n - k)

LEMMA BufRest ==
  ASSUME NEW b, IsArray(b, INPUT_BUF, Chars), NEW a \in Int, NEW n \in Nat, NEW k \in Nat, k <= n
  PROVE  Rest(b, a, n, k) = Moved(b, a, n, k)
<1>1. PICK x \in Int, m \in Nat : x = a + k /\ m = n - k
  <2>1. a + k \in Int /\ n - k \in Nat
    OBVIOUS
  <2> QED BY <2>1
<1>2. SubSeq(Stretch(b, INPUT_BUF, a, n), k + 1, n) = Stretch(b, INPUT_BUF, x, m)
  BY <1>1, BufTake
<1>3. Plus(a, k) % INPUT_BUF = x % INPUT_BUF
  BY <1>1, PlacePlus
<1>4. Plus(a, k) \in Int /\ INPUT_BUF \in Nat \ {0}
  BY PlusType, BufSizes
<1>5. Stretch(b, INPUT_BUF, Plus(a, k), m) = Stretch(b, INPUT_BUF, x, m)
  BY <1>3, <1>4, StretchAround
<1> QED BY <1>1, <1>2, <1>5, Zenon DEF Rest, Moved

\* A character typed on the line, or with the line handed over.
LEMMA TypeCharRefines ==
  ASSUME ConsoleInv, ConsoleInv', NEW c \in Chars, TypeChar(c) PROVE Tty!Enter(c)
<1>1. /\ Handed + Edited < INPUT_BUF /\ r' = r
      /\ \/ w' = w /\ Handed' = Handed /\ Edited' = Edited + 1 /\ ~EndsLine(c)
         \/ w' = e' /\ Handed' = Handed + Edited + 1 /\ Edited' = 0 /\ EndsLine(c)
  BY TypeCharIndexes, Zenon
<1>2. /\ r \in Int /\ w \in Int /\ Handed \in Nat /\ Edited \in Nat /\ INPUT_BUF \in Nat \ {0}
      /\ w = Plus(r, Handed) /\ e = Plus(w, Edited) /\ e = Plus(r, Handed + Edited)
  BY Indexes, BufSizes DEF ConsoleInv
<1>3. IsArray(ibuf, INPUT_BUF, Chars)
  BY <1>2, Zenon DEF ConsoleInv, ConsoleTypeOK, IsArray
<1>4. /\ Lines = Stretch(ibuf, INPUT_BUF, r, Handed)
      /\ Line = Stretch(ibuf, INPUT_BUF, w, Edited)
      /\ Lines' = Stretch(ibuf', INPUT_BUF, r, Handed')
      /\ Line' = Stretch(ibuf', INPUT_BUF, w', Edited')
  BY <1>1, LinesAreStretches DEF ConsoleInv
<1>5. /\ Lines \in Seq(Chars) /\ Len(Lines) = Handed
      /\ Line \in Seq(Chars) /\ Len(Line) = Edited
  BY LinesSeq
<1>6. PICK h \in Nat, d \in Nat : h = Handed /\ d = Edited
  BY <1>2
<1>7. PICK k \in Nat, p \in Int, q \in Int, x \in Int :
        k = h + d /\ p = w + d /\ q = r + k /\ x = r + h
  <2>1. h + d \in Nat /\ w + d \in Int /\ r + (h + d) \in Int /\ r + h \in Int
    BY <1>2
  <2> QED BY <2>1
<1>8. r \in Int /\ w \in Int /\ h \in Int /\ d \in Int /\ k \in Int /\ INPUT_BUF \in Nat \ {0}
  BY <1>2
<1>9. /\ ibuf' = Stored(ibuf, INPUT_BUF, p, c) /\ ibuf' = Stored(ibuf, INPUT_BUF, q, c)
      /\ w % INPUT_BUF = x % INPUT_BUF
  <2>1. e = Plus(w, d) /\ e = Plus(r, k) /\ w = Plus(r, h)
    BY <1>2, <1>6, <1>7, Zenon
  <2>2. Plus(w, d) % INPUT_BUF = (w + d) % INPUT_BUF
    BY <1>8, PlacePlus
  <2>3. Plus(r, k) % INPUT_BUF = (r + k) % INPUT_BUF
    BY <1>8, PlacePlus
  <2>4. Plus(r, h) % INPUT_BUF = (r + h) % INPUT_BUF
    BY <1>8, PlacePlus
  <2>5. ibuf' = [ibuf EXCEPT ![e % INPUT_BUF] = c]
    BY DEF TypeChar
  <2>6. e % INPUT_BUF = p % INPUT_BUF /\ e % INPUT_BUF = q % INPUT_BUF
    BY <1>7, <2>1, <2>2, <2>3
  <2> QED BY <1>7, <2>1, <2>4, <2>5, <2>6, Zenon DEF Stored
<1>10. k < INPUT_BUF /\ d < INPUT_BUF
  BY <1>1, <1>2, <1>6, <1>7
<1>11. Tty!Ends(c) <=> EndsLine(c)
  BY <1>1, <1>5, EndsLineFull, Zenon DEF Tty!Ends, Lines, Line
<1>12. CASE w' = w /\ Handed' = Handed /\ Edited' = Edited + 1 /\ ~EndsLine(c)
  <2>1. Lines' = Lines
    <3>1. r + h <= q /\ q < r + INPUT_BUF
      BY <1>2, <1>7, <1>10
    <3>2. Stretch(Stored(ibuf, INPUT_BUF, q, c), INPUT_BUF, r, h) = Stretch(ibuf, INPUT_BUF, r, h)
      BY <1>2, <1>3, <3>1, StretchElsewhere
    <3> QED BY <1>4, <1>6, <1>9, <1>12, <3>2
  <2>2. Line' = Line \o <<c>>
    <3>1. Stretch(Stored(ibuf, INPUT_BUF, p, c), INPUT_BUF, w, d + 1)
            = Stretch(ibuf, INPUT_BUF, w, d) \o <<c>>
      BY <1>3, <1>7, <1>10, <1>8, BufAppend
    <3> QED BY <1>4, <1>6, <1>9, <1>12, <3>1
  <2>3. Line \o <<c>> = Append(Line, c)
    BY <1>5
  <2> QED BY <1>1, <1>5, <1>12, <1>11, <2>1, <2>2, <2>3, Zenon DEF Tty!Enter, Lines, Line
<1>13. CASE w' = e' /\ Handed' = Handed + Edited + 1 /\ Edited' = 0 /\ EndsLine(c)
  <2>1. Line' = << >>
    BY <1>4, <1>13 DEF Stretch
  <2>2. Lines' = Stretch(ibuf, INPUT_BUF, r, k) \o <<c>>
    <3>1. Stretch(Stored(ibuf, INPUT_BUF, q, c), INPUT_BUF, r, k + 1)
            = Stretch(ibuf, INPUT_BUF, r, k) \o <<c>>
      BY <1>3, <1>7, <1>10, <1>8, BufAppend
    <3>2. Handed' = k + 1
      BY <1>6, <1>7, <1>13
    <3> QED BY <1>4, <1>9, <3>1, <3>2
  <2>3. Stretch(ibuf, INPUT_BUF, r, k) = Lines \o Line
    <3>1. Stretch(ibuf, INPUT_BUF, r, k)
            = Stretch(ibuf, INPUT_BUF, r, h) \o Stretch(ibuf, INPUT_BUF, x, d)
      <4>1. h <= k /\ d = k - h
        BY <1>7
      <4>2. SubSeq(Stretch(ibuf, INPUT_BUF, r, k), 1, h) = Stretch(ibuf, INPUT_BUF, r, h)
        BY <1>3, <1>8, <4>1, StretchTake
      <4>3. SubSeq(Stretch(ibuf, INPUT_BUF, r, k), h + 1, k) = Stretch(ibuf, INPUT_BUF, x, d)
        BY <1>3, <1>7, <1>8, <4>1, StretchTake
      <4>4. SubSeq(Stretch(ibuf, INPUT_BUF, r, k), 1, h)
              \o SubSeq(Stretch(ibuf, INPUT_BUF, r, k), h + 1, k)
              = Stretch(ibuf, INPUT_BUF, r, k)
        BY <1>3, <1>8, <4>1, StretchSplit
      <4> QED BY <4>2, <4>3, <4>4, Zenon
    <3>2. Stretch(ibuf, INPUT_BUF, w, d) = Stretch(ibuf, INPUT_BUF, x, d)
      BY <1>2, <1>9, StretchAround
    <3> QED BY <1>4, <1>6, <3>1, <3>2
  <2>4. (Lines \o Line) \o <<c>> = Lines \o Append(Line, c)
    BY <1>5, SMTT(30)
  <2> QED BY <1>1, <1>5, <1>13, <1>11, <2>1, <2>2, <2>3, <2>4, Zenon DEF Tty!Enter, Lines, Line
<1> QED BY <1>1, <1>12, <1>13

\* Backspace and control-U erase the end of the line.
LEMMA EraseRefines ==
  ASSUME ConsoleInv, ConsoleInv', NEW k \in 0 .. Edited, e' = Plus(w, k),
         UNCHANGED <<ibuf, r, w>>
  PROVE  Tty!Erase(k) /\ k \in 0 .. INPUT_BUF
<1>1. Handed' = Handed /\ Edited' = k
  BY EraseIndexes
<1>2. /\ w \in Int /\ Handed \in Nat /\ Edited \in Nat /\ INPUT_BUF \in Nat \ {0}
      /\ Handed + Edited <= INPUT_BUF
  BY Indexes, BufSizes DEF ConsoleInv
<1>3. IsArray(ibuf, INPUT_BUF, Chars)
  BY <1>2, Zenon DEF ConsoleInv, ConsoleTypeOK, IsArray
<1>4. k \in Nat /\ k <= Edited
  BY <1>2
<1>5. SubSeq(Stretch(ibuf, INPUT_BUF, w, Edited), 1, k) = Stretch(ibuf, INPUT_BUF, w, k)
  BY <1>2, <1>3, <1>4, BufFront
<1>6. Lines' = Lines /\ Line' = SubSeq(Line, 1, k)
  <2>1. /\ Lines = Stretch(ibuf, INPUT_BUF, r, Handed)
        /\ Line = Stretch(ibuf, INPUT_BUF, w, Edited)
        /\ Lines' = Stretch(ibuf', INPUT_BUF, r', Handed')
        /\ Line' = Stretch(ibuf', INPUT_BUF, w', Edited')
    BY LinesAreStretches DEF ConsoleInv
  <2>2. ibuf' = ibuf /\ r' = r /\ w' = w
    OBVIOUS
  <2> QED BY <1>1, <1>5, <2>1, <2>2
<1>7. Len(Line) = Edited
  BY LinesSeq
<1> QED BY <1>2, <1>6, <1>7 DEF Tty!Erase, Lines, Line

\* consoleread() takes the front of what was handed over.
LEMMA TakeRefines ==
  ASSUME ConsoleInv, ConsoleInv', NEW k \in 0 .. Handed, r' = Plus(r, k),
         UNCHANGED <<ibuf, w, e>>
  PROVE  Tty!Take(k) /\ k \in 0 .. INPUT_BUF
<1>1. Handed' = Handed - k /\ Edited' = Edited
  BY ReadIndexes
<1>2. /\ r \in Int /\ Handed \in Nat /\ Edited \in Nat /\ INPUT_BUF \in Nat \ {0}
      /\ Handed + Edited <= INPUT_BUF
  BY Indexes, BufSizes DEF ConsoleInv
<1>3. IsArray(ibuf, INPUT_BUF, Chars)
  BY <1>2, Zenon DEF ConsoleInv, ConsoleTypeOK, IsArray
<1>4. k \in Nat /\ k <= Handed
  BY <1>2
<1>5. Rest(ibuf, r, Handed, k) = Moved(ibuf, r, Handed, k)
  BY <1>2, <1>3, <1>4, BufRest
<1>6. Lines' = SubSeq(Lines, k + 1, Handed) /\ Line' = Line
  <2>1. /\ Lines = Stretch(ibuf, INPUT_BUF, r, Handed)
        /\ Line = Stretch(ibuf, INPUT_BUF, w, Edited)
        /\ Lines' = Stretch(ibuf', INPUT_BUF, r', Handed')
        /\ Line' = Stretch(ibuf', INPUT_BUF, w', Edited')
    BY LinesAreStretches DEF ConsoleInv
  <2>2. ibuf' = ibuf /\ w' = w
    OBVIOUS
  <2> QED BY <1>1, <1>5, <2>1, <2>2, Zenon DEF Rest, Moved
<1>7. Len(Lines) = Handed
  BY LinesSeq
<1> QED BY <1>2, <1>4, <1>6, <1>7 DEF Tty!Take, Lines, Line

LEMMA NextTerminal ==
  ConsoleInv /\ ConsoleInv' /\ [ConsoleNext]_ConsoleVars => [Tty!Next]_<<Line, Lines>>
<1> SUFFICES ASSUME ConsoleInv, ConsoleInv', [ConsoleNext]_ConsoleVars
             PROVE  [Tty!Next]_<<Line, Lines>>
  OBVIOUS
<1>1. ASSUME NEW c \in Chars, TypeChar(c) PROVE Tty!Next
  BY <1>1, TypeCharRefines DEF Tty!Next
<1>2. ASSUME KillLine PROVE Tty!Next
  <2>1. PICK k \in 0 .. Edited : e' = Plus(w, k)
    BY <1>2, KillLineKeeps
  <2>2. UNCHANGED <<ibuf, r, w>>
    BY <1>2 DEF KillLine
  <2> QED BY <2>1, <2>2, EraseRefines DEF Tty!Next
<1>3. ASSUME Backspace PROVE Tty!Next
  <2>1. PICK k \in 0 .. Edited : e' = Plus(w, k)
    BY <1>3, BackspaceKeeps
  <2>2. UNCHANGED <<ibuf, r, w>>
    BY <1>3 DEF Backspace
  <2> QED BY <2>1, <2>2, EraseRefines DEF Tty!Next
<1>4. ASSUME NEW t \in ConsReaders, ConsRead(t) PROVE Tty!Next
  <2>1. PICK k \in 0 .. Handed : r' = Plus(r, k) /\ UNCHANGED <<ibuf, w, e>>
    BY <1>4, ConsReadTakes DEF Reads
  <2> QED BY <2>1, TakeRefines DEF Tty!Next
<1>5. ASSUME UNCHANGED input PROVE UNCHANGED <<Line, Lines>>
  BY <1>5, Zenon DEF input, Line, Lines, Slice, Plus
<1>6. \/ \E c \in Chars : TypeChar(c)
      \/ KillLine \/ Backspace \/ \E t \in ConsReaders : ConsRead(t)
      \/ UNCHANGED input
  BY Zenon DEF ConsoleNext, DropChar, KillReader, CallRead, ReaderSleeps, ConsoleVars, input
<1> QED BY <1>1, <1>2, <1>3, <1>4, <1>5, <1>6

\* consoleintr() and consoleread() implement the terminal: erased characters are
\* those of the current line, and what is handed over is read once and in order,
\* for every size of the buffer and also when the indexes wrap around.
THEOREM RefinesTerminal == ConsoleSpec => ImplementsTerminal
<1>1. ConsoleInit => Tty!Init
  <2> SUFFICES ASSUME ConsoleInit PROVE Tty!Init
    OBVIOUS
  <2>1. Plus(w, -r) = 0 /\ Plus(e, -w) = 0
    BY BufSizes DEF ConsoleInit, Plus
  <2> QED BY <2>1 DEF Tty!Init, Slice
<1>2. ConsoleInv /\ ConsoleInv' /\ [ConsoleNext]_ConsoleVars
        => [Tty!Next]_<<Slice(w, e), Slice(r, w)>>
  BY NextTerminal, Zenon DEF Line, Lines
<1> QED BY <1>1, <1>2, ConsoleInvariant, PTL DEF ConsoleSpec, ImplementsTerminal, Tty!Spec
=============================================================================
