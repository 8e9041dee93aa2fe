--------------------------- MODULE RingArithmetic ---------------------------
(***************************************************************************)
(* Facts about indices modulo the size of an array, as the circular arrays *)
(* of the scheduling queues (proc.c), of the pipes (pipe.c) and of the     *)
(* console (console.c) use them, and about the sequences these arrays hold.*)
(***************************************************************************)
EXTENDS Integers, Sequences, TLAPS

\* Division with remainder, and that the remainder is the only one.
LEMMA Quotient ==
  ASSUME NEW N \in Nat \ {0}, NEW a \in Int
  PROVE  \E x \in Int, r \in 0 .. N - 1 : a = N * x + r /\ a % N = r
<1>1. a \div N \in Int /\ a % N \in 0 .. N - 1
  OBVIOUS
<1>2. a = N * (a \div N) + (a % N)
  OBVIOUS
<1> QED BY <1>1, <1>2

LEMMA RemainderUnique ==
  ASSUME NEW N \in Nat \ {0}, NEW k \in Int, NEW l \in Int,
         NEW r \in 0 .. N - 1, NEW s \in 0 .. N - 1, N * k + r = N * l + s
  PROVE  r = s
<1>1. N * (k - l) = s - r
  OBVIOUS
<1>2. CASE k - l >= 1
  <2>1. N * (k - l) >= N
    BY <1>2
  <2> QED BY <1>1, <2>1
<1>3. CASE k - l <= -1
  <2>1. N * (k - l) <= -N
    BY <1>3
  <2> QED BY <1>1, <2>1
<1>4. CASE k = l
  BY <1>4
<1> QED BY <1>2, <1>3, <1>4

\* Two numbers have the same remainder exactly if they differ by a multiple.
LEMMA SameRemainder ==
  ASSUME NEW N \in Nat \ {0}, NEW a \in Int, NEW b \in Int, NEW k \in Int,
         a = b + N * k
  PROVE  a % N = b % N
<1>1. PICK x \in Int, r \in 0 .. N - 1 : a = N * x + r /\ a % N = r
  BY Quotient
<1>2. PICK y \in Int, s \in 0 .. N - 1 : b = N * y + s /\ b % N = s
  BY Quotient, Zenon
<1>3. N * (x - k) = N * x - N * k /\ x - k \in Int
  OBVIOUS
<1>4. N * (x - k) + r = N * y + s
  BY <1>1, <1>2, <1>3
<1>5. r = s
  BY <1>3, <1>4, RemainderUnique
<1> QED BY <1>1, <1>2, <1>5

LEMMA RemainderOfDifference ==
  ASSUME NEW N \in Nat \ {0}, NEW a \in Int, NEW b \in Int
  PROVE  (a % N = b % N) <=> ((a - b) % N = 0)
<1>1. PICK x \in Int, r \in 0 .. N - 1 : a = N * x + r /\ a % N = r
  BY Quotient, Zenon
<1>2. PICK y \in Int, s \in 0 .. N - 1 : b = N * y + s /\ b % N = s
  BY Quotient, Zenon
<1>3. PICK z \in Int, t \in 0 .. N - 1 : a - b = N * z + t /\ (a - b) % N = t
  <2>1. a - b \in Int
    OBVIOUS
  <2> QED BY <2>1, Quotient, Zenon
<1>4. ASSUME r = s PROVE t = 0
  <2>1. N * (x - y) = N * x - N * y /\ x - y \in Int /\ 0 \in 0 .. N - 1
    OBVIOUS
  <2>2. N * z + t = N * (x - y) + 0
    BY <1>1, <1>2, <1>3, <1>4, <2>1
  <2> QED BY <2>1, <2>2, RemainderUnique
<1>5. ASSUME t = 0 PROVE r = s
  <2>1. a = b + N * z
    BY <1>3, <1>5
  <2> QED BY <1>1, <1>2, <2>1, SameRemainder
<1> QED BY <1>1, <1>2, <1>3, <1>4, <1>5

\* A step from a place reached around the array is the same step from where it
\* began.
LEMMA StepAround ==
  ASSUME NEW N \in Nat \ {0}, NEW a \in Int, NEW b \in Int
  PROVE  ((a % N) + b) % N = (a + b) % N
<1>1. PICK x \in Int, r \in 0 .. N - 1 : a = N * x + r /\ a % N = r
  BY Quotient, Zenon
<1>2. a + b = (r + b) + N * x /\ a + b \in Int /\ r + b \in Int
  BY <1>1
<1>3. (a + b) % N = (r + b) % N
  BY <1>2, SameRemainder, Zenon
<1> QED BY <1>1, <1>3

\* The same when the counter itself wraps around at M, a multiple of N.
LEMMA CounterAround ==
  ASSUME NEW N \in Nat \ {0}, NEW M \in Nat \ {0}, M % N = 0, NEW a \in Int, NEW b \in Int
  PROVE  ((a % M) + b) % N = (a + b) % N
<1>1. PICK q \in Int, z \in 0 .. N - 1 : M = N * q + z /\ M % N = z
  BY Quotient
<1>2. PICK x \in Int, r \in 0 .. M - 1 : a = M * x + r /\ a % M = r
  BY Quotient, Zenon
<1>3. M = N * q
  BY <1>1
<1>4. M * x = N * (q * x) /\ q * x \in Int
  BY <1>3
<1>5. a + b = (r + b) + N * (q * x) /\ a + b \in Int /\ r + b \in Int
  BY <1>2, <1>4
<1>6. PICK y \in Int, t \in Int, k \in Int : y = a + b /\ t = r + b /\ k = q * x
  BY <1>4, <1>5
<1>7. y = t + N * k
  BY <1>5, <1>6
<1>8. y % N = t % N
  BY <1>7, SameRemainder, Zenon
<1> QED BY <1>2, <1>6, <1>8

\* Places less than N apart differ.
LEMMA DifferentPlaces ==
  ASSUME NEW N \in Nat \ {0}, NEW a \in Int, NEW b \in Int, a - b \in 1 .. N - 1
  PROVE  a % N # b % N
<1>1. (a - b) % N # 0
  OBVIOUS
<1>2. (a % N = b % N) <=> ((a - b) % N = 0)
  BY RemainderOfDifference, Zenon
<1> QED BY <1>1, <1>2, Zenon

-----------------------------------------------------------------------------
(* A circular array read as a sequence.                                    *)

\* The n entries of the array b of N places from the counter a on.
Stretch(b, N, a, n) == [j \in 1 .. n |-> b[(a + j - 1) % N]]

\* t is a sequence over V with those entries.
Shows(t, V, b, N, a, n) ==
  t \in Seq(V) /\ Len(t) = n /\ \A j \in 1 .. n : t[j] = b[(a + j - 1) % N]

\* A stretch is a sequence of the array's entries.
LEMMA StretchSeq ==
  ASSUME NEW V, NEW N \in Nat \ {0}, NEW b \in [0 .. N - 1 -> V], NEW a \in Int, NEW n \in Nat
  PROVE  Shows(Stretch(b, N, a, n), V, b, N, a, n)
<1>1. \A j \in 1 .. n : (a + j - 1) % N \in 0 .. N - 1
  OBVIOUS
<1>2. Stretch(b, N, a, n) \in [1 .. n -> V]
  BY <1>1 DEF Stretch
<1> QED BY <1>2 DEF Stretch, Shows

\* Sequences are equal if they have the same length and the same entries.
LEMMA SameSequence ==
  ASSUME NEW V, NEW s \in Seq(V), NEW t \in Seq(V), Len(s) = Len(t),
         \A j \in 1 .. Len(s) : s[j] = t[j]
  PROVE  s = t
OBVIOUS

\* The entries of two sequences, one behind the other.
LEMMA ConcatLength ==
  ASSUME NEW V, NEW t \in Seq(V), NEW s \in Seq(V)
  PROVE  t \o s \in Seq(V) /\ Len(t \o s) = Len(t) + Len(s)
OBVIOUS

\* u is the n entries of t with the m entries of s behind them.
Joined(u, t, n, s, m) ==
  (\A j \in 1 .. n : u[j] = t[j]) /\ (\A j \in 1 .. m : u[n + j] = s[j])

LEMMA ConcatEntries ==
  ASSUME NEW V, NEW t \in Seq(V), NEW s \in Seq(V), NEW n, Len(t) = n, NEW m, Len(s) = m
  PROVE  Joined(t \o s, t, n, s, m)
BY DEF Joined

IsArray(b, N, V) == N \in Nat \ {0} /\ b \in [0 .. N - 1 -> V]

\* c is b with s written behind the n entries from the counter a on.
Written(c, b, N, a, n, s) ==
  /\ \A i \in 1 .. Len(s) : c[(a + n + i - 1) % N] = s[i]
  /\ \A x \in 0 .. N - 1 : (\A i \in 1 .. Len(s) : (a + n + i - 1) % N # x) => c[x] = b[x]

\* Counters that are the same modulo N show the same entries.
LEMMA StretchAround ==
  ASSUME NEW N \in Nat \ {0}, NEW b, NEW a \in Int, NEW c \in Int, c % N = a % N, NEW n \in Nat
  PROVE  Stretch(b, N, c, n) = Stretch(b, N, a, n)
<1>1. ASSUME NEW j \in 1 .. n PROVE (c + j - 1) % N = (a + j - 1) % N
  <2>1. PICK d \in Int : d = j - 1
    OBVIOUS
  <2>2. ((c % N) + d) % N = (c + d) % N /\ ((a % N) + d) % N = (a + d) % N
    BY StepAround, Zenon
  <2>3. c + j - 1 = c + d /\ a + j - 1 = a + d
    BY <2>1
  <2> QED BY <2>2, <2>3
<1> QED BY <1>1, Zenon DEF Stretch

\* Taking k entries from the front.
LEMMA StretchTake ==
  ASSUME NEW V, NEW N, NEW b, IsArray(b, N, V), NEW a \in Int, NEW n \in Nat,
         NEW k \in Nat, k <= n, NEW c, c = a + k, NEW r, r = n - k
  PROVE  /\ SubSeq(Stretch(b, N, a, n), 1, k) = Stretch(b, N, a, k)
         /\ SubSeq(Stretch(b, N, a, n), k + 1, n) = Stretch(b, N, c, r)
<1> DEFINE W == Stretch(b, N, a, n)
           X == Stretch(b, N, a, k)
           Y == Stretch(b, N, a + k, n - k)
<1>1. n - k \in Nat /\ a + k \in Int
  OBVIOUS
<1> N \in Nat \ {0} /\ b \in [0 .. N - 1 -> V]
  BY DEF IsArray
<1>2. Shows(W, V, b, N, a, n)
  BY StretchSeq, Zenon
<1>3. Shows(X, V, b, N, a, k)
  BY <1>1, StretchSeq, Zenon
<1>4. Shows(Y, V, b, N, a + k, n - k)
  BY <1>1, StretchSeq, Zenon
<1> HIDE DEF W, X, Y
<1>5. SubSeq(W, 1, k) = X
  <2>1. /\ SubSeq(W, 1, k) \in Seq(V) /\ Len(SubSeq(W, 1, k)) = k
        /\ \A j \in 1 .. k : SubSeq(W, 1, k)[j] = W[j]
    BY <1>1, <1>2 DEF Shows
  <2>2. \A j \in 1 .. k : W[j] = X[j]
    BY <1>2, <1>3 DEF Shows
  <2>3. X \in Seq(V) /\ Len(X) = k
    BY <1>3 DEF Shows
  <2> QED BY <2>1, <2>2, <2>3, SameSequence
<1>6. SubSeq(W, k + 1, n) = Y
  <2>1. /\ SubSeq(W, k + 1, n) \in Seq(V) /\ Len(SubSeq(W, k + 1, n)) = n - k
        /\ \A j \in 1 .. n - k : SubSeq(W, k + 1, n)[j] = W[k + j]
    BY <1>1, <1>2 DEF Shows
  <2>2. \A j \in 1 .. n - k : k + j \in 1 .. n /\ a + (k + j) - 1 = (a + k) + j - 1
    OBVIOUS
  <2>3. \A j \in 1 .. n - k : W[k + j] = Y[j]
    BY <1>2, <1>4, <2>2, ZenonT(30) DEF Shows
  <2>4. Y \in Seq(V) /\ Len(Y) = n - k
    BY <1>4 DEF Shows
  <2> QED BY <2>1, <2>3, <2>4, SameSequence
<1> QED BY <1>5, <1>6 DEF W, X, Y

\* Writing the m entries of s behind the n that are there, as long as all fit.
LEMMA StretchWrite ==
  ASSUME NEW V, NEW N, NEW b, IsArray(b, N, V), NEW c, IsArray(c, N, V), NEW s \in Seq(V),
         NEW a \in Int, NEW n \in Nat, Written(c, b, N, a, n, s),
         NEW k \in Nat, k = n + Len(s), k <= N
  PROVE  Stretch(c, N, a, k) = Stretch(b, N, a, n) \o s
<1>0. PICK m \in Nat : m = Len(s)
  OBVIOUS
<1> DEFINE W == Stretch(b, N, a, n)
           X == Stretch(c, N, a, n + m)
<1>1. s \in Seq(V) /\ Len(s) = m /\ n + m \in Nat /\ n + m = k
  BY <1>0
<1> /\ N \in Nat \ {0} /\ b \in [0 .. N - 1 -> V] /\ c \in [0 .. N - 1 -> V]
    /\ \A i \in 1 .. m : c[(a + n + i - 1) % N] = s[i]
    /\ \A x \in 0 .. N - 1 : (\A i \in 1 .. m : (a + n + i - 1) % N # x) => c[x] = b[x]
  BY <1>0 DEF IsArray, Written
<1>2. Shows(W, V, b, N, a, n)
  BY StretchSeq, Zenon
<1>3. Shows(X, V, c, N, a, n + m)
  BY <1>1, StretchSeq, Zenon
<1>4. ASSUME NEW j \in 1 .. n PROVE c[(a + j - 1) % N] = b[(a + j - 1) % N]
  <2>1. (a + j - 1) % N \in 0 .. N - 1
    OBVIOUS
  <2>2. ASSUME NEW i \in 1 .. m PROVE (a + n + i - 1) % N # (a + j - 1) % N
    <3>1. PICK x \in Int, y \in Int : x = a + n + i - 1 /\ y = a + j - 1
      OBVIOUS
    <3>2. x - y \in 1 .. N - 1
      BY <1>1, <3>1
    <3> QED BY <3>1, <3>2, DifferentPlaces, Zenon
  <2> QED BY <2>1, <2>2, Zenon
<1>5. ASSUME NEW j \in n + 1 .. n + m PROVE c[(a + j - 1) % N] = s[j - n]
  <2>1. j - n \in 1 .. m /\ a + n + (j - n) - 1 = a + j - 1
    OBVIOUS
  <2> QED BY <2>1
<1> HIDE DEF W, X
<1>6. /\ W \o s \in Seq(V) /\ Len(W \o s) = n + m
      /\ \A j \in 1 .. n : (W \o s)[j] = W[j]
      /\ \A j \in n + 1 .. n + m : (W \o s)[j] = s[j - n]
  <2>1. W \in Seq(V) /\ Len(W) = n
    BY <1>2 DEF Shows
  <2>2. W \o s \in Seq(V) /\ Len(W \o s) = n + m
    BY <1>1, <2>1, ConcatLength, Zenon
  <2>3. Joined(W \o s, W, n, s, m)
    BY <1>1, <2>1, ConcatEntries, Zenon
  <2>4. ASSUME NEW j \in n + 1 .. n + m PROVE (W \o s)[j] = s[j - n]
    <3>1. PICK i \in 1 .. m : j = n + i /\ i = j - n
      OBVIOUS
    <3>2. (W \o s)[n + i] = s[i]
      BY <2>3, Zenon DEF Joined
    <3> QED BY <3>1, <3>2
  <2> QED BY <2>2, <2>3, <2>4, Zenon DEF Joined
<1>7. ASSUME NEW j \in 1 .. n + m PROVE X[j] = (W \o s)[j]
  <2>1. CASE j \in 1 .. n
    <3>1. X[j] = c[(a + j - 1) % N]
      BY <1>3 DEF Shows
    <3>2. W[j] = b[(a + j - 1) % N]
      BY <1>2, <2>1 DEF Shows
    <3> QED BY <1>4, <1>6, <2>1, <3>1, <3>2, Zenon
  <2>2. CASE j \in n + 1 .. n + m
    BY <1>3, <1>5, <1>6, <2>2, Zenon DEF Shows
  <2>3. j \in 1 .. n \/ j \in n + 1 .. n + m
    OBVIOUS
  <2> QED BY <2>1, <2>2, <2>3, Zenon
<1>8. X = W \o s
  <2>1. X \in Seq(V) /\ Len(X) = n + m
    BY <1>3 DEF Shows
  <2> QED BY <1>6, <1>7, <2>1, SameSequence, Zenon
<1> QED BY <1>1, <1>8 DEF W, X

\* Two stretches, one behind the other.
LEMMA SplitSequence ==
  ASSUME NEW V, NEW s \in Seq(V), NEW n \in 0 .. Len(s)
  PROVE  SubSeq(s, 1, n) \o SubSeq(s, n + 1, Len(s)) = s
<1> DEFINE P == SubSeq(s, 1, n)
           Q == SubSeq(s, n + 1, Len(s))
<1>1. P \in Seq(V) /\ Len(P) = n /\ \A j \in 1 .. n : P[j] = s[j]
  OBVIOUS
<1>2. Q \in Seq(V) /\ Len(Q) = Len(s) - n /\ \A j \in 1 .. Len(s) - n : Q[j] = s[n + j]
  OBVIOUS
<1> HIDE DEF P, Q
<1>3. P \o Q \in Seq(V) /\ Len(P \o Q) = Len(s)
  BY <1>1, <1>2, ConcatLength
<1> DEFINE q == Len(s) - n
<1>4. Len(Q) = q
  BY <1>2
<1> HIDE DEF q
<1>5. Joined(P \o Q, P, n, Q, q)
  BY <1>1, <1>2, <1>4, ConcatEntries
<1>6. ASSUME NEW j \in 1 .. Len(s) PROVE (P \o Q)[j] = s[j]
  <2>1. CASE j \in 1 .. n
    <3>1. (P \o Q)[j] = P[j]
      BY <1>5, <2>1, Zenon DEF Joined
    <3> QED BY <1>1, <2>1, <3>1, Zenon
  <2>2. CASE j \notin 1 .. n
    <3>1. PICK i \in 1 .. Len(s) - n : j = n + i
      BY <2>2
    <3>2. (P \o Q)[n + i] = Q[i]
      BY <1>5, Zenon DEF Joined, q
    <3> QED BY <1>2, <3>1, <3>2
  <2> QED BY <2>1, <2>2, Zenon
<1>7. P \o Q = s
  BY <1>3, <1>6, SameSequence, Zenon
<1> QED BY <1>7, Zenon DEF P, Q

LEMMA StretchSplit ==
  ASSUME NEW V, NEW N, NEW b, IsArray(b, N, V), NEW a \in Int, NEW n \in Nat,
         NEW k \in Nat, k <= n
  PROVE  SubSeq(Stretch(b, N, a, n), 1, k) \o SubSeq(Stretch(b, N, a, n), k + 1, n)
           = Stretch(b, N, a, n)
<1> DEFINE W == Stretch(b, N, a, n)
<1>1. N \in Nat \ {0} /\ b \in [0 .. N - 1 -> V]
  BY DEF IsArray
<1>2. Shows(W, V, b, N, a, n)
  BY <1>1, StretchSeq, Zenon
<1>3. W \in Seq(V) /\ Len(W) = n
  BY <1>2 DEF Shows
<1> HIDE DEF W
<1>4. SubSeq(W, 1, k) \o SubSeq(W, k + 1, n) = W
  BY <1>3, SplitSequence
<1> QED BY <1>4 DEF W

\* b with v written at the place of the counter p.
Stored(b, N, p, v) == [b EXCEPT ![p % N] = v]

\* One entry written somewhere behind the stretch.
LEMMA StretchElsewhere ==
  ASSUME NEW V, NEW N, NEW b, IsArray(b, N, V), NEW a \in Int, NEW n \in Nat,
         NEW p \in Int, a + n <= p, p < a + N, NEW v
  PROVE  Stretch(Stored(b, N, p, v), N, a, n) = Stretch(b, N, a, n)
<1>1. N \in Nat \ {0} /\ b \in [0 .. N - 1 -> V]
  BY DEF IsArray
<1>2. ASSUME NEW j \in 1 .. n PROVE [b EXCEPT ![p % N] = v][(a + j - 1) % N] = b[(a + j - 1) % N]
  <2>1. PICK y \in Int : y = a + j - 1
    OBVIOUS
  <2>2. p - y \in 1 .. N - 1
    BY <1>1, <2>1
  <2>3. p % N # y % N
    BY <1>1, <2>2, DifferentPlaces, Zenon
  <2>4. y % N \in 0 .. N - 1
    BY <1>1
  <2> QED BY <1>1, <2>1, <2>3, <2>4
<1> QED BY <1>2, Zenon DEF Stretch, Stored

\* One entry written right behind the stretch.
LEMMA OneWritten ==
  ASSUME NEW V, NEW N, NEW b, IsArray(b, N, V), NEW a \in Int, NEW n \in Nat,
         NEW p, p = a + n, NEW v \in V
  PROVE  /\ IsArray(Stored(b, N, p, v), N, V)
         /\ Written(Stored(b, N, p, v), b, N, a, n, <<v>>)
<1>1. N \in Nat \ {0} /\ b \in [0 .. N - 1 -> V] /\ p \in Int /\ p % N \in 0 .. N - 1
  BY DEF IsArray
<1> DEFINE c == [b EXCEPT ![p % N] = v]
<1>2. c \in [0 .. N - 1 -> V] /\ c[p % N] = v
  BY <1>1
<1>3. \A x \in 0 .. N - 1 : p % N # x => c[x] = b[x]
  BY <1>1
<1> HIDE DEF c
<1>4. Len(<<v>>) = 1 /\ <<v>>[1] = v /\ a + n + 1 - 1 = p
  OBVIOUS
<1>5. \A i \in 1 .. Len(<<v>>) : i = 1
  BY <1>4
<1>6. Written(c, b, N, a, n, <<v>>)
  BY <1>2, <1>3, <1>4, <1>5 DEF Written
<1> QED BY <1>1, <1>2, <1>6 DEF c, IsArray, Stored

LEMMA StretchAppend ==
  ASSUME NEW V, NEW N, NEW b, IsArray(b, N, V), NEW a \in Int, NEW n \in Nat, n < N,
         NEW p, p = a + n, NEW v \in V, NEW k, k = n + 1
  PROVE  Stretch(Stored(b, N, p, v), N, a, k) = Stretch(b, N, a, n) \o <<v>>
<1> DEFINE c == Stored(b, N, p, v)
           s == <<v>>
<1>1. IsArray(c, N, V) /\ Written(c, b, N, a, n, s)
  BY OneWritten, Zenon
<1>2. s \in Seq(V) /\ k \in Nat /\ k = n + Len(s) /\ k <= N
  BY DEF IsArray
<1> HIDE DEF c, s
<1>3. Stretch(c, N, a, k) = Stretch(b, N, a, n) \o s
  BY <1>1, <1>2, StretchWrite, SMTT(30)
<1> QED BY <1>3 DEF c, s
=============================================================================
