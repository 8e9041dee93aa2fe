----------------------------- MODULE LogProofs -----------------------------
(***************************************************************************)
(* The log for any operations, blocks and sizes, crashes included: begin_op*)
(* reserves enough and, as long as the log does not outgrow its blocks on  *)
(* disk, a quiet log is on disk and the operations between two commits are *)
(* atomic with respect to crashes.                                         *)
(***************************************************************************)
EXTENDS Log, FiniteSetTheorems, TLAPS

Distinct(s) == \A i, j \in 1 .. Len(s) : s[i] = s[j] => i = j

\* Who is where: the operations counted by log.outstanding, and the one that commits.
WhoInv ==
  /\ outstanding = Cardinality(Inside)
  /\ \A o \in Ops : pc[o] = "commit" => committing
  /\ \A o, q \in Ops : pc[o] = "commit" /\ pc[q] = "commit" => o = q
  /\ committing => /\ Inside = {}
                   /\ phase \in {"write", "head", "install", "clear", "done"}
  /\ Recovering => /\ \A o \in Ops : pc[o] = "idle"
                   /\ phase \in {"read", "install", "clear"}

\* What an operation has modified is locked or recorded.
WroteInv ==
  /\ \A o \in Ops : /\ IsFiniteSet(wrote[o]) /\ Cardinality(wrote[o]) <= OpBlocks
                    /\ buf[o] \subseteq wrote[o] /\ wrote[o] \subseteq buf[o] \cup Recorded
  /\ \A o \in Ops \ Inside : wrote[o] = {}
  /\ \A o \in Ops : pc[o] \notin {"check", "append"} => buf[o] = {}
  /\ \A o \in Ops : \A b, c \in buf[o] : b = c
  /\ Distinct(lh)

\* What is in memory and not at home is locked or recorded.
CacheInv == \A b \in Blocks : b \in Recorded \/ cache[b] = home[b] \/ \E o \in Ops : b \in buf[o]

\* Progress of commit() and of recovery: what the headers name.
PhaseInv ==
  /\ phase = "none" => head = << >> /\ tail = 0 /\ (Inside = {} => lh = << >>)
  /\ phase = "write" => head = << >> /\ tail <= Len(lh)
  /\ phase = "head" => head = << >> /\ tail = 0
  /\ phase = "install" => head = lh /\ tail <= Len(lh)
  /\ phase = "clear" => head = lh /\ tail = 0
  /\ phase = "done" => head = << >> /\ lh = << >> /\ tail = 0
  /\ phase = "read" => lh = << >> /\ tail = 0
  /\ Distinct(head) /\ Len(head) <= LOGSIZE

LogInv == TypeOK /\ WhoInv /\ WroteInv /\ PhaseInv /\ LogReserved

\* What the blocks of the log and their homes hold, as long as the log has not
\* outgrown its blocks.
Copied(n) == \A j \in 1 .. n : slots[j] = cache[lh[j]]
Home(n)   == \A j \in 1 .. n : home[lh[j]] = slots[j]
DataInv ==
  /\ CacheInv
  /\ phase = "write" => Copied(tail)
  /\ phase = "head" => Copied(Len(lh))
  /\ phase = "install" => Home(tail) /\ (committing => Copied(Len(lh)))
  /\ phase = "clear" => Home(Len(lh)) /\ cache = home
  /\ phase = "done" => cache = home
  /\ Recovering => cache = home
  /\ Len(head) <= nlog - 1

\* What a step keeps: the first invariant in any case, the second if the log fits.
Keeps == LogInv' /\ (DataInv /\ LogFits => DataInv')
-----------------------------------------------------------------------------
(* The reservation.                                                        *)

\* No more than MAXOPBLOCKS are reserved for each of the operations I.
LEMMA Bounded ==
  ASSUME NEW I \in SUBSET Ops, NEW R \in SUBSET (I \X (1 .. MAXOPBLOCKS))
  PROVE  /\ IsFiniteSet(I) /\ Cardinality(I) \in Nat
         /\ IsFiniteSet(R) /\ Cardinality(R) \in Nat
         /\ Cardinality(R) <= Cardinality(I) * MAXOPBLOCKS
<1>1. IsFiniteSet(I) /\ Cardinality(I) \in Nat
  BY LogAssumption, FS_Subset, FS_CardinalityType
<1>2. IsFiniteSet(1 .. MAXOPBLOCKS) /\ Cardinality(1 .. MAXOPBLOCKS) = MAXOPBLOCKS
  <2>1. MAXOPBLOCKS \in Int /\ 1 \in Int /\ MAXOPBLOCKS >= 0
    BY LogAssumption
  <2> QED BY <2>1, FS_Interval
<1>3. /\ IsFiniteSet(I \X (1 .. MAXOPBLOCKS))
      /\ Cardinality(I \X (1 .. MAXOPBLOCKS)) = Cardinality(I) * MAXOPBLOCKS
  BY <1>1, <1>2, FS_Product, Zenon
<1>4. IsFiniteSet(R) /\ Cardinality(R) <= Cardinality(I) * MAXOPBLOCKS
  BY <1>3, FS_Subset
<1> QED BY <1>1, <1>4, FS_CardinalityType

LEMMA OpsFinite ==
  /\ IsFiniteSet(Inside) /\ Cardinality(Inside) \in Nat
  /\ IsFiniteSet(Reserved) /\ Cardinality(Reserved) \in Nat
  /\ Cardinality(Reserved) <= Cardinality(Inside) * MAXOPBLOCKS
<1>1. Inside \in SUBSET Ops /\ Reserved \in SUBSET (Inside \X (1 .. MAXOPBLOCKS))
  BY Zenon DEF Inside, Reserved
<1> QED BY <1>1, Bounded

LEMMA OpsFinitePrimed ==
  /\ IsFiniteSet(Inside') /\ Cardinality(Inside') \in Nat
  /\ IsFiniteSet(Reserved') /\ Cardinality(Reserved') \in Nat
  /\ Cardinality(Reserved') <= Cardinality(Inside') * MAXOPBLOCKS
<1>1. Inside' \in SUBSET Ops /\ Reserved' \in SUBSET (Inside' \X (1 .. MAXOPBLOCKS))
  BY Zenon DEF Inside, Reserved
<1> QED BY <1>1, Bounded

\* The header has room for what is recorded, and nothing is reserved while the log
\* is being committed or recovered.
LEMMA Room ==
  ASSUME LogInv
  PROVE  /\ Len(lh) \in Nat /\ Len(lh) <= LOGSIZE
         /\ phase # "none" => /\ Inside = {} /\ Reserved = {}
                              /\ \A o \in Ops : buf[o] = {} /\ wrote[o] = {}
<1>1. Len(lh) \in Nat
  BY DEF LogInv, TypeOK
<1>2. Len(lh) <= LOGSIZE
  BY <1>1, OpsFinite, LogAssumption DEF LogInv, LogReserved
<1>3. ASSUME phase # "none" PROVE Inside = {}
  BY <1>3, Zenon DEF LogInv, WhoInv, Recovering, Inside
<1>4. ASSUME Inside = {} PROVE Reserved = {} /\ \A o \in Ops : buf[o] = {} /\ wrote[o] = {}
  BY <1>4, Zenon DEF Reserved, LogInv, WroteInv
<1> QED BY <1>1, <1>2, <1>3, <1>4

\* What keeps the header as it is and reserves nothing new.
LEMMA LessReserved ==
  ASSUME LogInv, lh' = lh, Reserved' \subseteq Reserved
  PROVE  LogReserved'
<1>1. Reserved' \in SUBSET Reserved
  OBVIOUS
<1>2. /\ IsFiniteSet(Reserved') /\ Cardinality(Reserved') <= Cardinality(Reserved)
  BY <1>1, OpsFinite, FS_Subset
<1>3. Cardinality(Reserved') \in Nat
  BY <1>2, FS_CardinalityType
<1>4. Len(lh) \in Nat /\ LOGSIZE \in Nat
  BY LogAssumption DEF LogInv, TypeOK
<1>5. Len(lh) + Cardinality(Reserved) <= LOGSIZE
  BY Zenon DEF LogInv, LogReserved
<1>6. Len(lh) + Cardinality(Reserved') <= LOGSIZE
  BY <1>2, <1>3, <1>4, <1>5, OpsFinite
<1> QED BY <1>6, Zenon DEF LogReserved

\* An operation reserves less, the more of what it wrote is recorded.
LEMMA RecordedMore ==
  ASSUME NEW q \in Ops, IsFiniteSet(wrote'[q]),
         wrote[q] \cap Recorded \subseteq wrote'[q] \cap Recorded'
  PROVE  /\ Cardinality(wrote[q] \cap Recorded) \in Nat
         /\ Cardinality(wrote'[q] \cap Recorded') \in Nat
         /\ Cardinality(wrote[q] \cap Recorded) <= Cardinality(wrote'[q] \cap Recorded')
<1>1. IsFiniteSet(wrote'[q] \cap Recorded')
  BY FS_Subset
<1>2. wrote[q] \cap Recorded \in SUBSET (wrote'[q] \cap Recorded')
  OBVIOUS
<1>3. /\ IsFiniteSet(wrote[q] \cap Recorded)
      /\ Cardinality(wrote[q] \cap Recorded) <= Cardinality(wrote'[q] \cap Recorded')
  BY <1>1, <1>2, FS_Subset
<1> QED BY <1>1, <1>3, FS_CardinalityType

LEMMA Shrinks ==
  ASSUME Inside' \subseteq Inside,
         \A q \in Inside' : /\ IsFiniteSet(wrote'[q])
                            /\ wrote[q] \cap Recorded \subseteq wrote'[q] \cap Recorded'
  PROVE  Reserved' \subseteq Reserved
<1> SUFFICES ASSUME NEW r \in Reserved' PROVE r \in Reserved
  OBVIOUS
<1>1. /\ r \in Inside' \X (1 .. MAXOPBLOCKS)
      /\ r[2] <= MAXOPBLOCKS - Cardinality(wrote'[r[1]] \cap Recorded')
  BY Zenon DEF Reserved
<1>2. r[1] \in Inside' /\ r[1] \in Inside /\ r[1] \in Ops /\ r[2] \in 1 .. MAXOPBLOCKS
  BY <1>1, Zenon DEF Inside
<1>3. PICK j, k \in Nat : /\ j = Cardinality(wrote[r[1]] \cap Recorded)
                          /\ k = Cardinality(wrote'[r[1]] \cap Recorded') /\ j <= k
  BY <1>2, RecordedMore, Zenon
<1>4. r[2] <= MAXOPBLOCKS - j
  BY <1>1, <1>2, <1>3, LogAssumption
<1> QED BY <1>1, <1>2, <1>3, <1>4, Zenon DEF Reserved

LEMMA NothingReserved ==
  ASSUME Inside = {}, lh \in Seq(Blocks), Len(lh) <= LOGSIZE
  PROVE  LogReserved
<1>1. Reserved = {}
  BY Zenon DEF Reserved
<1> QED BY <1>1, FS_EmptySet, LogAssumption DEF LogReserved

-----------------------------------------------------------------------------
(* The operations.                                                         *)

LEMMA LogInit == Init => LogInv /\ DataInv
<1> SUFFICES ASSUME Init PROVE LogInv /\ DataInv
  OBVIOUS
<1>1. Inside = {} /\ Recorded = {} /\ lh \in Seq(Blocks) /\ Len(lh) = 0 /\ ~Recovering
  BY DEF Init, Inside, Recorded, Recovering
<1>2. TypeOK
  <2>1. << >> \in Seq(Blocks)
    OBVIOUS
  <2> QED BY <2>1, Zenon DEF Init, TypeOK, OpPoints, Phases
<1>3. WhoInv
  BY <1>1, FS_EmptySet, Zenon DEF Init, WhoInv
<1>4. WroteInv
  BY <1>1, FS_EmptySet, LogAssumption DEF Init, WroteInv, Distinct
<1>5. DataInv /\ PhaseInv
  BY <1>1, LogAssumption DEF Init, CacheInv, DataInv, PhaseInv, Distinct
<1>6. LogReserved
  BY <1>1, LogAssumption, NothingReserved
<1> QED BY <1>2, <1>3, <1>4, <1>5, <1>6, Zenon DEF LogInv

\* An operation goes from one place to another outside of begin_op() and end_op().
LEMMA PlaceInv ==
  ASSUME LogInv, UNCHANGED <<disk, mem, buf, wrote, prog>>, panicked' \in BOOLEAN,
         pc' \in [Ops -> OpPoints], Inside' = Inside, ~Recovering,
         \A o \in Ops : pc'[o] = "commit" <=> pc[o] = "commit",
         \A o \in Ops : pc'[o] \notin {"check", "append"} => buf[o] = {}
  PROVE  Keeps
<1>1. /\ Recorded' = Recorded /\ Recovering' = Recovering
      /\ lh' = lh /\ head' = head /\ cache' = cache /\ home' = home /\ slots' = slots
      /\ buf' = buf /\ wrote' = wrote /\ tail' = tail /\ phase' = phase
      /\ outstanding' = outstanding /\ committing' = committing
  BY Zenon DEF disk, mem, prog, Recorded, Recovering
<1>2. TypeOK'
  BY <1>1, Zenon DEF LogInv, TypeOK
<1>3. WhoInv'
  BY <1>1, Zenon DEF LogInv, WhoInv
<1>4. WroteInv'
  BY <1>1, ZenonT(30) DEF LogInv, WroteInv, Distinct
<1>5. PhaseInv'
  BY <1>1 DEF LogInv, PhaseInv, Distinct
<1>6. LogReserved'
  BY <1>1, Zenon DEF LogInv, LogReserved, Reserved
<1>7. DataInv => DataInv'
  BY <1>1 DEF DataInv, CacheInv, Copied, Home
<1> QED BY <1>2, <1>3, <1>4, <1>5, <1>6, <1>7, Zenon DEF LogInv, Keeps

\* begin_op() returns: its test leaves room for all that o may write.
LEMMA BeginInv ==
  ASSUME LogInv, NEW o \in Ops, Begin(o) PROVE Keeps
<1>1. /\ lh' = lh /\ head' = head /\ cache' = cache /\ home' = home /\ slots' = slots
      /\ buf' = buf /\ wrote' = wrote /\ tail' = tail /\ phase' = phase /\ panicked' = panicked
      /\ committing = FALSE /\ committing' = FALSE /\ Fits /\ pc[o] = "begin"
      /\ outstanding' = outstanding + 1 /\ pc' = [pc EXCEPT ![o] = "in"] /\ phase = "none"
  BY DEF Begin, Up, Goto, disk, prog
<1>2. Inside' = Inside \cup {o} /\ o \notin Inside /\ Recorded' = Recorded /\ ~Recovering'
  BY <1>1, Zenon DEF Inside, Recorded, Recovering, LogInv, TypeOK
<1>3. TypeOK'
  <2>1. outstanding' \in Nat /\ pc' \in [Ops -> OpPoints]
    BY <1>1 DEF LogInv, TypeOK, OpPoints
  <2> QED BY <1>1, <2>1, Zenon DEF LogInv, TypeOK
<1>4. outstanding' = Cardinality(Inside')
  BY <1>1, <1>2, OpsFinite, FS_AddElement, Zenon DEF LogInv, WhoInv
<1>5. WhoInv'
  BY <1>1, <1>2, <1>4, Zenon DEF LogInv, WhoInv, TypeOK
<1>6. WroteInv'
  BY <1>1, <1>2, Zenon DEF LogInv, WroteInv, Distinct, TypeOK
<1>7. PhaseInv' /\ (DataInv => DataInv')
  BY <1>1, <1>2 DEF LogInv, CacheInv, DataInv, PhaseInv, Distinct
<1>8. LogReserved'
  <2>1. Cardinality(Reserved') \in Nat /\ Cardinality(Reserved') <= (outstanding + 1) * MAXOPBLOCKS
    BY <1>1, <1>4, OpsFinitePrimed
  <2>2. Len(lh) + (outstanding + 1) * MAXOPBLOCKS <= LOGSIZE
    BY <1>1, Zenon DEF Fits
  <2>3. Len(lh) \in Nat /\ LOGSIZE \in Nat /\ (outstanding + 1) * MAXOPBLOCKS \in Nat
    BY LogAssumption DEF LogInv, TypeOK
  <2>4. Len(lh) + Cardinality(Reserved') <= LOGSIZE
    BY <2>1, <2>2, <2>3
  <2> QED BY <1>1, <2>4, Zenon DEF LogReserved
<1> QED BY <1>3, <1>5, <1>6, <1>7, <1>8, Zenon DEF LogInv, Keeps

\* bread() and the change of the buffer: the block is locked until it is recorded.
LEMMA ModifyInv ==
  ASSUME LogInv, NEW o \in Ops, NEW b \in Blocks, NEW v \in Vals, Modify(o, b, v)
  PROVE  Keeps
<1>1. /\ lh' = lh /\ head' = head /\ home' = home /\ slots' = slots
      /\ tail' = tail /\ phase' = phase /\ panicked' = panicked
      /\ committing' = committing /\ outstanding' = outstanding /\ pc[o] = "in"
      /\ pc' = [pc EXCEPT ![o] = "check"] /\ cache' = [cache EXCEPT ![b] = v]
      /\ buf' = [buf EXCEPT ![o] = {b}] /\ wrote' = [wrote EXCEPT ![o] = @ \cup {b}]
      /\ Cardinality(wrote[o] \cup {b}) <= OpBlocks /\ Up
  BY Zenon DEF Modify, Goto, disk, prog
<1>2. /\ Inside' = Inside /\ o \in Inside /\ Recorded' = Recorded
      /\ Recovering' = Recovering
  BY <1>1, Zenon DEF Inside, Recorded, Recovering, LogInv, TypeOK
<1>3. phase = "none" /\ buf[o] = {}
  BY <1>1, <1>2, Room, Zenon DEF LogInv, WroteInv
<1>4. TypeOK'
  BY <1>1, Zenon DEF LogInv, TypeOK, OpPoints
<1>5. WhoInv'
  BY <1>1, <1>2, Zenon DEF LogInv, WhoInv, TypeOK
<1>6. WroteInv'
  <2>1. IsFiniteSet(wrote[o] \cup {b})
    BY FS_AddElement, Zenon DEF LogInv, WroteInv
  <2> QED BY <1>1, <1>2, <1>3, <2>1 DEF LogInv, WroteInv, Distinct, TypeOK
<1>7. CacheInv => CacheInv'
  BY <1>1, <1>2, <1>3, Zenon DEF LogInv, CacheInv, TypeOK
<1>8. PhaseInv' /\ (DataInv => DataInv')
  BY <1>1, <1>2, <1>3, <1>7 DEF LogInv, PhaseInv, DataInv, Distinct, Recovering
<1>9. LogReserved'
  <2>1. \A q \in Ops : IsFiniteSet(wrote'[q]) /\ wrote[q] \subseteq wrote'[q]
    <3>1. wrote \in [Ops -> SUBSET Blocks]
      BY Zenon DEF LogInv, TypeOK
    <3>2. \A q \in Ops : wrote[q] \subseteq wrote'[q]
      BY <1>1, <3>1
    <3>3. \A q \in Ops : IsFiniteSet(wrote'[q])
      BY <1>6, Zenon DEF WroteInv
    <3> QED BY <3>2, <3>3, Zenon
  <2>2. Reserved' \subseteq Reserved
    BY <1>2, <2>1, Shrinks, Zenon DEF Inside
  <2> QED BY <1>1, <2>2, LessReserved
<1> QED BY <1>4, <1>5, <1>6, <1>8, <1>9, Zenon DEF LogInv, Keeps

\* log_write() records a block that is not recorded yet: its entry was reserved.
LEMMA AppendReserved ==
  ASSUME LogInv, NEW o \in Inside, NEW b \in buf[o], b \notin Recorded, b \in Blocks,
         lh' = Append(lh, b), Recorded' = Recorded \cup {b}, wrote' = wrote, Inside' = Inside
  PROVE  LogReserved'
<1> DEFINE k == Cardinality(wrote[o] \cap Recorded)
           r == <<o, MAXOPBLOCKS - k>>
<1>1. o \in Ops /\ b \in wrote[o] /\ \A q \in Ops : IsFiniteSet(wrote[q])
  BY Zenon DEF Inside, LogInv, WroteInv
<1>2. IsFiniteSet(wrote[o] \cap Recorded) /\ k \in Nat
  BY <1>1, FS_Subset, FS_CardinalityType
<1>3. wrote'[o] \cap Recorded' = (wrote[o] \cap Recorded) \cup {b}
  BY <1>1
<1>4. Cardinality(wrote'[o] \cap Recorded') = k + 1
  <2>1. b \notin wrote[o] \cap Recorded
    OBVIOUS
  <2> QED BY <1>2, <1>3, <2>1, FS_AddElement, Zenon
<1>5. k + 1 <= MAXOPBLOCKS
  <2>1. wrote'[o] \cap Recorded' \in SUBSET wrote[o]
    OBVIOUS
  <2>2. Cardinality(wrote'[o] \cap Recorded') <= Cardinality(wrote[o]) /\ Cardinality(wrote[o]) \in Nat
    BY <1>1, <2>1, FS_Subset, FS_CardinalityType
  <2>3. Cardinality(wrote[o]) <= OpBlocks
    BY <1>1, Zenon DEF LogInv, WroteInv
  <2> QED BY <1>2, <1>4, <2>2, <2>3, LogAssumption
<1>6. r \in Reserved
  <2>1. MAXOPBLOCKS - k \in 1 .. MAXOPBLOCKS
    BY <1>2, <1>5, LogAssumption
  <2>2. MAXOPBLOCKS - k <= MAXOPBLOCKS - k
    BY <2>1
  <2>3. r \in Inside \X (1 .. MAXOPBLOCKS) /\ r[1] = o /\ r[2] = MAXOPBLOCKS - k
    BY <2>1
  <2>4. r[2] <= MAXOPBLOCKS - Cardinality(wrote[r[1]] \cap Recorded)
    BY <2>2, <2>3
  <2> QED BY <2>3, <2>4, Zenon DEF Reserved
<1>7. r \notin Reserved'
  <2>1. ASSUME r \in Reserved' PROVE MAXOPBLOCKS - k <= MAXOPBLOCKS - (k + 1)
    BY <2>1, <1>4, Zenon DEF Reserved
  <2> HIDE DEF k
  <2>2. ~ (MAXOPBLOCKS - k <= MAXOPBLOCKS - (k + 1))
    BY <1>2, LogAssumption
  <2> QED BY <2>1, <2>2
<1>8. Reserved' \subseteq Reserved
  BY <1>1, Shrinks, Zenon DEF Inside
<1>9. Cardinality(Reserved') <= Cardinality(Reserved) - 1
  <2>1. Reserved' \in SUBSET (Reserved \ {r})
    BY <1>7, <1>8, Zenon
  <2>2. IsFiniteSet(Reserved \ {r}) /\ Cardinality(Reserved \ {r}) = Cardinality(Reserved) - 1
    BY <1>6, OpsFinite, FS_RemoveElement, ZenonT(30)
  <2>3. Cardinality(Reserved') <= Cardinality(Reserved \ {r})
    BY <2>1, <2>2, FS_Subset, Zenon
  <2> QED BY <2>2, <2>3
<1>10. Len(lh') = Len(lh) + 1 /\ Len(lh) \in Nat
  BY DEF LogInv, TypeOK
<1>11. Len(lh) + Cardinality(Reserved) <= LOGSIZE
  BY Zenon DEF LogInv, LogReserved
<1>12. Len(lh') + Cardinality(Reserved') <= LOGSIZE
  BY <1>9, <1>10, <1>11, OpsFinite, OpsFinitePrimed, LogAssumption
<1> QED BY <1>12, Zenon DEF LogReserved

\* log_write() under log.lock: the block is recorded once, and no longer locked.
LEMMA LogWriteInv ==
  ASSUME LogInv, NEW o \in Ops, LogWrite(o) PROVE Keeps
<1>1. PICK b \in buf[o] : lh' = Absorb(b)
  BY Zenon DEF LogWrite
<1>2. /\ head' = head /\ cache' = cache /\ home' = home /\ slots' = slots
      /\ tail' = tail /\ phase' = phase /\ panicked' = panicked /\ wrote' = wrote
      /\ committing' = committing /\ outstanding' = outstanding /\ pc[o] = "append"
      /\ pc' = [pc EXCEPT ![o] = "in"] /\ buf' = [buf EXCEPT ![o] = {}] /\ Up
  BY Zenon DEF LogWrite, Goto, disk, prog
<1>3. Inside' = Inside /\ o \in Inside /\ Recovering' = Recovering
  BY <1>2, Zenon DEF Inside, Recovering, LogInv, TypeOK
<1>4. phase = "none" /\ buf[o] = {b} /\ b \in Blocks /\ b \in wrote[o]
  BY <1>3, Room DEF LogInv, WroteInv, TypeOK
<1>5. /\ lh' \in Seq(Blocks) /\ Recorded' = Recorded \cup {b} /\ Distinct(lh)'
      /\ lh' = lh \/ (b \notin Recorded /\ lh' = Append(lh, b))
  <2>1. lh \in Seq(Blocks) /\ Len(lh) \in Nat /\ Distinct(lh)
    BY DEF LogInv, TypeOK, WroteInv
  <2>2. CASE b \in Recorded
    <3>1. lh' = lh
      BY <1>1, <2>2, Zenon DEF Absorb, Recorded
    <3> QED BY <2>1, <2>2, <3>1, Zenon DEF Recorded, Distinct
  <2>3. CASE b \notin Recorded
    <3>1. lh' = Append(lh, b)
      BY <1>1, <2>3, Zenon DEF Absorb, Recorded
    <3>2. /\ lh' \in Seq(Blocks) /\ Len(lh') = Len(lh) + 1 /\ lh'[Len(lh) + 1] = b
          /\ \A j \in 1 .. Len(lh) : lh'[j] = lh[j]
      BY <1>4, <2>1, <3>1
    <3>3. \A j \in 1 .. Len(lh') : j \in 1 .. Len(lh) \/ j = Len(lh) + 1
      BY <2>1, <3>2
    <3>4. Recorded' = Recorded \cup {b}
      <4>1. \A j \in 1 .. Len(lh) : j \in 1 .. Len(lh')
        BY <2>1, <3>2
      <4>2. Len(lh) + 1 \in 1 .. Len(lh')
        BY <2>1, <3>2
      <4> QED BY <3>2, <3>3, <4>1, <4>2, Zenon DEF Recorded
    <3>5. Distinct(lh)'
      BY <2>1, <2>3, <3>2, <3>3, Zenon DEF Distinct, Recorded
    <3> QED BY <2>3, <3>1, <3>2, <3>4, <3>5
  <2> QED BY <2>2, <2>3
<1>6. TypeOK'
  BY <1>2, <1>5, Zenon DEF LogInv, TypeOK, OpPoints
<1>7. WhoInv'
  BY <1>2, <1>3, Zenon DEF LogInv, WhoInv, TypeOK
<1>8. WroteInv'
  BY <1>2, <1>3, <1>4, <1>5 DEF LogInv, WroteInv, TypeOK
<1>9. CacheInv => CacheInv'
  BY <1>2, <1>4, <1>5, Zenon DEF LogInv, CacheInv, TypeOK
<1>10. PhaseInv' /\ (DataInv => DataInv')
  BY <1>2, <1>3, <1>4, <1>9 DEF LogInv, PhaseInv, DataInv, Distinct, Recovering
<1>11. LogReserved'
  <2>1. CASE lh' = lh
    <3>1. Reserved' \subseteq Reserved
      BY <1>2, <1>3, <1>5, Shrinks, Zenon DEF LogInv, WroteInv, Inside
    <3> QED BY <2>1, <3>1, LessReserved
  <2>2. CASE b \notin Recorded /\ lh' = Append(lh, b)
    BY <1>2, <1>3, <1>4, <1>5, <2>2, AppendReserved
  <2> QED BY <1>5, <2>1, <2>2
<1> QED BY <1>6, <1>7, <1>8, <1>10, <1>11, Zenon DEF LogInv, Keeps


\* end_op() before the commit: what is left of o's reservation is given back.
LEMMA EndOpInv ==
  ASSUME LogInv, NEW o \in Ops, EndOp(o) PROVE Keeps
<1>1. /\ lh' = lh /\ head' = head /\ cache' = cache /\ home' = home /\ slots' = slots
      /\ buf' = buf /\ tail' = tail /\ wrote' = [wrote EXCEPT ![o] = {}]
      /\ panicked' = committing /\ outstanding' = outstanding - 1 /\ pc[o] = "in"
  BY Zenon DEF EndOp, disk
<1>2. \/ /\ outstanding' = 0 /\ committing' = TRUE /\ phase' = "write"
         /\ pc' = [pc EXCEPT ![o] = "commit"]
      \/ /\ outstanding' # 0 /\ committing' = committing /\ phase' = phase
         /\ pc' = Wakeup([pc EXCEPT ![o] = "idle"])
  BY Zenon DEF EndOp, Goto
<1>3. o \in Inside
  BY <1>1, Zenon DEF Inside
<1>4. phase = "none" /\ committing = FALSE
  BY <1>3, Room, Zenon DEF LogInv, WhoInv, TypeOK
<1>5. tail = 0 /\ head = << >> /\ buf[o] = {}
  BY <1>1, <1>4, Zenon DEF LogInv, PhaseInv, WroteInv
<1>6. /\ pc' \in [Ops -> OpPoints] /\ Inside' = Inside \ {o}
      /\ \A q \in Ops : pc'[q] = "commit" => q = o /\ committing'
      /\ \A q \in Ops : pc'[q] \in {"check", "append"} <=> pc[q] \in {"check", "append"}
  <2>1. \A q \in Ops : pc[q] # "commit"
    BY <1>4, Zenon DEF LogInv, WhoInv
  <2>2. CASE pc' = [pc EXCEPT ![o] = "commit"] /\ committing'
    BY <1>1, <2>1, <2>2, Zenon DEF LogInv, TypeOK, OpPoints, Inside
  <2>3. CASE pc' = Wakeup([pc EXCEPT ![o] = "idle"])
    BY <1>1, <2>1, <2>3, Zenon DEF LogInv, TypeOK, OpPoints, Inside, Wakeup
  <2> QED BY <1>2, <2>2, <2>3
<1>7. outstanding' = Cardinality(Inside') /\ outstanding' \in Nat
  <2>1. Cardinality(Inside \ {o}) = Cardinality(Inside) - 1
    BY <1>3, OpsFinite, FS_RemoveElement, Zenon
  <2> QED BY <1>1, <1>6, <2>1, OpsFinitePrimed, Zenon DEF LogInv, WhoInv
<1>8. outstanding' = 0 <=> Inside' = {}
  BY <1>7, OpsFinitePrimed, FS_EmptySet
<1>9. ~Recovering' /\ Recorded' = Recorded
  BY <1>1, <1>2, <1>4, Zenon DEF Recovering, Recorded
<1>10. TypeOK'
  <2>1. wrote' \in [Ops -> SUBSET Blocks] /\ phase' \in Phases /\ panicked' \in BOOLEAN
    BY <1>1, <1>2, Zenon DEF LogInv, TypeOK, Phases
  <2>2. committing' \in BOOLEAN
    BY <1>2, Zenon DEF LogInv, TypeOK
  <2> QED BY <1>1, <1>6, <1>7, <2>1, <2>2, Zenon DEF LogInv, TypeOK
<1>11. WhoInv'
  BY <1>2, <1>4, <1>6, <1>7, <1>8, <1>9, Zenon DEF WhoInv
<1>12. WroteInv'
  BY <1>1, <1>5, <1>6, <1>9, FS_EmptySet, LogAssumption DEF LogInv, WroteInv, TypeOK, Distinct
<1>13. PhaseInv' /\ (DataInv => DataInv')
  <2>1. CacheInv => CacheInv'
    BY <1>1, <1>9, Zenon DEF CacheInv
  <2>2. 0 <= Len(lh) /\ 1 .. 0 = {}
    BY DEF LogInv, TypeOK
  <2>3. PhaseInv'
    BY <1>1, <1>2, <1>4, <1>5, <1>8, <1>9, <2>2, Zenon DEF LogInv, PhaseInv, Distinct
  <2>4. DataInv => DataInv'
    BY <1>1, <1>2, <1>4, <1>5, <1>9, <2>1, <2>2, Zenon DEF DataInv, Copied
  <2> QED BY <2>3, <2>4
<1>14. LogReserved'
  <2>1. \A q \in Inside' : IsFiniteSet(wrote'[q]) /\ wrote'[q] = wrote[q]
    BY <1>1, <1>6, Zenon DEF Inside, LogInv, WroteInv, TypeOK
  <2>2. Reserved' \subseteq Reserved
    BY <1>6, <1>9, <2>1, Shrinks
  <2> QED BY <1>1, <2>2, LessReserved
<1> QED BY <1>10, <1>11, <1>12, <1>13, <1>14, Zenon DEF LogInv, Keeps

\* end_op() after commit().
LEMMA CommitDoneInv ==
  ASSUME LogInv, NEW o \in Ops, CommitDone(o) PROVE Keeps
<1>1. /\ lh' = lh /\ head' = head /\ cache' = cache /\ home' = home /\ slots' = slots
      /\ buf' = buf /\ tail' = tail /\ wrote' = wrote /\ outstanding' = outstanding
      /\ panicked' = panicked /\ committing' = FALSE /\ phase' = "none"
      /\ pc' = Wakeup([pc EXCEPT ![o] = "idle"]) /\ pc[o] = "commit" /\ phase = "done"
  BY Zenon DEF CommitDone, disk
<1>2. /\ Inside = {} /\ Reserved = {} /\ \A q \in Ops : buf[q] = {} /\ wrote[q] = {}
  BY <1>1, Room
<1>3. /\ pc' \in [Ops -> OpPoints] /\ Inside' = Inside /\ \A q \in Ops : pc'[q] # "commit"
  BY <1>1, <1>2, Zenon DEF LogInv, TypeOK, WhoInv, OpPoints, Inside, Wakeup
<1>4. ~Recovering' /\ Recorded' = Recorded /\ Reserved' = {}
  BY <1>1, <1>2, <1>3, Zenon DEF Recovering, Recorded, Reserved
<1>5. TypeOK'
  BY <1>1, <1>3, Zenon DEF LogInv, TypeOK, Phases
<1>6. WhoInv' /\ WroteInv'
  BY <1>1, <1>2, <1>3, <1>4, Zenon DEF LogInv, WhoInv, WroteInv, Distinct
<1>7. PhaseInv' /\ (DataInv => DataInv')
  BY <1>1, <1>4 DEF LogInv, CacheInv, PhaseInv, DataInv, Distinct
<1>8. LogReserved'
  BY <1>1, <1>2, <1>4, LessReserved
<1> QED BY <1>5, <1>6, <1>7, <1>8, Zenon DEF LogInv, Keeps


-----------------------------------------------------------------------------
(* commit() and recovery.                                                  *)

\* Sequences of home blocks: an index is in range, and names a block.
LEMMA Indices ==
  ASSUME LogInv
  PROVE  /\ Len(lh) \in Nat /\ tail \in Nat /\ 1 .. 0 = {}
         /\ \A j \in 1 .. Len(lh) : j \in 1 .. LOGSIZE /\ lh[j] \in Blocks /\ lh[j] \in Recorded
         /\ \A b \in Recorded : \E j \in 1 .. Len(lh) : lh[j] = b
         /\ lh = << >> => Recorded = {}
BY Room, LogAssumption DEF LogInv, TypeOK, Recorded

\* What is the same in every step: nobody is inside, so that nothing is reserved.
LEMMA CommitKeeps ==
  ASSUME LogInv, Running, phase # "none", TypeOK', Distinct(lh)', Len(lh') <= LOGSIZE,
         committing => phase' \in {"write", "head", "install", "clear", "done"},
         ~committing => phase' \in {"none", "read", "install", "clear"},
         PhaseInv'
  PROVE  LogInv'
<1>1. /\ pc' = pc /\ buf' = buf /\ wrote' = wrote /\ outstanding' = outstanding
      /\ committing' = committing /\ Inside' = Inside
  BY Zenon DEF Running, ops, Inside
<1>2. Inside = {} /\ \A o \in Ops : buf[o] = {} /\ wrote[o] = {}
  BY Room
<1>3. WhoInv'
  BY <1>1, Zenon DEF LogInv, WhoInv, Recovering
<1>4. WroteInv'
  BY <1>1, <1>2, Zenon DEF LogInv, WroteInv
<1>5. LogReserved'
  <2>1. Reserved' = {}
    BY <1>1, <1>2, Zenon DEF Reserved
  <2>2. Len(lh') \in Nat
    BY DEF TypeOK
  <2> QED BY <2>1, <2>2, FS_EmptySet DEF LogReserved
<1> QED BY <1>3, <1>4, <1>5, Zenon DEF LogInv

\* Where nothing is recorded, memory and disk agree while the log is being committed.
LEMMA Agrees ==
  ASSUME LogInv, DataInv, phase # "none",
         \A b \in Recorded : cache[b] = home[b]
  PROVE  cache = home
<1>1. \A b \in Blocks : cache[b] = home[b]
  BY Room, Zenon DEF DataInv, CacheInv
<1> QED BY <1>1 DEF LogInv, TypeOK

LEMMA CommitEmptyInv == ASSUME LogInv, CommitEmpty PROVE Keeps
<1>1. /\ lh' = lh /\ head' = head /\ cache' = cache /\ home' = home /\ slots' = slots
      /\ tail' = tail /\ phase = "write" /\ phase' = "done" /\ lh = << >> /\ Running
      /\ buf' = buf /\ committing' = committing
  BY Zenon DEF CommitEmpty, disk, Running, ops
<1>2. DataInv => cache = home
  BY <1>1, Agrees, Indices
<1>3. committing /\ Recorded' = Recorded /\ Recovering' = Recovering /\ tail = 0
  <2>1. committing /\ Recorded' = Recorded /\ Recovering' = Recovering
    BY <1>1, Zenon DEF LogInv, WhoInv, Recovering, Recorded
  <2>2. tail \in Nat /\ tail <= Len(lh) /\ Len(lh) = 0
    BY <1>1, Indices DEF LogInv, PhaseInv
  <2> QED BY <2>1, <2>2
<1>4. TypeOK'
  BY <1>1, Zenon DEF LogInv, TypeOK, Phases, Running, ops
<1>5. PhaseInv' /\ (DataInv => DataInv')
  BY <1>1, <1>2, <1>3 DEF LogInv, CacheInv, PhaseInv, DataInv, Distinct
<1>6. LogInv'
  BY <1>1, <1>3, <1>4, <1>5, CommitKeeps, Room DEF LogInv, WroteInv, Distinct
<1> QED BY <1>5, <1>6, Zenon DEF Keeps

\* write_log() copies one more block, to the log if it has room for it.
LEMMA WriteLogInv == ASSUME LogInv, WriteLog PROVE Keeps
<1> DEFINE n == tail + 1
           v == cache[lh[n]]
<1>1. /\ lh' = lh /\ head' = head /\ tail' = n /\ phase = "write" /\ phase' = "write"
      /\ tail < Len(lh) /\ Running /\ buf' = buf /\ committing' = committing
      /\ slots' = IF InLog(n) THEN [slots EXCEPT ![n] = v] ELSE slots
      /\ home' = IF InLog(n) THEN home ELSE [home EXCEPT ![Behind[n]] = v]
      /\ cache' = IF InLog(n) THEN cache ELSE [cache EXCEPT ![Behind[n]] = v]
  BY Zenon DEF WriteLog, Running, ops
<1>2. committing /\ Recorded' = Recorded /\ ~Recovering'
  BY <1>1, Zenon DEF LogInv, WhoInv, Recovering, Recorded
<1>3. n \in 1 .. Len(lh) /\ n \in 1 .. LOGSIZE /\ n \in Nat /\ v \in Vals
  <2>1. n \in 1 .. Len(lh) /\ n \in Nat
    BY <1>1, Indices
  <2>2. n \in 1 .. LOGSIZE /\ lh[n] \in Blocks
    BY <2>1, Indices
  <2> QED BY <2>1, <2>2, Zenon DEF LogInv, TypeOK
<1> HIDE DEF v
<1>4. TypeOK'
  <2>1. CASE InLog(n)
    <3>1. n \in 1 .. nlog - 1
      BY <1>3, <2>1, LogAssumption DEF InLog
    <3> QED BY <1>1, <1>3, <2>1, <3>1, Zenon DEF LogInv, TypeOK, Running, ops
  <2>2. CASE ~InLog(n)
    <3>1. Behind[n] \in Blocks
      BY <1>3, <2>2, LogAssumption DEF InLog
    <3> QED BY <1>1, <1>3, <2>2, <3>1, Zenon DEF LogInv, TypeOK, Running, ops
  <2> QED BY <2>1, <2>2
<1>5. PhaseInv'
  <2>1. tail' <= Len(lh')
    BY <1>1, <1>3
  <2> QED BY <1>1, <1>2, <2>1 DEF LogInv, PhaseInv, Distinct
<1>6. ASSUME DataInv, LogFits PROVE DataInv'
  <2>1. n \in 1 .. nlog - 1 /\ InLog(n)
    BY <1>3, <1>6, Indices, LogAssumption DEF LogFits, InLog
  <2>2. slots' = [slots EXCEPT ![n] = v] /\ home' = home /\ cache' = cache
    BY <1>1, <2>1
  <2>3. Copied(tail)'
    <3>1. \A j \in 1 .. tail' : j = n \/ j \in 1 .. tail
      BY <1>1, Indices
    <3>2. \A j \in 1 .. tail : j \in 1 .. nlog - 1 /\ j # n
      BY <2>1, Indices, LogAssumption
    <3>3. \A j \in 1 .. tail : slots[j] = cache[lh[j]]
      BY <1>1, <1>6, Zenon DEF DataInv, Copied
    <3>4. slots'[n] = v /\ \A j \in 1 .. tail : slots'[j] = slots[j]
      BY <2>1, <2>2, <3>2, Zenon DEF LogInv, TypeOK
    <3> QED BY <1>1, <2>2, <3>1, <3>3, <3>4, Zenon DEF Copied, v
  <2>4. CacheInv'
    BY <1>1, <1>2, <1>6, <2>2, Zenon DEF DataInv, CacheInv
  <2> QED BY <1>1, <1>2, <1>6, <2>2, <2>3, <2>4 DEF DataInv
<1>7. LogInv'
  BY <1>1, <1>2, <1>4, <1>5, CommitKeeps, Room, Zenon DEF LogInv, WroteInv, Distinct
<1> QED BY <1>6, <1>7, Zenon DEF Keeps

LEMMA WriteLogDoneInv == ASSUME LogInv, WriteLogDone PROVE Keeps
<1>1. /\ lh' = lh /\ head' = head /\ cache' = cache /\ home' = home /\ slots' = slots
      /\ tail' = 0 /\ phase = "write" /\ phase' = "head" /\ tail = Len(lh) /\ Running
      /\ buf' = buf /\ committing' = committing
  BY Zenon DEF WriteLogDone, disk, Running, ops
<1>2. committing /\ Recorded' = Recorded /\ ~Recovering'
  BY <1>1, Zenon DEF LogInv, WhoInv, Recovering, Recorded
<1>3. TypeOK'
  BY <1>1, Zenon DEF LogInv, TypeOK, Phases, Running, ops
<1>4. PhaseInv' /\ (DataInv => DataInv')
  BY <1>1, <1>2 DEF LogInv, CacheInv, PhaseInv, DataInv, Copied, Distinct
<1>5. LogInv'
  BY <1>1, <1>2, <1>3, <1>4, CommitKeeps, Room, Zenon DEF LogInv, WroteInv, Distinct
<1> QED BY <1>4, <1>5, Zenon DEF Keeps

\* write_head(): the header on disk names blocks that have been copied.
LEMMA WriteHeadInv == ASSUME LogInv, WriteHead PROVE Keeps
<1>1. /\ lh' = lh /\ head' = lh /\ cache' = cache /\ home' = home /\ slots' = slots
      /\ tail' = tail /\ phase = "head" /\ phase' = "install" /\ Running
      /\ buf' = buf /\ committing' = committing
  BY Zenon DEF WriteHead, Running, ops
<1>2. committing /\ Recorded' = Recorded /\ ~Recovering'
  BY <1>1, Zenon DEF LogInv, WhoInv, Recovering, Recorded
<1>3. TypeOK'
  BY <1>1, Zenon DEF LogInv, TypeOK, Phases, Running, ops
<1>4. tail = 0 /\ Len(lh) \in Nat /\ Distinct(lh) /\ Len(lh) <= LOGSIZE
  BY <1>1, Indices, Room, Zenon DEF LogInv, PhaseInv, WroteInv
<1>5. PhaseInv'
  <2>1. Distinct(head') /\ Len(head') <= LOGSIZE /\ tail' <= Len(lh')
    BY <1>1, <1>4 DEF Distinct
  <2> QED BY <1>1, <1>2, <2>1 DEF PhaseInv
<1>6. ASSUME DataInv, LogFits PROVE DataInv'
  <2>1. CacheInv'
    BY <1>1, <1>2, <1>6, Zenon DEF DataInv, CacheInv
  <2>2. Copied(Len(lh))
    BY <1>1, <1>6, Zenon DEF DataInv
  <2>3. Home(tail)' /\ Copied(Len(lh))' /\ Len(head') <= nlog - 1
    BY <1>1, <1>4, <1>6, <2>2 DEF Home, Copied, LogFits
  <2> QED BY <1>1, <1>2, <2>1, <2>3 DEF DataInv
<1>7. LogInv'
  BY <1>1, <1>2, <1>3, <1>5, CommitKeeps, Room, Zenon DEF LogInv, WroteInv, Distinct
<1> QED BY <1>6, <1>7, Zenon DEF Keeps

\* What is read from the log is a block's contents, whether the log has the block or not.
LEMMA LogBlockVals ==
  ASSUME LogInv, NEW j \in 1 .. LOGSIZE, NEW m \in [Blocks -> Vals]
  PROVE  LogBlock(j, m) \in Vals
<1>1. CASE InLog(j)
  <2>1. j \in 1 .. nlog - 1
    BY <1>1, LogAssumption DEF InLog
  <2> QED BY <1>1, <2>1, Zenon DEF LogBlock, LogInv, TypeOK
<1>2. CASE ~InLog(j)
  <2>1. j \in nlog .. LOGSIZE
    BY <1>2, LogAssumption DEF InLog
  <2> QED BY <1>2, <2>1, LogAssumption, Zenon DEF LogBlock
<1> QED BY <1>1, <1>2

\* While the log is installed from blocks of its own, it has the next one.
LEMMA InstallFits ==
  ASSUME LogInv, DataInv, phase = "install", tail < Len(lh)
  PROVE  LogBlock(tail + 1, cache) = slots[tail + 1]
<1>1. Len(lh) <= nlog - 1
  BY Zenon DEF LogInv, PhaseInv, DataInv
<1>2. InLog(tail + 1)
  BY <1>1, Indices, LogAssumption DEF InLog
<1> QED BY <1>2, Zenon DEF LogBlock

\* install_trans() brings one more block home; a block is recorded once, so those that
\* are home already stay as they are.
LEMMA InstallInv == ASSUME LogInv, Install PROVE Keeps
<1> DEFINE b == lh[tail + 1]
           v == LogBlock(tail + 1, cache)
<1>1. /\ lh' = lh /\ head' = head /\ slots' = slots
      /\ home' = [home EXCEPT ![b] = v] /\ cache' = [cache EXCEPT ![b] = v]
      /\ tail' = tail + 1 /\ phase = "install" /\ phase' = "install" /\ tail < Len(lh)
      /\ Running /\ buf' = buf /\ committing' = committing
  BY Zenon DEF Install, Running, ops
<1>2. Recorded' = Recorded /\ Recovering' = Recovering
  BY <1>1, Zenon DEF Recovering, Recorded
<1>3. tail + 1 \in 1 .. Len(lh) /\ tail + 1 \in 1 .. LOGSIZE /\ b \in Blocks /\ v \in Vals
  <2>1. tail + 1 \in 1 .. Len(lh)
    BY <1>1, Indices
  <2>2. tail + 1 \in 1 .. LOGSIZE /\ b \in Blocks
    BY <2>1, Indices, Zenon
  <2>3. cache \in [Blocks -> Vals]
    BY Zenon DEF LogInv, TypeOK
  <2> QED BY <2>1, <2>2, <2>3, LogBlockVals, Zenon
<1>4. /\ home'[b] = v /\ cache'[b] = v
      /\ \A c \in Blocks \ {b} : home'[c] = home[c] /\ cache'[c] = cache[c]
      /\ home' \in [Blocks -> Vals] /\ cache' \in [Blocks -> Vals]
  BY <1>1, <1>3, Zenon DEF LogInv, TypeOK
<1>5. TypeOK'
  <2>1. tail' \in Nat
    BY <1>1, Indices
  <2> QED BY <1>1, <1>4, <2>1, Zenon DEF LogInv, TypeOK, Running, ops
<1>6. \A j \in 1 .. Len(lh) : j # tail + 1 => lh[j] \in Blocks \ {b}
  BY <1>3, Indices, Zenon DEF LogInv, WroteInv, Distinct
<1>7. PhaseInv'
  <2>1. tail' <= Len(lh')
    BY <1>1, <1>3
  <2> QED BY <1>1, <1>2, <2>1 DEF LogInv, PhaseInv, Distinct
<1>8. DataInv => v = slots[tail + 1]
  BY <1>1, InstallFits
<1> HIDE DEF b, v
<1>9. ASSUME DataInv PROVE DataInv'
  <2>1. Home(tail)'
    <3>1. \A j \in 1 .. tail' : j = tail + 1 \/ j \in 1 .. tail
      BY <1>1, Indices
    <3>2. \A j \in 1 .. tail : j \in 1 .. Len(lh) /\ j # tail + 1
      BY <1>1, Indices
    <3>3. \A j \in 1 .. tail : home[lh[j]] = slots[j]
      BY <1>1, <1>9, Zenon DEF DataInv, Home
    <3> QED BY <1>1, <1>4, <1>6, <1>8, <1>9, <3>1, <3>2, <3>3 DEF Home, b
  <2>2. committing => Copied(Len(lh))'
    <3>1. SUFFICES ASSUME committing, NEW j \in 1 .. Len(lh) PROVE slots[j] = cache'[lh[j]]
      BY <1>1, Zenon DEF Copied
    <3>2. slots[j] = cache[lh[j]]
      BY <1>1, <1>9, <3>1, Zenon DEF DataInv, Copied
    <3> QED BY <1>4, <1>6, <1>8, <1>9, <3>2, Zenon DEF b
  <2>3. CacheInv'
    BY <1>1, <1>2, <1>4, <1>9, Zenon DEF DataInv, CacheInv
  <2>4. Recovering => cache' = home'
    BY <1>4, <1>9 DEF LogInv, DataInv, TypeOK
  <2> QED BY <1>1, <1>2, <1>9, <2>1, <2>2, <2>3, <2>4 DEF DataInv
<1>10. LogInv'
  BY <1>1, <1>2, <1>5, <1>7, CommitKeeps, Room, Zenon DEF LogInv, WhoInv, WroteInv, Distinct
<1> QED BY <1>9, <1>10, Zenon DEF Keeps

LEMMA InstallDoneInv == ASSUME LogInv, InstallDone PROVE Keeps
<1>1. /\ lh' = lh /\ head' = head /\ cache' = cache /\ home' = home /\ slots' = slots
      /\ tail' = 0 /\ phase = "install" /\ phase' = "clear" /\ tail = Len(lh) /\ Running
      /\ buf' = buf /\ committing' = committing
  BY Zenon DEF InstallDone, disk, Running, ops
<1>2. Recorded' = Recorded /\ Recovering' = Recovering
  BY <1>1, Zenon DEF Recovering, Recorded
<1>3. TypeOK'
  BY <1>1, Zenon DEF LogInv, TypeOK, Phases, Running, ops
<1>4. ASSUME DataInv PROVE DataInv'
  <2>1. Home(Len(lh)) /\ CacheInv
    BY <1>1, <1>4, Zenon DEF DataInv
  <2>2. cache = home
    <3>1. CASE committing
      <4>1. Copied(Len(lh))
        BY <1>1, <1>4, <3>1, Zenon DEF DataInv
      <4>2. \A b \in Recorded : cache[b] = home[b]
        BY <2>1, <4>1, Indices DEF Copied, Home
      <4> QED BY <1>1, <1>4, <4>2, Agrees
    <3>2. CASE ~committing
      BY <1>1, <1>4, <3>2, Zenon DEF DataInv, Recovering
    <3> QED BY <3>1, <3>2
  <2> QED BY <1>1, <1>2, <1>4, <2>1, <2>2 DEF CacheInv, DataInv, Home
<1>5. PhaseInv'
  BY <1>1, <1>2 DEF LogInv, PhaseInv, Distinct
<1>6. LogInv'
  BY <1>1, <1>2, <1>3, <1>5, CommitKeeps, Room, Zenon DEF LogInv, WroteInv, Distinct
<1> QED BY <1>4, <1>6, Zenon DEF Keeps

\* The second write_head(): the log is empty, and everything is home.
LEMMA ClearInv == ASSUME LogInv, Clear PROVE Keeps
<1>1. /\ lh' = << >> /\ head' = << >> /\ cache' = cache /\ home' = home /\ slots' = slots
      /\ tail' = tail /\ phase = "clear" /\ phase' = (IF committing THEN "done" ELSE "none")
      /\ Running /\ buf' = buf /\ committing' = committing
  BY Zenon DEF Clear, Running, ops
<1>2. << >> \in Seq(Blocks) /\ Len(<< >>) = 0 /\ Distinct(<< >>)
  BY DEF Distinct
<1>3. tail = 0 /\ ~Recovering' /\ (DataInv => cache = home)
  BY <1>1, Zenon DEF LogInv, PhaseInv, DataInv, Recovering
<1>4. TypeOK'
  BY <1>1, <1>2, Zenon DEF LogInv, TypeOK, Phases, Running, ops
<1>5. PhaseInv' /\ (DataInv => DataInv')
  <2>1. DataInv => CacheInv'
    BY <1>1, <1>3, Zenon DEF CacheInv
  <2>2. 0 <= LOGSIZE /\ 0 <= nlog - 1
    BY LogAssumption
  <2>3. DataInv => DataInv'
    BY <1>1, <1>2, <1>3, <2>1, <2>2, Zenon DEF DataInv
  <2> QED BY <1>1, <1>2, <1>3, <2>2, <2>3, Zenon DEF PhaseInv
<1>6. LogInv'
  BY <1>1, <1>2, <1>4, <1>5, CommitKeeps, LogAssumption
<1> QED BY <1>5, <1>6, Zenon DEF Keeps

\* read_head() of recovery: the header on disk is the transaction to install.
LEMMA ReadHeadInv == ASSUME LogInv, ReadHead PROVE Keeps
<1>1. /\ lh' = head /\ head' = head /\ cache' = cache /\ home' = home /\ slots' = slots
      /\ tail' = tail /\ phase = "read" /\ phase' = "install" /\ Running
      /\ buf' = buf /\ committing' = committing
  BY Zenon DEF ReadHead, disk, Running, ops
<1>2. ~committing /\ tail = 0 /\ Recovering
  BY <1>1, Zenon DEF LogInv, WhoInv, PhaseInv, Recovering
<1>3. Distinct(head) /\ Len(head) <= LOGSIZE /\ Len(head) \in Nat
  BY DEF LogInv, PhaseInv, TypeOK
<1>4. TypeOK'
  BY <1>1, Zenon DEF LogInv, TypeOK, Phases, Running, ops
<1>5. Distinct(head)' /\ Distinct(lh)' /\ Home(tail)'
  BY <1>1, <1>2, <1>3, Indices, Zenon DEF Distinct, Home
<1>6. PhaseInv'
  BY <1>1, <1>2, <1>3, <1>5 DEF PhaseInv
<1>7. ASSUME DataInv PROVE DataInv'
  <2>1. cache = home
    BY <1>2, <1>7, Zenon DEF DataInv
  <2>2. CacheInv'
    BY <1>1, <2>1, Zenon DEF CacheInv
  <2> QED BY <1>1, <1>2, <1>5, <1>7, <2>1, <2>2 DEF DataInv
<1>8. LogInv'
  BY <1>1, <1>2, <1>3, <1>4, <1>5, <1>6, CommitKeeps
<1> QED BY <1>7, <1>8, Zenon DEF Keeps

\* A crash leaves the disk as it is.
LEMMA CrashInv == ASSUME LogInv, Crash PROVE Keeps
<1>1. /\ head' = head /\ home' = home /\ slots' = slots /\ cache' = home /\ lh' = << >>
      /\ outstanding' = 0 /\ committing' = FALSE /\ panicked' = panicked
      /\ pc' = [o \in Ops |-> "idle"] /\ buf' = [o \in Ops |-> {}]
      /\ wrote' = [o \in Ops |-> {}] /\ phase' = "read" /\ tail' = 0
  BY Zenon DEF Crash, disk
<1>2. << >> \in Seq(Blocks) /\ Len(<< >>) = 0
  OBVIOUS
<1>3. Inside' = {} /\ Reserved' = {} /\ Recorded' = {}
  BY <1>1 DEF Inside, Reserved, Recorded
<1>4. TypeOK'
  BY <1>1, <1>2, Zenon DEF LogInv, TypeOK, Phases, OpPoints
<1>5. WhoInv'
  BY <1>1, <1>3, FS_EmptySet, Zenon DEF WhoInv
<1>6. WroteInv'
  BY <1>1, <1>2, <1>3, FS_EmptySet, LogAssumption DEF WroteInv, Distinct
<1>7. PhaseInv' /\ (DataInv => DataInv')
  BY <1>1 DEF LogInv, CacheInv, PhaseInv, DataInv, Distinct
<1>8. LogReserved'
  BY <1>1, <1>2, <1>3, FS_EmptySet, LogAssumption DEF LogReserved
<1> QED BY <1>4, <1>5, <1>6, <1>7, <1>8, Zenon DEF LogInv, Keeps

-----------------------------------------------------------------------------
LEMMA NextInv == ASSUME LogInv, [Next]_vars PROVE Keeps
<1>1. ASSUME NEW o \in Ops, Call(o) \/ BeginSleep(o) \/ Check(o) PROVE Keeps
  <2>1. /\ UNCHANGED <<disk, mem, buf, wrote, prog>> /\ ~Recovering
        /\ \/ pc[o] = "idle" /\ pc' = [pc EXCEPT ![o] = "begin"]
           \/ pc[o] = "begin" /\ pc' = [pc EXCEPT ![o] = "asleep"]
           \/ pc[o] = "check" /\ pc' = [pc EXCEPT ![o] = "append"]
    BY <1>1, Zenon DEF Call, BeginSleep, Check, Up, Goto, Recovering
  <2>2. panicked' \in BOOLEAN
    BY <1>1, Zenon DEF Call, BeginSleep, Check, LogInv, TypeOK
  <2>3. /\ pc' \in [Ops -> OpPoints] /\ Inside' = Inside
        /\ \A q \in Ops : pc'[q] = "commit" <=> pc[q] = "commit"
        /\ \A q \in Ops : pc'[q] \notin {"check", "append"} => buf[q] = {}
    BY <2>1, ZenonT(30) DEF LogInv, TypeOK, WroteInv, OpPoints, Inside
  <2> QED BY <2>1, <2>2, <2>3, PlaceInv
<1>2. ASSUME NEW o \in Ops, Op(o) PROVE Keeps
  BY <1>1, <1>2, BeginInv, LogWriteInv, EndOpInv, CommitDoneInv, Zenon DEF Op
<1>3. CASE Commit
  BY <1>3, CommitEmptyInv, WriteLogInv, WriteLogDoneInv, WriteHeadInv, InstallInv,
     InstallDoneInv, ClearInv, Zenon DEF Commit
<1>4. CASE UNCHANGED vars
  <2>1. /\ lh' = lh /\ head' = head /\ cache' = cache /\ home' = home /\ slots' = slots
        /\ buf' = buf /\ tail' = tail /\ wrote' = wrote /\ outstanding' = outstanding
        /\ panicked' = panicked /\ committing' = committing /\ phase' = phase /\ pc' = pc
    BY <1>4, Zenon DEF vars
  <2>2. Inside' = Inside /\ Recorded' = Recorded /\ Recovering' = Recovering
    BY <2>1, Zenon DEF Inside, Recorded, Recovering
  <2>3. TypeOK' /\ WhoInv' /\ WroteInv' /\ (CacheInv => CacheInv')
    BY <2>1, <2>2, Zenon DEF LogInv, TypeOK, WhoInv, WroteInv, CacheInv, Distinct
  <2>4. PhaseInv' /\ (DataInv => DataInv')
    BY <2>1, <2>2, <2>3 DEF LogInv, PhaseInv, DataInv, Copied, Home, Distinct
  <2>5. LogReserved'
    BY <2>1, <2>2 DEF LogInv, LogReserved, Reserved
  <2> QED BY <2>3, <2>4, <2>5, Zenon DEF LogInv, Keeps
<1> QED BY <1>1, <1>2, <1>3, <1>4, ModifyInv, CrashInv, ReadHeadInv, Zenon DEF Next


LEMMA LogInvariant == Spec => []LogInv
<1>1. LogInv /\ [Next]_vars => LogInv'
  BY NextInv, Zenon DEF Keeps
<1>2. Init => LogInv
  BY LogInit
<1> QED BY <1>1, <1>2, PTL DEF Spec

LEMMA DataInvariant == Spec /\ []LogFits => [](LogInv /\ DataInv)
<1>1. (LogInv /\ DataInv) /\ LogFits /\ [Next]_vars => (LogInv /\ DataInv)'
  BY NextInv, Zenon DEF Keeps
<1> QED BY LogInit, <1>1, PTL DEF Spec

\* Every variable of the log keeps its type, for any operations, blocks and sizes.
THEOREM LogTypeCorrect == Spec => []TypeOK
<1>1. LogInv => TypeOK
  BY Zenon DEF LogInv
<1> QED BY LogInvariant, <1>1, PTL

\* What begin_op() reserves is enough: the blocks recorded and all that the outstanding
\* operations may still record fit into the header.
THEOREM LogReservedCorrect == Spec => []LogReserved
<1>1. LogInv => LogReserved
  BY Zenon DEF LogInv
<1> QED BY LogInvariant, <1>1, PTL

\* So a log of more than LOGSIZE blocks, its header included, is never overrun (that
\* of mkfs has LOGSIZE).
THEOREM LogFitsCorrect == ASSUME nlog > LOGSIZE PROVE Spec => []LogFits
<1>1. LogInv => LogFits
  BY Room, LogAssumption DEF LogFits
<1> QED BY LogInvariant, <1>1, PTL

-----------------------------------------------------------------------------
(* Refinement of AtomicDisk, as long as the log does not outgrow its blocks. *)

\* What recovery would restore from the header h, the log blocks s and the home blocks m.
Restored(h, s, m) ==
  LET At(b) == CHOOSE j \in 1 .. Len(h) : h[j] = b
  IN [b \in Blocks |-> IF \E j \in 1 .. Len(h) : h[j] = b
                       THEN IF At(b) < nlog THEN s[At(b)] ELSE m[Behind[At(b)]]
                       ELSE m[b]]

LEMMA DurableOf ==
  ASSUME NEW h \in Seq(Blocks), Distinct(h), Len(h) <= nlog - 1,
         NEW s \in [1 .. nlog - 1 -> Vals], NEW m \in [Blocks -> Vals]
  PROVE  /\ Restored(h, s, m) \in [Blocks -> Vals]
         /\ \A j \in 1 .. Len(h) : Restored(h, s, m)[h[j]] = s[j]
         /\ \A b \in Blocks :
              (\A j \in 1 .. Len(h) : h[j] # b) => Restored(h, s, m)[b] = m[b]
<1> DEFINE D == Restored(h, s, m)
<1>1. \A j \in 1 .. Len(h) : j \in 1 .. nlog - 1 /\ h[j] \in Blocks /\ j < nlog
  BY LogAssumption
<1>2. ASSUME NEW j \in 1 .. Len(h)
      PROVE  (CHOOSE i \in 1 .. Len(h) : h[i] = h[j]) = j
  BY Zenon DEF Distinct
<1>3. \A j \in 1 .. Len(h) : D[h[j]] = s[j]
  BY <1>1, <1>2, Zenon DEF Restored
<1>4. \A b \in Blocks : (\A j \in 1 .. Len(h) : h[j] # b) => D[b] = m[b]
  BY Zenon DEF Restored
<1>5. \A b \in Blocks : D[b] \in Vals
  BY <1>1, <1>3, <1>4, ZenonT(30)
<1>6. D \in [Blocks -> Vals]
  BY <1>5, Zenon DEF Restored
<1> QED BY <1>3, <1>4, <1>6

LEMMA DurableNow ==
  ASSUME LogInv, DataInv
  PROVE  /\ Durable \in [Blocks -> Vals]
         /\ \A j \in 1 .. Len(head) : Durable[head[j]] = slots[j]
         /\ \A b \in Blocks : (\A j \in 1 .. Len(head) : head[j] # b) => Durable[b] = home[b]
<1>1. /\ head \in Seq(Blocks) /\ Distinct(head) /\ Len(head) <= nlog - 1
      /\ slots \in [1 .. nlog - 1 -> Vals] /\ home \in [Blocks -> Vals]
  BY Zenon DEF LogInv, TypeOK, PhaseInv, DataInv
<1>2. Durable = Restored(head, slots, home)
  BY Zenon DEF Durable, Restored, LogBlock, InLog
<1> QED BY <1>1, <1>2, DurableOf, ZenonT(30)

LEMMA DurableNext ==
  ASSUME LogInv', DataInv'
  PROVE  /\ Durable' \in [Blocks -> Vals]
         /\ \A j \in 1 .. Len(head') : Durable'[head'[j]] = slots'[j]
         /\ \A b \in Blocks : (\A j \in 1 .. Len(head') : head'[j] # b) => Durable'[b] = home'[b]
<1>1. /\ head' \in Seq(Blocks) /\ Distinct(head') /\ Len(head') <= nlog - 1
      /\ slots' \in [1 .. nlog - 1 -> Vals] /\ home' \in [Blocks -> Vals]
  BY Zenon DEF LogInv, TypeOK, PhaseInv, DataInv, Distinct
<1>2. Durable' = Restored(head', slots', home')
  BY Zenon DEF Durable, Restored, LogBlock, InLog
<1> QED BY <1>1, <1>2, DurableOf, ZenonT(30)

\* An empty header: the home blocks are all there is.
LEMMA EmptyHead == ASSUME LogInv, DataInv, head = << >> PROVE Durable = home
<1>1. \A b \in Blocks : Durable[b] = home[b]
  BY DurableNow
<1> QED BY <1>1, DurableNow DEF LogInv, TypeOK

LEMMA EmptyHeadNext == ASSUME LogInv', DataInv', head' = << >> PROVE Durable' = home'
<1>1. \A b \in Blocks : Durable'[b] = home'[b]
  BY DurableNext
<1> QED BY <1>1, DurableNext DEF LogInv, TypeOK

\* When the last end_op() has returned, all that was written is on disk, at home and
\* for recovery alike, if the log has never outgrown its blocks.
THEOREM QuietMeansDurableCorrect == Spec /\ []LogFits => []QuietMeansDurable
<1>1. ASSUME LogInv, DataInv, phase = "none", outstanding = 0 PROVE Durable = cache /\ home = cache
  <2>1. Inside = {}
    BY <1>1, OpsFinite, FS_EmptySet, Zenon DEF LogInv, WhoInv
  <2>2. lh = << >> /\ head = << >> /\ \A o \in Ops : buf[o] = {}
    BY <1>1, <2>1, Zenon DEF LogInv, PhaseInv, WroteInv, Inside
  <2>3. Recorded = {}
    BY <1>1, <2>2, Indices
  <2>4. \A b \in Blocks : cache[b] = home[b]
    BY <1>1, <2>2, <2>3, Zenon DEF DataInv, CacheInv
  <2>5. cache = home
    BY <1>1, <2>4 DEF LogInv, TypeOK
  <2> QED BY <1>1, <2>2, <2>5, EmptyHead
<1>2. LogInv /\ DataInv => QuietMeansDurable
  BY <1>1, Zenon DEF QuietMeansDurable
<1> QED BY DataInvariant, <1>2, PTL


Stutters == Contents' = Contents /\ Durable' = Durable /\ Inside' = Inside

\* Two functions on the blocks that agree on those recorded and on the others.
LEMMA SameContents ==
  ASSUME LogInv, NEW f \in [Blocks -> Vals], NEW g \in [Blocks -> Vals],
         \A j \in 1 .. Len(lh) : f[lh[j]] = g[lh[j]],
         \A b \in Blocks \ Recorded : f[b] = g[b]
  PROVE  f = g
<1>1. \A b \in Blocks : f[b] = g[b]
  BY Indices
<1> QED BY <1>1

LEMMA NotRecorded ==
  ASSUME LogInv, NEW b \in Blocks \ Recorded
  PROVE  \A j \in 1 .. Len(lh) : lh[j] # b
BY Zenon DEF Recorded

\* The first write_head() is the moment of the commit: the contents in memory become
\* durable all at once.
LEMMA WriteHeadCommits == ASSUME LogInv, DataInv, LogInv', DataInv', WriteHead PROVE Abs!Commit
<1>1. /\ lh' = lh /\ head' = lh /\ cache' = cache /\ home' = home /\ slots' = slots
      /\ phase = "head" /\ phase' = "install" /\ committing' = committing /\ pc' = pc
  BY Zenon DEF WriteHead, Running, ops
<1>2. committing /\ Inside = {} /\ Inside' = Inside /\ \A o \in Ops : buf[o] = {}
  BY <1>1, Room, Zenon DEF LogInv, WhoInv, Inside, Recovering
<1>3. Contents = cache /\ Contents' = cache
  BY <1>1, <1>2, Zenon DEF Contents, Recovering
<1>4. Copied(Len(lh))
  BY <1>1, Zenon DEF DataInv
<1>5. Durable' = cache
  <2>1. \A j \in 1 .. Len(lh) : Durable'[lh[j]] = cache[lh[j]]
    BY <1>1, <1>4, DurableNext DEF Copied
  <2>2. \A b \in Blocks \ Recorded : Durable'[b] = cache[b]
    BY <1>1, <1>2, NotRecorded, DurableNext, Zenon DEF DataInv, CacheInv
  <2>3. Durable' \in [Blocks -> Vals] /\ cache \in [Blocks -> Vals]
    BY DurableNext, Zenon DEF LogInv, TypeOK
  <2> QED BY <2>1, <2>2, <2>3, SameContents
<1> QED BY <1>2, <1>3, <1>5, Zenon DEF Abs!Commit

\* The blocks that are brought home are those that recovery would take from the log.
LEMMA InstallStutters == ASSUME LogInv, DataInv, LogInv', DataInv', Install PROVE Stutters
<1> DEFINE b == lh[tail + 1]
           v == LogBlock(tail + 1, cache)
<1>1. /\ lh' = lh /\ head' = head /\ slots' = slots /\ pc' = pc
      /\ home' = [home EXCEPT ![b] = v] /\ cache' = [cache EXCEPT ![b] = v]
      /\ phase = "install" /\ phase' = "install" /\ tail < Len(lh)
      /\ committing' = committing
  BY Zenon DEF Install, Running, ops
<1>2. tail + 1 \in 1 .. Len(lh) /\ b \in Recorded /\ b \in Blocks
  <2>1. tail + 1 \in 1 .. Len(lh)
    BY <1>1, Indices
  <2> QED BY <2>1, Indices
<1>3. Inside' = Inside /\ Recovering' = Recovering /\ head = lh
  BY <1>1, Zenon DEF Inside, Recovering, LogInv, PhaseInv
<1>4. Durable' = Durable
  <2>1. \A j \in 1 .. Len(lh) : Durable'[lh[j]] = Durable[lh[j]]
    BY <1>1, <1>3, DurableNow, DurableNext
  <2>2. \A c \in Blocks \ Recorded : home'[c] = home[c]
    BY <1>1, <1>2, Zenon DEF LogInv, TypeOK
  <2>3. \A c \in Blocks \ Recorded : Durable'[c] = Durable[c]
    BY <1>1, <1>3, <2>2, NotRecorded, DurableNow, DurableNext
  <2> QED BY <2>1, <2>3, SameContents, DurableNow, DurableNext
<1>5. committing => cache' = cache
  <2>1. ASSUME committing PROVE v = cache[b]
    <3>1. v = slots[tail + 1]
      BY <1>1, InstallFits
    <3> QED BY <1>1, <1>2, <2>1, <3>1, Zenon DEF DataInv, Copied
  <2> QED BY <1>1, <2>1, Zenon DEF LogInv, TypeOK
<1>6. Contents' = Contents
  BY <1>1, <1>3, <1>4, <1>5, Zenon DEF Contents, Recovering
<1> QED BY <1>3, <1>4, <1>6, Zenon DEF Stutters

\* When the log is cleared, all of its blocks are home.
LEMMA ClearStutters == ASSUME LogInv, DataInv, LogInv', DataInv', Clear PROVE Stutters
<1>1. /\ head' = << >> /\ home' = home /\ cache' = cache /\ phase = "clear" /\ pc' = pc
      /\ phase' = (IF committing THEN "done" ELSE "none") /\ committing' = committing
  BY Zenon DEF Clear, Running, ops
<1>2. head = lh /\ Home(Len(lh)) /\ cache = home
  BY <1>1, Zenon DEF LogInv, PhaseInv, DataInv
<1>3. Durable = home
  <2>1. \A j \in 1 .. Len(lh) : Durable[lh[j]] = home[lh[j]]
    BY <1>2, DurableNow DEF Home
  <2>2. \A b \in Blocks \ Recorded : Durable[b] = home[b]
    BY <1>2, NotRecorded, DurableNow
  <2> QED BY <2>1, <2>2, SameContents, DurableNow, ZenonT(30) DEF LogInv, TypeOK
<1>4. Durable' = home
  BY <1>1, EmptyHeadNext
<1>5. Contents = home /\ Contents' = home
  BY <1>1, <1>2, <1>3, Zenon DEF Contents, Recovering
<1> QED BY <1>1, <1>3, <1>4, <1>5, Zenon DEF Stutters, Inside

\* write_log() writes to blocks of the log that the header on disk does not name.
LEMMA WriteLogStutters ==
  ASSUME LogInv, DataInv, LogFits, LogInv', DataInv', WriteLog PROVE Stutters
<1>1. /\ head' = head /\ phase = "write" /\ pc' = pc /\ tail < Len(lh)
      /\ phase' = phase /\ committing' = committing
      /\ InLog(tail + 1) => home' = home /\ cache' = cache
  BY Zenon DEF WriteLog, Running, ops
<1>2. head = << >>
  BY <1>1, Zenon DEF LogInv, PhaseInv
<1>3. home' = home /\ cache' = cache
  <2>1. InLog(tail + 1)
    BY <1>1, Indices, LogAssumption DEF InLog, LogFits
  <2> QED BY <1>1, <2>1
<1>4. Durable = home /\ Durable' = home /\ committing
  BY <1>1, <1>2, <1>3, EmptyHead, EmptyHeadNext, Zenon DEF LogInv, WhoInv, Recovering
<1> QED BY <1>1, <1>3, <1>4, Zenon DEF Stutters, Contents, Recovering, Inside

\* The other steps of commit(), the start of recovery, and those of operations that
\* only move on.
LEMMA MovesStutter ==
  ASSUME UNCHANGED <<head, home, slots, cache>>, Inside' = Inside, Recovering' = Recovering
  PROVE  Stutters
<1>1. Durable' = Durable
  BY Zenon DEF Durable, LogBlock
<1> QED BY <1>1, Zenon DEF Stutters, Contents


LEMMA OpRefines ==
  ASSUME LogInv, DataInv, LogInv', DataInv', NEW o \in Ops, Call(o) \/ Op(o)
  PROVE  Stutters \/ Abs!Begin(o) \/ Abs!End(o)
<1>1. CASE Call(o) \/ BeginSleep(o) \/ Check(o) \/ LogWrite(o)
  <2>1. UNCHANGED <<head, home, slots, cache, phase, committing>>
    BY <1>1, Zenon DEF Call, BeginSleep, Check, LogWrite, disk, mem, prog
  <2>2. \/ pc[o] \in {"idle", "begin"} /\ \E x \in {"begin", "asleep"} : pc' = [pc EXCEPT ![o] = x]
        \/ pc[o] \in {"check", "append"} /\ \E x \in {"append", "in"} : pc' = [pc EXCEPT ![o] = x]
    BY <1>1, Zenon DEF Call, BeginSleep, Check, LogWrite, Goto
  <2>3. Inside' = Inside /\ Recovering' = Recovering
    BY <2>1, <2>2, Zenon DEF Inside, Recovering, LogInv, TypeOK
  <2> QED BY <2>1, <2>3, MovesStutter
<1>2. CASE Begin(o)
  <2>1. /\ UNCHANGED <<head, home, slots, cache, phase, committing>>
        /\ pc[o] = "begin" /\ pc' = [pc EXCEPT ![o] = "in"]
    BY <1>2, Zenon DEF Begin, disk, prog, Goto
  <2>2. o \notin Inside /\ Inside' = Inside \cup {o} /\ Contents' = Contents /\ Durable' = Durable
    BY <2>1, ZenonT(30) DEF Inside, LogInv, TypeOK, Contents, Durable, LogBlock, Recovering
  <2> QED BY <2>2, Zenon DEF Abs!Begin
<1>3. CASE EndOp(o)
  <2>1. UNCHANGED <<head, home, slots, cache>> /\ pc[o] = "in"
    BY <1>3, Zenon DEF EndOp, disk
  <2>2. \/ committing' = TRUE /\ pc' = [pc EXCEPT ![o] = "commit"]
        \/ phase' = phase /\ committing' = committing /\ pc' = Wakeup([pc EXCEPT ![o] = "idle"])
    BY <1>3, Zenon DEF EndOp, Goto
  <2>3. o \in Inside /\ Inside' = Inside \ {o}
    BY <2>1, <2>2, Zenon DEF Inside, LogInv, TypeOK, Wakeup
  <2>4. ~Recovering /\ ~Recovering'
    BY <2>2, <2>3, Room, Zenon DEF Recovering
  <2>5. Contents' = Contents /\ Durable' = Durable
    BY <2>1, <2>4, Zenon DEF Contents, Durable, LogBlock
  <2> QED BY <2>3, <2>5, Zenon DEF Abs!End
<1>4. CASE CommitDone(o)
  <2>1. /\ UNCHANGED <<head, home, slots, cache>> /\ pc[o] = "commit" /\ phase' = "none"
        /\ pc' = Wakeup([pc EXCEPT ![o] = "idle"])
    BY <1>4, Zenon DEF CommitDone, disk
  <2>2. Inside' = Inside /\ ~Recovering /\ ~Recovering'
    <3>1. committing
      BY <2>1, Zenon DEF LogInv, WhoInv
    <3>2. Inside' = Inside
      BY <2>1, Zenon DEF Inside, LogInv, TypeOK, Wakeup
    <3> QED BY <2>1, <3>1, <3>2, Zenon DEF Recovering
  <2>3. Recovering' = Recovering
    BY <2>2, Zenon DEF Recovering
  <2> QED BY <2>1, <2>2, <2>3, MovesStutter
<1> QED BY <1>1, <1>2, <1>3, <1>4, Zenon DEF Op

LEMMA ModifyWrites ==
  ASSUME LogInv, NEW o \in Ops, NEW b \in Blocks, NEW v \in Vals, Modify(o, b, v)
  PROVE  Abs!Write(o, b, v)
<1>1. /\ UNCHANGED <<head, home, slots, phase, committing>> /\ cache' = [cache EXCEPT ![b] = v]
      /\ pc[o] = "in" /\ pc' = [pc EXCEPT ![o] = "check"]
  BY Zenon DEF Modify, disk, prog, Goto
<1>2. o \in Inside /\ Inside' = Inside
  BY <1>1, Zenon DEF Inside, LogInv, TypeOK
<1>3. ~Recovering /\ ~Recovering'
  BY <1>1, <1>2, Room, Zenon DEF Recovering
<1>4. Contents = cache /\ Contents' = cache' /\ Durable' = Durable
  BY <1>1, <1>3, Zenon DEF Contents, Durable, LogBlock
<1> QED BY <1>1, <1>2, <1>4, Zenon DEF Abs!Write

LEMMA CommitRefines ==
  ASSUME LogInv, DataInv, LogFits, LogInv', DataInv', Commit \/ ReadHead PROVE Stutters \/ Abs!Commit
<1>1. CASE CommitEmpty \/ WriteLogDone \/ InstallDone \/ ReadHead
  <2>1. UNCHANGED <<head, home, slots, cache, committing, pc>> /\ phase # "none" /\ phase' # "none"
    BY <1>1, Zenon DEF CommitEmpty, WriteLogDone, InstallDone, ReadHead, Running, disk, ops
  <2>2. Inside' = Inside /\ Recovering' = Recovering
    BY <2>1, Zenon DEF Inside, Recovering
  <2> QED BY <2>1, <2>2, MovesStutter
<1> QED BY <1>1, WriteLogStutters, WriteHeadCommits, InstallStutters, ClearStutters, Zenon DEF Commit

LEMMA CrashRefines == ASSUME LogInv, Crash PROVE Abs!Crash
<1>1. /\ UNCHANGED <<head, home, slots>> /\ phase' = "read" /\ committing' = FALSE
      /\ pc' = [o \in Ops |-> "idle"]
  BY Zenon DEF Crash, disk
<1>2. Durable' = Durable /\ Inside' = {} /\ Recovering'
  BY <1>1, Zenon DEF Durable, LogBlock, Inside, Recovering
<1>3. Contents' = Durable
  BY <1>2, Zenon DEF Contents
<1> QED BY <1>2, <1>3, Zenon DEF Abs!Crash

LEMMA NextAtomicDisk ==
  ASSUME LogInv, DataInv, LogFits, LogInv', DataInv', [Next]_vars
  PROVE  [Abs!Next]_<<Contents, Durable, Inside>>
<1>1. CASE \E o \in Ops : Call(o) \/ Op(o)
  BY <1>1, OpRefines, Zenon DEF Stutters, Abs!Next
<1>2. CASE \E o \in Ops, b \in Blocks, v \in Vals : Modify(o, b, v)
  BY <1>2, ModifyWrites, Zenon DEF Abs!Next
<1>3. CASE Commit \/ ReadHead
  BY <1>3, CommitRefines, Zenon DEF Stutters, Abs!Next
<1>4. CASE Crash
  BY <1>4, CrashRefines, Zenon DEF Abs!Next
<1>5. CASE UNCHANGED vars
  BY <1>5, Zenon DEF vars, Contents, Durable, LogBlock, Inside, Recovering
<1> QED BY <1>1, <1>2, <1>3, <1>4, <1>5, Zenon DEF Next

\* As long as the log does not outgrow its blocks, file system operations are atomic with
\* respect to crashes, for any operations, blocks and log size: what survives changes in one step, the first write_head() of commit(),
\* when no operation is between begin_op() and end_op().
THEOREM RefinesAtomicDisk == Spec /\ []LogFits => ImplementsAtomicDisk
<1>1. Init => Abs!Init
  <2> SUFFICES ASSUME Init PROVE Abs!Init
    OBVIOUS
  <2>1. LogInv /\ DataInv /\ head = << >> /\ cache = home /\ home \in [Blocks -> Vals]
    BY LogInit, Zenon DEF Init
  <2>2. Durable = home /\ ~Recovering /\ Inside = {}
    BY <2>1, EmptyHead, Zenon DEF Init, Recovering, Inside
  <2> QED BY <2>1, <2>2, Zenon DEF Abs!Init, Contents
<1>2. /\ LogInv /\ DataInv /\ LogFits
      /\ (LogInv /\ DataInv)' /\ [Next]_vars
      => [Abs!Next]_<<Contents, Durable, Inside>>
  BY NextAtomicDisk
<1> QED BY <1>1, <1>2, DataInvariant, PTL DEF Spec, ImplementsAtomicDisk, Abs!Spec


=============================================================================
