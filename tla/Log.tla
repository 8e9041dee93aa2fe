-------------------------------- MODULE Log --------------------------------
(***************************************************************************)
(* The write-ahead log of the file system (log.c): begin_op, log_write and *)
(* end_op by concurrent operations, the group commit, crashes at any       *)
(* moment and the recovery at the next boot, which may crash as well.      *)
(* A block write is atomic (one sector) and synchronous (bwrite waits for  *)
(* the disk).  Blocks an operation modifies stay in the buffer cache until *)
(* they are installed: bget() does not recycle a B_DIRTY buffer.           *)
(***************************************************************************)
EXTENDS Integers, Sequences, FiniteSets

CONSTANTS Ops,          \* processes that perform file system operations
          Blocks,       \* home blocks
          Vals,         \* contents of a block
          MAXOPBLOCKS, LOGSIZE,
          nlog,         \* blocks of the on-disk log, its header included
          Behind,       \* the home blocks that follow the log on disk: Behind[j] is
                        \* where a block j of the log would be that it does not have
          OpBlocks,     \* bound: different blocks an operation writes
          Crashes       \* whether crashes happen

ASSUME LogAssumption ==
  /\ MAXOPBLOCKS \in Nat /\ LOGSIZE \in Nat /\ nlog \in Nat \ {0} /\ OpBlocks \in Nat
  /\ Behind \in [nlog .. LOGSIZE -> Blocks]
  /\ OpBlocks <= MAXOPBLOCKS /\ Crashes \in BOOLEAN /\ IsFiniteSet(Ops)

VARIABLES cache,        \* contents of the blocks in memory
          home,         \* contents of the blocks on disk
          slots,        \* contents of the log's data blocks on disk
          head,         \* the log's header on disk: its list of home blocks
          lh,           \* log.lh: the header in memory
          outstanding, committing,
          pc,           \* where operation o is, see OpPoints
          buf,          \* the buffer o has modified and keeps locked
          wrote,        \* blocks o has modified
          phase,        \* progress of commit() or of recovery, see Phases
          tail,         \* index of the loops of write_log and install_trans
          panicked

disk == <<home, slots, head>>
mem  == <<cache, lh, outstanding, committing>>
ops  == <<pc, buf, wrote>>
prog == <<phase, tail>>
vars == <<cache, home, slots, head, lh, outstanding, committing, pc, buf, wrote,
          phase, tail, panicked>>

\* idle: outside; begin: in begin_op; asleep: in sleep(&log); in: between
\* begin_op and end_op; check, append: before the tests and before the
\* critical section of log_write; commit: in the commit of end_op.
OpPoints == {"idle", "begin", "asleep", "in", "check", "append", "commit"}

\* none: neither; write: write_log; head: first write_head; install:
\* install_trans; clear: second write_head; done: commit() has returned;
\* read: recovery before read_head.  Recovery goes through install and clear
\* while no operation is in commit.
Phases == {"none", "write", "head", "install", "clear", "done", "read"}

Init == /\ home \in [Blocks -> Vals] /\ cache = home
        /\ slots \in [1 .. nlog - 1 -> Vals] /\ head = << >> /\ lh = << >>
        /\ outstanding = 0 /\ committing = FALSE
        /\ pc = [o \in Ops |-> "idle"] /\ buf = [o \in Ops |-> {}]
        /\ wrote = [o \in Ops |-> {}]
        /\ phase = "none" /\ tail = 0 /\ panicked = FALSE

\* The machine runs, and recovery is over.
Up        == ~panicked /\ (phase = "none" \/ committing)
Goto(o, point) == pc' = [pc EXCEPT ![o] = point]

\* wakeup(&log).
Wakeup(p) == [o \in Ops |-> IF p[o] = "asleep" THEN "begin" ELSE p[o]]

-----------------------------------------------------------------------------
(* begin_op() and log_write().                                             *)

Call(o) == /\ Up /\ pc[o] = "idle"
           /\ Goto(o, "begin")
           /\ UNCHANGED <<disk, mem, buf, wrote, prog, panicked>>

\* The new operation and the outstanding ones cannot exhaust the log.
Fits == Len(lh) + (outstanding + 1) * MAXOPBLOCKS <= LOGSIZE

\* begin_op() goes to sleep, releasing log.lock in sleep().
BeginSleep(o) == /\ Up /\ pc[o] = "begin" /\ (committing \/ ~Fits)
                 /\ Goto(o, "asleep")
                 /\ UNCHANGED <<disk, mem, buf, wrote, prog, panicked>>

\* begin_op() returns.
Begin(o) == /\ Up /\ pc[o] = "begin" /\ ~committing /\ Fits
            /\ outstanding' = outstanding + 1
            /\ Goto(o, "in")
            /\ UNCHANGED <<disk, cache, lh, committing, buf, wrote, prog, panicked>>

\* The operation locks a buffer (bread) and modifies it.
Modify(o, b, v) ==
  /\ Up /\ pc[o] = "in" /\ \A q \in Ops : b \notin buf[q]
  /\ Cardinality(wrote[o] \cup {b}) <= OpBlocks
  /\ cache' = [cache EXCEPT ![b] = v]
  /\ buf'   = [buf EXCEPT ![o] = {b}]
  /\ wrote' = [wrote EXCEPT ![o] = @ \cup {b}]
  /\ Goto(o, "check")
  /\ UNCHANGED <<disk, lh, outstanding, committing, prog, panicked>>

\* log_write() tests log.lh.n before it acquires log.lock.
TooBig == Len(lh) >= LOGSIZE \/ Len(lh) >= nlog - 1
Check(o) ==
  /\ Up /\ pc[o] = "check"
  /\ panicked' = (TooBig \/ outstanding < 1)
  /\ Goto(o, "append")
  /\ UNCHANGED <<disk, mem, buf, wrote, prog>>

\* Mutant: no absorption.
Absorb_Not(b) == Append(lh, b)

\* log absorption: a block is recorded once.
Absorb(b) == IF \E j \in 1 .. Len(lh) : lh[j] = b THEN lh ELSE Append(lh, b)

\* log_write() under log.lock, then brelse().
LogWrite(o) ==
  /\ Up /\ pc[o] = "append"
  /\ \E b \in buf[o] : lh' = Absorb(b)
  /\ buf' = [buf EXCEPT ![o] = {}]
  /\ Goto(o, "in")
  /\ UNCHANGED <<disk, cache, outstanding, committing, wrote, prog, panicked>>

-----------------------------------------------------------------------------
(* end_op() and commit().                                                  *)

\* end_op() up to its first release: the last operation commits.
EndOp(o) ==
  /\ Up /\ pc[o] = "in"
  /\ panicked' = committing
  /\ outstanding' = outstanding - 1
  /\ \/ /\ outstanding' = 0
        /\ committing' = TRUE /\ phase' = "write" /\ Goto(o, "commit")
     \/ /\ outstanding' # 0
        /\ pc' = Wakeup([pc EXCEPT ![o] = "idle"])
        /\ UNCHANGED <<committing, phase>>
  /\ wrote' = [wrote EXCEPT ![o] = {}]
  /\ UNCHANGED <<disk, cache, lh, buf, tail>>

\* Mutant: nobody is woken.
CommitDone_Quiet(o) ==
  /\ Up /\ pc[o] = "commit" /\ phase = "done"
  /\ committing' = FALSE /\ phase' = "none"
  /\ Goto(o, "idle")
  /\ UNCHANGED <<disk, cache, lh, outstanding, buf, wrote, tail, panicked>>

\* The end of end_op() after commit().
CommitDone(o) ==
  /\ Up /\ pc[o] = "commit" /\ phase = "done"
  /\ committing' = FALSE /\ phase' = "none"
  /\ pc' = Wakeup([pc EXCEPT ![o] = "idle"])
  /\ UNCHANGED <<disk, cache, lh, outstanding, buf, wrote, tail, panicked>>

Running == ~panicked /\ UNCHANGED <<ops, outstanding, committing, panicked>>

\* Mutant: a transaction of one block is taken for an empty one.
CommitEmpty_One == /\ Running /\ phase = "write" /\ Len(lh) <= 1
                   /\ phase' = "done" /\ UNCHANGED <<disk, cache, lh, tail>>

\* commit() has nothing to do if nothing was logged.
CommitEmpty == /\ Running /\ phase = "write" /\ lh = << >>
               /\ phase' = "done" /\ UNCHANGED <<disk, cache, lh, tail>>

\* Block j of the log is one of its own.
InLog(j) == j < nlog

\* Block j of the log and its home are not the same block: bread() of a block that
\* the process has locked itself sleeps for ever.
Apart(j) == ~InLog(j) => Behind[j] # lh[j]

\* One iteration of write_log(): a block from the cache to the log, or over the
\* block behind it if the log has no more.
WriteLog == LET j == tail + 1
                v == cache[lh[j]]
            IN /\ Running /\ phase = "write" /\ tail < Len(lh) /\ Apart(j)
               /\ slots' = IF InLog(j) THEN [slots EXCEPT ![j] = v] ELSE slots
               /\ home' = IF InLog(j) THEN home ELSE [home EXCEPT ![Behind[j]] = v]
               /\ cache' = IF InLog(j) THEN cache ELSE [cache EXCEPT ![Behind[j]] = v]
               /\ tail' = j
               /\ UNCHANGED <<lh, head, phase>>

\* write_log() returns.
WriteLogDone == /\ Running /\ phase = "write" /\ lh # << >> /\ tail = Len(lh)
                /\ phase' = "head" /\ tail' = 0
                /\ UNCHANGED <<disk, cache, lh>>

\* write_head(): the transaction commits.
WriteHead == /\ Running /\ phase = "head"
             /\ head' = lh
             /\ phase' = "install"
             /\ UNCHANGED <<cache, lh, home, slots, tail>>

\* The contents of block j of the log, the home blocks being m.
LogBlock(j, m) == IF InLog(j) THEN slots[j] ELSE m[Behind[j]]

\* One iteration of install_trans(): a block from the log to its home.
Install == LET j == tail + 1
               v == LogBlock(j, cache)
           IN /\ Running /\ phase = "install" /\ tail < Len(lh) /\ Apart(j)
              /\ home' = [home EXCEPT ![lh[j]] = v]
              /\ cache' = [cache EXCEPT ![lh[j]] = v]
              /\ tail' = j
              /\ UNCHANGED <<lh, slots, head, phase>>

\* install_trans() returns.
InstallDone == /\ Running /\ phase = "install" /\ tail = Len(lh)
               /\ phase' = "clear" /\ tail' = 0
               /\ UNCHANGED <<disk, cache, lh>>

\* log.lh.n = 0 and write_head(): the log is empty again.
Clear == /\ Running /\ phase = "clear"
         /\ lh' = << >> /\ head' = << >>
         /\ phase' = IF committing THEN "done" ELSE "none"
         /\ UNCHANGED <<cache, home, slots, tail>>

Commit == CommitEmpty \/ WriteLog \/ WriteLogDone \/ WriteHead \/ Install
          \/ InstallDone \/ Clear

-----------------------------------------------------------------------------
(* Crash and recovery.                                                     *)

\* The machine stops, in recovery or not, and boots again: what is in memory
\* is lost.
Crash == /\ Crashes /\ ~panicked
         /\ cache' = home /\ lh' = << >>
         /\ outstanding' = 0 /\ committing' = FALSE
         /\ pc' = [o \in Ops |-> "idle"] /\ buf' = [o \in Ops |-> {}]
         /\ wrote' = [o \in Ops |-> {}]
         /\ phase' = "read" /\ tail' = 0
         /\ UNCHANGED <<disk, panicked>>

\* Mutant: recovery takes the log for empty.
ReadHead_Ignore == /\ Running /\ phase = "read"
                   /\ phase' = "install" /\ UNCHANGED <<disk, cache, lh, tail>>

\* read_head() of recover_from_log().
ReadHead == /\ Running /\ phase = "read"
            /\ lh' = head
            /\ phase' = "install"
            /\ UNCHANGED <<disk, cache, tail>>

-----------------------------------------------------------------------------
Op(o) == \/ BeginSleep(o) \/ Begin(o) \/ Check(o) \/ LogWrite(o) \/ EndOp(o)
         \/ CommitDone(o)

Next == \/ \E o \in Ops : \/ Call(o) \/ Op(o)
                          \/ \E b \in Blocks, v \in Vals : Modify(o, b, v)
        \/ Commit \/ Crash \/ ReadHead

Spec == Init /\ [][Next]_vars

\* An operation and a commit that have begun go on.  An operation writes a
\* bounded number of blocks, so it ends if it can end again and again.
Fairness == /\ \A o \in Ops : WF_vars(Op(o)) /\ SF_vars(EndOp(o))
            /\ WF_vars(Commit) /\ WF_vars(ReadHead)

-----------------------------------------------------------------------------
(* Properties.                                                             *)

\* Every variable stays in its range.
TypeOK ==
  /\ cache \in [Blocks -> Vals] /\ home \in [Blocks -> Vals]
  /\ slots \in [1 .. nlog - 1 -> Vals]
  /\ head \in Seq(Blocks) /\ lh \in Seq(Blocks)
  /\ outstanding \in Nat /\ committing \in BOOLEAN /\ panicked \in BOOLEAN
  /\ pc \in [Ops -> OpPoints] /\ buf \in [Ops -> SUBSET Blocks]
  /\ wrote \in [Ops -> SUBSET Blocks] /\ phase \in Phases /\ tail \in Nat

\* The contents that recovery restores from the disk.
Durable == [b \in Blocks |->
              IF \E j \in 1 .. Len(head) : head[j] = b
              THEN LogBlock(CHOOSE j \in 1 .. Len(head) : head[j] = b, home)
              ELSE home[b]]

Recovering == phase # "none" /\ ~committing

\* Operations between begin_op() and end_op().
Inside == {o \in Ops : pc[o] \in {"in", "check", "append"}}

\* The contents the operations see; during recovery there are none yet.
Contents == IF Recovering THEN Durable ELSE cache

\* File system operations are atomic with respect to crashes.
Abs == INSTANCE AtomicDisk WITH mem <- Contents, durable <- Durable, open <- Inside
ImplementsAtomicDisk == Abs!Spec

\* When end_op() of the last operation has returned, everything written is on
\* disk.
QuietMeansDurable ==
  phase = "none" /\ outstanding = 0 => Durable = cache /\ home = cache

\* begin_op() admits an operation only if the header has room for all that it
\* and the others may write: the blocks recorded, and for every outstanding
\* operation those of its MAXOPBLOCKS that are not recorded yet, fit.
Recorded == {lh[j] : j \in 1 .. Len(lh)}
Reserved == {r \in Inside \X (1 .. MAXOPBLOCKS) :
               r[2] <= MAXOPBLOCKS - Cardinality(wrote[r[1]] \cap Recorded)}
LogReserved == Len(lh) + Cardinality(Reserved) <= LOGSIZE

\* The log never outgrows its blocks on disk, which write_log() would then
\* overrun: what log_write() tests before it takes the lock still holds after.
LogFits == Len(lh) <= nlog - 1

\* An operation asleep in begin_op() is woken.
SleepersWake == \A o \in Ops : (pc[o] = "asleep") ~> (pc[o] # "asleep")
=============================================================================
