------------------------------- MODULE Bcache -------------------------------
(***************************************************************************)
(* The buffer cache (bio.c) with its sleep locks (sleeplock.c) and the     *)
(* disk driver behind it (ide.c): threads that read, modify, write and     *)
(* release blocks, and the disk's interrupts.  A critical section under    *)
(* bcache.lock, under the spinlock of a sleep lock or under idelock is one *)
(* action.  As log_write() does, a thread may leave a buffer B_DIRTY for a *)
(* later bwrite().  A thread holds up to two buffers, as bmap() and        *)
(* itrunc() do around balloc() and bfree(), and write_log() and            *)
(* install_trans() with a block of the log and the block it is a copy of.  *)
(***************************************************************************)
EXTENDS Integers, Sequences, FiniteSets

CONSTANTS Threads, DiskBlocks, DiskVals,
          NBUF,
          MaxDirty,   \* blocks the log leaves B_DIRTY at a time (LOGSIZE)
          Nested,     \* pairs of blocks: the second is read with the first one held
          IdeResults  \* outcomes of idewait(1) >= 0: {TRUE} if the disk reports no error

Bufs   == 1 .. NBUF
NoBlock == "none"    \* the block of a buffer that was never used
Nobody  == "nobody"

ASSUME CacheAssumption == /\ NBUF \in Nat \ {0} /\ MaxDirty \in Nat
                          /\ NoBlock \notin DiskBlocks /\ Nobody \notin Threads
                          /\ IsFiniteSet(Threads)
                          /\ \A k \in DiskBlocks : <<k, k>> \notin Nested
                          /\ IdeResults \subseteq BOOLEAN

VARIABLES lru,                            \* bcache list from head.next on
          blockno, valid, dirty, refcnt, data,  \* fields of struct buf
          owner,                          \* holder of b->lock, or Nobody
          idequeue,                       \* requests, the active one first
          started,                        \* buffer the disk works on, or 0
          diskdata,
          bpc,                            \* where thread t is, see BufPoints
          b,                              \* the buffer it works on, or 0
          held                            \* the other buffer it holds, or 0

buffers   == <<lru, blockno, refcnt>>
requests  == <<idequeue, started, diskdata>>
CacheVars == <<lru, blockno, valid, dirty, refcnt, data, owner, idequeue,
               started, diskdata, bpc, b, held>>

\* out: asks for no buffer; lock: in acquiresleep; lockwait: asleep in it; got: has
\* the lock, before the test of B_VALID; rw: in iderw, before it queues the
\* buffer; iowait: asleep in iderw; hold: uses the block; drop: in brelse,
\* after releasesleep; panic: stopped.
BufPoints == {"out", "lock", "lockwait", "got", "rw", "iowait", "hold", "drop",
              "panic"}

\* binit().
CacheInit ==
  /\ lru = [x \in Bufs |-> NBUF + 1 - x]
  /\ blockno = [x \in Bufs |-> NoBlock] /\ refcnt = [x \in Bufs |-> 0]
  /\ valid = [x \in Bufs |-> FALSE] /\ dirty = [x \in Bufs |-> FALSE]
  /\ \E v \in DiskVals : data = [x \in Bufs |-> v]
  /\ owner = [x \in Bufs |-> Nobody]
  /\ idequeue = << >> /\ started = 0
  /\ \E v \in DiskVals : diskdata = [k \in DiskBlocks |-> v]
  /\ bpc = [t \in Threads |-> "out"] /\ b = [t \in Threads |-> 0]
  /\ held = [t \in Threads |-> 0]

BufGo(t, from, to) == bpc[t] = from /\ bpc' = [bpc EXCEPT ![t] = to]

-----------------------------------------------------------------------------
(* bget() and acquiresleep().                                              *)

\* A thread that holds a buffer asks for blocks behind it only.
MayAsk(t, k) == held[t] # 0 => <<blockno[held[t]], k>> \in Nested

\* The block is cached.
Hit(t, k, x) ==
  /\ BufGo(t, "out", "lock") /\ MayAsk(t, k)
  /\ blockno[x] = k
  /\ refcnt' = [refcnt EXCEPT ![x] = @ + 1]
  /\ b' = [b EXCEPT ![t] = x]
  /\ UNCHANGED <<lru, blockno, valid, dirty, data, owner, requests, held>>

Missing(k) == \A x \in Bufs : blockno[x] # k

\* Mutant: a dirty buffer is recycled.
Recyclable_Dirty(x) == refcnt[x] = 0
\* Mutant: a buffer is recycled only if none of its flags is set.
Recyclable_NoFlags(x) == refcnt[x] = 0 /\ ~dirty[x] /\ ~valid[x]
Recyclable(x) == refcnt[x] = 0 /\ ~dirty[x]

\* The block is not cached: recycle the least recently used free buffer.
Recycle(t, k, x) ==
  /\ BufGo(t, "out", "lock") /\ MayAsk(t, k)
  /\ Missing(k) /\ Recyclable(x)
  /\ \E n \in 1 .. NBUF : lru[n] = x /\ \A m \in n + 1 .. NBUF : ~Recyclable(lru[m])
  /\ blockno' = [blockno EXCEPT ![x] = k]
  /\ valid' = [valid EXCEPT ![x] = FALSE]
  /\ refcnt' = [refcnt EXCEPT ![x] = 1]
  /\ b' = [b EXCEPT ![t] = x]
  /\ UNCHANGED <<lru, dirty, data, owner, requests, held>>

\* panic("bget: no buffers").
NoBuffers(t, k) ==
  /\ BufGo(t, "out", "panic") /\ MayAsk(t, k)
  /\ Missing(k) /\ \A x \in Bufs : ~Recyclable(x)
  /\ UNCHANGED <<buffers, valid, dirty, data, owner, requests, b, held>>

\* acquiresleep(): take the lock, or go to sleep on it.
AcquireSleep(t) ==
  /\ bpc[t] = "lock"
  /\ \/ owner[b[t]] = Nobody /\ owner' = [owner EXCEPT ![b[t]] = t]
        /\ BufGo(t, "lock", "got")
     \/ owner[b[t]] # Nobody /\ BufGo(t, "lock", "lockwait") /\ UNCHANGED owner
  /\ UNCHANGED <<buffers, valid, dirty, data, requests, b, held>>

-----------------------------------------------------------------------------
(* bread(), bwrite() and iderw().                                          *)

\* bread(): the test of B_VALID.
BreadTest(t) ==
  /\ bpc[t] = "got" /\ BufGo(t, "got", IF valid[b[t]] THEN "hold" ELSE "rw")
  /\ UNCHANGED <<buffers, valid, dirty, data, owner, requests, b, held>>

\* The holder changes the block and leaves it B_DIRTY for the log to write.
LogModify(t, v) ==
  /\ bpc[t] = "hold"
  /\ Cardinality({x \in Bufs : dirty[x]} \cup {b[t]}) <= MaxDirty
  /\ data' = [data EXCEPT ![b[t]] = v]
  /\ dirty' = [dirty EXCEPT ![b[t]] = TRUE]
  /\ UNCHANGED <<buffers, valid, owner, requests, bpc, b, held>>

\* The holder changes the block and calls bwrite(); B_DIRTY is set in bwrite().
Bwrite(t, v) ==
  /\ BufGo(t, "hold", "rw")
  /\ data' = [data EXCEPT ![b[t]] = v]
  /\ dirty' = [dirty EXCEPT ![b[t]] = TRUE]
  /\ UNCHANGED <<buffers, valid, owner, requests, b, held>>

\* idestart() of the request at the head of the queue, if it is the only one.
Idestart(q) == started' = IF Len(q) = 1 THEN q[1] ELSE started

\* iderw() queues the buffer, starts the disk if it is idle, and sleeps.
Iderw(t) ==
  /\ BufGo(t, "rw", "iowait")
  /\ idequeue' = Append(idequeue, b[t])
  /\ Idestart(idequeue')
  /\ UNCHANGED <<buffers, valid, dirty, data, owner, diskdata, b, held>>

\* wakeup(b): who sleeps in iderw() finds the request done.
WakeIo(x) == [t \in Threads |-> IF bpc[t] = "iowait" /\ b[t] = x THEN "hold"
                                                               ELSE bpc[t]]

\* The disk has done the active request: ideintr() reads the data if need be and
\* if idewait(1) reports no error, marks the buffer valid in either case, wakes its
\* owner and starts the next request.
IdeIntr(ok) ==
  LET x == Head(idequeue) IN
  /\ started # 0 /\ idequeue # << >>
  /\ data' = IF dirty[x] \/ ~ok THEN data ELSE [data EXCEPT ![x] = diskdata[blockno[started]]]
  /\ diskdata' = IF dirty[x] THEN [diskdata EXCEPT ![blockno[started]] = data[started]]
                         ELSE diskdata
  /\ valid' = [valid EXCEPT ![x] = TRUE]
  /\ dirty' = [dirty EXCEPT ![x] = FALSE]
  /\ bpc' = WakeIo(x)
  /\ idequeue' = Tail(idequeue)
  /\ started' = IF Len(idequeue) > 1 THEN idequeue[2] ELSE 0
  /\ UNCHANGED <<buffers, owner, b, held>>

-----------------------------------------------------------------------------
(* brelse().                                                               *)

\* releasesleep(): the lock is free, its sleepers try again.
ReleaseSleep(t) ==
  /\ bpc[t] = "hold"
  /\ owner' = [owner EXCEPT ![b[t]] = Nobody]
  /\ bpc' = [u \in Threads |->
               IF u = t THEN "drop"
               ELSE IF bpc[u] = "lockwait" /\ b[u] = b[t] THEN "lock" ELSE bpc[u]]
  /\ UNCHANGED <<buffers, valid, dirty, data, requests, b, held>>

Unref(x) == refcnt[x] - 1

\* The rest of brelse(): a buffer nobody uses becomes the most recently used.
Brelse(t) ==
  LET x == b[t] IN
  /\ BufGo(t, "drop", IF held[t] = 0 THEN "out" ELSE "hold")
  /\ refcnt' = [refcnt EXCEPT ![x] = Unref(x)]
  /\ lru' = IF refcnt'[x] = 0 THEN <<x>> \o SelectSeq(lru, LAMBDA y : y # x)
                              ELSE lru
  /\ b' = [b EXCEPT ![t] = held[t]] /\ held' = [held EXCEPT ![t] = 0]
  /\ UNCHANGED <<blockno, valid, dirty, data, owner, requests>>

-----------------------------------------------------------------------------
(* Two buffers.                                                            *)

\* The thread is about to read another block and keeps the one it has.
Keep(t) ==
  /\ held[t] = 0 /\ BufGo(t, "hold", "out")
  /\ \E k \in DiskBlocks : <<blockno[b[t]], k>> \in Nested
  /\ held' = [held EXCEPT ![t] = b[t]] /\ b' = [b EXCEPT ![t] = 0]
  /\ UNCHANGED <<buffers, valid, dirty, data, owner, requests>>

\* It turns to the other one: install_trans() releases the first block first, and
\* write_log() writes the first one before it releases the second.
Turn(t) ==
  /\ bpc[t] = "hold" /\ held[t] # 0
  /\ held' = [held EXCEPT ![t] = b[t]] /\ b' = [b EXCEPT ![t] = held[t]]
  /\ UNCHANGED <<buffers, valid, dirty, data, owner, requests, bpc>>

\* panic() does not return.
Panicked(t) == bpc[t] = "panic" /\ UNCHANGED CacheVars

-----------------------------------------------------------------------------
BufStep(t) == AcquireSleep(t) \/ BreadTest(t) \/ Iderw(t) \/ Brelse(t)

CacheNext ==
  \/ \E t \in Threads :
       \/ BufStep(t) \/ ReleaseSleep(t) \/ Keep(t) \/ Turn(t) \/ Panicked(t)
       \/ \E k \in DiskBlocks : NoBuffers(t, k)
                            \/ \E x \in Bufs : Hit(t, k, x) \/ Recycle(t, k, x)
       \/ \E v \in DiskVals : LogModify(t, v) \/ Bwrite(t, v)
  \/ \E ok \in IdeResults : IdeIntr(ok)

CacheSpec == CacheInit /\ [][CacheNext]_CacheVars

-----------------------------------------------------------------------------
(* Properties.                                                             *)

\* Every variable stays in its range.
CacheTypeOK ==
  /\ lru \in [Bufs -> Bufs] /\ blockno \in [Bufs -> DiskBlocks \cup {NoBlock}]
  /\ valid \in [Bufs -> BOOLEAN] /\ dirty \in [Bufs -> BOOLEAN]
  /\ refcnt \in [Bufs -> Nat] /\ data \in [Bufs -> DiskVals]
  /\ owner \in [Bufs -> Threads \cup {Nobody}]
  /\ idequeue \in Seq(Bufs) /\ started \in Bufs \cup {0}
  /\ diskdata \in [DiskBlocks -> DiskVals]
  /\ bpc \in [Threads -> BufPoints] /\ b \in [Threads -> Bufs \cup {0}]
  /\ held \in [Threads -> Bufs \cup {0}]

\* The block as the next reader will see it: the valid cached copy, or what is
\* on disk.
Contents == [k \in DiskBlocks |->
               IF \E x \in Bufs : blockno[x] = k /\ valid[x]
               THEN data[CHOOSE x \in Bufs : blockno[x] = k /\ valid[x]]
               ELSE diskdata[k]]

\* Thread t has block k in a valid buffer that it has locked.
HasBlock(t, k) ==
  \/ bpc[t] \in {"hold", "rw", "iowait"} /\ blockno[b[t]] = k /\ valid[b[t]]
  \/ held[t] # 0 /\ blockno[held[t]] = k

\* bread() returns the contents last written to a block, to one thread at a
\* time, whatever is recycled, queued and written meanwhile, as long as the disk
\* reports no error: ideintr() marks a buffer valid also when its read failed.
Store == INSTANCE BlockStore WITH
           Blocks <- DiskBlocks, Vals <- DiskVals, contents <- Contents,
           holders <- [k \in DiskBlocks |-> {t \in Threads : HasBlock(t, k)}]
ImplementsBlockStore == Store!Spec

\* bget() gives up only if every buffer is dirty or in use: no buffer is ever
\* leaked, and one for each dirty block and two for each thread are enough.
PanicOnlyWhenFull ==
  [][\A t \in Threads : bpc'[t] = "panic" /\ bpc[t] # "panic" =>
       Cardinality({x \in Bufs : dirty[x]}) + Cardinality({u \in Threads : b[u] # 0})
         + Cardinality({u \in Threads : held[u] # 0}) >= NBUF]_CacheVars
=============================================================================
