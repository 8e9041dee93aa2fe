----------------------------- MODULE FileBlocks -----------------------------
(***************************************************************************)
(* The contents of files on disk blocks: balloc(), bfree(), bmap(),        *)
(* itrunc(), readi() and writei() (fs.c) under fileread() and filewrite()  *)
(* (file.c), which writes in chunks that are transactions of their own.    *)
(* Each of readi(), writei() and itrunc() works with the inode locked, and *)
(* the bitmap is locked while a block is taken from it: one action each.   *)
(* Every file is open once; a write stores copies of one byte.  A panic    *)
(* leaves the disk as it was before the transaction.                       *)
(***************************************************************************)
EXTENDS FsLayout, Sequences, FiniteSets, FiniteSetsExt, SequencesExt

CONSTANTS Files, Bytes,
          NBLOCKS,    \* data blocks of the disk
          CHUNK,      \* the max of filewrite()
          FUINT,      \* offsets are modulo FUINT (2^32)
          MaxCount,   \* bound on the count of a read or write
          MaxOps      \* bound on the number of calls

DiskBlocks == 1 .. NBLOCKS

ASSUME FileBlocksAssumption ==
  /\ CHUNK \in Nat \ {0}
  /\ FUINT > MAXFILE * BSIZE /\ 0 \in Bytes /\ MaxCount \in Nat \ {0} /\ MaxOps \in Nat
  /\ NBLOCKS \in Nat

VARIABLES used,     \* the bitmap
          bytes,    \* contents of a block used for data,
          a,        \* and of one used as indirect block
          addrs,    \* ip->addrs of file i; NDIRECT is the indirect block
          fsize,    \* ip->size
          off,      \* f->off
          towrite,  \* filewrite(): bytes left, and the byte
          got,      \* what the last fileread() delivered
          nospace,  \* balloc() has panicked
          ops       \* calls made so far

FileVars == <<used, bytes, a, addrs, fsize, off, towrite, got, nospace, ops>>

NoWrite == [n |-> 0, v |-> 0]

FilesInit ==
  /\ used = {}
  /\ bytes = [b \in DiskBlocks |-> [x \in 0 .. BSIZE - 1 |-> 0]]
  /\ a = [b \in DiskBlocks |-> [x \in 0 .. NINDIRECT - 1 |-> NoAddr]]
  /\ addrs = [i \in Files |-> [x \in 0 .. NDIRECT |-> NoAddr]]
  /\ fsize = [i \in Files |-> 0] /\ off = [i \in Files |-> 0]
  /\ towrite = [i \in Files |-> NoWrite]
  /\ got = << >> /\ nospace = FALSE /\ ops = 0

-----------------------------------------------------------------------------
(* Blocks.  A state s of the disk is a record of used, bytes, a, addrs.    *)

DiskNow == [used |-> used, bytes |-> bytes, a |-> a, addrs |-> addrs]

\* The first free block of the bitmap.
Balloc(s) == Min(DiskBlocks \ s.used)

\* balloc(): the block is marked in use and zeroed by bzero().
Zeroed(s, b) == [s EXCEPT !.used = @ \cup {b},
                          !.bytes[b] = [x \in 0 .. BSIZE - 1 |-> 0],
                          !.a[b] = [x \in 0 .. NINDIRECT - 1 |-> NoAddr]]

\* bmap() of a direct block, the indirect block included.
Direct(s, i, bn) == IF s.addrs[i][bn] # NoAddr THEN s
                    ELSE [Zeroed(s, Balloc(s)) EXCEPT !.addrs[i][bn] = Balloc(s)]

\* bmap(): block bn of file i has an address.
Bmap(s, i, bn) ==
  IF bn < NDIRECT THEN Direct(s, i, bn)
  ELSE LET u == Direct(s, i, NDIRECT)
           ind == u.addrs[i][NDIRECT]
       IN IF u.a[ind][bn - NDIRECT] # NoAddr THEN u
          ELSE [Zeroed(u, Balloc(u)) EXCEPT !.a[ind][bn - NDIRECT] = Balloc(u)]

\* The address bmap() returns.
Addr(s, i, bn) == IF bn < NDIRECT THEN s.addrs[i][bn]
                  ELSE IF s.addrs[i][NDIRECT] = NoAddr THEN NoAddr
                  ELSE s.a[s.addrs[i][NDIRECT]][bn - NDIRECT]

\* The blocks that the n bytes from offset o on touch.
Touched(o, n) == IF n = 0 THEN << >>
                 ELSE [k \in 1 .. (o + n - 1) \div BSIZE - o \div BSIZE + 1 |->
                         o \div BSIZE + k - 1]

\* Without a free block for each that bmap() finds missing, balloc() panics.
Missing(i, bns) ==
  Cardinality({bn \in bns : Addr(DiskNow, i, bn) = NoAddr})
  + (IF addrs[i][NDIRECT] = NoAddr /\ \E bn \in bns : bn >= NDIRECT THEN 1 ELSE 0)
OutOfBlocks(i, o, n) == Missing(i, Range(Touched(o, n))) > Cardinality(DiskBlocks \ used)

\* The disk after a step leaves s.
DiskIs(s) == used' = s.used /\ bytes' = s.bytes /\ a' = s.a /\ addrs' = s.addrs

-----------------------------------------------------------------------------
(* readi() and writei().                                                   *)

\* The tests at the start of readi() and writei().
BadOffset(o, n, len) == o > len \/ (o + n) % FUINT < o

ReadLen(i, o, n) == IF o + n > fsize[i] THEN fsize[i] - o ELSE n

\* readi(): the disk after bmap() of what it reads, and the bytes.  Up to its size a
\* file has all its blocks: bmap() calls no balloc().
Readi(i, o, n) ==
  LET m == ReadLen(i, o, n)
      s == FoldLeft(LAMBDA d, bn : Bmap(d, i, bn), DiskNow, Touched(o, m))
  IN [disk |-> s, got |-> [j \in 1 .. m |->
        s.bytes[Addr(s, i, (o + j - 1) \div BSIZE)][(o + j - 1) % BSIZE]]]

TooBig(o, n) == o + n > MAXFILE * BSIZE

\* Mutant: the bytes go to the start of the block.
Covers_Block(o, n, x) == (o \div BSIZE) * BSIZE <= x /\ x < o + n
\* Byte x of the file is one of the n from offset o on.
Covers(o, n, x) == o <= x /\ x < o + n

\* writei() of n bytes v: block by block.
Writei(i, o, n, v) ==
  FoldLeft(LAMBDA d, bn :
             LET s == Bmap(d, i, bn) IN
             [s EXCEPT !.bytes[Addr(s, i, bn)] =
                [x \in 0 .. BSIZE - 1 |->
                   IF Covers(o, n, bn * BSIZE + x) THEN v ELSE @[x]]],
           DiskNow, Touched(o, n))

\* A call is made.
Call(i) == ~nospace /\ towrite[i] = NoWrite /\ ops < MaxOps /\ ops' = ops + 1

\* fileread().
FileRead(i, n) ==
  /\ Call(i) /\ ~BadOffset(off[i], n, fsize[i])
  /\ LET r == Readi(i, off[i], n)
     IN DiskIs(r.disk) /\ off' = [off EXCEPT ![i] = @ + Len(r.got)] /\ got' = r.got
  /\ UNCHANGED <<fsize, towrite, nospace>>

\* filewrite() is called.
FileWrite(i, n, v) == /\ Call(i)
                      /\ towrite' = [towrite EXCEPT ![i] = [n |-> n, v |-> v]]
                      /\ UNCHANGED <<used, bytes, a, addrs, fsize, off, got, nospace>>

NewSize(i, o, n) == IF n > 0 /\ o + n > fsize[i] THEN o + n ELSE fsize[i]

\* One chunk of filewrite(): a writei() that fails ends the call.
FileChunk(i) ==
  LET n1 == IF towrite[i].n > CHUNK THEN CHUNK ELSE towrite[i].n
      rest == [towrite[i] EXCEPT !.n = @ - n1] IN
  /\ ~nospace /\ towrite[i] # NoWrite
  /\ IF BadOffset(off[i], n1, fsize[i]) \/ TooBig(off[i], n1)
     THEN /\ towrite' = [towrite EXCEPT ![i] = NoWrite]
          /\ UNCHANGED <<used, bytes, a, addrs, fsize, off, nospace>>
     ELSE IF OutOfBlocks(i, off[i], n1)
     THEN /\ nospace' = TRUE
          /\ UNCHANGED <<used, bytes, a, addrs, fsize, off, towrite>>
     ELSE /\ DiskIs(Writei(i, off[i], n1, towrite[i].v))
          /\ off' = [off EXCEPT ![i] = @ + n1]
          /\ fsize' = [fsize EXCEPT ![i] = NewSize(i, off[i], n1)]
          /\ towrite' = [towrite EXCEPT ![i] = IF rest.n = 0 THEN NoWrite ELSE rest]
          /\ UNCHANGED nospace
  /\ UNCHANGED <<got, ops>>

\* The file is opened again: its offset is 0.
Reopen(i) == /\ Call(i) /\ off' = [off EXCEPT ![i] = 0]
             /\ UNCHANGED <<used, bytes, a, addrs, fsize, towrite, got, nospace>>

\* The blocks of file i: what itrunc() frees.
Freed(s, i) == {Addr(s, i, bn) : bn \in 0 .. MAXFILE - 1} \cup {s.addrs[i][NDIRECT]}

\* itrunc(), in iput() when the file is deleted; another is created for it.
Itrunc(i) ==
  /\ Call(i)
  /\ used' = used \ Freed(DiskNow, i)
  /\ addrs' = [addrs EXCEPT ![i] = [x \in 0 .. NDIRECT |-> NoAddr]]
  /\ fsize' = [fsize EXCEPT ![i] = 0] /\ off' = [off EXCEPT ![i] = 0]
  /\ UNCHANGED <<bytes, a, towrite, got, nospace>>

FilesNext ==
  \/ \E i \in Files :
       \/ FileChunk(i) \/ Reopen(i) \/ Itrunc(i)
       \/ \E n \in 0 .. MaxCount : FileRead(i, n) \/ \E v \in Bytes : FileWrite(i, n, v)
  \/ /\ nospace \/ (ops = MaxOps /\ \A i \in Files : towrite[i] = NoWrite)
     /\ UNCHANGED FileVars

FilesSpec == FilesInit /\ [][FilesNext]_FileVars

-----------------------------------------------------------------------------
(* Properties.                                                             *)

\* Every variable stays in its range.
FilesTypeOK ==
  /\ used \subseteq DiskBlocks
  /\ addrs \in [Files -> [0 .. NDIRECT -> DiskBlocks \cup {NoAddr}]]
  /\ fsize \in [Files -> 0 .. MAXFILE * BSIZE] /\ off \in [Files -> 0 .. FUINT - 1]

\* The bytes of file i.
Stored(i) == [j \in 1 .. fsize[i] |->
                bytes[Addr(DiskNow, i, (j - 1) \div BSIZE)][(j - 1) % BSIZE]]

\* Files behave as sequences of bytes with an offset, whole and partial blocks,
\* direct and indirect ones alike, when the writes of several files alternate and
\* until the disk is full; a read delivers the bytes last written there.
Flat == INSTANCE ByteFile WITH MaxLen <- MAXFILE * BSIZE, offset <- off, result <- got,
                               contents <- [i \in Files |-> Stored(i)]
ImplementsByteFile == Flat!Spec
=============================================================================
