-------------------------------- MODULE Mkfs --------------------------------
(***************************************************************************)
(* mkfs.c: the file system image the kernel starts from.  mkfs allocates   *)
(* inodes and blocks one after the other, appends to the files and to the  *)
(* root directory, and writes the bitmap last.  A unit of data is as large *)
(* as a directory entry and is known by its file and its place in it.      *)
(***************************************************************************)
EXTENDS FsLayout, Sequences, FiniteSets, FiniteSetsExt

CONSTANTS NMETA,      \* boot, super, log, inode and bitmap blocks
          BITS,       \* BSIZE * 8: blocks the one block of bitmap has bits for
          MaxFiles,   \* bound on the files of the command line
          MaxLength   \* bound on the units of a file

ASSUME MkfsAssumption ==
  /\ NMETA \in Nat /\ BITS \in Nat /\ MaxFiles \in Nat /\ MaxLength \in Nat
  /\ MaxFiles + 2 < MAXFILE * BSIZE   \* NINODES is far below what a directory holds

RootInode == 1
MkInodes  == 1 .. MaxFiles + 1
MkBlocks  == NMETA .. NMETA + (MAXFILE + 1) * (MaxFiles + 1)
Blank     == <<0, 0>>

VARIABLES phase,      \* "start", "files", "done" or "failed"
          todo,       \* iappend() calls to make: the inode and the units left
          freeinode, freeblock,
          dinode,     \* size, addrs, and what the indirect block holds
          image,      \* contents of the data blocks
          bitmap

MkfsVars == <<phase, todo, freeinode, freeblock, dinode, image, bitmap>>

NoDinode == [size |-> 0, addrs |-> [x \in 0 .. NDIRECT |-> NoAddr],
             indirect |-> [x \in 0 .. NINDIRECT - 1 |-> NoAddr]]

MkfsInit == /\ phase = "start" /\ todo = << >>
            /\ freeinode = 1 /\ freeblock = NMETA
            /\ dinode = [i \in MkInodes |-> NoDinode]
            /\ image = [b \in MkBlocks |-> [x \in 0 .. BSIZE - 1 |-> Blank]]
            /\ bitmap = {}

\* ialloc(), and what is to be appended: "." and ".." to the root,
MkRoot == /\ phase = "start" /\ phase' = "files"
          /\ freeinode' = freeinode + 1
          /\ todo' = << <<RootInode, 1>>, <<RootInode, 1>> >>
          /\ UNCHANGED <<freeblock, dinode, image, bitmap>>

\* read()s until the end of a file of n units.
Reads(n) == (n + BSIZE - 1) \div BSIZE

\* the entry of a file to the root and its contents to the file, in read()s of
\* BSIZE.
MkFile(n) ==
  /\ phase = "files" /\ todo = << >> /\ freeinode \in MkInodes
  /\ freeinode' = freeinode + 1
  /\ todo' = << <<RootInode, 1>> >>
             \o [k \in 1 .. Reads(n) |->
                   <<freeinode, Min({BSIZE, n - (k - 1) * BSIZE})>>]
  /\ UNCHANGED <<phase, freeblock, dinode, image, bitmap>>

MissingBlock(addr) == addr = NoAddr

\* The blocks iappend() takes for the block fbn of a file.
NeedsBlocks(d, fbn) ==
  IF fbn < NDIRECT THEN IF MissingBlock(d.addrs[fbn]) THEN 1 ELSE 0
  ELSE (IF MissingBlock(d.addrs[NDIRECT]) THEN 1 ELSE 0)
       + (IF MissingBlock(d.indirect[fbn - NDIRECT]) THEN 1 ELSE 0)

\* The inode with those blocks, from b on.
WithBlock(d, fbn, b) ==
  IF NeedsBlocks(d, fbn) = 0 THEN d
  ELSE IF fbn < NDIRECT THEN [d EXCEPT !.addrs[fbn] = b]
  ELSE [d EXCEPT !.addrs[NDIRECT] = IF MissingBlock(@) THEN b ELSE @,
                 !.indirect[fbn - NDIRECT] =
                   IF MissingBlock(@) THEN b + NeedsBlocks(d, fbn) - 1 ELSE @]
BlockOf(d, fbn) == IF fbn < NDIRECT THEN d.addrs[fbn] ELSE d.indirect[fbn - NDIRECT]

\* Mutant: the part of the block that is written starts at its beginning.
Place_Start(off, k) == k
Place(off, k) == (off % BSIZE) + k

\* The loop of iappend(): as much as fits in the block at the end of the file.
Iappend ==
  /\ phase = "files" /\ todo # << >>
  /\ LET i   == Head(todo)[1]
         n   == Head(todo)[2]
         off == dinode[i].size
         fbn == off \div BSIZE
         n1  == Min({n, (fbn + 1) * BSIZE - off})
         d   == WithBlock(dinode[i], fbn, freeblock)
     IN \/ /\ fbn >= MAXFILE                    \* assert(fbn < MAXFILE)
           /\ phase' = "failed"
           /\ UNCHANGED <<todo, freeblock, dinode, image>>
        \/ /\ fbn < MAXFILE
           /\ freeblock' = freeblock + NeedsBlocks(dinode[i], fbn)
           /\ dinode' = [dinode EXCEPT ![i] = [d EXCEPT !.size = off + n1]]
           /\ image' = [image EXCEPT ![BlockOf(d, fbn)] =
                [x \in 0 .. BSIZE - 1 |->
                   IF \E k \in 0 .. n1 - 1 : x = Place(off, k)
                   THEN <<i, off + (CHOOSE k \in 0 .. n1 - 1 : x = Place(off, k))>> ELSE @[x]]]
           /\ todo' = (IF n1 < n THEN << <<i, n - n1>> >> ELSE << >>) \o Tail(todo)
           /\ UNCHANGED phase
  /\ UNCHANGED <<freeinode, bitmap>>

\* What balloc() marks.
UsedBlocks(b) == 0 .. b - 1

\* "fix size of root inode dir", and balloc(): assert(used < BSIZE * 8), and the bitmap.
MkDone == /\ phase = "files" /\ todo = << >>
          /\ dinode' = [dinode EXCEPT ![RootInode].size = ((@ \div BSIZE) + 1) * BSIZE]
          /\ \/ freeblock < BITS /\ bitmap' = UsedBlocks(freeblock) /\ phase' = "done"
             \/ freeblock >= BITS /\ phase' = "failed" /\ UNCHANGED bitmap
          /\ UNCHANGED <<todo, freeinode, freeblock, image>>

MkEnd == phase \in {"done", "failed"} /\ UNCHANGED MkfsVars

MkfsNext == MkRoot \/ (\E n \in 0 .. MaxLength : MkFile(n)) \/ Iappend \/ MkDone \/ MkEnd

MkfsSpec == MkfsInit /\ [][MkfsNext]_MkfsVars

-----------------------------------------------------------------------------
(* Properties.                                                             *)

\* A file of an image that mkfs finishes reads back as what was appended to it, at
\* every step on the way and in the end, and then the bitmap keeps the kernel's
\* balloc() from giving its blocks away.  The root directory is rounded up to whole
\* blocks with empty entries; if its entries fill their blocks it gets a block more,
\* which it does not have.
ImageReadsBack ==
  phase # "failed" => \A i \in MkInodes : \A k \in 0 .. dinode[i].size - 1 :
    LET b == BlockOf(dinode[i], k \div BSIZE)
    IN IF b = NoAddr THEN i = RootInode /\ phase = "done"
       ELSE /\ \/ image[b][k % BSIZE] = <<i, k>>
               \/ i = RootInode /\ phase = "done" /\ image[b][k % BSIZE] = Blank
            /\ phase = "done" => b \in bitmap
=============================================================================
