------------------------------ MODULE Umalloc -------------------------------
(***************************************************************************)
(* malloc() and free() of umalloc.c: a circular list of free blocks, kept  *)
(* in the order of addresses but for one wrap, and first fit from where    *)
(* the last call left off.  Addresses and sizes are counted in headers;    *)
(* address 0 is the static base.  The program may call sbrk() itself, so   *)
(* that the memory of two morecore() need not be adjacent.  The argument   *)
(* of sbrk() is an int: blocks that are too large for it are left out.     *)
(***************************************************************************)
EXTENDS Integers, FiniteSets, FiniteSetsExt

CONSTANTS HEAP,      \* the last address sbrk() can give out
          MINCORE,   \* the least morecore() asks for (4096)
          HEADER,    \* sizeof(Header)
          HUINT,     \* sizes are modulo HUINT (2^32)
          Sizes,     \* arguments of malloc()
          MaxGap     \* bound on what the program takes from sbrk() at a time

\* Headers for nbytes bytes and the header of the block: one for malloc(0), and for
\* what is so large that the sum wraps around.
Nunits(nbytes) == ((nbytes + HEADER - 1) % HUINT) \div HEADER + 1

ASSUME UmallocAssumption ==
  /\ HEAP \in Nat /\ MINCORE \in Nat \ {0} /\ MaxGap \in Nat
  /\ HEADER \in Nat \ {0} /\ HUINT \in Nat \ {0} /\ Sizes \subseteq 0 .. HUINT - 1
  /\ \A n \in Sizes : Max({Nunits(n), MINCORE}) * HEADER < HUINT \div 2

Base  == 0
Addrs == 0 .. HEAP

VARIABLES next, hsize,  \* s.ptr and s.size of the header at an address, else 0
          freep,        \* -1 for a null pointer
          brk,          \* the next address sbrk() gives out
          given,        \* headers of the blocks the program has
          gaps,         \* addresses the program took from sbrk() itself
          nunits        \* what malloc() is looking for, 0 outside of it

HeapVars == <<next, hsize, freep, brk, given, gaps, nunits>>

UmallocInit == /\ next = [x \in Addrs |-> Base] /\ hsize = [x \in Addrs |-> 0]
               /\ freep = -1 /\ brk = 1 /\ given = {} /\ gaps = {} /\ nunits = 0

\* The k-th element of the list, counted from freep.
Nth[k \in 0 .. HEAP + 1] == IF k = 0 THEN freep ELSE next[Nth[k - 1]]
OnList == {Nth[k] : k \in 0 .. HEAP + 1}

\* The first element of the list that is in S.
FirstOf(S) == Nth[Min({k \in 0 .. HEAP + 1 : Nth[k] \in S})]

-----------------------------------------------------------------------------
(* free().                                                                 *)

\* bp goes after p: between p and its successor, or at the ends of the list.
Fits(bp, p) == \/ bp > p /\ bp < next[p]
               \/ p >= next[p] /\ (bp > p \/ bp < next[p])

Meets(x, size, y) == x + size = y

\* The block at bp, of n headers, goes on the list after p and is joined with the
\* blocks it meets; the header of a block that is joined to another is forgotten.
Insert(bp, n, p) ==
  LET succ == next[p]
      up   == Meets(bp, n, succ)
      down == Meets(p, hsize[p], bp)
      len  == IF up THEN n + hsize[succ] ELSE n
      to   == IF up THEN next[succ] ELSE succ
      at   == IF down THEN p ELSE bp
  IN /\ hsize' = [x \in Addrs |-> IF x = at THEN (IF down THEN hsize[p] + len ELSE len)
                                  ELSE IF x = bp \/ (up /\ x = succ) THEN 0 ELSE hsize[x]]
     /\ next' = [x \in Addrs |-> IF x = at THEN to ELSE IF x = p THEN bp
                                 ELSE IF x = bp \/ (up /\ x = succ) THEN Base ELSE next[x]]
     /\ freep' = p

FreeBlock(bp, n) == \E p \in {FirstOf({x \in OnList : Fits(bp, x)})} : Insert(bp, n, p)

\* free() of a block malloc() gave out.
Free(bp) == /\ nunits = 0 /\ bp \in given
            /\ FreeBlock(bp, hsize[bp]) /\ given' = given \ {bp}
            /\ UNCHANGED <<brk, gaps, nunits>>

-----------------------------------------------------------------------------
(* malloc().                                                               *)

\* The call; the first one makes the list of the base alone.
Malloc(nbytes) == /\ nunits = 0 /\ nunits' = Nunits(nbytes)
                  /\ freep' = IF freep = -1 THEN Base ELSE freep
                  /\ UNCHANGED <<next, hsize, brk, given, gaps>>

LargeEnough == {x \in OnList : hsize[x] >= nunits}

\* Mutant: the rest of a block that is split keeps its size.
Rest_Whole(p) == hsize[p]
Rest(p) == hsize[p] - nunits

\* The first block that is large enough: taken off the list, or its end cut off.
Take ==
  /\ nunits > 0 /\ LargeEnough # {}
  /\ \E prev \in {FirstOf({x \in OnList : next[x] \in LargeEnough})} :
     \E p \in {next[prev]} :
       LET bp == p + hsize[p] - nunits
       IN /\ freep' = prev /\ given' = given \cup {bp}
          /\ \/ /\ hsize[p] = nunits
                /\ next' = [next EXCEPT ![prev] = next[p], ![p] = Base]
                /\ UNCHANGED hsize
             \/ /\ hsize[p] > nunits
                /\ hsize' = [hsize EXCEPT ![p] = Rest(p), ![bp] = nunits]
                /\ UNCHANGED next
  /\ nunits' = 0 /\ UNCHANGED <<brk, gaps>>

Core == IF nunits < MINCORE THEN MINCORE ELSE nunits

\* sbrk() succeeds.
SbrkFits(n) == brk + n <= HEAP + 1

\* The search came back to freep: morecore(), or give up if sbrk() fails.
Morecore ==
  /\ nunits > 0 /\ LargeEnough = {}
  /\ \/ /\ SbrkFits(Core)
        /\ FreeBlock(brk, Core) /\ brk' = brk + Core /\ UNCHANGED nunits
     \/ /\ ~SbrkFits(Core)
        /\ nunits' = 0 /\ UNCHANGED <<next, hsize, freep, brk>>
  /\ UNCHANGED <<given, gaps>>

\* The program calls sbrk().
OwnSbrk(n) == /\ nunits = 0 /\ SbrkFits(n)
              /\ brk' = brk + n /\ gaps' = gaps \cup (brk .. brk + n - 1)
              /\ UNCHANGED <<next, hsize, freep, given, nunits>>

UmallocNext == \/ \E n \in Sizes : Malloc(n)
               \/ Take \/ Morecore
               \/ \E bp \in given : Free(bp)
               \/ \E n \in 1 .. MaxGap : OwnSbrk(n)

UmallocSpec == UmallocInit /\ [][UmallocNext]_HeapVars

-----------------------------------------------------------------------------
(* Properties.                                                             *)

Block(x) == x .. x + hsize[x] - 1
FreeBlocks == IF freep = -1 THEN {} ELSE OnList \ {Base}

\* Every variable stays in its range.
UmallocTypeOK == /\ next \in [Addrs -> Addrs] /\ hsize \in [Addrs -> Nat]
                 /\ freep \in Addrs \cup {-1} /\ brk \in 1 .. HEAP + 1

\* No memory is given out twice and none is lost: the blocks of the list, the
\* blocks of the program and what it took from sbrk() are disjoint and make up
\* the heap.
HeapPartitioned ==
  /\ \A x, y \in FreeBlocks \cup given : x # y => Block(x) \cap Block(y) = {}
  /\ FreeBlocks \cap given = {}
  /\ UNION {Block(x) : x \in FreeBlocks \cup given} = (1 .. brk - 1) \ gaps
=============================================================================
