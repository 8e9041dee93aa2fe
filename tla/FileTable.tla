----------------------------- MODULE FileTable ------------------------------
(***************************************************************************)
(* Open files (file.c), the descriptors of processes and the system calls  *)
(* that pass files around (sysfile.c): open, dup, close, pipe, and fork    *)
(* and exit for their part.  A call is one action: it works on the         *)
(* descriptors of its own process and takes ftable.lock for each change of *)
(* a file.  A state of the table is a record s of ftab, ofile and pipes,   *)
(* so that a call is a composition of the functions it calls.              *)
(***************************************************************************)
EXTENDS Integers, Sequences, FiniteSets, FiniteSetsExt, SequencesExt

CONSTANTS NFILE, NOFILE,
          NPIPE,      \* pages for pipes
          Users       \* processes

FileIds == 1 .. NFILE
Fds     == 0 .. NOFILE - 1
PipeIds == 1 .. NPIPE
NoFile  == [ref |-> 0, type |-> "none", pipe |-> 0, writable |-> FALSE]
NoPipe  == [readopen |-> FALSE, writeopen |-> FALSE]

ASSUME FileTableAssumption == NFILE \in Nat /\ NOFILE \in Nat \ {0} /\ NPIPE \in Nat

VARIABLES ftab,    \* ftable.file
          ofile,   \* ofile[p][fd], 0 for none
          pipes    \* readopen and writeopen of each pipe

FileTableVars == <<ftab, ofile, pipes>>

TableNow == [ftab |-> ftab, ofile |-> ofile, pipes |-> pipes]
TableIs(s) == \E u \in {s} : ftab' = u.ftab /\ ofile' = u.ofile /\ pipes' = u.pipes

-----------------------------------------------------------------------------
(* file.c.                                                                 *)

FreeFiles(s) == {f \in FileIds : s.ftab[f].ref = 0}
FreeFds(s, p) == {fd \in Fds : s.ofile[p][fd] = 0}

\* filealloc(), of a file of the given kind.
Filealloc(s, type, k, writable) ==
  [s EXCEPT !.ftab[Min(FreeFiles(s))] =
     [ref |-> 1, type |-> type, pipe |-> k, writable |-> writable]]

Filedup(s, f) == [s EXCEPT !.ftab[f].ref = @ + 1]

\* pipeclose().
Pipeclose(s, k, writable) ==
  IF writable THEN [s EXCEPT !.pipes[k].writeopen = FALSE]
              ELSE [s EXCEPT !.pipes[k].readopen = FALSE]

\* Mutant: the first close of a file closes the pipe.
LastClose_Any(s, f) == TRUE
LastClose(s, f) == s.ftab[f].ref = 1

\* fileclose(): the last reference closes the pipe end or puts the inode.
Fileclose(s, f) ==
  LET u == [s EXCEPT !.ftab[f] = IF @.ref = 1 THEN NoFile ELSE [@ EXCEPT !.ref = @ - 1]]
  IN IF LastClose(s, f) /\ s.ftab[f].type = "pipe"
     THEN Pipeclose(u, s.ftab[f].pipe, s.ftab[f].writable) ELSE u

-----------------------------------------------------------------------------
(* The system calls.                                                       *)

\* fdalloc(): the lowest free descriptor.
Fdalloc(s, p, f) == [s EXCEPT !.ofile[p][Min(FreeFds(s, p))] = f]

\* sys_open() of a file that is found, and sys_dup().
SysOpen(s, p) ==
  IF FreeFiles(s) = {} \/ FreeFds(s, p) = {} THEN s
  ELSE Fdalloc(Filealloc(s, "inode", 0, TRUE), p, Min(FreeFiles(s)))
SysDup(s, p, fd) ==
  IF s.ofile[p][fd] = 0 \/ FreeFds(s, p) = {} THEN s
  ELSE Filedup(Fdalloc(s, p, s.ofile[p][fd]), s.ofile[p][fd])

SysClose(s, p, fd) ==
  IF s.ofile[p][fd] = 0 THEN s
  ELSE Fileclose([s EXCEPT !.ofile[p][fd] = 0], s.ofile[p][fd])

FreePipes(s) == {k \in PipeIds : s.pipes[k] = NoPipe}

\* pipealloc(): two files and a page, or nothing.
Pipealloc(s) ==
  IF Cardinality(FreeFiles(s)) < 2 \/ FreePipes(s) = {} THEN [ok |-> FALSE, s |-> s]
  ELSE LET k == Min(FreePipes(s))
           u == Filealloc(s, "pipe", k, FALSE)
       IN [ok |-> TRUE, rf |-> Min(FreeFiles(s)), wf |-> Min(FreeFiles(u)),
           s |-> [Filealloc(u, "pipe", k, TRUE) EXCEPT
                    !.pipes[k] = [readopen |-> TRUE, writeopen |-> TRUE]]]

\* sys_pipe(): the two descriptors, and both ends closed if there are not two.
SysPipe(s, p) ==
  LET r == Pipealloc(s)
      s1 == Fdalloc(r.s, p, r.rf)
  IN IF ~r.ok THEN [ok |-> FALSE, s |-> s]
     ELSE IF Cardinality(FreeFds(s, p)) < 2
     THEN [ok |-> FALSE, s |-> Fileclose(Fileclose(r.s, r.rf), r.wf)]
     ELSE [ok |-> TRUE, fd0 |-> Min(FreeFds(s, p)), fd1 |-> Min(FreeFds(s1, p)),
           s |-> Fdalloc(s1, p, r.wf)]

\* The descriptors p has for the file f.
Holds(s, p, f) == Cardinality({fd \in Fds : s.ofile[p][fd] = f})

\* fork(): filedup() of every descriptor.
ForkFiles(s, p, q) ==
  [s EXCEPT !.ofile[q] = s.ofile[p],
            !.ftab = [f \in FileIds |-> [s.ftab[f] EXCEPT !.ref = @ + Holds(s, p, f)]]]

\* exit(): fileclose() of every descriptor, with the pipe ends that closes.
ExitFiles(s, p) ==
  LET last == {f \in FileIds : s.ftab[f].ref > 0 /\ s.ftab[f].ref = Holds(s, p, f)}
      Closes(k, wr) == \E f \in last : s.ftab[f].pipe = k /\ s.ftab[f].writable = wr
  IN [ofile |-> [s.ofile EXCEPT ![p] = [fd \in Fds |-> 0]],
      ftab  |-> [f \in FileIds |-> IF f \in last THEN NoFile
                                   ELSE [s.ftab[f] EXCEPT !.ref = @ - Holds(s, p, f)]],
      pipes |-> [k \in PipeIds |-> [readopen  |-> s.pipes[k].readopen /\ ~Closes(k, FALSE),
                                    writeopen |-> s.pipes[k].writeopen /\ ~Closes(k, TRUE)]]]

-----------------------------------------------------------------------------
(* Properties.                                                             *)

\* Every variable stays in its range.
FileTableTypeOK ==
  /\ \A f \in FileIds : ftab[f].ref \in Nat /\ ftab[f].pipe \in PipeIds \cup {0}
  /\ ofile \in [Users -> [Fds -> FileIds \cup {0}]]

\* What is open is what descriptors keep open, whatever calls fail for lack of files,
\* descriptors or pages and in whatever order fork(), dup(), close() and exit() come: a
\* file has as many references as there are descriptors for it, and an end of a pipe is
\* open exactly as long as it has a descriptor.
OpenByDescriptors ==
  LET Fors(f) == {x \in Users \X Fds : ofile[x[1]][x[2]] = f}
      IsEnd(f, k, wr) == /\ ftab[f].type = "pipe" /\ ftab[f].pipe = k
                         /\ ftab[f].writable = wr
  IN /\ \A f \in FileIds : ftab[f].ref = Cardinality(Fors(f))
     /\ \A k \in PipeIds : \A wr \in BOOLEAN :
          (IF wr THEN pipes[k].writeopen ELSE pipes[k].readopen)
            <=> \E f \in FileIds : IsEnd(f, k, wr) /\ Fors(f) # {}
=============================================================================
