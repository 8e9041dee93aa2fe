--------------------------------- MODULE Vm ---------------------------------
(***************************************************************************)
(* Physical pages (kalloc.c), address spaces (vm.c) and the system calls   *)
(* that change them: exec() (exec.c), fork(), sbrk() and exit() (proc.c).  *)
(* What these functions do to an address space no other process sees, and  *)
(* the free list is only a set of pages, so each call is one action; that  *)
(* other processes take pages meanwhile only makes kalloc() fail earlier,  *)
(* which Others() provides for.  Sizes and addresses are in bytes of pages *)
(* of PGSIZE bytes; an address space of MAXPAGES pages under KERNBASE has  *)
(* page tables of NPTENTRIES pages.                                        *)
(***************************************************************************)
EXTENDS Integers, Sequences, FiniteSets, FiniteSetsExt, SequencesExt

CONSTANTS VmProcs,
          NFRAMES,      \* physical pages
          PGSIZE, MAXPAGES, NPTENTRIES,
          KPTS,         \* page tables of the kernel part
          Programs,     \* what exec() finds in a file, see Exec
          Deltas,       \* arguments of sbrk()
          Left,         \* how many pages the others leave
          MaxSteps,     \* bound on the number of calls
          Vals          \* contents of a page

Frames   == 1 .. NFRAMES
Pages    == 0 .. MAXPAGES - 1
Tables   == 0 .. (MAXPAGES - 1) \div NPTENTRIES
KERNBASE == PGSIZE * MAXPAGES
UINT     == 4 * KERNBASE
NoFrame  == 0
Junk     == -1
NoPte    == [frame |-> NoFrame, user |-> FALSE]

ASSUME VmAssumption ==
  /\ NFRAMES \in Nat /\ PGSIZE \in Nat \ {0} /\ MAXPAGES \in Nat \ {0}
  /\ NPTENTRIES \in Nat \ {0} /\ KPTS \in Nat /\ MaxSteps \in Nat /\ NoFrame \notin Frames

VARIABLES free,    \* kmem.freelist
          taken,   \* pages in use by others
          vm,      \* address space of process p: its page directory, page tables
                   \* of the kernel and of the user part, and their entries
          sz,      \* p->sz
          mem,     \* contents of each physical page
          steps    \* calls made so far

VmVars == <<free, taken, vm, sz, mem, steps>>

NoVm == [dir |-> NoFrame, kpts |-> {}, pts |-> [x \in Tables |-> NoFrame],
         ptes |-> [a \in Pages |-> NoPte]]

\* What a function works on: the free pages, the address space, the contents
\* of pages, and whether it is still to go on.
Work(v) == [free |-> free, vm |-> v, mem |-> mem, ok |-> TRUE]

\* The n lowest pages of S.
Lowest(S, n) == {f \in S : Cardinality({g \in S : g < f}) < n}

RoundUp(n) == (n + PGSIZE - 1) \div PGSIZE   \* PGROUNDUP, in pages

-----------------------------------------------------------------------------
(* kalloc() and walkpgdir(), mappages().                                   *)

\* The page the free list gives out.
Kalloc(w) == Min(w.free)

\* walkpgdir(..., 1): the page table of page a exists, or kalloc() fails.
Walkpgdir(w, a) ==
  LET x == a \div NPTENTRIES IN
  IF w.vm.pts[x] # NoFrame THEN w
  ELSE IF w.free = {} THEN [w EXCEPT !.ok = FALSE]
  ELSE [w EXCEPT !.vm.pts[x] = Kalloc(w), !.free = @ \ {Kalloc(w)}]

\* mappages() of one page, once its page table is there.
SetPte(u, a, f, user) ==
  IF u.ok THEN [u EXCEPT !.vm.ptes[a] = [frame |-> f, user |-> user]] ELSE u
Mappages(w, a, f, user) == SetPte(Walkpgdir(w, a), a, f, user)

\* kalloc(), fill with v and mappages() of page a; the page goes back to the
\* free list if there is no page for its page table.
Unless(u, f) == IF u.ok THEN u ELSE [u EXCEPT !.free = @ \cup {f}]
NewPage(w, a, v, user) ==
  IF ~w.ok \/ w.free = {} THEN [w EXCEPT !.ok = FALSE]
  ELSE LET f == Kalloc(w)
       IN Unless(Mappages([w EXCEPT !.free = @ \ {f}, !.mem[f] = v], a, f, user), f)

FirstGone(newsz) == RoundUp(newsz)

\* deallocuvm(): pages from RoundUp(newsz) up to oldsz are freed.
Deallocuvm(w, oldsz, newsz) ==
  LET gone == {a \in Pages : FirstGone(newsz) <= a /\ a * PGSIZE < oldsz
                             /\ w.vm.ptes[a] # NoPte}
  IN [w EXCEPT !.free = @ \cup {w.vm.ptes[a].frame : a \in gone},
               !.vm.ptes = [a \in Pages |-> IF a \in gone THEN NoPte ELSE @[a]]]

\* freevm(): all pages, page tables and the page directory are freed.
FreeTables(u) ==
  [u EXCEPT !.vm = NoVm,
            !.free = (@ \cup u.vm.kpts \cup {u.vm.dir}
                        \cup {u.vm.pts[x] : x \in Tables}) \ {NoFrame}]
Freevm(w) == FreeTables(Deallocuvm(w, KERNBASE, 0))

-----------------------------------------------------------------------------
(* setupkvm(), allocuvm(), copyuvm().                                      *)

\* setupkvm(): a page directory and the page tables of the kernel part; all or
\* nothing.
Setupkvm(w) ==
  IF Cardinality(w.free) < 1 + KPTS THEN [w EXCEPT !.ok = FALSE, !.vm = NoVm]
  ELSE LET d == Kalloc(w)
           K == Lowest(w.free \ {d}, KPTS)
       IN [w EXCEPT !.free = @ \ (K \cup {d}),
                    !.vm = [NoVm EXCEPT !.dir = d, !.kpts = K]]

\* Pages m, m + 1, ... , n - 1.
PageSeq(m, n) == [k \in 1 .. (IF n > m THEN n - m ELSE 0) |-> m + k - 1]

TooLarge(newsz) == newsz >= KERNBASE

\* allocuvm(): the work, and the size it returns, 0 if it fails; u is what the loop
\* over the new pages leaves.
Grown(u, oldsz, newsz) == IF u.ok THEN [w |-> u, size |-> newsz]
                          ELSE [w |-> Deallocuvm(u, newsz, oldsz), size |-> 0]
Allocuvm(w, oldsz, newsz) ==
  IF TooLarge(newsz) THEN [w |-> [w EXCEPT !.ok = FALSE], size |-> 0]
  ELSE IF newsz < oldsz THEN [w |-> w, size |-> oldsz]
  ELSE Grown(FoldLeft(LAMBDA x, a : NewPage(x, a, 0, TRUE), w,
                      PageSeq(RoundUp(oldsz), RoundUp(newsz))), oldsz, newsz)

\* Mutant: the guard page of the parent is a page like any other in the child.
CopyPage_User(x, v, a) == NewPage(x, a, mem[v.ptes[a].frame], TRUE)
CopyPage(x, v, a) == NewPage(x, a, mem[v.ptes[a].frame], v.ptes[a].user)

\* copyuvm(): a copy of the n bytes of the address space v.
AllOrNothing(u) == IF u.ok THEN u ELSE Freevm(u)
CopyTo(d, v, n) ==
  IF ~d.ok THEN d
  ELSE AllOrNothing(FoldLeft(LAMBDA x, a : CopyPage(x, v, a), d, PageSeq(0, RoundUp(n))))
Copyuvm(w, v, n) == CopyTo(Setupkvm(w), v, n)

-----------------------------------------------------------------------------
(* The system calls.                                                       *)

\* userinit(): the first process has one page of code.
FirstProcess(w) ==
  LET p1 == CHOOSE p \in VmProcs : TRUE
  IN /\ free = w.free /\ mem = w.mem /\ taken = {}
     /\ vm = [p \in VmProcs |-> IF p = p1 THEN w.vm ELSE NoVm]
     /\ sz = [p \in VmProcs |-> IF p = p1 THEN PGSIZE ELSE 0] /\ steps = 0
VmInit ==
  LET w0 == [free |-> Frames, vm |-> NoVm, mem |-> [f \in Frames |-> Junk], ok |-> TRUE]
  IN FirstProcess(NewPage(Setupkvm(w0), 0, 0, TRUE))

Alive(p) == vm[p] # NoVm
\* A process without its first page takes a page fault and is killed.  (growproc()
\* that leaves nothing returns before switchuvm(): what the process can still do with
\* old entries of the TLB until the next switch is left out.)
CanRun(p) == Alive(p) /\ vm[p].ptes[0] # NoPte

\* A call of p leaves work w and size n; kfree() fills what is free with junk.
Leaves(p, w, n) == /\ free' = w.free
                   /\ mem' = [f \in Frames |-> IF f \in w.free THEN Junk ELSE w.mem[f]]
                   /\ vm' = [vm EXCEPT ![p] = w.vm]
                   /\ sz' = [sz EXCEPT ![p] = n] /\ UNCHANGED taken

\* growproc(): sz + n is unsigned, and 0 stands for a failure.
Resized(p, n, newsz) ==
  IF n > 0 THEN Allocuvm(Work(vm[p]), sz[p], newsz)
  ELSE IF newsz >= sz[p] THEN [w |-> Work(vm[p]), size |-> sz[p]]
  ELSE [w |-> Deallocuvm(Work(vm[p]), sz[p], newsz), size |-> newsz]
KeepIfZero(p, r) == Leaves(p, r.w, IF r.size = 0 THEN sz[p] ELSE r.size)
Growproc(p, n) == CanRun(p) /\ KeepIfZero(p, Resized(p, n, (sz[p] + n) % UINT))

\* fork(): copyuvm(); without memory the child is given up.
Child(p, q, w) == Leaves(q, w, IF w.ok THEN sz[p] ELSE 0)
ForkVm(p, q) == CanRun(p) /\ ~Alive(q) /\ Child(p, q, Copyuvm(Work(NoVm), vm[p], sz[p]))

\* loaduvm() of the file contents of segment s, where allocuvm() has left a; the rest
\* of the segment is zero.  The file may be too short.
Loaduvm(a, s) ==
  LET put == {x \in Pages : s.vaddr <= x * PGSIZE /\ x * PGSIZE < s.vaddr + s.filesz}
  IN IF a.size = 0 \/ s.vaddr % PGSIZE # 0 THEN [a EXCEPT !.w.ok = FALSE]
     ELSE [a EXCEPT !.w.ok = ~s.short, !.w.mem = [f \in Frames |->
             IF \E x \in put : a.w.vm.ptes[x].frame = f THEN s.val ELSE a.w.mem[f]]]

\* A segment of a program; its end may wrap around.
Segment(r, s) ==
  LET end == (s.vaddr + s.memsz) % UINT
  IN IF ~r.w.ok \/ s.memsz < s.filesz \/ end < s.vaddr THEN [r EXCEPT !.w.ok = FALSE]
     ELSE Loaduvm(Allocuvm(r.w, r.size, end), s)

\* clearpteu(): user programs have no access to page a.
Clearpteu(w, a) == [w EXCEPT !.vm.ptes[a].user = FALSE]

\* copyout() of n bytes from the end of the stack page down: past that page it
\* meets the guard page and fails.
Copyout(w, n) == [w EXCEPT !.ok = n <= PGSIZE]

\* exec(): the new image, with a guard page and a stack page t above the program s,
\* and args bytes of arguments copied out to the stack.
Arguments(t, guard, args) ==
  IF t.size = 0 THEN [w |-> [t.w EXCEPT !.ok = FALSE], size |-> 0]
  ELSE [w |-> Copyout(Clearpteu(t.w, guard), args), size |-> t.size]
Stack(s, args) ==
  LET guard == RoundUp(s.size)
  IN IF ~s.w.ok THEN [w |-> s.w, size |-> 0]
     ELSE Arguments(Allocuvm(s.w, guard * PGSIZE, (guard + 2) * PGSIZE), guard, args)
NewImage(prog) ==
  Stack(FoldLeft(Segment, [w |-> Setupkvm(Work(NoVm)), size |-> 0], prog.segs), prog.args)

\* Commit to the new image r and free the old one.
CommitImage(p, r) ==
  Leaves(p, [Freevm([r.w EXCEPT !.vm = vm[p]]) EXCEPT !.vm = r.w.vm], r.size)

\* Mutant: the new image is not freed if its arguments do not fit.
Bad_Leaks(p, r) == Leaves(p, [r.w EXCEPT !.vm = vm[p]], sz[p])

\* The end of exec() after a failure: the new image is freed.
Bad(p, r) == Leaves(p, [Freevm(r.w) EXCEPT !.vm = vm[p]], sz[p])

Replace(p, r) == IF r.w.ok THEN CommitImage(p, r) ELSE Bad(p, r)
Exec(p, prog) == CanRun(p) /\ Replace(p, NewImage(prog))

\* exit(), or a page fault, and wait() by the parent: freevm().
ExitVm(p) == Alive(p) /\ Leaves(p, Freevm(Work(vm[p])), 0)

\* The program stores v in its last page.
StoreByte(p, v) == /\ CanRun(p)
                   /\ LET a == RoundUp(sz[p]) - 1
                      IN mem' = [mem EXCEPT ![vm[p].ptes[a].frame] = v]
                   /\ UNCHANGED <<free, taken, vm, sz>>

\* Other users of pages (kernel stacks, pipes) leave at most n pages free.
Others(n) == LET all == free \cup taken IN
             /\ free' = Lowest(all, n) /\ taken' = all \ Lowest(all, n)
             /\ UNCHANGED <<vm, sz, mem>>

VmCall == \/ \E p \in VmProcs :
               \/ ExitVm(p)
               \/ \E n \in Deltas : Growproc(p, n)
               \/ \E q \in VmProcs : ForkVm(p, q)
               \/ \E prog \in Programs : Exec(p, prog)
               \/ \E v \in Vals : StoreByte(p, v)
          \/ \E n \in Left : Others(n)

VmNext == \/ steps < MaxSteps /\ steps' = steps + 1 /\ VmCall
          \/ steps = MaxSteps /\ UNCHANGED VmVars

VmSpec == VmInit /\ [][VmNext]_VmVars

-----------------------------------------------------------------------------
(* Properties.                                                             *)

\* The pages an address space consists of, each as often as it is used.
UserPages(v) == {a \in Pages : v.ptes[a] # NoPte}
Uses(v) == Cardinality(UserPages(v)) + Cardinality(v.kpts)
           + Cardinality({x \in Tables : v.pts[x] # NoFrame})
           + (IF v.dir = NoFrame THEN 0 ELSE 1)
OwnedFrames(v) == ({v.ptes[a].frame : a \in Pages} \cup v.kpts \cup {v.dir}
                   \cup {v.pts[x] : x \in Tables}) \ {NoFrame}

\* Every variable stays in its range.
VmTypeOK ==
  /\ free \subseteq Frames /\ taken \subseteq Frames
  /\ \A p \in VmProcs : /\ OwnedFrames(vm[p]) \subseteq Frames
                      /\ sz[p] \in 0 .. KERNBASE - 1
  /\ mem \in [Frames -> Vals \cup {Junk}]

\* A physical page is on the free list or in one place of one address space:
\* no failing call leaks pages, and none is freed that is in use.
PagesConserved ==
  /\ free \cup taken \cup UNION {OwnedFrames(vm[p]) : p \in VmProcs} = Frames
  /\ free \cap taken = {}
  /\ \A p \in VmProcs :
       /\ Cardinality(OwnedFrames(vm[p])) = Uses(vm[p])
       /\ OwnedFrames(vm[p]) \cap (free \cup taken) = {}
       /\ \A q \in VmProcs \ {p} : OwnedFrames(vm[p]) \cap OwnedFrames(vm[q]) = {}

\* The pages of a process as it sees them.
PagesOf(p) == [a \in UserPages(vm[p]) |-> [val |-> mem[vm[p].ptes[a].frame],
                                          user |-> vm[p].ptes[a].user]]

\* A process sees its own stores only, and its child a copy of its pages, the
\* guard page included.
Private == INSTANCE Memory WITH Procs <- VmProcs,
                                 Nothing <- << >>,
                                 image <- [p \in VmProcs |-> PagesOf(p)]
ImplementsMemory == Private!Spec
=============================================================================
