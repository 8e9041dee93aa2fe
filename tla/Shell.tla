------------------------------- MODULE Shell --------------------------------
(***************************************************************************)
(* init (init.c), the shell (sh.c) and the processes it starts, on top of  *)
(* the file table.  A process is the list of the system calls it still has *)
(* to make: runcmd() unfolds a command into them.  Every call is an action.*)
(* A program (external) is known by what ends it: echo ends by itself, cat *)
(* at the end of its input, yes when nobody reads its output.              *)
(***************************************************************************)
EXTENDS FileTable

CONSTANTS Lines,     \* the commands that may be typed, as parsecmd() builds them
          MaxLines   \* bound on the lines typed

INIT == 1   \* the process of init; Users = 1 .. NPROC

ASSUME ShellAssumption == INIT \in Users /\ Users \subseteq Nat /\ MaxLines \in Nat

VARIABLES ustate,   \* "unused", "run" or "zombie"
          uparent,
          code,     \* what the process has still to do
          lines     \* lines typed

ShellVars == <<FileTableVars, ustate, uparent, code, lines>>

ShMain == << <<"console">>, <<"prompt">> >>
InitLoop == << <<"forksh">> >>
InitMain == << <<"open">>, <<"dup", 0>>, <<"dup", 0>> >> \o InitLoop

ShellInit ==
  /\ ftab = [f \in FileIds |-> NoFile] /\ pipes = [k \in PipeIds |-> NoPipe]
  /\ ofile = [p \in Users |-> [fd \in Fds |-> 0]]
  /\ ustate = [p \in Users |-> IF p = INIT THEN "run" ELSE "unused"]
  /\ uparent = [p \in Users |-> INIT]
  /\ code = [p \in Users |-> IF p = INIT THEN InitMain ELSE << >>]
  /\ lines = 0

\* p runs and its next call is op; panic("init exiting") stops everything.
At(p, op) == /\ ustate[INIT] = "run" /\ ustate[p] = "run"
             /\ code[p] # << >> /\ Head(code[p])[1] = op
Then(p, c) == code' = [code EXCEPT ![p] = c]
Proceed(p) == Then(p, Tail(code[p]))
Quits(p) == Then(p, << <<"exit">> >>)

-----------------------------------------------------------------------------
(* Calls on descriptors.                                                   *)

DoClose(p) == /\ At(p, "close")
              /\ TableIs(SysClose(TableNow, p, Head(code[p])[2])) /\ Proceed(p)
              /\ UNCHANGED <<ustate, uparent, lines>>
DoDup(p) == /\ At(p, "dup")
            /\ TableIs(SysDup(TableNow, p, Head(code[p])[2])) /\ Proceed(p)
            /\ UNCHANGED <<ustate, uparent, lines>>

OpenFails(p) == FreeFiles(TableNow) = {} \/ FreeFds(TableNow, p) = {}

\* open() by init, and open() of a redirection, which the command cannot do
\* without.
DoOpen(p) ==
  /\ At(p, "open") \/ At(p, "redirect")
  /\ TableIs(SysOpen(TableNow, p))
  /\ IF At(p, "redirect") /\ OpenFails(p) THEN Quits(p) ELSE Proceed(p)
  /\ UNCHANGED <<ustate, uparent, lines>>

\* sh: "Ensure that three file descriptors are open."
OpenConsole(p) ==
  LET fd == Min(FreeFds(TableNow, p))
  IN /\ At(p, "console")
     /\ TableIs(SysOpen(TableNow, p))
     /\ IF OpenFails(p) THEN Proceed(p)
        ELSE IF fd >= 3 THEN Then(p, << <<"close", fd>> >> \o Tail(code[p]))
        ELSE UNCHANGED code
     /\ UNCHANGED <<ustate, uparent, lines>>

-----------------------------------------------------------------------------
(* fork(), wait() and exit().                                              *)

UnusedProcs == {q \in Users : ustate[q] = "unused"}
Zombies(p) == {q \in Users : ustate[q] = "zombie" /\ uparent[q] = p}
HasKids(p) == \E q \in Users \ {INIT} : ustate[q] # "unused" /\ uparent[q] = p

\* fork() of a child that does kid while p does c; fork1() and init give up if
\* there is no process left.
Forks(p, kid, c) ==
  \/ /\ UnusedProcs = {} /\ Quits(p)
     /\ UNCHANGED <<FileTableVars, ustate, uparent>>
  \/ /\ UnusedProcs # {}
     /\ LET q == Min(UnusedProcs)
        IN /\ TableIs(ForkFiles(TableNow, p, q))
           /\ ustate' = [ustate EXCEPT ![q] = "run"]
           /\ uparent' = [uparent EXCEPT ![q] = p]
           /\ code' = [code EXCEPT ![q] = kid, ![p] = c]

DoFork(p) == /\ At(p, "fork")
             /\ Forks(p, Head(code[p])[2], Tail(code[p])) /\ UNCHANGED lines

\* init starts the shell and keeps its pid.
ForkSh(p) == /\ At(p, "forksh")
             /\ Forks(p, ShMain, << <<"waitfor", Min(UnusedProcs \cup {0})>> >> \o InitLoop)
             /\ UNCHANGED lines

\* wait(): takes a zombie child, or fails without children.  init waits until it
\* is the shell.
DoWait(p) ==
  /\ At(p, "wait") \/ At(p, "waitfor")
  /\ \/ \E q \in Zombies(p) :
          /\ ustate' = [ustate EXCEPT ![q] = "unused"]
          /\ IF At(p, "waitfor") /\ q # Head(code[p])[2] THEN UNCHANGED code ELSE Proceed(p)
     \/ ~HasKids(p) /\ Proceed(p) /\ UNCHANGED ustate
  /\ UNCHANGED <<FileTableVars, uparent, lines>>

\* exit(): close the files and give the children to init.
DoExit(p) ==
  /\ At(p, "exit")
  /\ TableIs(ExitFiles(TableNow, p))
  /\ ustate' = [ustate EXCEPT ![p] = "zombie"]
  /\ uparent' = [q \in Users |-> IF uparent[q] = p THEN INIT ELSE uparent[q]]
  /\ Then(p, << >>) /\ UNCHANGED lines

-----------------------------------------------------------------------------
(* runcmd().                                                               *)

EndCmd == << <<"exit">> >>

\* The children and the parent of a pipe with the descriptors fd0 and fd1.
PipeEnds(fd0, fd1) == << <<"close", fd0>>, <<"close", fd1>> >>
PipeLeft(c, fd0, fd1) ==
  << <<"close", 1>>, <<"dup", fd1>> >> \o PipeEnds(fd0, fd1) \o << <<"run", c.left>> >>
PipeRight(c, fd0, fd1) ==
  << <<"close", 0>>, <<"dup", fd0>> >> \o PipeEnds(fd0, fd1) \o << <<"run", c.right>> >>

\* Mutant: the shell waits for the pipe with its ends still open.
PipeParent_Waits(c, fd0, fd1) ==
  << <<"fork", PipeLeft(c, fd0, fd1)>>, <<"fork", PipeRight(c, fd0, fd1)>> >>
    \o << <<"wait">>, <<"wait">> >> \o PipeEnds(fd0, fd1) \o EndCmd
PipeParent(c, fd0, fd1) ==
  << <<"fork", PipeLeft(c, fd0, fd1)>>, <<"fork", PipeRight(c, fd0, fd1)>> >>
    \o PipeEnds(fd0, fd1) \o << <<"wait">>, <<"wait">> >> \o EndCmd

\* The calls a command other than a pipe stands for.
Unfold(c) ==
  CASE c.type = "EXEC"  -> IF c.prog = "none" THEN EndCmd ELSE << <<"prog", c.prog>> >>
    [] c.type = "REDIR" -> << <<"close", c.fd>>, <<"redirect">>, <<"run", c.cmd>> >>
    [] c.type = "LIST"  -> << <<"fork", << <<"run", c.left>> >> >>, <<"wait">>,
                              <<"run", c.right>> >>
    [] c.type = "BACK"  -> << <<"fork", << <<"run", c.cmd>> >> >> >> \o EndCmd

Runcmd(p) ==
  LET c == Head(code[p])[2]
      r == SysPipe(TableNow, p)
  IN /\ At(p, "run")
     /\ \/ c.type # "PIPE" /\ Then(p, Unfold(c)) /\ UNCHANGED FileTableVars
        \/ /\ c.type = "PIPE"
           /\ TableIs(r.s)
           /\ Then(p, IF r.ok THEN PipeParent(c, r.fd0, r.fd1) ELSE EndCmd)
     /\ UNCHANGED <<ustate, uparent, lines>>

PipeOf(p, fd) == ftab[ofile[p][fd]].pipe

\* What a program waits for.
ProgEnds(p, prog) ==
  \/ prog = "echo"
  \/ prog = "cat" /\ (ofile[p][0] # 0 /\ PipeOf(p, 0) # 0 => ~pipes[PipeOf(p, 0)].writeopen)
  \/ prog = "yes" /\ (ofile[p][1] # 0 /\ PipeOf(p, 1) # 0 => ~pipes[PipeOf(p, 1)].readopen)

Program(p) == /\ At(p, "prog") /\ ProgEnds(p, Head(code[p])[2])
              /\ Quits(p) /\ UNCHANGED <<FileTableVars, ustate, uparent, lines>>

-----------------------------------------------------------------------------
\* main() of sh: a line is typed, or the input ends.
Prompt(p) ==
  /\ At(p, "prompt") /\ lines < MaxLines
  /\ lines' = lines + 1
  /\ \/ \E c \in Lines :
          Then(p, << <<"fork", << <<"run", c>> >> >>, <<"wait">>, <<"prompt">> >>)
     \/ Quits(p)
  /\ UNCHANGED <<FileTableVars, ustate, uparent>>

UserStep(p) ==
  \/ DoClose(p) \/ DoDup(p) \/ DoOpen(p) \/ OpenConsole(p)
  \/ DoFork(p) \/ ForkSh(p) \/ DoWait(p) \/ DoExit(p)
  \/ Runcmd(p) \/ Program(p)

AtPrompt == \E p \in Users : At(p, "prompt")

\* No more lines are typed.
ShellIdle == AtPrompt /\ lines = MaxLines /\ UNCHANGED ShellVars

ShellNext == (\E p \in Users : UserStep(p) \/ Prompt(p)) \/ ShellIdle

ShellSpec == ShellInit /\ [][ShellNext]_ShellVars

-----------------------------------------------------------------------------
(* Properties.                                                             *)

\* The next call of p does not wait.
CanGo(p) == \/ \E op \in {"open", "dup", "forksh", "console", "prompt", "close", "redirect",
                           "fork", "run", "exit"} : At(p, op)
            \/ (At(p, "wait") \/ At(p, "waitfor")) /\ (Zombies(p) # {} \/ ~HasKids(p))
            \/ At(p, "prog") /\ ProgEnds(p, Head(code[p])[2])

\* Whatever the pipes, lists and background commands of a line, and whatever
\* fork(), open() or pipe() fail on the way, the processes never all wait for each
\* other: no end of a pipe is left open in a process that waits for its children.
\* As every call that returns brings a process closer to its end, the prompt comes
\* back.
NobodyStuck == ustate[INIT] = "run" => \E p \in Users : CanGo(p)
=============================================================================
