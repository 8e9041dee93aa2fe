-------------------------------- MODULE MCFs --------------------------------
(***************************************************************************)
(* The name layer of the file system, the image mkfs makes, spin locks and *)
(* the loop of findPriority(), side by side: a behaviour is one of the     *)
(* part chosen at the start; the others stay in an initial state.          *)
(* MCFs.cfg checks them all, MCFsLocks.cfg one claim about the locks of    *)
(* inodes.                                                                 *)
(***************************************************************************)
EXTENDS Inodes, Mkfs, Spinlock, FindPriorityLoop, TLC

VARIABLE part

FsVars == <<part, InodeVars, MkfsVars, SpinVars, loopvars>>

\* The loop starts on any table; where it is not the part that runs, on one.
OneTable == /\ mode = 3 /\ p = 0 /\ selectedP = None
            /\ state = [s \in Slots |-> "RUNNABLE"] /\ queueNumber = [s \in Slots |-> 0]
            /\ priority = [s \in Slots |-> 1] /\ scheduled_times = [s \in Slots |-> 0]

PartsInit == /\ part \in {"inodes", "mkfs", "spin", "loop"}
             /\ FsInit /\ MkfsInit /\ SpinInit
             /\ IF part = "loop" THEN LoopInit ELSE OneTable

PartsNext ==
  \/ part = "inodes" /\ FsNext /\ UNCHANGED <<part, MkfsVars, SpinVars, loopvars>>
  \/ part = "mkfs" /\ MkfsNext /\ UNCHANGED <<part, InodeVars, SpinVars, loopvars>>
  \/ part = "spin" /\ SpinNext /\ UNCHANGED <<part, InodeVars, MkfsVars, loopvars>>
  \/ part = "loop" /\ Step /\ UNCHANGED <<part, InodeVars, MkfsVars, SpinVars>>
  \/ part = "loop" /\ p = NPROC /\ UNCHANGED FsVars

PartsSpec == PartsInit /\ [][PartsNext]_FsVars

-----------------------------------------------------------------------------
(* The system calls on two names, some of them relative.                   *)
Call1(o, name) == [op |-> o, path |-> name]
SlashA == <<"/", "a">>
SlashB == <<"/", "b">>
FsCalls == {Call1("mkdir", SlashA), Call1("creat", SlashA), Call1("creat", <<"b">>),
            Call1("unlink", SlashA), Call1("chdir", SlashA), Call1("chdir", <<"..">>),
            Call1("openw", SlashA), [op |-> "link", path |-> SlashA, new |-> SlashB],
            Call1("unlink", SlashB), Call1("mknod", SlashB), Call1("open", SlashB),
            Call1("unlink", <<"/">>)}

\* Processes that use files are interchangeable.
ProcSymmetry == Permutations(Procs)
=============================================================================
