------------------------------- MODULE Inodes -------------------------------
(***************************************************************************)
(* Inodes, directories and path names (fs.c) under the system calls of     *)
(* sysfile.c that look names up and change links: several processes at a   *)
(* time.  What a process does with an inode between taking its sleep lock  *)
(* and giving it back is one action, unless it waits for another lock with *)
(* the first one held; iput() is four.  A directory is a function from     *)
(* names to inode numbers, 0 for none; a path starts with "/" if it is     *)
(* absolute.  The cache has an entry for every inode: the panic of iget()  *)
(* in a full cache is left out.  A system call is a transaction of the     *)
(* log, so a crash finds the disk as it was at a moment without calls in   *)
(* progress.                                                               *)
(***************************************************************************)
EXTENDS Integers, Sequences, FiniteSets, FiniteSetsExt

CONSTANTS Procs,
          NINODES,   \* sb.ninodes: inodes 1 .. NINODES - 1
          Names,     \* file names, without the dots
          Calls,     \* the system calls processes make
          MaxCalls   \* bound on how many they make

Inums   == 1 .. NINODES - 1
ROOTINO == 1
Dots    == {".", ".."}
DirNames == Names \cup Dots
FreeInode == [type |-> "none", nlink |-> 0]
NoLock  == "unlocked"
NoCall  == [op |-> "none"]

ASSUME InodesAssumption ==
  NINODES \in Nat /\ NINODES > 1 /\ MaxCalls \in Nat /\ NoLock \notin Procs

VARIABLES din, ents,          \* on disk: dinode of i; contents of directory i
          cin, ivalid, iref,  \* the cached copy of the dinode, valid, ref
          ilk,                \* holder of the sleep lock of i
          cwd, ofile,         \* of process t; ofile is 0 if it has no file open
          fpc, call,          \* where process t is in its system call
          rest, cur,          \* namex(): the path left, ip
          ip,                 \* the local ip of a system call; cur is its dp
          puts,               \* what t has to iunlock and iput before it goes on
          calls,              \* calls made so far
          lost                \* history: entries for i in directories freed

ondisk == <<din, ents>>
locals == <<call, rest, cur, ip>>
InodeVars == <<din, ents, cin, ivalid, iref, ilk, cwd, ofile, fpc, call, rest,
               cur, ip, puts, calls, lost>>

NoEnts == [n \in DirNames |-> 0]

FsInit ==
  /\ din = [i \in Inums |-> IF i = ROOTINO THEN [type |-> "dir", nlink |-> 1] ELSE FreeInode]
  /\ ents = [i \in Inums |-> IF i = ROOTINO
                             THEN [n \in DirNames |-> IF n \in Dots THEN ROOTINO ELSE 0]
                             ELSE NoEnts]
  /\ cin = [i \in Inums |-> FreeInode] /\ ivalid = [i \in Inums |-> FALSE]
  /\ iref = [i \in Inums |-> IF i = ROOTINO THEN Cardinality(Procs) ELSE 0]
  /\ ilk = [i \in Inums |-> NoLock]
  /\ cwd = [t \in Procs |-> ROOTINO] /\ ofile = [t \in Procs |-> 0]
  /\ fpc = [t \in Procs |-> "out"] /\ call = [t \in Procs |-> NoCall]
  /\ rest = [t \in Procs |-> << >>]
  /\ cur = [t \in Procs |-> 0] /\ ip = [t \in Procs |-> 0]
  /\ puts = [t \in Procs |-> << >>]
  /\ calls = 0 /\ lost = [i \in Inums |-> 0]

At(t, point) == fpc[t] = point /\ puts[t] = << >>
To(t, point) == fpc' = [fpc EXCEPT ![t] = point]

\* iput(i), and iunlockput(i), still to be done.
Put(i)       == [inum |-> i, step |-> "lock"]
UnlockPut(i) == [inum |-> i, step |-> "unlock"]
Puts(t, s)   == puts' = [puts EXCEPT ![t] = s]

\* What ilock(i) shows: the cached dinode, read from disk if need be.
Inode(i) == IF ivalid[i] THEN cin[i] ELSE din[i]

\* iget() and idup() of the inodes in G, after ilock() of those in L, whose
\* dinodes become d: an entry of the cache that was not in use is not valid.
Cache(G, L, d) ==
  /\ iref' = [i \in Inums |-> IF i \in G THEN iref[i] + 1 ELSE iref[i]]
  /\ ivalid' = [i \in Inums |-> i \in L \/ (ivalid[i] /\ ~(i \in G /\ iref[i] = 0))]
  /\ cin' = [i \in Inums |-> IF i \in L THEN d[i] ELSE cin[i]]

Seen == [i \in Inums |-> Inode(i)]

-----------------------------------------------------------------------------
(* iput() and iunlockput().                                                *)

Putting(t, step) == puts[t] # << >> /\ Head(puts[t]).step = step
PutGoes(t, step) == puts' = [puts EXCEPT ![t][1].step = step]

\* iunlock().
Iunlock(t) ==
  /\ Putting(t, "unlock") /\ PutGoes(t, "lock")
  /\ ilk' = [ilk EXCEPT ![Head(puts[t]).inum] = NoLock]
  /\ UNCHANGED <<ondisk, cin, ivalid, iref, cwd, ofile, fpc, locals, calls, lost>>

\* Mutant: the inode is freed although it is still referenced.
LastRef_Ignored(i) == TRUE
LastRef(i) == iref[i] = 1

\* Take the lock and look at nlink and ref.
IputTest(t) ==
  LET i == Head(puts[t]).inum IN
  /\ Putting(t, "lock") /\ ilk[i] = NoLock
  /\ PutGoes(t, IF ivalid[i] /\ cin[i].nlink = 0 /\ LastRef(i) THEN "free" ELSE "drop")
  /\ ilk' = [ilk EXCEPT ![i] = t]
  /\ UNCHANGED <<ondisk, cin, ivalid, iref, cwd, ofile, fpc, locals, calls, lost>>

\* itrunc(), type = 0 and iupdate(): the inode and its contents are free.
IputFree(t) ==
  LET i == Head(puts[t]).inum IN
  /\ Putting(t, "free") /\ PutGoes(t, "drop")
  /\ din' = [din EXCEPT ![i] = FreeInode] /\ ents' = [ents EXCEPT ![i] = NoEnts]
  /\ cin' = [cin EXCEPT ![i] = FreeInode] /\ ivalid' = [ivalid EXCEPT ![i] = FALSE]
  /\ lost' = [j \in Inums |-> lost[j] + Cardinality({n \in Names : ents[i][n] = j})]
  /\ UNCHANGED <<iref, ilk, cwd, ofile, fpc, locals, calls>>

\* releasesleep(): another iput() may look at ref before this one takes its
\* reference away.
IputRelease(t) ==
  /\ Putting(t, "drop") /\ PutGoes(t, "ref")
  /\ ilk' = [ilk EXCEPT ![Head(puts[t]).inum] = NoLock]
  /\ UNCHANGED <<ondisk, cin, ivalid, iref, cwd, ofile, fpc, locals, calls, lost>>

\* ip->ref--.
IputDrop(t) ==
  /\ Putting(t, "ref") /\ Puts(t, Tail(puts[t]))
  /\ iref' = [iref EXCEPT ![Head(puts[t]).inum] = @ - 1]
  /\ UNCHANGED <<ondisk, cin, ivalid, ilk, cwd, ofile, fpc, locals, calls, lost>>

-----------------------------------------------------------------------------
(* namex().                                                                *)

\* Where a path starts, and its elements.
Start(t, path) == IF Head(path) = "/" THEN ROOTINO ELSE cwd[t]
Elems(path)    == IF Head(path) = "/" THEN Tail(path) ELSE path

\* link() looks up its second path.
Second(t) == call[t].op = "link" /\ ip[t] # 0
\* The lookup is nameiparent().
Parent(t) == call[t].op \in {"unlink", "creat", "mkdir", "mknod"} \/ Second(t)
\* The points after a lookup that finds and one that does not.
Found(t) == IF Second(t) THEN "dirlink" ELSE call[t].op
Fail(t)  == IF Second(t) THEN "linkbad" ELSE "ret"

\* The system call begins: begin_op() and iget(root) or idup(cwd).
Begin(t, c) ==
  /\ At(t, "out") /\ calls < MaxCalls /\ calls' = calls + 1
  /\ (c.op \in {"open", "openw", "creat"} => ofile[t] = 0)
  /\ call' = [call EXCEPT ![t] = c]
  /\ cur' = [cur EXCEPT ![t] = Start(t, c.path)]
  /\ rest' = [rest EXCEPT ![t] = Elems(c.path)]
  /\ Cache({Start(t, c.path)}, {}, Seen)
  /\ To(t, "walk")
  /\ UNCHANGED <<ondisk, ilk, cwd, ofile, ip, puts, lost>>

\* One path element: ilock(ip), dirlookup(), iunlockput(ip).
Walk(t) ==
  LET i == cur[t]  next == ents[i][Head(rest[t])] IN
  /\ At(t, "walk") /\ rest[t] # << >>
  /\ ilk[i] = NoLock /\ Inode(i).type # "none"
  /\ \/ /\ Inode(i).type # "dir"
        /\ Puts(t, <<Put(i)>>) /\ To(t, Fail(t))
        /\ Cache({}, {i}, Seen) /\ UNCHANGED <<rest, cur>>
     \/ /\ Inode(i).type = "dir" /\ Parent(t) /\ Len(rest[t]) = 1
        /\ To(t, Found(t))
        /\ Cache({}, {i}, Seen) /\ UNCHANGED <<rest, cur, puts>>
     \/ /\ Inode(i).type = "dir" /\ ~(Parent(t) /\ Len(rest[t]) = 1) /\ next = 0
        /\ Puts(t, <<Put(i)>>) /\ To(t, Fail(t))
        /\ Cache({}, {i}, Seen) /\ UNCHANGED <<rest, cur>>
     \/ /\ Inode(i).type = "dir" /\ ~(Parent(t) /\ Len(rest[t]) = 1) /\ next # 0
        /\ Puts(t, <<Put(i)>>)
        /\ cur' = [cur EXCEPT ![t] = next] /\ rest' = [rest EXCEPT ![t] = Tail(@)]
        /\ Cache({next}, {i}, Seen) /\ UNCHANGED fpc
  /\ UNCHANGED <<ondisk, ilk, cwd, ofile, call, ip, calls, lost>>

\* The path has no more elements.
WalkEnd(t) ==
  /\ At(t, "walk") /\ rest[t] = << >>
  /\ \/ /\ Parent(t) /\ Puts(t, <<Put(cur[t])>>) /\ To(t, Fail(t)) /\ UNCHANGED ip
     \/ /\ ~Parent(t) /\ To(t, Found(t)) /\ ip' = [ip EXCEPT ![t] = cur[t]]
        /\ UNCHANGED puts
  /\ UNCHANGED <<ondisk, cin, ivalid, iref, ilk, cwd, ofile, call, rest, cur,
                 calls, lost>>

\* end_op() and return.
Return(t) ==
  /\ At(t, "ret") /\ To(t, "out")
  /\ call' = [call EXCEPT ![t] = NoCall]
  /\ rest' = [rest EXCEPT ![t] = << >>]
  /\ cur' = [cur EXCEPT ![t] = 0] /\ ip' = [ip EXCEPT ![t] = 0]
  /\ UNCHANGED <<ondisk, cin, ivalid, iref, ilk, cwd, ofile, puts, calls, lost>>

-----------------------------------------------------------------------------
(* unlink().                                                               *)

Isdirempty(i) == \A n \in Names : ents[i][n] = 0
Name(t) == Head(rest[t])
NlinkPlus(i, k) == [Inode(i) EXCEPT !.nlink = @ + k]

HoldParent(t, d) == ilk' = [ilk EXCEPT ![d] = t]

\* ilock(dp), the tests of the name, dirlookup(): dp stays locked.
UnlinkParent(t) ==
  LET i == cur[t]  e == ents[i][Name(t)] IN
  /\ At(t, "unlink") /\ ilk[i] = NoLock /\ Inode(i).type # "none"
  /\ \/ /\ Name(t) \in Dots \/ e = 0
        /\ Puts(t, <<Put(i)>>) /\ To(t, "ret")
        /\ Cache({}, {i}, Seen) /\ UNCHANGED <<ilk, ip>>
     \/ /\ Name(t) \notin Dots /\ e # 0
        /\ HoldParent(t, i) /\ ip' = [ip EXCEPT ![t] = e]
        /\ To(t, "unlink2") /\ Cache({e}, {i}, Seen) /\ UNCHANGED puts
  /\ UNCHANGED <<ondisk, cwd, ofile, call, rest, cur, calls, lost>>

Removable(i) == Inode(i).type = "dir" => Isdirempty(i)

\* What dp->nlink loses with the entry for i: the ".." of a directory.
\* Mutant: nothing.
ParentLoses_Not(i) == 0
ParentLoses(i) == IF Inode(i).type = "dir" THEN 1 ELSE 0

\* ilock(ip); the entry is cleared and, for a directory, dp->nlink decremented.
UnlinkEntry(t) ==
  LET i == ip[t]  d == cur[t] IN
  /\ At(t, "unlink2") /\ ilk[i] = NoLock /\ Inode(i).type # "none"
  /\ ilk' = [ilk EXCEPT ![i] = t]
  /\ \/ /\ Inode(i).nlink < 1 /\ To(t, "panic")
        /\ Cache({}, {i}, Seen) /\ UNCHANGED <<puts, ondisk>>
     \/ /\ Inode(i).nlink > 0 /\ ~Removable(i)
        /\ Puts(t, <<UnlockPut(i), UnlockPut(d)>>) /\ To(t, "ret")
        /\ Cache({}, {i}, Seen) /\ UNCHANGED ondisk
     \/ /\ Inode(i).nlink > 0 /\ Removable(i)
        /\ ents' = [ents EXCEPT ![d][Name(t)] = 0]
        /\ LET dip == NlinkPlus(d, -ParentLoses(i))
           IN /\ din' = [din EXCEPT ![d] = dip]
              /\ Cache({}, {i, d}, [Seen EXCEPT ![d] = dip])
        /\ Puts(t, <<UnlockPut(d)>>) /\ To(t, "unlink3")
  /\ UNCHANGED <<cwd, ofile, locals, calls, lost>>

\* nlink-- of the inode i, whose lock t has, iupdate() and iunlockput().
DecLink(t, i) ==
  /\ din' = [din EXCEPT ![i] = NlinkPlus(i, -1)]
  /\ Cache({}, {i}, [Seen EXCEPT ![i] = NlinkPlus(i, -1)])
  /\ Puts(t, <<UnlockPut(i)>>) /\ To(t, "ret")
  /\ UNCHANGED <<ents, cwd, ofile, locals, calls, lost>>

UnlinkDone(t) == At(t, "unlink3") /\ DecLink(t, ip[t]) /\ UNCHANGED ilk

-----------------------------------------------------------------------------
(* create(), open(), mkdir() and mknod().                                  *)

Type(t) == CASE call[t].op = "mkdir" -> "dir" [] call[t].op = "mknod" -> "dev"
             [] OTHER -> "file"

\* What ialloc() chooses from.
FreeInums == {j \in Inums : din[j].type = "none"}

\* ilock(dp) and dirlookup(); if there is no such name, ialloc() marks the
\* first free inode allocated and dp stays locked.
CreateParent(t) ==
  LET i == cur[t]  e == ents[i][Name(t)]  new == FreeInums IN
  /\ At(t, call[t].op) /\ call[t].op \in {"creat", "mkdir", "mknod"}
  /\ ilk[i] = NoLock /\ Inode(i).type # "none"
  /\ \/ /\ e # 0 /\ Puts(t, <<Put(i)>>)
        /\ ip' = [ip EXCEPT ![t] = e] /\ To(t, "exists")
        /\ Cache({e}, {i}, Seen) /\ UNCHANGED <<ilk, din>>
     \/ /\ e = 0 /\ new = {} /\ To(t, "noinodes")
        /\ ilk' = [ilk EXCEPT ![i] = t]
        /\ Cache({}, {i}, Seen) /\ UNCHANGED <<ip, puts, din>>
     \/ /\ e = 0 /\ new # {}
        /\ ilk' = [ilk EXCEPT ![i] = t]
        /\ din' = [din EXCEPT ![Min(new)] = [type |-> Type(t), nlink |-> 0]]
        /\ ip' = [ip EXCEPT ![t] = Min(new)] /\ To(t, "fill")
        /\ Cache({Min(new)}, {i}, Seen) /\ UNCHANGED puts
  /\ UNCHANGED <<ents, cwd, ofile, call, rest, cur, calls, lost>>

\* The name exists: ilock(ip); only creat() of a file goes on with it.
CreateExists(t) ==
  LET i == ip[t] IN
  /\ At(t, "exists") /\ ilk[i] = NoLock /\ Inode(i).type # "none"
  /\ ilk' = [ilk EXCEPT ![i] = t]
  /\ Cache({}, {i}, Seen)
  /\ \/ /\ Type(t) = "file" /\ Inode(i).type = "file"
        /\ To(t, "install") /\ UNCHANGED puts
     \/ /\ ~(Type(t) = "file" /\ Inode(i).type = "file")
        /\ Puts(t, <<UnlockPut(i)>>) /\ To(t, "ret")
  /\ UNCHANGED <<ondisk, cwd, ofile, locals, calls, lost>>

\* ilock(ip), nlink = 1, the dots of a directory, the entry in dp and
\* iunlockput(dp): ip is returned locked.
CreateFill(t) ==
  LET i == ip[t]  d == cur[t]  isdir == Type(t) = "dir"
      new == [din EXCEPT ![i].nlink = 1,
                         ![d] = NlinkPlus(d, IF isdir THEN 1 ELSE 0)] IN
  /\ At(t, "fill") /\ ilk[i] = NoLock
  /\ ilk' = [ilk EXCEPT ![i] = t]
  /\ din' = new /\ Cache({}, {i, d}, new)
  /\ ents' = [ents EXCEPT ![d][Name(t)] = i,
                          ![i] = IF isdir THEN [NoEnts EXCEPT !["."] = i, ![".."] = d]
                                          ELSE NoEnts]
  /\ \/ Type(t) = "file" /\ Puts(t, <<UnlockPut(d)>>) /\ To(t, "install")
     \/ Type(t) # "file" /\ Puts(t, <<UnlockPut(d), UnlockPut(i)>>) /\ To(t, "ret")
  /\ UNCHANGED <<cwd, ofile, locals, calls, lost>>

\* open() without O_CREATE: ilock(ip); a directory is opened to read only.
OpenLock(t) ==
  LET i == ip[t] IN
  /\ At(t, call[t].op) /\ call[t].op \in {"open", "openw"}
  /\ ilk[i] = NoLock /\ Inode(i).type # "none"
  /\ ilk' = [ilk EXCEPT ![i] = t]
  /\ Cache({}, {i}, Seen)
  /\ IF Inode(i).type = "dir" /\ call[t].op = "openw"
     THEN Puts(t, <<UnlockPut(i)>>) /\ To(t, "ret")
     ELSE To(t, "install") /\ UNCHANGED puts
  /\ UNCHANGED <<ondisk, cwd, ofile, locals, calls, lost>>

\* filealloc() and fdalloc(): one of them may fail.
OpenInstall(t) ==
  /\ At(t, "install") /\ To(t, "ret")
  /\ \/ /\ ofile' = [ofile EXCEPT ![t] = ip[t]]
        /\ ilk' = [ilk EXCEPT ![ip[t]] = NoLock] /\ UNCHANGED puts
     \/ Puts(t, <<UnlockPut(ip[t])>>) /\ UNCHANGED <<ofile, ilk>>
  /\ UNCHANGED <<ondisk, cin, ivalid, iref, cwd, locals, calls, lost>>

\* fileclose() of the last reference to the file.
Close(t) ==
  /\ At(t, "out") /\ ofile[t] # 0
  /\ Puts(t, <<Put(ofile[t])>>) /\ To(t, "ret")
  /\ ofile' = [ofile EXCEPT ![t] = 0]
  /\ UNCHANGED <<ondisk, cin, ivalid, iref, ilk, cwd, locals, calls, lost>>

-----------------------------------------------------------------------------
(* chdir() and link().                                                     *)

\* ilock(ip), test of its type, iunlock(ip), iput(cwd).
Chdir(t) ==
  LET i == ip[t] IN
  /\ At(t, "chdir") /\ ilk[i] = NoLock /\ Inode(i).type # "none"
  /\ Cache({}, {i}, Seen) /\ To(t, "ret")
  /\ IF Inode(i).type = "dir"
     THEN Puts(t, <<Put(cwd[t])>>) /\ cwd' = [cwd EXCEPT ![t] = i]
     ELSE Puts(t, <<Put(i)>>) /\ UNCHANGED cwd
  /\ UNCHANGED <<ondisk, ilk, ofile, locals, calls, lost>>

\* ilock(ip), nlink++, iupdate(), iunlock().
LinkInc(t) ==
  LET i == ip[t] IN
  /\ At(t, "link") /\ ilk[i] = NoLock /\ Inode(i).type # "none"
  /\ IF Inode(i).type = "dir"
     THEN /\ Puts(t, <<Put(i)>>) /\ To(t, "ret")
          /\ Cache({}, {i}, Seen) /\ UNCHANGED din
     ELSE /\ din' = [din EXCEPT ![i] = NlinkPlus(i, 1)]
          /\ Cache({}, {i}, [Seen EXCEPT ![i] = NlinkPlus(i, 1)])
          /\ To(t, "newpath") /\ UNCHANGED puts
  /\ UNCHANGED <<ents, ilk, cwd, ofile, locals, calls, lost>>

\* nameiparent(new) begins.
LinkWalk(t) ==
  LET s == Start(t, call[t].new) IN
  /\ At(t, "newpath") /\ To(t, "walk")
  /\ cur' = [cur EXCEPT ![t] = s] /\ rest' = [rest EXCEPT ![t] = Elems(call[t].new)]
  /\ Cache({s}, {}, Seen)
  /\ UNCHANGED <<ondisk, ilk, cwd, ofile, call, ip, puts, calls, lost>>

\* Mutant: link() keeps its reference to the file.
LinkPuts_Keep(t, d) == <<UnlockPut(d)>>
LinkPuts(t, d) == <<UnlockPut(d), Put(ip[t])>>

\* ilock(dp) and dirlink(): if the name is taken, dirlink() calls iput() on its
\* inode with dp locked.
LinkDirlink(t) ==
  LET d == cur[t]  e == ents[d][Name(t)] IN
  /\ At(t, "dirlink") /\ ilk[d] = NoLock /\ Inode(d).type # "none"
  /\ ilk' = [ilk EXCEPT ![d] = t]
  /\ \/ /\ e # 0 /\ Cache({e}, {d}, Seen)
        /\ Puts(t, <<Put(e), UnlockPut(d)>>) /\ To(t, "linkbad") /\ UNCHANGED ents
     \/ /\ e = 0 /\ Cache({}, {d}, Seen)
        /\ ents' = [ents EXCEPT ![d][Name(t)] = ip[t]]
        /\ Puts(t, LinkPuts(t, d)) /\ To(t, "ret")
  /\ UNCHANGED <<din, cwd, ofile, locals, calls, lost>>

\* bad: the link count goes back.
LinkBad(t) == /\ At(t, "linkbad") /\ ilk[ip[t]] = NoLock /\ Inode(ip[t]).type # "none"
              /\ ilk' = [ilk EXCEPT ![ip[t]] = t]
              /\ DecLink(t, ip[t])

-----------------------------------------------------------------------------
(* Panics and crashes.                                                     *)

\* The inode t is about to ilock().
Locks(t) == IF fpc[t] \in {"walk", "unlink", "creat", "mkdir", "mknod", "dirlink"}
            THEN cur[t] ELSE ip[t]

Quiet == \A t \in Procs : At(t, "out")

\* The machine stops and starts again.
Crash ==
  /\ Quiet
  /\ cin' = [i \in Inums |-> FreeInode] /\ ivalid' = [i \in Inums |-> FALSE]
  /\ iref' = [i \in Inums |-> IF i = ROOTINO THEN Cardinality(Procs) ELSE 0]
  /\ cwd' = [t \in Procs |-> ROOTINO] /\ ofile' = [t \in Procs |-> 0]
  /\ UNCHANGED <<ondisk, ilk, fpc, locals, puts, calls, lost>>

\* The inode whose lock t needs next, 0 for none.
Needs(t) == IF puts[t] # << >>
            THEN IF Head(puts[t]).step = "lock" THEN Head(puts[t]).inum ELSE 0
            ELSE IF fpc[t] \in {"out", "ret", "newpath", "install", "panic", "noinodes"}
                    \/ (fpc[t] = "walk" /\ rest[t] = << >>)
                 THEN 0 ELSE Locks(t)
\* panic("ilock: no type").
NoType(t) ==
  /\ puts[t] = << >> /\ Needs(t) # 0
  /\ ilk[Needs(t)] = NoLock /\ Inode(Needs(t)).type = "none"
  /\ To(t, "panic")
  /\ UNCHANGED <<ondisk, cin, ivalid, iref, ilk, cwd, ofile, locals, puts, calls, lost>>

WaitsFor(t, u) == Needs(t) # 0 /\ ilk[Needs(t)] = u
LockCycle == \E t, u \in Procs : WaitsFor(t, u) /\ WaitsFor(u, t)

\* All calls are done, the kernel has panicked, or processes wait for each other.
Stop == /\ \/ Quiet /\ calls = MaxCalls
           \/ \E t \in Procs : fpc[t] \in {"panic", "noinodes"}
           \/ LockCycle
        /\ UNCHANGED InodeVars

FsStep(t) == \/ Iunlock(t) \/ IputTest(t) \/ IputFree(t) \/ IputRelease(t)
             \/ IputDrop(t) \/ Walk(t) \/ WalkEnd(t) \/ Return(t) \/ NoType(t)
             \/ UnlinkParent(t) \/ UnlinkEntry(t) \/ UnlinkDone(t)
             \/ CreateParent(t) \/ CreateExists(t) \/ CreateFill(t)
             \/ OpenLock(t) \/ OpenInstall(t) \/ Chdir(t)
             \/ LinkInc(t) \/ LinkWalk(t) \/ LinkDirlink(t) \/ LinkBad(t)

FsNext == \/ \E t \in Procs : FsStep(t) \/ Close(t) \/ \E c \in Calls : Begin(t, c)
          \/ Crash \/ Stop

FsSpec == FsInit /\ [][FsNext]_InodeVars

-----------------------------------------------------------------------------
(* Properties.                                                             *)

\* The directory entries for inode i: names, and ".." of directories that are
\* not removed.
Links(i) == Cardinality({x \in Inums \X Names : ents[x[1]][x[2]] = i})
            + Cardinality({c \in Inums : c # i /\ ents[c][".."] = i /\ din[c].nlink > 0})
            + (IF i = ROOTINO THEN 1 ELSE 0)

\* An inode that a directory names or a process uses is not freed, in whatever
\* order links and references go.
NotFreedInUse ==
  \A i \in Inums :
    (Links(i) > 0 \/ \E t \in Procs : i \in {cwd[t], ofile[t]}) => din[i].type # "none"

\* link(), unlink(), create() and mkdir(), failing ones included, leave nlink
\* equal to the number of entries, those lost with a removed directory counted.
LinksCounted ==
  Quiet => \A i \in Inums : din[i].nlink = Links(i) + lost[i]

\* Every path through a system call gives back each reference it took: between
\* calls an inode is referenced by current directories and open files only.
RefsGivenBack ==
  Quiet => \A i \in Inums :
             /\ iref[i] = Cardinality({t \in Procs : cwd[t] = i})
                          + Cardinality({t \in Procs : ofile[t] = i})
             /\ ilk[i] = NoLock

\* Concurrent calls of create(), link() and unlink() do not deadlock: no two
\* processes wait for an inode that the other one has locked.
NoLockCycle == ~LockCycle
=============================================================================
