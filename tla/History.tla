------------------------------ MODULE History -------------------------------
(***************************************************************************)
(* The system call history of a process (syscall.c, proc.c): a list of     *)
(* counters, a page each, that syscall() updates and getsyscallcounter()   *)
(* searches without a lock, that exit() frees without a lock and that      *)
(* kill(), on another CPU, frees under ptable.lock.  A step follows, sets  *)
(* or frees one link.  One process makes calls; another one may kill it.   *)
(***************************************************************************)
EXTENDS Integers, FiniteSets, FiniteSetsExt

CONSTANTS NCOUNTERS,   \* pages kalloc() may give to counters
          Nums,        \* system calls
          MaxSyscalls  \* bound on the calls counted

Counters == 1 .. NCOUNTERS
Null == 0

VARIABLES syscallhistory,        \* the list of the process
          cnum, ccount, cnext,   \* fields of a counter
          live,                  \* pages handed out by kalloc() and not freed
          hpc,       \* the process: "user", "walk", "body", "search", "exit", "gone", "fault"
          num, temp, \* its argument and local
          frees,     \* the loops that free the list: where they are and their local
          made,      \* calls counted, of each number
          answer     \* what getsyscallcounter() returned last: its argument and result

HistoryVars == <<syscallhistory, cnum, ccount, cnext, live, hpc, num, temp, frees,
                 made, answer>>
counters == <<cnum, ccount, cnext>>

Loops == {"exit", "kill"}

HistoryInit ==
  /\ syscallhistory = Null /\ live = {}
  /\ cnum = [c \in Counters |-> 0] /\ ccount = [c \in Counters |-> 0]
  /\ cnext = [c \in Counters |-> Null]
  /\ hpc = "user" /\ num = 0 /\ temp = Null
  /\ frees = [l \in Loops |-> [at |-> "begin", temp |-> Null]]
  /\ made = [n \in Nums |-> 0] /\ answer = <<0, 0>>

\* p->killed, which kill() sets before its loop.
HistoryKilled == frees["kill"].at # "begin"

FreePages == Counters \ live

FirstCount == 1

\* newcounter() returns c, whose next the caller sets to Null with the link to c;
\* without a page the call is not counted.
Newcounter(n, c) ==
  \/ /\ FreePages = {} /\ c = Null
     /\ UNCHANGED <<cnum, ccount, live, made>>
  \/ /\ FreePages # {} /\ c = Min(FreePages)
     /\ live' = live \cup {c}
     /\ cnum' = [cnum EXCEPT ![c] = n]
     /\ ccount' = [ccount EXCEPT ![c] = FirstCount]
     /\ made' = [made EXCEPT ![n] = @ + 1]

-----------------------------------------------------------------------------
(* syscall(): updatesyscallhistory(), then the call itself.                *)

\* The first call makes the list; another one starts the search for its counter.
\* A killed process does not get here: trap() sends it to exit().
Syscall(n) ==
  /\ hpc = "user" /\ ~HistoryKilled /\ MapThenSumSet(LAMBDA m : made[m], Nums) < MaxSyscalls
  /\ \/ /\ syscallhistory = Null
        /\ \E c \in Counters \cup {Null} :
             /\ Newcounter(n, c)
             /\ syscallhistory' = c
             /\ cnext' = [x \in Counters |-> IF x = c THEN Null ELSE cnext[x]]
        /\ hpc' = "body" /\ UNCHANGED <<num, temp>>
     \/ /\ syscallhistory # Null
        /\ hpc' = "walk" /\ temp' = syscallhistory /\ num' = n
        /\ UNCHANGED <<syscallhistory, counters, live, made>>
  /\ UNCHANGED <<frees, answer>>

Stops(t, n) == cnum[t] = n \/ cnext[t] = Null

\* while (temp->next != 0 && temp->num != num) temp = temp->next.
CountWalkOn ==
  /\ hpc \in {"walk", "search"} /\ temp \in live /\ ~Stops(temp, num)
  /\ temp' = cnext[temp]
  /\ UNCHANGED <<syscallhistory, counters, live, hpc, num, frees, made, answer>>

CountWalkEnd ==
  /\ hpc = "walk" /\ temp \in live /\ Stops(temp, num)
  /\ \/ /\ cnum[temp] = num
        /\ ccount' = [ccount EXCEPT ![temp] = @ + 1]
        /\ made' = [made EXCEPT ![num] = @ + 1]
        /\ UNCHANGED <<cnum, cnext, live>>
     \/ /\ cnum[temp] # num
        /\ \E c \in Counters \cup {Null} :
             /\ Newcounter(num, c)
             /\ cnext' = [x \in Counters |->
                            IF x = temp THEN c ELSE IF x = c THEN Null ELSE cnext[x]]
  /\ hpc' = "body" /\ temp' = Null /\ num' = 0
  /\ UNCHANGED <<syscallhistory, frees, answer>>

\* Back in trap(): a process that has been killed exits.
Back == IF HistoryKilled THEN "exit" ELSE "user"

\* Any other call returns.
CallReturns == /\ hpc = "body" /\ hpc' = Back
               /\ UNCHANGED <<syscallhistory, counters, live, num, temp, frees, made, answer>>

\* getsyscallcounter() follows the list without asking whether there is one.
Getsyscallcounter(n) ==
  /\ hpc = "body"
  /\ hpc' = "search" /\ temp' = syscallhistory /\ num' = n
  /\ UNCHANGED <<syscallhistory, counters, live, frees, made, answer>>

\* Mutant: the counter the search stopped at is taken for the one of the call.
CountOf_Last(t, n) == ccount[t]
CountOf(t, n) == IF cnum[t] = n THEN ccount[t] ELSE 0

SearchEnd ==
  /\ hpc = "search" /\ temp \in live /\ Stops(temp, num)
  /\ answer' = <<num, CountOf(temp, num)>>
  /\ hpc' = Back /\ temp' = Null /\ num' = 0
  /\ UNCHANGED <<syscallhistory, counters, live, frees, made>>

\* A pointer that is null or leads to a freed page is followed: what happens then
\* is up to whoever owns that memory.
Astray == /\ hpc \in {"walk", "search"} /\ temp \notin live
          /\ hpc' = "fault"
          /\ UNCHANGED <<syscallhistory, counters, live, num, temp, frees, made, answer>>

-----------------------------------------------------------------------------
(* The loops of exit() and kill():                                         *)
(*   while (head) { temp = head; head = head->next; kfree(temp); }         *)

Exit == /\ hpc \in {"user", "body"} /\ hpc' = "exit"
        /\ UNCHANGED <<syscallhistory, counters, live, num, temp, frees, made, answer>>

Freeing(l) == l = "exit" => hpc = "exit"

FreeTest(l) ==
  /\ Freeing(l) /\ frees[l].at \in {"begin", "test"}
  /\ frees' = [frees EXCEPT ![l] = IF syscallhistory = Null
                                   THEN [at |-> "done", temp |-> Null]
                                   ELSE [at |-> "unlink", temp |-> syscallhistory]]
  /\ UNCHANGED <<syscallhistory, counters, live, hpc, num, temp, made, answer>>

FreeUnlink(l) ==
  /\ frees[l].at = "unlink"
  /\ syscallhistory' = IF syscallhistory = Null THEN Null ELSE cnext[syscallhistory]
  /\ frees' = [frees EXCEPT ![l].at = "kfree"]
  /\ UNCHANGED <<counters, live, hpc, num, temp, made, answer>>

FreeKfree(l) ==
  /\ frees[l].at = "kfree"
  /\ live' = live \ {frees[l].temp}
  /\ frees' = [frees EXCEPT ![l] = [at |-> "test", temp |-> Null]]
  /\ UNCHANGED <<syscallhistory, counters, hpc, num, temp, made, answer>>

Gone == /\ hpc = "exit" /\ frees["exit"].at = "done" /\ hpc' = "gone"
        /\ UNCHANGED <<syscallhistory, counters, live, num, temp, frees, made, answer>>

HistoryOver == hpc \in {"gone", "fault"} /\ UNCHANGED HistoryVars

HistoryNext == \/ \E n \in Nums : Syscall(n) \/ Getsyscallcounter(n)
               \/ CountWalkOn \/ CountWalkEnd \/ CallReturns \/ SearchEnd \/ Astray \/ Exit \/ Gone
               \/ \E l \in Loops : FreeTest(l) \/ FreeUnlink(l) \/ FreeKfree(l)
               \/ HistoryOver

HistorySpec == HistoryInit /\ [][HistoryNext]_HistoryVars

-----------------------------------------------------------------------------
(* Properties.                                                             *)

\* As long as nobody kills the process, getsyscallcounter() answers with the number
\* of times the call was made, found by following a list that syscall() extends: 0
\* for a call that has no counter.
CountAnswered ==
  [][hpc = "search" /\ hpc' = "user" /\ ~HistoryKilled => answer' = <<num, made[num]>>]_HistoryVars
=============================================================================
