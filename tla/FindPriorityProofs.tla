------------------------- MODULE FindPriorityProofs -------------------------
(***************************************************************************)
(* findPriority() returns what the scheduler model expects of it, for      *)
(* tables of every size, all priorities and all counts of schedulings.     *)
(* The loop invariant says the same of the slots the loop has passed.      *)
(***************************************************************************)
EXTENDS FindPriorityLoop, TLAPS

\* The slots that the loop has passed and that the mode considers.
Seen == {q \in Slots : /\ q < p /\ state[q] = "RUNNABLE"
                       /\ Considers(mode, queueNumber[q])}

\* The selected process, seen from the slots passed so far: nothing seen beats
\* it, something seen ties with it, and of those that tie none was scheduled
\* less often.
Best(s) == /\ s < p /\ state[s] = "RUNNABLE"
           /\ \E q \in Seen : priority[q] = priority[s]
           /\ \A r \in Seen : ~Beats(mode, priority[r], priority[s])
           /\ \A r \in Seen : priority[r] = priority[s] =>
                                scheduled_times[s] <= scheduled_times[r]

LoopInv == /\ LoopTypeOK
           /\ selectedP = None => Seen = {}
           /\ selectedP # None => Best(selectedP)

-----------------------------------------------------------------------------
LEMMA InitInv == LoopInit => LoopInv
<1> SUFFICES ASSUME LoopInit PROVE LoopInv
  OBVIOUS
<1>1. LoopTypeOK
  <2>1. \A f, T : f \in [Slots -> T] /\ T \subseteq Int => f \in [Slots -> Int]
    OBVIOUS
  <2>2. priority \in [Slots -> Int] /\ scheduled_times \in [Slots -> Int]
    BY <2>1, LoopAssumption DEF LoopInit
  <2>3. p \in 0 .. NPROC
    BY LoopAssumption DEF LoopInit
  <2> QED
    BY <2>2, <2>3 DEF LoopInit, LoopTypeOK
<1>2. Seen = {}
  BY DEF LoopInit, Seen, Slots
<1> QED
  BY <1>1, <1>2 DEF LoopInit, LoopInv

\* An iteration of the loop passes one more slot.
LEMMA StepInv == LoopInv /\ [Step]_loopvars => LoopInv'
<1> SUFFICES ASSUME LoopInv, [Step]_loopvars PROVE LoopInv'
  OBVIOUS
<1>1. CASE UNCHANGED loopvars
  BY <1>1 DEF loopvars, LoopInv, LoopTypeOK, Best, Seen, Slots
<1>2. CASE Step
  <2> USE <1>2, LoopAssumption
  <2>1. /\ p \in Slots /\ p' = p + 1 /\ UNCHANGED input
        /\ selectedP \in Slots \cup {None}
        /\ mode \in 1 .. 3
        /\ priority \in [Slots -> Int] /\ scheduled_times \in [Slots -> Int]
    BY DEF LoopInv, LoopTypeOK, Step, Slots
  <2>2. LoopTypeOK'
    BY <2>1 DEF LoopInv, LoopTypeOK, Step, ByTimes, ByPriority, input, Slots, None
  <2>3. CASE state[p] # "RUNNABLE"
    <3>1. Seen' = Seen /\ selectedP' = selectedP
      BY <2>1, <2>3 DEF Seen, Step, input, Slots
    <3>2. selectedP # None => Best(selectedP)'
      BY <2>1, <3>1 DEF LoopInv, Best, input, Slots
    <3> QED
      BY <2>2, <3>1, <3>2 DEF LoopInv
  <2>4. CASE state[p] = "RUNNABLE"
    <3> DEFINE s == ByPriority
    <3>1. selectedP' = ByTimes(s)
      BY <2>4 DEF Step
    <3>2. Seen' = Seen \cup (IF Considers(mode, queueNumber[p]) THEN {p} ELSE {})
      BY <2>1, <2>4 DEF Seen, input, Slots
    <3>3. s \in Slots \cup {None}
      BY <2>1 DEF ByPriority
    <3>4. s = None => selectedP = None /\ Seen' = {}
      BY <2>1, <3>2 DEF ByPriority, LoopInv, None, Slots
    <3>5. s # None =>
            /\ s \in Slots /\ s <= p /\ state[s] = "RUNNABLE"
            /\ \E q \in Seen' : priority[q] = priority[s]
            /\ \A r \in Seen' : ~Beats(mode, priority[r], priority[s])
            /\ \A r \in Seen : priority[r] = priority[s] =>
                                 scheduled_times[s] <= scheduled_times[r]
            /\ p \in Seen' /\ s = p => \A r \in Seen : priority[r] # priority[s]
      <4>1. CASE /\ Considers(mode, queueNumber[p])
                 /\ selectedP = None \/ Beats(mode, priority[p], priority[selectedP])
        <5>1. s = p /\ p \in Seen' /\ Seen' = Seen \cup {p}
          BY <3>2, <4>1 DEF ByPriority
        <5>2. \A r \in Seen : r \in Slots /\ Beats(mode, priority[p], priority[r])
          <6> SUFFICES ASSUME NEW r \in Seen
                       PROVE  r \in Slots /\ Beats(mode, priority[p], priority[r])
            OBVIOUS
          <6>1. /\ selectedP \in Slots /\ Best(selectedP)
                /\ Beats(mode, priority[p], priority[selectedP])
            BY <2>1, <4>1 DEF LoopInv
          <6> QED
            BY <2>1, <6>1 DEF Best, Beats, Seen
        <5>3. ~Beats(mode, priority[p], priority[p])
          BY <2>1 DEF Beats
        <5>4. \A r \in Seen : /\ priority[r] # priority[p]
                             /\ ~Beats(mode, priority[r], priority[p])
          BY <2>1, <5>2 DEF Beats
        <5>5. p <= p
          BY <2>1 DEF Slots
        <5> QED
          BY <2>1, <2>4, <5>1, <5>3, <5>4, <5>5
      <4>2. CASE ~(/\ Considers(mode, queueNumber[p])
                   /\ selectedP = None \/ Beats(mode, priority[p], priority[selectedP]))
        <5> HAVE s # None
        <5>1. s = selectedP /\ s \in Slots /\ Best(s)
          BY <2>1, <4>2 DEF ByPriority, LoopInv
        <5>2. s < p
          BY <5>1 DEF Best
        <5>3. \A r \in Seen' : ~Beats(mode, priority[r], priority[s])
          BY <3>2, <4>2, <5>1 DEF Best
        <5> QED
          BY <2>1, <3>2, <5>1, <5>2, <5>3 DEF Best, Slots
      <4> QED BY <4>1, <4>2
    <3>6. selectedP' = None => Seen' = {}
      BY <2>1, <3>1, <3>4 DEF ByTimes, None, Slots
    <3>7. selectedP' # None => Best(selectedP)'
      <4> SUFFICES ASSUME selectedP' # None PROVE Best(selectedP)'
        OBVIOUS
      <4>1. s # None
        BY <3>1 DEF ByTimes
      <4>2. \A r \in Seen' : r \in Slots /\ (r \in Seen \/ r = p)
        BY <2>1, <3>2 DEF Seen
      <4>3. CASE selectedP' = s
        <5>1. p \in Seen' /\ s # p /\ priority[p] = priority[s] =>
                scheduled_times[s] <= scheduled_times[p]
          BY <2>1, <3>1, <3>5, <4>1, <4>3 DEF ByTimes
        <5>2. scheduled_times[s] <= scheduled_times[s]
          BY <2>1, <3>5, <4>1
        <5>3. \A r \in Seen' : priority[r] = priority[s] =>
                scheduled_times[s] <= scheduled_times[r]
          BY <3>5, <4>1, <4>2, <5>1, <5>2
        <5>4. s < p'
          BY <2>1, <3>5, <4>1 DEF Slots
        <5> QED
          BY <2>1, <3>5, <4>1, <4>3, <5>3, <5>4 DEF Best, input
      <4>4. CASE /\ selectedP' = p /\ priority[s] = priority[p]
                 /\ scheduled_times[s] > scheduled_times[p]
        <5>1. p < p' /\ p \in Slots /\ s \in Slots
          BY <2>1, <3>5, <4>1 DEF Slots
        <5>2. \A r \in Seen : priority[r] = priority[p] =>
                scheduled_times[p] <= scheduled_times[r]
          <6> SUFFICES ASSUME NEW r \in Seen, priority[r] = priority[p]
                       PROVE  scheduled_times[p] <= scheduled_times[r]
            OBVIOUS
          <6>1. scheduled_times[s] <= scheduled_times[r]
            BY <3>5, <4>1, <4>4
          <6>2. r \in Slots
            BY DEF Seen
          <6> QED
            BY <2>1, <4>4, <5>1, <6>1, <6>2
        <5>3. scheduled_times[p] <= scheduled_times[p]
          BY <2>1
        <5>4. \A r \in Seen' : priority[r] = priority[p] =>
                scheduled_times[p] <= scheduled_times[r]
          BY <4>2, <5>2, <5>3
        <5>5. /\ \E q \in Seen' : priority[q] = priority[p]
              /\ \A r \in Seen' : ~Beats(mode, priority[r], priority[p])
          BY <3>5, <4>1, <4>4
        <5> QED
          BY <2>1, <2>4, <4>4, <5>1, <5>4, <5>5 DEF Best, input
      <4> QED
        BY <3>1, <4>1, <4>3, <4>4 DEF ByTimes
    <3> QED
      BY <2>2, <3>6, <3>7 DEF LoopInv
  <2> QED BY <2>3, <2>4
<1> QED BY <1>1, <1>2

\* At the end of the loop every slot has been passed.
LEMMA InvImplies == LoopInv => ReturnsSelectable /\ LeastScheduled
<1> SUFFICES ASSUME LoopInv, p = NPROC PROVE ReturnsSelectable /\ LeastScheduled
  BY DEF ReturnsSelectable, LeastScheduled
<1> DEFINE R == {q \in Slots : state[q] = "RUNNABLE"}
           C == {q \in R : Considers(mode, queueNumber[q])}
           S == Selectable(mode, state, queueNumber, priority)
<1>1. Seen = C
  BY LoopAssumption DEF Seen, Slots
<1>2. S = {q \in R : \E t \in C :
             /\ priority[q] = priority[t]
             /\ \A r \in C : ~Beats(mode, priority[r], priority[t])}
  <2>1. DOMAIN state = Slots
    BY DEF LoopInv, LoopTypeOK
  <2> QED BY <2>1 DEF Selectable
<1>3. CASE selectedP = None
  BY <1>1, <1>2, <1>3 DEF LoopInv, ReturnsSelectable, LeastScheduled
<1>4. CASE selectedP # None
  <2>1. Best(selectedP) /\ selectedP \in Slots
    BY <1>4 DEF LoopInv, LoopTypeOK
  <2>2. selectedP \in S
    BY <1>1, <1>2, <2>1 DEF Best
  <2>3. ReturnsSelectable
    BY <2>2 DEF ReturnsSelectable
  <2>4. LeastScheduled
    BY <2>1 DEF LeastScheduled, Best, Seen, Slots, LoopInv, LoopTypeOK
  <2> QED BY <2>3, <2>4
<1> QED BY <1>3, <1>4

-----------------------------------------------------------------------------
\* findPriority() returns a process that scheduler() may run under the mode, and
\* the null pointer exactly if there is none.
THEOREM ReturnsSelectableCorrect == LoopSpec => []ReturnsSelectable
BY InitInv, StepInv, InvImplies, PTL DEF LoopSpec

\* The tie-break works: no process considered by the mode that is as urgent as
\* the one findPriority() returns has been scheduled less often.
THEOREM LeastScheduledCorrect == LoopSpec => []LeastScheduled
BY InitInv, StepInv, InvImplies, PTL DEF LoopSpec
=============================================================================
