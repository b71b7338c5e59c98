------------------------ MODULE ProcessorQueueProofs ------------------------
(***************************************************************************)
(* Proofs about the background processor, for every number of jobs, loops, *)
(* submitters, Redis errors, deaths and stops.                             *)
(***************************************************************************)
EXTENDS ProcessorQueueProperties, SequenceTheorems, TLAPS

\* What the proofs need of the constants.
LEMMA Constants ==
    NoJob \notin Jobs /\ MaxRetries \in Nat \ {0} /\ PriorityOf \in [Jobs -> Priorities]
  BY ConstantsAssumption DEF ConstantsAssumption

-----------------------------------------------------------------------------
(* Type correctness.                                                       *)

LEMMA InitTypes == Init => TypeOK
<1> SUFFICES ASSUME Init PROVE TypeOK
  OBVIOUS
<1>1. RecordTypes
  BY Constants DEF Init, RecordTypes, Terminal
<1>2. WorkerTypes /\ CounterTypes
  BY Constants DEF Init, WorkerTypes, CounterTypes
<1>3. LoopTypes
  BY Constants DEF Init, LoopTypes, LoopPoints, Holding
<1>4. SubmitterTypes
  BY Constants DEF Init, SubmitterTypes
<1>5. list \in [Priorities -> Seq(Jobs)]
  BY DEF Init
<1>6. IndexTypes
  BY <1>5 DEF Init, IndexTypes
<1> QED
  BY <1>1, <1>2, <1>3, <1>4, <1>6 DEF TypeOK

\* LREM leaves a list of ids.
LEMMA LremType ==
  ASSUME NEW s \in Seq(Jobs), NEW j \in Jobs
  PROVE  Lrem(s, j) \in Seq(Jobs)
<1>1. CASE \E k \in 1..Len(s) : s[k] = j
  <2> DEFINE k == CHOOSE k \in 1..Len(s) : s[k] = j
             t == [n \in 1..(Len(s) - 1) |-> IF n < k THEN s[n] ELSE s[n + 1]]
  <2>1. Lrem(s, j) = t
    BY <1>1 DEF Lrem
  <2>2. k \in 1..Len(s)
    BY <1>1
  <2>3. Len(s) - 1 \in Nat /\ t \in [1..(Len(s) - 1) -> Jobs]
    BY <2>2
  <2> QED
    BY <2>1, <2>3, IsASeq
<1>2. CASE ~ \E k \in 1..Len(s) : s[k] = j
  BY <1>2 DEF Lrem
<1> QED
  BY <1>1, <1>2

\* LPUSH adds one id to the list of its priority.
LEMMA LpushTypes ==
  ASSUME IndexTypes, NEW j \in Jobs, Lpush(j), UNCHANGED <<running, recent, paused>>
  PROVE  IndexTypes'
<1>1. PriorityOf[j] \in Priorities
  BY Constants
<1>2. Append(list[PriorityOf[j]], j) \in Seq(Jobs)
  BY <1>1, AppendProperties DEF IndexTypes
<1> QED
  BY <1>1, <1>2 DEF IndexTypes, Lpush

\* A loop that moves on keeps its job, and one that goes back to "poll" drops it.
LEMMA StepTypes ==
  ASSUME LoopTypes, NEW l \in Loops, NEW next \in LoopPoints, Step(l, next),
         next # "poll" =>
            /\ next \in Holding <=> pc[l] \in Holding
            /\ next \in {"settle", "unregister", "recent", "retry"} => outcome[l] # "none"
            /\ next \in {"retry", "repush"} => outcome[l] = "failed"
  PROVE  LoopTypes'
<1>1. CASE next = "poll"
  BY <1>1, Constants DEF LoopTypes, Step, Holding, LoopPoints
<1>2. CASE next # "poll"
  BY <1>2 DEF LoopTypes, Step
<1> QED
  BY <1>1, <1>2


\* A step that leaves a part of the state alone leaves its types alone, and a
\* Redis command only counts its error.
LEMMA Unaffected ==
  ASSUME TypeOK
  PROVE  /\ UNCHANGED <<record, failures>> => RecordTypes'
         /\ UNCHANGED <<index, paused>> => IndexTypes'
         /\ UNCHANGED <<list, running, recent, paused>> => IndexTypes'
         /\ UNCHANGED <<state, retry_count, aged, failures>> => RecordTypes'
         /\ UNCHANGED worker => WorkerTypes'
         /\ UNCHANGED <<phase, todo, orphan>> => WorkerTypes'
         /\ UNCHANGED loop => LoopTypes'
         /\ UNCHANGED <<pc, job, seen, outcome>> => LoopTypes'
         /\ UNCHANGED sub => SubmitterTypes'
         /\ UNCHANGED <<spc, sjob, listed, active, victim>> => SubmitterTypes'
         /\ UNCHANGED <<errors, faults>> => CounterTypes'
         /\ \A r \in Reply : Redis(r) /\ UNCHANGED faults => CounterTypes'
<1>1. /\ UNCHANGED <<record, failures>> => RecordTypes'
      /\ UNCHANGED <<state, retry_count, aged, failures>> => RecordTypes'
  BY DEF TypeOK, RecordTypes, record
<1>2. /\ UNCHANGED <<index, paused>> => IndexTypes'
      /\ UNCHANGED <<list, running, recent, paused>> => IndexTypes'
  BY DEF TypeOK, IndexTypes, index
<1>3. /\ UNCHANGED worker => WorkerTypes'
      /\ UNCHANGED <<phase, todo, orphan>> => WorkerTypes'
  BY DEF TypeOK, WorkerTypes, worker
<1>4. /\ UNCHANGED loop => LoopTypes'
      /\ UNCHANGED <<pc, job, seen, outcome>> => LoopTypes'
  BY DEF TypeOK, LoopTypes, loop
<1>5. /\ UNCHANGED sub => SubmitterTypes'
      /\ UNCHANGED <<spc, sjob, listed, active, victim>> => SubmitterTypes'
  BY DEF TypeOK, SubmitterTypes, sub
<1>6. /\ UNCHANGED <<errors, faults>> => CounterTypes'
      /\ \A r \in Reply : Redis(r) /\ UNCHANGED faults => CounterTypes'
  BY DEF TypeOK, CounterTypes, Redis, faults
<1> QED
  BY <1>1, <1>2, <1>3, <1>4, <1>5, <1>6

LEMMA NextTypes == TypeOK /\ [Next]_vars => TypeOK'
<1> SUFFICES ASSUME TypeOK, [Next]_vars PROVE TypeOK'
  OBVIOUS
<1>1. CASE UNCHANGED vars
  BY <1>1, Unaffected DEF vars, TypeOK
<1>2. ASSUME NEW l \in Loops, NEW r \in Reply, Poll(l, r) PROVE TypeOK'
  <2>1. LoopTypes'
    BY <1>2, StepTypes DEF Poll, TypeOK, LoopTypes, Holding, LoopPoints, Priorities
  <2> QED
    BY <1>2, <2>1, Unaffected DEF Poll, TypeOK
<1>3. ASSUME NEW l \in Loops, NEW r \in Reply, Pop(l, r) PROVE TypeOK'
  <2> DEFINE q == list[pc[l]]
  <2>1. pc[l] \in Priorities /\ q \in Seq(Jobs)
    BY <1>3 DEF Pop, TypeOK, IndexTypes
  <2>2. q # <<>> => Head(q) \in Jobs /\ Tail(q) \in Seq(Jobs)
    BY <2>1, HeadTailProperties
  <2>3. IndexTypes'
    BY <1>3, <2>1, <2>2 DEF Pop, TypeOK, IndexTypes
  <2>4. LoopTypes'
    <3>1. CASE q # <<>> /\ r = "ok"
      <4>1. /\ pc' = [pc EXCEPT ![l] = "load"] /\ job' = [job EXCEPT ![l] = Head(q)]
            /\ UNCHANGED <<seen, outcome>>
        BY <1>3, <3>1 DEF Pop, Raised, Executed
      <4> QED
        BY <2>2, <3>1, <4>1 DEF TypeOK, LoopTypes, LoopPoints, Holding
    <3>2. CASE ~(q # <<>> /\ r = "ok")
      <4>1. Step(l, "poll") \/ Step(l, NextPriority(pc[l]))
        BY <1>3, <3>2 DEF Pop, Raised, Executed, Reply
      <4> QED
        BY <2>1, <4>1, StepTypes DEF TypeOK, NextPriority, LoopPoints, Holding, Priorities
    <3> QED
      BY <3>1, <3>2
  <2> QED
    BY <1>3, <2>3, <2>4, Unaffected DEF Pop, TypeOK
<1>4. ASSUME NEW l \in Loops, NEW r \in Reply, Load(l, r) PROVE TypeOK'
  <2>1. LoopTypes'
    BY <1>4, StepTypes DEF Load, TypeOK, LoopTypes, Holding, LoopPoints, RecordTypes
  <2> QED
    BY <1>4, <2>1, Unaffected DEF Load, TypeOK
<1>5. ASSUME NEW l \in Loops, NEW r \in Reply, MarkRunning(l, r) PROVE TypeOK'
  <2>1. RecordTypes'
    BY <1>5 DEF MarkRunning, TypeOK, RecordTypes, LoopTypes, Holding, record
  <2>2. LoopTypes'
    BY <1>5, StepTypes DEF MarkRunning, TypeOK, LoopTypes, Holding, LoopPoints, AbandonTick
  <2> QED
    BY <1>5, <2>1, <2>2, Unaffected DEF MarkRunning, TypeOK
<1>6. ASSUME NEW l \in Loops, NEW r \in Reply, Register(l, r) PROVE TypeOK'
  <2>1. IndexTypes'
    BY <1>6 DEF Register, TypeOK, IndexTypes, LoopTypes, Holding, index
  <2>2. LoopTypes'
    BY <1>6, StepTypes DEF Register, TypeOK, LoopTypes, Holding, LoopPoints, AbandonTick
  <2> QED
    BY <1>6, <2>1, <2>2, Unaffected DEF Register, TypeOK
<1>7. ASSUME NEW l \in Loops, NEW o \in {"completed", "held", "failed", "rejected"}, Run(l,
     o) PROVE TypeOK'
  <2>1. RecordTypes'
    BY <1>7 DEF Run, TypeOK, RecordTypes, LoopTypes, Holding, record
  <2>2. LoopTypes'
    BY <1>7 DEF Run, TypeOK, LoopTypes, Holding, LoopPoints
  <2> QED
    BY <1>7, <2>1, <2>2, Unaffected DEF Run, TypeOK
<1>8. ASSUME NEW l \in Loops, NEW r \in Reply, Settle(l, r) PROVE TypeOK'
  <2>1. RecordTypes'
    BY <1>8 DEF Settle, TypeOK, RecordTypes, LoopTypes, Holding, Terminal, record
  <2>2. LoopTypes'
    BY <1>8, StepTypes DEF Settle, TypeOK, LoopTypes, Holding, LoopPoints, AfterMark
  <2> QED
    BY <1>8, <2>1, <2>2, Unaffected DEF Settle, TypeOK
<1>9. ASSUME NEW l \in Loops, NEW r \in Reply, Unregister(l, r) PROVE TypeOK'
  <2>1. IndexTypes'
    BY <1>9 DEF Unregister, TypeOK, IndexTypes, index
  <2>2. LoopTypes'
    BY <1>9, StepTypes DEF Unregister, TypeOK, LoopTypes, Holding, LoopPoints, AfterMark
  <2> QED
    BY <1>9, <2>1, <2>2, Unaffected DEF Unregister, TypeOK
<1>10. ASSUME NEW l \in Loops, NEW r \in Reply, AddRecent(l, r) PROVE TypeOK'
  <2>1. IndexTypes'
    BY <1>10 DEF AddRecent, TypeOK, IndexTypes, LoopTypes, Holding, index
  <2>2. LoopTypes'
    BY <1>10, StepTypes DEF AddRecent, TypeOK, LoopTypes, Holding, LoopPoints, AfterMark
  <2> QED
    BY <1>10, <2>1, <2>2, Unaffected DEF AddRecent, TypeOK
<1>11. ASSUME NEW l \in Loops, NEW r \in Reply, Retry(l, r) PROVE TypeOK'
  <2>1. RecordTypes'
    BY <1>11, Constants DEF Retry, TypeOK, RecordTypes, HasBudget, LoopTypes, Holding, record
  <2>2. LoopTypes'
    BY <1>11, StepTypes DEF Retry, TypeOK, LoopTypes, Holding, LoopPoints
  <2> QED
    BY <1>11, <2>1, <2>2, Unaffected DEF Retry, TypeOK
<1>12. ASSUME NEW l \in Loops, Exhausted(l) PROVE TypeOK'
  <2>1. LoopTypes'
    BY <1>12, StepTypes DEF Exhausted, TypeOK, LoopTypes, Holding, LoopPoints
  <2> QED
    BY <1>12, <2>1, Unaffected DEF Exhausted, TypeOK
<1>13. ASSUME NEW l \in Loops, NEW r \in Reply, Repush(l, r) PROVE TypeOK'
  <2>1. IndexTypes'
    BY <1>13, LpushTypes DEF Repush, TypeOK, IndexTypes, LoopTypes, Holding
  <2>2. LoopTypes'
    BY <1>13, StepTypes DEF Repush, TypeOK, LoopTypes, Holding, LoopPoints
  <2> QED
    BY <1>13, <2>1, <2>2, Unaffected DEF Repush, TypeOK
<1>14. ASSUME NEW s \in Submitters, NEW j \in Jobs, Enqueue(s, j) PROVE TypeOK'
  <2>1. SubmitterTypes'
    BY <1>14, Constants DEF Enqueue, TypeOK, SubmitterTypes, Begin
  <2> QED
    BY <1>14, <2>1, Unaffected DEF Enqueue, Begin, TypeOK
<1>15. ASSUME NEW s \in Submitters, NEW j \in Jobs, EnqueueIfAbsent(s, j) PROVE TypeOK'
  <2>1. SubmitterTypes'
    BY <1>15, Constants DEF EnqueueIfAbsent, TypeOK, SubmitterTypes, Begin
  <2> QED
    BY <1>15, <2>1, Unaffected DEF EnqueueIfAbsent, Begin, TypeOK
<1>16. ASSUME NEW s \in Submitters, NEW r \in Reply, ReadLists(s, r) PROVE TypeOK'
  <2>1. SubmitterTypes'
    BY <1>16 DEF ReadLists, TypeOK, SubmitterTypes, SameKind
  <2> QED
    BY <1>16, <2>1, Unaffected DEF ReadLists, TypeOK
<1>17. ASSUME NEW s \in Submitters, NEW r \in Reply, ReadRunning(s, r) PROVE TypeOK'
  <2>1. SubmitterTypes'
    BY <1>17 DEF ReadRunning, TypeOK, SubmitterTypes, SameKind, IndexTypes
  <2> QED
    BY <1>17, <2>1, Unaffected DEF ReadRunning, TypeOK
<1>18. ASSUME NEW s \in Submitters, NEW r \in Reply, MatchRaised(s, r) PROVE TypeOK'
  <2>1. SubmitterTypes'
    BY <1>18 DEF MatchRaised, TypeOK, SubmitterTypes
  <2> QED
    BY <1>18, <2>1, Unaffected DEF MatchRaised, TypeOK
<1>19. ASSUME NEW s \in Submitters, NEW e \in Jobs, SkipMissing(s, e) PROVE TypeOK'
  <2>1. SubmitterTypes'
    BY <1>19 DEF SkipMissing, TypeOK, SubmitterTypes
  <2> QED
    BY <1>19, <2>1, Unaffected DEF SkipMissing, TypeOK
<1>20. ASSUME NEW s \in Submitters, NEW e \in Jobs, FindStale(s, e) PROVE TypeOK'
  <2>1. SubmitterTypes'
    BY <1>20 DEF FindStale, TypeOK, SubmitterTypes
  <2> QED
    BY <1>20, <2>1, Unaffected DEF FindStale, TypeOK
<1>21. ASSUME NEW s \in Submitters, NEW e \in Jobs, Collapse(s, e) PROVE TypeOK'
  <2>1. SubmitterTypes'
    BY <1>21, Constants DEF Collapse, TypeOK, SubmitterTypes, Forget
  <2> QED
    BY <1>21, <2>1, Unaffected DEF Collapse, TypeOK
<1>22. ASSUME NEW s \in Submitters, NoMatch(s) PROVE TypeOK'
  <2>1. SubmitterTypes'
    BY <1>22 DEF NoMatch, TypeOK, SubmitterTypes
  <2> QED
    BY <1>22, <2>1, Unaffected DEF NoMatch, TypeOK
<1>23. ASSUME NEW s \in Submitters, NEW r \in Reply, PruneRemove(s, r) PROVE TypeOK'
  <2>1. IndexTypes'
    BY <1>23, LremType, Constants DEF PruneRemove, TypeOK, IndexTypes, SubmitterTypes, Priorities
  <2>2. SubmitterTypes'
    BY <1>23, Constants DEF PruneRemove, TypeOK, SubmitterTypes, PruneStep
  <2> QED
    BY <1>23, <2>1, <2>2, Unaffected DEF PruneRemove, TypeOK
<1>24. ASSUME NEW s \in Submitters, NEW r \in Reply, PruneFail(s, r) PROVE TypeOK'
  <2>1. RecordTypes'
    BY <1>24 DEF PruneFail, TypeOK, RecordTypes, SubmitterTypes, Terminal, record
  <2>2. SubmitterTypes'
    BY <1>24, Constants DEF PruneFail, TypeOK, SubmitterTypes, PruneStep
  <2> QED
    BY <1>24, <2>1, <2>2, Unaffected DEF PruneFail, TypeOK
<1>25. ASSUME NEW s \in Submitters, NEW r \in Reply, PruneRecent(s, r) PROVE TypeOK'
  <2>1. IndexTypes'
    BY <1>25 DEF PruneRecent, TypeOK, IndexTypes, SubmitterTypes, index
  <2>2. SubmitterTypes'
    BY <1>25, Constants DEF PruneRecent, TypeOK, SubmitterTypes, PruneStep
  <2> QED
    BY <1>25, <2>1, <2>2, Unaffected DEF PruneRecent, TypeOK
<1>26. ASSUME NEW s \in Submitters, NEW r \in Reply, Save(s, r) PROVE TypeOK'
  <2>1. RecordTypes'
    BY <1>26 DEF Save, TypeOK, RecordTypes, SubmitterTypes, record
  <2>2. SubmitterTypes'
    BY <1>26, Constants DEF Save, TypeOK, SubmitterTypes, Forget
  <2> QED
    BY <1>26, <2>1, <2>2, Unaffected DEF Save, TypeOK
<1>27. ASSUME NEW s \in Submitters, NEW r \in Reply, Push(s, r) PROVE TypeOK'
  <2>1. IndexTypes'
    BY <1>27, LpushTypes DEF Push, TypeOK, IndexTypes, SubmitterTypes
  <2>2. SubmitterTypes'
    BY <1>27, Constants DEF Push, TypeOK, SubmitterTypes, Forget
  <2> QED
    BY <1>27, <2>1, <2>2, Unaffected DEF Push, TypeOK
<1>28. ASSUME NEW r \in Reply, Start(r) PROVE TypeOK'
  <2>1. WorkerTypes'
    BY <1>28 DEF Start, TypeOK, WorkerTypes, IndexTypes
  <2> QED
    BY <1>28, <2>1, Unaffected DEF Start, TypeOK
<1>29. ASSUME NEW j \in Jobs, NEW r \in Reply, Requeue(j, r) PROVE TypeOK'
  <2>1. RecordTypes'
    BY <1>29 DEF Requeue, TypeOK, RecordTypes, WorkerTypes, record
  <2>2. WorkerTypes'
    BY <1>29, Constants DEF Requeue, TypeOK, WorkerTypes
  <2> QED
    BY <1>29, <2>1, <2>2, Unaffected DEF Requeue, TypeOK
<1>30. ASSUME NEW r \in Reply, RequeuePush(r) PROVE TypeOK'
  <2>1. IndexTypes'
    BY <1>30, LpushTypes DEF RequeuePush, TypeOK, IndexTypes, WorkerTypes
  <2>2. WorkerTypes'
    BY <1>30, Constants DEF RequeuePush, TypeOK, WorkerTypes, Recovering
  <2> QED
    BY <1>30, <2>1, <2>2, Unaffected DEF RequeuePush, TypeOK
<1>31. ASSUME NEW r \in Reply, RequeueDone(r) PROVE TypeOK'
  <2>1. IndexTypes'
    BY <1>31 DEF RequeueDone, TypeOK, IndexTypes, index
  <2>2. WorkerTypes'
    BY <1>31, Constants DEF RequeueDone, TypeOK, WorkerTypes, Recovering
  <2> QED
    BY <1>31, <2>1, <2>2, Unaffected DEF RequeueDone, TypeOK
<1>32. ASSUME Spawn PROVE TypeOK'
  <2>1. WorkerTypes'
    BY <1>32 DEF Spawn, TypeOK, WorkerTypes
  <2> QED
    BY <1>32, <2>1, Unaffected DEF Spawn, TypeOK
<1>33. ASSUME Stop PROVE TypeOK'
  <2>1. WorkerTypes'
    BY <1>33 DEF Stop, TypeOK, WorkerTypes
  <2>2. CounterTypes'
    BY <1>33 DEF Stop, TypeOK, CounterTypes
  <2> QED
    BY <1>33, <2>1, <2>2, Unaffected DEF Stop, TypeOK
<1>34. ASSUME Stopped PROVE TypeOK'
  <2>1. WorkerTypes'
    BY <1>34 DEF Stopped, TypeOK, WorkerTypes
  <2> QED
    BY <1>34, <2>1, Unaffected DEF Stopped, TypeOK
<1>35. ASSUME Crash PROVE TypeOK'
  <2>1. WorkerTypes'
    BY <1>35, Constants DEF Crash, TypeOK, WorkerTypes
  <2>2. LoopTypes'
    BY <1>35, Constants DEF Crash, TypeOK, LoopTypes, LoopPoints, Holding
  <2>3. SubmitterTypes'
    BY <1>35, Constants DEF Crash, TypeOK, SubmitterTypes
  <2>4. CounterTypes'
    BY <1>35 DEF Crash, TypeOK, CounterTypes
  <2> QED
    BY <1>35, <2>1, <2>2, <2>3, <2>4, Unaffected DEF Crash, TypeOK
<1>36. ASSUME Pause PROVE TypeOK'
  <2>1. IndexTypes'
    BY <1>36 DEF Pause, TypeOK, IndexTypes, index
  <2> QED
    BY <1>36, <2>1, Unaffected DEF Pause, TypeOK
<1>37. ASSUME Resume PROVE TypeOK'
  <2>1. IndexTypes'
    BY <1>37 DEF Resume, TypeOK, IndexTypes, index
  <2> QED
    BY <1>37, <2>1, Unaffected DEF Resume, TypeOK
<1>38. ASSUME NEW j \in Jobs, Age(j) PROVE TypeOK'
  <2>1. RecordTypes'
    BY <1>38 DEF Age, TypeOK, RecordTypes, record
  <2> QED
    BY <1>38, <2>1, Unaffected DEF Age, TypeOK
<1>39. ASSUME NEW j \in Jobs, Expire(j) PROVE TypeOK'
  <2>1. RecordTypes'
    BY <1>39 DEF Expire, TypeOK, RecordTypes, record
  <2> QED
    BY <1>39, <2>1, Unaffected DEF Expire, TypeOK
<1>40. ASSUME NEW j \in Jobs, ListRecent(j) PROVE TypeOK'
  <2>1. IndexTypes'
    BY <1>40 DEF ListRecent, TypeOK, IndexTypes, index
  <2> QED
    BY <1>40, <2>1, Unaffected DEF ListRecent, TypeOK
<1>41. ASSUME NEW l \in Loops, LoopStep(l) PROVE TypeOK'
  BY <1>41, <1>2, <1>3, <1>4, <1>5, <1>6, <1>7, <1>8, <1>9, <1>10, <1>11, <1>12, <1>13
     DEF LoopStep
<1>42. ASSUME NEW s \in Submitters, SubmitterStep(s) PROVE TypeOK'
  BY <1>42, <1>16, <1>17, <1>18, <1>19, <1>20, <1>21, <1>22, <1>23, <1>24, <1>25, <1>26, <1>27
     DEF SubmitterStep
<1>43. ASSUME StarterStep PROVE TypeOK'
  BY <1>43, <1>28, <1>29, <1>30, <1>31, <1>32 DEF StarterStep
<1> QED
  BY <1>1, <1>14, <1>15, <1>33, <1>34, <1>35, <1>36, <1>37, <1>38, <1>39, <1>40, <1>41,
     <1>42, <1>43 DEF Next

\* TypeOK holds in every reachable state: every record the processor writes
\* stays within the retry budget and no loop acts on a job it does not hold.
THEOREM TypeCorrect == Spec => []TypeOK
  BY InitTypes, NextTypes, PTL DEF Spec

-----------------------------------------------------------------------------
(* The lists, seen as the set of ids they hold.                            *)

\* Every id is in the list of its priority, at one position.
ListsInOrder ==
    \A p \in Priorities : \A i, k \in 1..Len(list[p]) :
        /\ PriorityOf[list[p][i]] = p
        /\ list[p][i] = list[p][k] => i = k

\* What becomes of the lists in a step.
ListsKept      == UNCHANGED list
ListsGain(j)   == \A i \in Jobs : InList(i)' <=> InList(i) \/ i = j
ListsLose(j)   == \A i \in Jobs : InList(i)' <=> InList(i) /\ i # j

LEMMA UnchangedLists ==
  ASSUME UNCHANGED list
  PROVE  /\ ListsInOrder => ListsInOrder'
         /\ \A i \in Jobs : InList(i)' <=> InList(i)
  BY DEF ListsInOrder, InList

\* LPUSH of an id that is in no list.
LEMMA LpushLists ==
  ASSUME IndexTypes, ListsInOrder, NEW j \in Jobs, Lpush(j), ~InList(j)
  PROVE  ListsInOrder' /\ ListsGain(j)
<1> DEFINE c == PriorityOf[j]
           q == list[c]
           t == Append(q, j)
<1>1. c \in Priorities /\ q \in Seq(Jobs)
  BY Constants DEF IndexTypes
<1>2. /\ Len(q) \in Nat /\ Len(t) = Len(q) + 1
      /\ \A i \in 1..Len(q) : t[i] = q[i]
      /\ t[Len(q) + 1] = j
  BY <1>1, AppendProperties
<1>3. list'[c] = t /\ \A p \in Priorities : p # c => list'[p] = list[p]
  BY <1>1 DEF Lpush, IndexTypes
<1>4. \A n \in 1..Len(q) : q[n] # j
  BY <1>1 DEF InList
<1>5. q = list[c] /\ PriorityOf[j] = c
  OBVIOUS
<1> HIDE DEF c, q, t
<1>6. ListsInOrder'
  <2> SUFFICES ASSUME NEW p \in Priorities,
                      NEW i \in 1..Len(list'[p]), NEW k \in 1..Len(list'[p])
               PROVE  /\ PriorityOf[list'[p][i]] = p
                      /\ list'[p][i] = list'[p][k] => i = k
    BY DEF ListsInOrder
  <2>1. CASE p = c
    <3>1. \A n \in 1..(Len(q) + 1) :
             \/ n \in 1..Len(q) /\ list'[p][n] = q[n] /\ q[n] # j
             \/ n = Len(q) + 1 /\ list'[p][n] = j
      BY <1>2, <1>3, <1>4, <2>1
    <3>2. i \in 1..(Len(q) + 1) /\ k \in 1..(Len(q) + 1)
      BY <1>2, <1>3, <2>1
    <3>3. \A m, n \in 1..Len(q) : PriorityOf[q[m]] = c /\ (q[m] = q[n] => m = n)
      BY <1>1, <1>5 DEF ListsInOrder
    <3> QED
      BY <1>5, <2>1, <3>1, <3>2, <3>3
  <2>2. CASE p # c
    BY <1>3, <2>2 DEF ListsInOrder
  <2> QED
    BY <2>1, <2>2
<1>7. ASSUME NEW i \in Jobs, InList(i)' PROVE InList(i) \/ i = j
  <2>1. PICK p \in Priorities : \E k \in 1..Len(list'[p]) : list'[p][k] = i
    BY <1>7 DEF InList
  <2>2. PICK k \in 1..Len(list'[p]) : list'[p][k] = i
    BY <2>1
  <2>3. CASE p = c
    <3>1. k \in 1..Len(q) \/ k = Len(q) + 1
      BY <1>2, <1>3, <2>3
    <3>2. k \in 1..Len(q) => q[k] = i
      BY <1>2, <1>3, <2>2, <2>3
    <3>3. k = Len(q) + 1 => i = j
      BY <1>2, <1>3, <2>2, <2>3
    <3> QED
      BY <1>1, <1>5, <3>1, <3>2, <3>3 DEF InList
  <2>4. CASE p # c
    BY <1>3, <2>2, <2>4 DEF InList
  <2> QED
    BY <2>3, <2>4
<1>8. ASSUME NEW i \in Jobs, InList(i) \/ i = j PROVE InList(i)'
  <2>1. CASE i = j
    <3>1. Len(q) + 1 \in 1..Len(list'[c]) /\ list'[c][Len(q) + 1] = i
      BY <1>2, <1>3, <2>1
    <3> QED
      BY <1>1, <3>1 DEF InList
  <2>2. CASE InList(i)
    <3>1. PICK p \in Priorities : \E k \in 1..Len(list[p]) : list[p][k] = i
      BY <2>2 DEF InList
    <3>2. PICK k \in 1..Len(list[p]) : list[p][k] = i
      BY <3>1
    <3>3. CASE p = c
      <4>1. k \in 1..Len(list'[c]) /\ list'[c][k] = i
        BY <1>2, <1>3, <1>5, <3>2, <3>3
      <4> QED
        BY <1>1, <4>1 DEF InList
    <3>4. CASE p # c
      BY <1>3, <3>2, <3>4 DEF InList
    <3> QED
      BY <3>3, <3>4
  <2> QED
    BY <1>8, <2>1, <2>2
<1> QED
  BY <1>6, <1>7, <1>8 DEF ListsGain

\* RPOP of the list of one priority.
LEMMA RpopLists ==
  ASSUME IndexTypes, ListsInOrder, NEW p \in Priorities, list[p] # <<>>,
         list' = [list EXCEPT ![p] = Tail(@)]
  PROVE  ListsInOrder' /\ InList(Head(list[p])) /\ ListsLose(Head(list[p])) /\ Head(list[p]) \in Jobs
<1> DEFINE q == list[p]
<1>1. q \in Seq(Jobs)
  BY DEF IndexTypes
<1>2. /\ Head(q) = q[1] /\ Head(q) \in Jobs /\ Len(q) \in Nat /\ Len(q) >= 1
      /\ Len(Tail(q)) = Len(q) - 1
      /\ \A i \in 1..(Len(q) - 1) : Tail(q)[i] = q[i + 1]
  BY <1>1, HeadTailProperties
<1>3. list'[p] = Tail(q) /\ \A r \in Priorities : r # p => list'[r] = list[r]
  BY <1>1 DEF IndexTypes
<1>4. ListsInOrder'
  BY <1>2, <1>3 DEF ListsInOrder
<1>5. InList(Head(q))
  BY <1>2 DEF InList
<1>6. ASSUME NEW i \in Jobs, InList(i)' PROVE InList(i) /\ i # Head(q)
  <2>1. PICK r \in Priorities : \E k \in 1..Len(list'[r]) : list'[r][k] = i
    BY <1>6 DEF InList
  <2>4. PICK k \in 1..Len(list'[r]) : list'[r][k] = i
    BY <2>1
  <2>2. CASE r = p
    <3> DEFINE t == Tail(q)
    <3>4. list'[r] = t /\ Len(t) = Len(q) - 1 /\ \A n \in 1..(Len(q) - 1) : t[n] = q[n + 1]
      BY <1>2, <1>3, <2>2
    <3> HIDE DEF t
    <3>5. k \in 1..(Len(q) - 1) /\ t[k] = i
      BY <2>4, <3>4
    <3>1. k \in 1..(Len(q) - 1) /\ k + 1 \in 1..Len(q) /\ q[k + 1] = i
      BY <1>2, <3>4, <3>5
    <3>2. InList(i)
      BY <3>1 DEF InList
    <3>3. 1 \in 1..Len(q) /\ k + 1 # 1
      BY <1>2, <3>1
    <3> QED
      BY <1>2, <3>1, <3>2, <3>3 DEF ListsInOrder
  <2>3. CASE r # p
    <3>1. k \in 1..Len(list[r]) /\ list[r][k] = i
      BY <1>3, <2>3, <2>4
    <3> QED
      BY <1>2, <2>3, <3>1 DEF ListsInOrder, InList
  <2> QED
    BY <2>2, <2>3
<1>7. ASSUME NEW i \in Jobs, InList(i), i # Head(q) PROVE InList(i)'
  <2>1. PICK r \in Priorities : \E k \in 1..Len(list[r]) : list[r][k] = i
    BY <1>7 DEF InList
  <2>4. PICK k \in 1..Len(list[r]) : list[r][k] = i
    BY <2>1
  <2>2. CASE r = p
    <3>1. k - 1 \in 1..(Len(q) - 1) /\ Tail(q)[k - 1] = i
      BY <1>2, <1>7, <2>2, <2>4
    <3>2. k - 1 \in 1..Len(list'[r]) /\ list'[r][k - 1] = i
      BY <1>2, <1>3, <2>2, <3>1
    <3> QED
      BY <3>2 DEF InList
  <2>3. CASE r # p
    BY <1>3, <2>3, <2>4 DEF InList
  <2> QED
    BY <2>2, <2>3
<1> QED
  BY <1>2, <1>4, <1>5, <1>6, <1>7 DEF ListsLose

\* LREM of an id, from the list of its priority.
LEMMA LremLists ==
  ASSUME IndexTypes, ListsInOrder, NEW j \in Jobs,
         list' = [list EXCEPT ![PriorityOf[j]] = Lrem(@, j)]
  PROVE  /\ ListsInOrder'
         /\ \A i \in Jobs : InList(i)' => InList(i)
         /\ \A i \in Jobs : InList(i) /\ i # j => InList(i)'
<1> DEFINE p == PriorityOf[j]
           q == list[p]
<1>1. p \in Priorities /\ q \in Seq(Jobs)
  BY Constants DEF IndexTypes
<1>2. \A r \in Priorities : list'[r] = IF r = p THEN Lrem(q, j) ELSE list[r]
  BY <1>1 DEF IndexTypes
<1>3. CASE \E k \in 1..Len(q) : q[k] = j
  <2> DEFINE c == CHOOSE k \in 1..Len(q) : q[k] = j
  <2>1. c \in 1..Len(q) /\ Len(q) \in Nat
    BY <1>1, <1>3
  <2>2. Lrem(q, j) = [n \in 1..(Len(q) - 1) |-> IF n < c THEN q[n] ELSE q[n + 1]]
    BY <1>3 DEF Lrem
  <2> HIDE DEF c
  <2>3. Len(Lrem(q, j)) = Len(q) - 1
    BY <2>1, <2>2
  <2>4. \A n \in 1..Len(Lrem(q, j)) :
           Lrem(q, j)[n] = IF n < c THEN q[n] ELSE q[n + 1]
    BY <2>2, <2>3
  <2>5. ListsInOrder'
    <3> SUFFICES ASSUME NEW r \in Priorities,
                        NEW i \in 1..Len(list'[r]), NEW k \in 1..Len(list'[r])
                 PROVE  /\ PriorityOf[list'[r][i]] = r
                        /\ list'[r][i] = list'[r][k] => i = k
      BY DEF ListsInOrder
    <3>1. CASE r = p
      <4> DEFINE at(n) == IF n < c THEN n ELSE n + 1
      <4>1. \A n \in 1..(Len(q) - 1) : at(n) \in 1..Len(q) /\ list'[r][n] = q[at(n)]
        BY <1>2, <2>1, <2>3, <2>4, <3>1
      <4>2. i \in 1..(Len(q) - 1) /\ k \in 1..(Len(q) - 1)
        BY <1>2, <2>3, <3>1
      <4>3. PriorityOf[list'[r][i]] = r
        BY <1>1, <3>1, <4>1, <4>2 DEF ListsInOrder
      <4>4. list'[r][i] = list'[r][k] => at(i) = at(k)
        BY <1>1, <3>1, <4>1, <4>2 DEF ListsInOrder
      <4>5. at(i) = at(k) => i = k
        BY <2>1, <4>2
      <4> QED
        BY <4>3, <4>4, <4>5
    <3>2. CASE r # p
      BY <1>2, <3>2 DEF ListsInOrder
    <3> QED
      BY <3>1, <3>2
  <2>6. \A i \in Jobs : InList(i)' => InList(i)
    BY <1>1, <1>2, <2>1, <2>3, <2>4 DEF InList
  <2>7. ASSUME NEW i \in Jobs, InList(i), i # j PROVE InList(i)'
    <3>1. PICK r \in Priorities : \E k \in 1..Len(list[r]) : list[r][k] = i
      BY <2>7 DEF InList
    <3>2. PICK k \in 1..Len(list[r]) : list[r][k] = i
      BY <3>1
    <3>3. CASE r = p
      <4>1. k # c
        BY <1>3, <2>7, <3>2, <3>3 DEF c
      <4>2. CASE k < c
        <5>1. k \in 1..(Len(q) - 1) /\ list'[r][k] = i
          BY <1>2, <2>1, <2>3, <2>4, <3>2, <3>3, <4>2
        <5> QED
          BY <1>2, <2>3, <3>3, <5>1 DEF InList
      <4>3. CASE k > c
        <5>1. k - 1 \in 1..(Len(q) - 1) /\ list'[r][k - 1] = i
          BY <1>2, <2>1, <2>3, <2>4, <3>2, <3>3, <4>3
        <5> QED
          BY <1>2, <2>3, <3>3, <5>1 DEF InList
      <4> QED
        BY <2>1, <3>2, <3>3, <4>1, <4>2, <4>3
    <3>4. CASE r # p
      BY <1>2, <3>2, <3>4 DEF InList
    <3> QED
      BY <3>3, <3>4
  <2> QED
    BY <2>5, <2>6, <2>7
<1>4. CASE ~ \E k \in 1..Len(q) : q[k] = j
  <2>1. \A r \in Priorities : list'[r] = list[r]
    BY <1>2, <1>4 DEF Lrem
  <2> QED
    BY <2>1 DEF ListsInOrder, InList
<1> QED
  BY <1>3, <1>4

-----------------------------------------------------------------------------
(* One owner per job.                                                      *)

\* A queued job has been submitted and is not RUNNING.
QueuedWaits ==
    \A j \in Jobs : InList(j) => state[j] \notin {"new", "running"}

\* No two loops have the same job, and no loop has a queued one.
LoopsOwn ==
    /\ \A l, m \in Loops : job[l] \in Jobs /\ job[l] = job[m] => l = m
    /\ \A l \in Loops : job[l] \in Jobs =>
          /\ ~InList(job[l])
          /\ state[job[l]] # "new"
          /\ pc[l] = "repush" => state[job[l]] # "running"
    /\ phase \notin {"up", "stopping"} => \A l \in Loops : pc[l] = "poll"

\* Until it saves the record a submitter's job is unused; then it is its own.
SubmittersOwn ==
    /\ \A s, t \in Submitters : sjob[s] \in Jobs /\ sjob[s] = sjob[t] => s = t
    /\ \A s \in Submitters : sjob[s] \in Jobs =>
          /\ spc[s] # "push" => state[sjob[s]] = "new"
          /\ spc[s] = "push" =>
                /\ state[sjob[s]] \notin {"new", "running"}
                /\ ~InList(sjob[s])
                /\ \A l \in Loops : job[l] # sjob[s]
                /\ ~Recovered(sjob[s])
    /\ \A s \in Submitters : victim[s] \in Jobs => state[victim[s]] # "new"
    /\ \A j \in aged : state[j] # "new"

\* The job the recovery is about to push is nowhere else.
RecoveryOwns ==
    phase = "repush" => ~InList(orphan) /\ state[orphan] \notin {"new", "running"}

Owned == ListsInOrder /\ QueuedWaits /\ LoopsOwn /\ SubmittersOwn /\ RecoveryOwns

\* The inductive invariant.
Ownership == TypeOK /\ Owned

LEMMA InitOwnership == Init => Ownership
<1> SUFFICES ASSUME Init PROVE Ownership
  OBVIOUS
<1>1. /\ \A p \in Priorities : list[p] = <<>> /\ Len(list[p]) = 0
      /\ \A j \in Jobs : ~InList(j)
  BY DEF Init, InList
<1>2. ListsInOrder
  BY <1>1 DEF ListsInOrder
<1>3. QueuedWaits /\ LoopsOwn /\ SubmittersOwn /\ RecoveryOwns
  BY <1>1, Constants DEF Init, QueuedWaits, LoopsOwn, SubmittersOwn, RecoveryOwns
<1> QED
  BY <1>2, <1>3, InitTypes DEF Ownership, Owned

\* What the five steps that change the lists do to them: an id joins a list only
\* out of the hands that held it, and it leaves one at most into a loop's.
LEMMA PushingSteps ==
  ASSUME Ownership
  PROVE  /\ \A l \in Loops, r \in Reply : Repush(l, r) =>
               /\ job[l] \in Jobs /\ ListsInOrder'
               /\ \A i \in Jobs : InList(i)' => InList(i) \/ i = job[l]
         /\ \A s \in Submitters, r \in Reply : Push(s, r) =>
               /\ sjob[s] \in Jobs /\ ListsInOrder'
               /\ \A i \in Jobs : InList(i)' => InList(i) \/ i = sjob[s]
         /\ \A r \in Reply : RequeuePush(r) =>
               /\ orphan \in Jobs /\ ListsInOrder'
               /\ \A i \in Jobs : InList(i)' => InList(i) \/ i = orphan
<1>1. IndexTypes /\ ListsInOrder
  BY DEF Ownership, Owned, TypeOK
<1>2. ASSUME NEW j \in Jobs, ~InList(j), UNCHANGED list \/ Lpush(j)
      PROVE  ListsInOrder' /\ \A i \in Jobs : InList(i)' => InList(i) \/ i = j
  BY <1>1, <1>2, LpushLists, UnchangedLists DEF ListsGain
<1>3. ASSUME NEW l \in Loops, NEW r \in Reply, Repush(l, r)
      PROVE  /\ job[l] \in Jobs /\ ListsInOrder'
             /\ \A i \in Jobs : InList(i)' => InList(i) \/ i = job[l]
  <2>1. job[l] \in Jobs /\ ~InList(job[l])
    BY <1>3 DEF Repush, Holding, Ownership, Owned, TypeOK, LoopTypes, LoopsOwn
  <2> QED
    BY <1>2, <1>3, <2>1 DEF Repush
<1>4. ASSUME NEW s \in Submitters, NEW r \in Reply, Push(s, r)
      PROVE  /\ sjob[s] \in Jobs /\ ListsInOrder'
             /\ \A i \in Jobs : InList(i)' => InList(i) \/ i = sjob[s]
  <2>1. sjob[s] \in Jobs /\ ~InList(sjob[s])
    BY <1>4 DEF Push, Ownership, Owned, TypeOK, SubmitterTypes, SubmittersOwn
  <2> QED
    BY <1>2, <1>4, <2>1 DEF Push
<1>5. ASSUME NEW r \in Reply, RequeuePush(r)
      PROVE  /\ orphan \in Jobs /\ ListsInOrder'
             /\ \A i \in Jobs : InList(i)' => InList(i) \/ i = orphan
  <2>1. orphan \in Jobs /\ ~InList(orphan)
    BY <1>5 DEF RequeuePush, Ownership, Owned, TypeOK, WorkerTypes, RecoveryOwns
  <2> QED
    BY <1>2, <1>5, <2>1 DEF RequeuePush
<1> QED
  BY <1>3, <1>4, <1>5

LEMMA PruneRemoveStep ==
  ASSUME Ownership, NEW s \in Submitters, NEW r \in Reply, PruneRemove(s, r)
  PROVE  /\ ListsInOrder'
         /\ \A i \in Jobs : InList(i)' => InList(i)
         /\ \A i \in Jobs : InList(i) /\ i # victim[s] => InList(i)'
<1>1. IndexTypes /\ ListsInOrder
  BY DEF Ownership, Owned, TypeOK
<1>2. victim[s] \in Jobs
  BY DEF PruneRemove, Ownership, TypeOK, SubmitterTypes
<1>3. \/ UNCHANGED list
      \/ list' = [list EXCEPT ![PriorityOf[victim[s]]] = Lrem(@, victim[s])]
  BY DEF PruneRemove
<1> QED
  BY <1>1, <1>2, <1>3, LremLists, UnchangedLists

\* A pop either leaves the lists alone and moves the loop on, or loses a queued id
\* with the answer, or hands it to the loop.
LEMMA PopOutcome ==
  ASSUME Ownership, NEW l \in Loops, NEW r \in Reply, Pop(l, r)
  PROVE  \/ /\ UNCHANGED list
            /\ \E next \in {"poll", "medium", "low"} : Step(l, next)
         \/ \E j \in Jobs :
               /\ ListsInOrder' /\ InList(j) /\ ListsLose(j)
               /\ \/ r = "lost" /\ Step(l, "poll")
                  \/ /\ pc' = [pc EXCEPT ![l] = "load"] /\ job' = [job EXCEPT ![l] = j]
                     /\ UNCHANGED <<seen, outcome>>
<1>1. IndexTypes /\ ListsInOrder /\ pc[l] \in Priorities
  BY DEF Ownership, Owned, TypeOK, Pop
<1>2. CASE list[pc[l]] # <<>> /\ Executed(r)
  <2>1. list' = [list EXCEPT ![pc[l]] = Tail(@)]
    BY <1>2 DEF Pop
  <2>2. PICK j \in Jobs : j = Head(list[pc[l]])
    BY <1>1, <1>2, <2>1, RpopLists
  <2>3. ListsInOrder' /\ InList(j) /\ ListsLose(j)
    BY <1>1, <1>2, <2>1, <2>2, RpopLists
  <2>4. \/ r = "lost" /\ Step(l, "poll")
        \/ /\ pc' = [pc EXCEPT ![l] = "load"] /\ job' = [job EXCEPT ![l] = j]
           /\ UNCHANGED <<seen, outcome>>
    BY <1>2, <2>2 DEF Pop, Raised, Executed, Reply
  <2> QED
    BY <2>3, <2>4
<1>3. CASE ~(list[pc[l]] # <<>> /\ Executed(r))
  BY <1>1, <1>3 DEF Pop, Priorities, NextPriority
<1> QED
  BY <1>2, <1>3

\* In short: ids only leave the lists, and the loop that gets one had none.
LEMMA PopStep ==
  ASSUME Ownership, NEW l \in Loops, NEW r \in Reply, Pop(l, r)
  PROVE  /\ ListsInOrder' /\ \A i \in Jobs : InList(i)' => InList(i)
         /\ pc[l] \in Priorities /\ job[l] \notin Jobs
         /\ Redis(r) /\ UNCHANGED <<record, worker, sub, faults, failures>>
         /\ \/ \E next \in {"poll", "medium", "low"} : Step(l, next)
            \/ \E j \in Jobs :
                  /\ InList(j) /\ ~InList(j)'
                  /\ pc' = [pc EXCEPT ![l] = "load"] /\ job' = [job EXCEPT ![l] = j]
                  /\ UNCHANGED <<seen, outcome>>
<1>1. /\ pc[l] \in Priorities /\ job[l] \notin Jobs
      /\ Redis(r) /\ UNCHANGED <<record, worker, sub, faults, failures>>
  BY DEF Pop, Ownership, TypeOK, LoopTypes, Holding, Priorities
<1>2. ListsInOrder
  BY DEF Ownership, Owned
<1> QED
  BY <1>1, <1>2, PopOutcome, UnchangedLists DEF ListsLose

\* The same of a push, both ways: the id, and nothing else, is in line afterwards
\* if the command was executed.
LEMMA PushOutcome ==
  ASSUME Ownership, NEW j \in Jobs, ~InList(j), NEW r \in Reply,
         IF Executed(r) THEN Lpush(j) ELSE UNCHANGED list
  PROVE  IF Executed(r) THEN ListsGain(j) ELSE UNCHANGED list
  BY LpushLists DEF Ownership, Owned, TypeOK

\* No step gives a job a second owner.
LEMMA NextOwnership == Ownership /\ [Next]_vars => Owned'
<1> SUFFICES ASSUME Ownership, [Next]_vars PROVE Owned'
  OBVIOUS
<1>1. Ownership
  OBVIOUS
<1> USE DEF Ownership, Owned, QueuedWaits, LoopsOwn, SubmittersOwn, RecoveryOwns, Recovered,
            TypeOK, RecordTypes, LoopTypes, SubmitterTypes, WorkerTypes, Holding,
            record, index, worker, loop, sub
<1>2. CASE UNCHANGED vars
  BY <1>2, UnchangedLists DEF vars
<1>3. ASSUME NEW l \in Loops, NEW r \in Reply, Poll(l, r) PROVE Owned'
  <2>1. UNCHANGED list
    BY <1>3 DEF Poll, index
  <2> QED
    BY <1>3, <2>1, UnchangedLists, Constants DEF Poll, Step, Priorities
<1>4. ASSUME NEW l \in Loops, NEW r \in Reply, Pop(l, r) PROVE Owned'
  <2>1. /\ ListsInOrder' /\ \A i \in Jobs : InList(i)' => InList(i)
        /\ pc[l] \in Priorities /\ job[l] \notin Jobs
        /\ UNCHANGED <<record, worker, sub, failures>>
    BY <1>1, <1>4, PopStep
  <2>2. CASE \E next \in {"poll", "medium", "low"} : Step(l, next)
    <3>1. PICK next \in {"poll", "medium", "low"} : Step(l, next)
      BY <2>2
    <3> QED
      BY <2>1, <3>1, Constants DEF Step, Priorities
  <2>3. ASSUME NEW j \in Jobs, InList(j), ~InList(j)',
               pc' = [pc EXCEPT ![l] = "load"], job' = [job EXCEPT ![l] = j]
        PROVE  Owned'
    <3>1. phase \in {"up", "stopping"}
      BY <2>1 DEF Priorities
    <3>2. QueuedWaits' /\ RecoveryOwns'
      BY <2>1
    <3>3. LoopsOwn'
      BY <2>1, <2>3, <3>1
    <3>4. SubmittersOwn'
      BY <2>1, <2>3, <3>1
    <3> QED
      BY <2>1, <3>2, <3>3, <3>4
  <2> QED
    BY <1>1, <1>4, <2>2, <2>3, PopStep
<1>5. ASSUME NEW l \in Loops, NEW r \in Reply, Load(l, r) PROVE Owned'
  <2>1. UNCHANGED list
    BY <1>5 DEF Load, index
  <2>2. QueuedWaits'
    BY <1>5, <2>1, UnchangedLists, Constants DEF Load, Step
  <2>3. LoopsOwn'
    BY <1>5, <2>1, UnchangedLists, Constants, SMTT(30) DEF Load, Step
  <2>4. SubmittersOwn'
    BY <1>5, <2>1, UnchangedLists, Constants DEF Load, Step
  <2>5. RecoveryOwns'
    BY <1>5, <2>1, UnchangedLists, Constants DEF Load, Step
  <2> QED
    BY <2>1, UnchangedLists, <2>2, <2>3, <2>4, <2>5 DEF Owned, Ownership
<1>6. ASSUME NEW l \in Loops, NEW r \in Reply, MarkRunning(l, r) PROVE Owned'
  <2>1. UNCHANGED list
    BY <1>6 DEF MarkRunning, index
  <2> QED
    BY <1>6, <2>1, UnchangedLists, Constants, SMTT(30) DEF MarkRunning, Step, AbandonTick
<1>7. ASSUME NEW l \in Loops, NEW r \in Reply, Register(l, r) PROVE Owned'
  <2>1. UNCHANGED list
    BY <1>7 DEF Register, index
  <2> QED
    BY <1>7, <2>1, UnchangedLists, Constants DEF Register, Step, AbandonTick
<1>8. ASSUME NEW l \in Loops, NEW o \in {"completed", "held", "failed", "rejected"}, Run(l,
     o) PROVE Owned'
  <2>1. UNCHANGED list
    BY <1>8 DEF Run, index
  <2> QED
    BY <1>8, <2>1, UnchangedLists, Constants DEF Run
<1>9. ASSUME NEW l \in Loops, NEW r \in Reply, Settle(l, r) PROVE Owned'
  <2>1. UNCHANGED list
    BY <1>9 DEF Settle, index
  <2>2. QueuedWaits'
    BY <1>9, <2>1, UnchangedLists, Constants DEF Settle, Step, AfterMark, Terminal
  <2>3. LoopsOwn'
    BY <1>9, <2>1, UnchangedLists, Constants DEF Settle, Step, AfterMark, Terminal
  <2>4. SubmittersOwn'
    BY <1>9, <2>1, UnchangedLists, Constants DEF Settle, Step, AfterMark, Terminal
  <2>5. RecoveryOwns'
    BY <1>9, <2>1, UnchangedLists, Constants DEF Settle, Step, AfterMark, Terminal
  <2> QED
    BY <2>1, UnchangedLists, <2>2, <2>3, <2>4, <2>5 DEF Owned, Ownership
<1>10. ASSUME NEW l \in Loops, NEW r \in Reply, Unregister(l, r) PROVE Owned'
  <2>1. UNCHANGED list
    BY <1>10 DEF Unregister, index
  <2> QED
    BY <1>10, <2>1, UnchangedLists, Constants DEF Unregister, Step, AfterMark
<1>11. ASSUME NEW l \in Loops, NEW r \in Reply, AddRecent(l, r) PROVE Owned'
  <2>1. UNCHANGED list
    BY <1>11 DEF AddRecent, index
  <2> QED
    BY <1>11, <2>1, UnchangedLists, Constants DEF AddRecent, Step, AfterMark
<1>12. ASSUME NEW l \in Loops, NEW r \in Reply, Retry(l, r) PROVE Owned'
  <2>1. UNCHANGED list
    BY <1>12 DEF Retry, index
  <2>2. QueuedWaits'
    BY <1>12, <2>1, UnchangedLists, Constants DEF Retry, Step, Raised, Executed
  <2>3. LoopsOwn'
    BY <1>12, <2>1, UnchangedLists, Constants, SMTT(30) DEF Retry, Step, Raised, Executed
  <2>4. SubmittersOwn'
    BY <1>12, <2>1, UnchangedLists, Constants DEF Retry, Step, Raised, Executed
  <2>5. RecoveryOwns'
    BY <1>12, <2>1, UnchangedLists, Constants DEF Retry, Step, Raised, Executed
  <2> QED
    BY <2>1, UnchangedLists, <2>2, <2>3, <2>4, <2>5 DEF Owned, Ownership
<1>13. ASSUME NEW l \in Loops, Exhausted(l) PROVE Owned'
  <2>1. UNCHANGED list
    BY <1>13 DEF Exhausted, index
  <2> QED
    BY <1>13, <2>1, UnchangedLists, Constants DEF Exhausted, Step
<1>14. ASSUME NEW l \in Loops, NEW r \in Reply, Repush(l, r) PROVE Owned'
  <2>1. /\ job[l] \in Jobs /\ ListsInOrder'
        /\ \A i \in Jobs : InList(i)' => InList(i) \/ i = job[l]
    BY <1>1, <1>14, PushingSteps
  <2>2. QueuedWaits'
    BY <1>14, <2>1, Constants DEF Repush, Step
  <2>3. LoopsOwn'
    BY <1>14, <2>1, Constants DEF Repush, Step
  <2>4. SubmittersOwn'
    BY <1>14, <2>1, Constants DEF Repush, Step
  <2>5. RecoveryOwns'
    BY <1>14, <2>1, Constants DEF Repush, Step
  <2> QED
    BY <2>1, <2>2, <2>3, <2>4, <2>5
<1>15. ASSUME NEW s \in Submitters, NEW j \in Jobs, Enqueue(s, j) PROVE Owned'
  <2>1. UNCHANGED list
    BY <1>15 DEF Enqueue, index, Begin
  <2> QED
    BY <1>15, <2>1, UnchangedLists, Constants DEF Enqueue, Begin
<1>16. ASSUME NEW s \in Submitters, NEW j \in Jobs, EnqueueIfAbsent(s, j) PROVE Owned'
  <2>1. UNCHANGED list
    BY <1>16 DEF EnqueueIfAbsent, index, Begin
  <2> QED
    BY <1>16, <2>1, UnchangedLists, Constants DEF EnqueueIfAbsent, Begin
<1>17. ASSUME NEW s \in Submitters, NEW r \in Reply, ReadLists(s, r) PROVE Owned'
  <2>1. UNCHANGED list
    BY <1>17 DEF ReadLists, index
  <2> QED
    BY <1>17, <2>1, UnchangedLists, Constants DEF ReadLists
<1>18. ASSUME NEW s \in Submitters, NEW r \in Reply, ReadRunning(s, r) PROVE Owned'
  <2>1. UNCHANGED list
    BY <1>18 DEF ReadRunning, index
  <2> QED
    BY <1>18, <2>1, UnchangedLists, Constants DEF ReadRunning
<1>19. ASSUME NEW s \in Submitters, NEW r \in Reply, MatchRaised(s, r) PROVE Owned'
  <2>1. UNCHANGED list
    BY <1>19 DEF MatchRaised, index
  <2> QED
    BY <1>19, <2>1, UnchangedLists, Constants DEF MatchRaised
<1>20. ASSUME NEW s \in Submitters, NEW e \in Jobs, SkipMissing(s, e) PROVE Owned'
  <2>1. UNCHANGED list
    BY <1>20 DEF SkipMissing, index
  <2> QED
    BY <1>20, <2>1, UnchangedLists, Constants DEF SkipMissing
<1>21. ASSUME NEW s \in Submitters, NEW e \in Jobs, FindStale(s, e) PROVE Owned'
  <2>1. UNCHANGED list
    BY <1>21 DEF FindStale, index
  <2> QED
    BY <1>21, <2>1, UnchangedLists, Constants DEF FindStale
<1>22. ASSUME NEW s \in Submitters, NEW e \in Jobs, Collapse(s, e) PROVE Owned'
  <2>1. UNCHANGED list
    BY <1>22 DEF Collapse, index
  <2> QED
    BY <1>22, <2>1, UnchangedLists, Constants DEF Collapse, Forget
<1>23. ASSUME NEW s \in Submitters, NoMatch(s) PROVE Owned'
  <2>1. UNCHANGED list
    BY <1>23 DEF NoMatch, index
  <2> QED
    BY <1>23, <2>1, UnchangedLists, Constants DEF NoMatch
<1>24. ASSUME NEW s \in Submitters, NEW r \in Reply, PruneRemove(s, r) PROVE Owned'
  <2>1. ListsInOrder' /\ \A i \in Jobs : InList(i)' => InList(i)
    BY <1>1, <1>24, PruneRemoveStep
  <2>2. QueuedWaits'
    BY <1>24, <2>1, Constants DEF PruneRemove, PruneStep
  <2>3. LoopsOwn'
    BY <1>24, <2>1, Constants DEF PruneRemove, PruneStep
  <2>4. SubmittersOwn'
    BY <1>24, <2>1, Constants, SMTT(30) DEF PruneRemove, PruneStep
  <2>5. RecoveryOwns'
    BY <1>24, <2>1, Constants DEF PruneRemove, PruneStep
  <2> QED
    BY <2>1, <2>2, <2>3, <2>4, <2>5
<1>25. ASSUME NEW s \in Submitters, NEW r \in Reply, PruneFail(s, r) PROVE Owned'
  <2>1. UNCHANGED list
    BY <1>25 DEF PruneFail, index
  <2> QED
    BY <1>25, <2>1, UnchangedLists, Constants DEF PruneFail, PruneStep
<1>26. ASSUME NEW s \in Submitters, NEW r \in Reply, PruneRecent(s, r) PROVE Owned'
  <2>1. UNCHANGED list
    BY <1>26 DEF PruneRecent, index
  <2> QED
    BY <1>26, <2>1, UnchangedLists, Constants DEF PruneRecent, PruneStep
<1>27. ASSUME NEW s \in Submitters, NEW r \in Reply, Save(s, r) PROVE Owned'
  <2>1. UNCHANGED list
    BY <1>27 DEF Save, index
  <2>2. QueuedWaits'
    BY <1>27, <2>1, UnchangedLists, Constants DEF Save, Forget, Raised, Executed
  <2>3. LoopsOwn'
    BY <1>27, <2>1, UnchangedLists, Constants DEF Save, Forget, Raised, Executed
  <2>4. SubmittersOwn'
    <3>1. /\ sjob[s] \in Jobs /\ state[sjob[s]] = "new" /\ ~InList(sjob[s])
          /\ \A l \in Loops : job[l] # sjob[s]
          /\ ~Recovered(sjob[s])
      BY <1>27 DEF Save
    <3>2. state'[sjob[s]] = "pending" \/ Forget(s)
      BY <1>27, <3>1 DEF Save, Raised, Executed
    <3>3. CASE Forget(s)
      BY <1>27, <2>1, <3>1, <3>3, UnchangedLists, Constants DEF Save, Forget
    <3>4. CASE ~Forget(s)
      BY <1>27, <2>1, <3>1, <3>2, <3>4, UnchangedLists, Constants, SMTT(30) DEF Save
    <3> QED
      BY <3>3, <3>4
  <2>5. RecoveryOwns'
    BY <1>27, <2>1, UnchangedLists, Constants DEF Save, Forget, Raised, Executed
  <2> QED
    BY <2>1, UnchangedLists, <2>2, <2>3, <2>4, <2>5 DEF Owned, Ownership
<1>28. ASSUME NEW s \in Submitters, NEW r \in Reply, Push(s, r) PROVE Owned'
  <2>1. /\ sjob[s] \in Jobs /\ ListsInOrder'
        /\ \A i \in Jobs : InList(i)' => InList(i) \/ i = sjob[s]
    BY <1>1, <1>28, PushingSteps
  <2>2. QueuedWaits'
    BY <1>28, <2>1, Constants DEF Push, Forget
  <2>3. LoopsOwn'
    BY <1>28, <2>1, Constants DEF Push, Forget
  <2>4. SubmittersOwn'
    BY <1>28, <2>1, Constants DEF Push, Forget
  <2>5. RecoveryOwns'
    BY <1>28, <2>1, Constants DEF Push, Forget
  <2> QED
    BY <2>1, <2>2, <2>3, <2>4, <2>5
<1>29. ASSUME NEW r \in Reply, Start(r) PROVE Owned'
  <2>1. UNCHANGED list
    BY <1>29 DEF Start, index
  <2> QED
    BY <1>29, <2>1, UnchangedLists, Constants DEF Start
<1>30. ASSUME NEW j \in Jobs, NEW r \in Reply, Requeue(j, r) PROVE Owned'
  <2>1. UNCHANGED list
    BY <1>30 DEF Requeue, index
  <2>2. QueuedWaits'
    BY <1>30, <2>1, UnchangedLists, Constants DEF Requeue, WasInterrupted, Raised, Executed
  <2>3. LoopsOwn'
    BY <1>30, <2>1, UnchangedLists, Constants DEF Requeue, WasInterrupted, Raised, Executed
  <2>4. SubmittersOwn'
    BY <1>30, <2>1, UnchangedLists, Constants DEF Requeue, WasInterrupted, Raised, Executed
  <2>5. RecoveryOwns'
    BY <1>30, <2>1, UnchangedLists, Constants DEF Requeue, WasInterrupted, Raised, Executed
  <2> QED
    BY <2>1, UnchangedLists, <2>2, <2>3, <2>4, <2>5 DEF Owned, Ownership
<1>31. ASSUME NEW r \in Reply, RequeuePush(r) PROVE Owned'
  <2>1. /\ orphan \in Jobs /\ ListsInOrder'
        /\ \A i \in Jobs : InList(i)' => InList(i) \/ i = orphan
    BY <1>1, <1>31, PushingSteps
  <2>2. QueuedWaits'
    BY <1>31, <2>1, Constants DEF RequeuePush, Recovering
  <2>3. LoopsOwn'
    BY <1>31, <2>1, Constants DEF RequeuePush, Recovering
  <2>4. SubmittersOwn'
    BY <1>31, <2>1, Constants DEF RequeuePush, Recovering
  <2>5. RecoveryOwns'
    BY <1>31, <2>1, Constants DEF RequeuePush, Recovering
  <2> QED
    BY <2>1, <2>2, <2>3, <2>4, <2>5
<1>32. ASSUME NEW r \in Reply, RequeueDone(r) PROVE Owned'
  <2>1. UNCHANGED list
    BY <1>32 DEF RequeueDone, index
  <2> QED
    BY <1>32, <2>1, UnchangedLists, Constants DEF RequeueDone, Recovering
<1>33. ASSUME Spawn PROVE Owned'
  <2>1. UNCHANGED list
    BY <1>33 DEF Spawn, index
  <2> QED
    BY <1>33, <2>1, UnchangedLists, Constants DEF Spawn
<1>34. ASSUME Stop PROVE Owned'
  <2>1. UNCHANGED list
    BY <1>34 DEF Stop, index
  <2> QED
    BY <1>34, <2>1, UnchangedLists, Constants DEF Stop
<1>35. ASSUME Stopped PROVE Owned'
  <2>1. UNCHANGED list
    BY <1>35 DEF Stopped, index
  <2> QED
    BY <1>35, <2>1, UnchangedLists, Constants DEF Stopped
<1>36. ASSUME Crash PROVE Owned'
  <2>1. UNCHANGED list
    BY <1>36 DEF Crash, index
  <2> QED
    BY <1>36, <2>1, UnchangedLists, Constants DEF Crash
<1>37. ASSUME Pause PROVE Owned'
  <2>1. UNCHANGED list
    BY <1>37 DEF Pause, index
  <2> QED
    BY <1>37, <2>1, UnchangedLists, Constants DEF Pause
<1>38. ASSUME Resume PROVE Owned'
  <2>1. UNCHANGED list
    BY <1>38 DEF Resume, index
  <2> QED
    BY <1>38, <2>1, UnchangedLists, Constants DEF Resume
<1>39. ASSUME NEW j \in Jobs, Age(j) PROVE Owned'
  <2>1. UNCHANGED list
    BY <1>39 DEF Age, index
  <2> QED
    BY <1>39, <2>1, UnchangedLists, Constants DEF Age
<1>40. ASSUME NEW j \in Jobs, Expire(j) PROVE Owned'
  <2>1. UNCHANGED list
    BY <1>40 DEF Expire, index
  <2> QED
    BY <1>40, <2>1, UnchangedLists, Constants DEF Expire
<1>41. ASSUME NEW j \in Jobs, ListRecent(j) PROVE Owned'
  <2>1. UNCHANGED list
    BY <1>41 DEF ListRecent, index
  <2> QED
    BY <1>41, <2>1, UnchangedLists, Constants DEF ListRecent
<1>42. ASSUME NEW l \in Loops, LoopStep(l) PROVE Owned'
  BY <1>42, <1>3, <1>4, <1>5, <1>6, <1>7, <1>8, <1>9, <1>10, <1>11, <1>12, <1>13, <1>14
     DEF LoopStep
<1>43. ASSUME NEW s \in Submitters, SubmitterStep(s) PROVE Owned'
  BY <1>43, <1>17, <1>18, <1>19, <1>20, <1>21, <1>22, <1>23, <1>24, <1>25, <1>26, <1>27, <1>28
     DEF SubmitterStep
<1>44. ASSUME StarterStep PROVE Owned'
  BY <1>44, <1>29, <1>30, <1>31, <1>32, <1>33 DEF StarterStep
<1> QED
  BY <1>2, <1>15, <1>16, <1>34, <1>35, <1>36, <1>37, <1>38, <1>39, <1>40, <1>41, <1>42,
     <1>43, <1>44 DEF Next

LEMMA OwnershipInvariant == Spec => []Ownership
<1>1. Ownership /\ [Next]_vars => Ownership'
  BY NextTypes, NextOwnership DEF Ownership
<1> QED
  BY <1>1, InitOwnership, PTL DEF Spec

LEMMA OwnershipGivesOnePlace == Ownership => AtMostOnePlace
<1> SUFFICES ASSUME Ownership PROVE AtMostOnePlace
  OBVIOUS
<1>1. ASSUME NEW p \in Priorities, NEW q \in Priorities,
             NEW i \in 1..Len(list[p]), NEW k \in 1..Len(list[q]), list[p][i] = list[q][k]
      PROVE  p = q /\ i = k
  BY <1>1 DEF Ownership, Owned, ListsInOrder
<1>2. ASSUME NEW j \in Jobs
      PROVE  /\ InList(j) => HeldBy(j) = {} /\ PushedBy(j) = {} /\ ~Recovered(j)
             /\ \A l, m \in HeldBy(j) : l = m
             /\ HeldBy(j) # {} => PushedBy(j) = {} /\ ~Recovered(j)
             /\ \A s, t \in PushedBy(j) : s = t
             /\ PushedBy(j) # {} => ~Recovered(j)
  <2> USE DEF Ownership, Owned, QueuedWaits, LoopsOwn, SubmittersOwn, RecoveryOwns,
              HeldBy, PushedBy, Recovered, Holding
  <2>1. InList(j) => HeldBy(j) = {} /\ PushedBy(j) = {} /\ ~Recovered(j)
    OBVIOUS
  <2>2. \A l, m \in HeldBy(j) : l = m
    OBVIOUS
  <2>3. HeldBy(j) # {} => PushedBy(j) = {} /\ ~Recovered(j)
    OBVIOUS
  <2>4. \A s, t \in PushedBy(j) : s = t
    OBVIOUS
  <2>5. PushedBy(j) # {} => ~Recovered(j)
    OBVIOUS
  <2> QED
    BY <2>1, <2>2, <2>3, <2>4, <2>5
<1> QED
  BY <1>1, <1>2 DEF AtMostOnePlace

\* No job is ever in two places, so none ever runs twice at the same time:
\* whatever commands fail, whenever the server dies, whatever is pruned, with
\* any number of loops and submitters (dequeue, _handle_failure,
\* recover_orphaned_running, _prune_stale_pending).
THEOREM OneOwner == Spec => []AtMostOnePlace
  BY OwnershipInvariant, OwnershipGivesOnePlace, PTL

-----------------------------------------------------------------------------
(* Finished jobs.                                                          *)

\* A job that ended COMPLETED or HELD has no owner but the loop that settles it.
FinishedRests ==
    \A j \in Jobs : state[j] \in {"completed", "held"} =>
        /\ ~InList(j) /\ ~Recovered(j)
        /\ \A l \in Loops : job[l] = j => pc[l] \in {"unregister",
             "recent"} /\ outcome[l] # "failed"
        /\ \A s \in Submitters : sjob[s] # j

\* A finished job gets no owner again.
LEMMA NextFinished == Ownership /\ FinishedRests /\ [Next]_vars => FinishedRests'
<1> SUFFICES ASSUME Ownership, FinishedRests, [Next]_vars PROVE FinishedRests'
  OBVIOUS
<1>1. Ownership
  OBVIOUS
<1> USE DEF FinishedRests, Ownership, Owned, QueuedWaits, LoopsOwn, SubmittersOwn, RecoveryOwns,
            Recovered, TypeOK, RecordTypes, LoopTypes, SubmitterTypes, WorkerTypes, Holding,
            record, index, worker, loop, sub
<1>2. CASE UNCHANGED vars
  BY <1>2, UnchangedLists DEF vars
<1>3. ASSUME NEW l \in Loops, NEW r \in Reply, Poll(l, r) PROVE FinishedRests'
  <2>1. UNCHANGED list
    BY <1>3 DEF Poll, index
  <2> QED
    BY <1>3, <2>1, UnchangedLists, Constants DEF Poll, Step, Priorities
<1>4. ASSUME NEW l \in Loops, NEW r \in Reply, Pop(l, r) PROVE FinishedRests'
  <2>1. /\ \A i \in Jobs : InList(i)' => InList(i)
        /\ pc[l] \in Priorities /\ job[l] \notin Jobs
        /\ UNCHANGED <<record, worker, sub, failures>>
    BY <1>1, <1>4, PopStep
  <2>2. CASE \E next \in {"poll", "medium", "low"} : Step(l, next)
    <3>1. PICK next \in {"poll", "medium", "low"} : Step(l, next)
      BY <2>2
    <3> QED
      BY <2>1, <3>1, Constants DEF Step, Priorities
  <2>3. ASSUME NEW j \in Jobs, InList(j), ~InList(j)',
               pc' = [pc EXCEPT ![l] = "load"], job' = [job EXCEPT ![l] = j],
               UNCHANGED <<seen, outcome>>
        PROVE  FinishedRests'
    BY <2>1, <2>3 DEF Priorities
  <2> QED
    BY <1>1, <1>4, <2>2, <2>3, PopStep
<1>5. ASSUME NEW l \in Loops, NEW r \in Reply, Load(l, r) PROVE FinishedRests'
  <2>1. UNCHANGED list
    BY <1>5 DEF Load, index
  <2> QED
    BY <1>5, <2>1, UnchangedLists, Constants DEF Load, Step
<1>6. ASSUME NEW l \in Loops, NEW r \in Reply, MarkRunning(l, r) PROVE FinishedRests'
  <2>1. UNCHANGED list
    BY <1>6 DEF MarkRunning, index
  <2> QED
    BY <1>6, <2>1, UnchangedLists, Constants DEF MarkRunning, Step, AbandonTick
<1>7. ASSUME NEW l \in Loops, NEW r \in Reply, Register(l, r) PROVE FinishedRests'
  <2>1. UNCHANGED list
    BY <1>7 DEF Register, index
  <2> QED
    BY <1>7, <2>1, UnchangedLists, Constants DEF Register, Step, AbandonTick
<1>8. ASSUME NEW l \in Loops, NEW o \in {"completed", "held", "failed", "rejected"}, Run(l,
     o) PROVE FinishedRests'
  <2>1. UNCHANGED list
    BY <1>8 DEF Run, index
  <2> QED
    BY <1>8, <2>1, UnchangedLists, Constants DEF Run
<1>9. ASSUME NEW l \in Loops, NEW r \in Reply, Settle(l, r) PROVE FinishedRests'
  <2>1. UNCHANGED list
    BY <1>9 DEF Settle, index
  <2> QED
    BY <1>9, <2>1, UnchangedLists, Constants DEF Settle, Step, AfterMark, Terminal, Raised, Executed
<1>10. ASSUME NEW l \in Loops, NEW r \in Reply, Unregister(l, r) PROVE FinishedRests'
  <2>1. UNCHANGED list
    BY <1>10 DEF Unregister, index
  <2> QED
    BY <1>10, <2>1, UnchangedLists, Constants DEF Unregister, Step, AfterMark, Raised
<1>11. ASSUME NEW l \in Loops, NEW r \in Reply, AddRecent(l, r) PROVE FinishedRests'
  <2>1. UNCHANGED list
    BY <1>11 DEF AddRecent, index
  <2> QED
    BY <1>11, <2>1, UnchangedLists, Constants DEF AddRecent, Step, AfterMark
<1>12. ASSUME NEW l \in Loops, NEW r \in Reply, Retry(l, r) PROVE FinishedRests'
  <2>1. UNCHANGED list
    BY <1>12 DEF Retry, index
  <2> QED
    BY <1>12, <2>1, UnchangedLists, Constants DEF Retry, Step, Raised, Executed
<1>13. ASSUME NEW l \in Loops, Exhausted(l) PROVE FinishedRests'
  <2>1. UNCHANGED list
    BY <1>13 DEF Exhausted, index
  <2> QED
    BY <1>13, <2>1, UnchangedLists, Constants DEF Exhausted, Step
<1>14. ASSUME NEW l \in Loops, NEW r \in Reply, Repush(l, r) PROVE FinishedRests'
  <2>1. job[l] \in Jobs /\ \A i \in Jobs : InList(i)' => InList(i) \/ i = job[l]
    BY <1>1, <1>14, PushingSteps
  <2> QED
    BY <1>14, <2>1, Constants DEF Repush, Step, Priorities
<1>15. ASSUME NEW s \in Submitters, NEW j \in Jobs, Enqueue(s, j) PROVE FinishedRests'
  <2>1. UNCHANGED list
    BY <1>15 DEF Enqueue, index, Begin
  <2> QED
    BY <1>15, <2>1, UnchangedLists, Constants DEF Enqueue, Begin
<1>16. ASSUME NEW s \in Submitters, NEW j \in Jobs, EnqueueIfAbsent(s, j) PROVE FinishedRests'
  <2>1. UNCHANGED list
    BY <1>16 DEF EnqueueIfAbsent, index, Begin
  <2> QED
    BY <1>16, <2>1, UnchangedLists, Constants DEF EnqueueIfAbsent, Begin
<1>17. ASSUME NEW s \in Submitters, NEW r \in Reply, ReadLists(s, r) PROVE FinishedRests'
  <2>1. UNCHANGED list
    BY <1>17 DEF ReadLists, index
  <2> QED
    BY <1>17, <2>1, UnchangedLists, Constants DEF ReadLists
<1>18. ASSUME NEW s \in Submitters, NEW r \in Reply, ReadRunning(s, r) PROVE FinishedRests'
  <2>1. UNCHANGED list
    BY <1>18 DEF ReadRunning, index
  <2> QED
    BY <1>18, <2>1, UnchangedLists, Constants DEF ReadRunning
<1>19. ASSUME NEW s \in Submitters, NEW r \in Reply, MatchRaised(s, r) PROVE FinishedRests'
  <2>1. UNCHANGED list
    BY <1>19 DEF MatchRaised, index
  <2> QED
    BY <1>19, <2>1, UnchangedLists, Constants DEF MatchRaised
<1>20. ASSUME NEW s \in Submitters, NEW e \in Jobs, SkipMissing(s, e) PROVE FinishedRests'
  <2>1. UNCHANGED list
    BY <1>20 DEF SkipMissing, index
  <2> QED
    BY <1>20, <2>1, UnchangedLists, Constants DEF SkipMissing
<1>21. ASSUME NEW s \in Submitters, NEW e \in Jobs, FindStale(s, e) PROVE FinishedRests'
  <2>1. UNCHANGED list
    BY <1>21 DEF FindStale, index
  <2> QED
    BY <1>21, <2>1, UnchangedLists, Constants DEF FindStale
<1>22. ASSUME NEW s \in Submitters, NEW e \in Jobs, Collapse(s, e) PROVE FinishedRests'
  <2>1. UNCHANGED list
    BY <1>22 DEF Collapse, index
  <2> QED
    BY <1>22, <2>1, UnchangedLists, Constants DEF Collapse, Forget
<1>23. ASSUME NEW s \in Submitters, NoMatch(s) PROVE FinishedRests'
  <2>1. UNCHANGED list
    BY <1>23 DEF NoMatch, index
  <2> QED
    BY <1>23, <2>1, UnchangedLists, Constants DEF NoMatch
<1>24. ASSUME NEW s \in Submitters, NEW r \in Reply, PruneRemove(s, r) PROVE FinishedRests'
  <2>1. \A i \in Jobs : InList(i)' => InList(i)
    BY <1>1, <1>24, PruneRemoveStep
  <2> QED
    BY <1>24, <2>1, Constants DEF PruneRemove, PruneStep
<1>25. ASSUME NEW s \in Submitters, NEW r \in Reply, PruneFail(s, r) PROVE FinishedRests'
  <2>1. UNCHANGED list
    BY <1>25 DEF PruneFail, index
  <2> QED
    BY <1>25, <2>1, UnchangedLists, Constants DEF PruneFail, PruneStep
<1>26. ASSUME NEW s \in Submitters, NEW r \in Reply, PruneRecent(s, r) PROVE FinishedRests'
  <2>1. UNCHANGED list
    BY <1>26 DEF PruneRecent, index
  <2> QED
    BY <1>26, <2>1, UnchangedLists, Constants DEF PruneRecent, PruneStep
<1>27. ASSUME NEW s \in Submitters, NEW r \in Reply, Save(s, r) PROVE FinishedRests'
  <2>1. UNCHANGED list
    BY <1>27 DEF Save, index
  <2> QED
    BY <1>27, <2>1, UnchangedLists, Constants DEF Save, Forget, Raised, Executed
<1>28. ASSUME NEW s \in Submitters, NEW r \in Reply, Push(s, r) PROVE FinishedRests'
  <2>1. sjob[s] \in Jobs /\ \A i \in Jobs : InList(i)' => InList(i) \/ i = sjob[s]
    BY <1>1, <1>28, PushingSteps
  <2> QED
    BY <1>28, <2>1, Constants DEF Push, Forget
<1>29. ASSUME NEW r \in Reply, Start(r) PROVE FinishedRests'
  <2>1. UNCHANGED list
    BY <1>29 DEF Start, index
  <2> QED
    BY <1>29, <2>1, UnchangedLists, Constants DEF Start
<1>30. ASSUME NEW j \in Jobs, NEW r \in Reply, Requeue(j, r) PROVE FinishedRests'
  <2>1. UNCHANGED list
    BY <1>30 DEF Requeue, index
  <2> QED
    BY <1>30, <2>1, UnchangedLists, Constants DEF Requeue, WasInterrupted, Raised, Executed
<1>31. ASSUME NEW r \in Reply, RequeuePush(r) PROVE FinishedRests'
  <2>1. orphan \in Jobs /\ \A i \in Jobs : InList(i)' => InList(i) \/ i = orphan
    BY <1>1, <1>31, PushingSteps
  <2> QED
    BY <1>31, <2>1, Constants DEF RequeuePush, Recovering
<1>32. ASSUME NEW r \in Reply, RequeueDone(r) PROVE FinishedRests'
  <2>1. UNCHANGED list
    BY <1>32 DEF RequeueDone, index
  <2> QED
    BY <1>32, <2>1, UnchangedLists, Constants DEF RequeueDone, Recovering
<1>33. ASSUME Spawn PROVE FinishedRests'
  <2>1. UNCHANGED list
    BY <1>33 DEF Spawn, index
  <2> QED
    BY <1>33, <2>1, UnchangedLists, Constants DEF Spawn
<1>34. ASSUME Stop PROVE FinishedRests'
  <2>1. UNCHANGED list
    BY <1>34 DEF Stop, index
  <2> QED
    BY <1>34, <2>1, UnchangedLists, Constants DEF Stop
<1>35. ASSUME Stopped PROVE FinishedRests'
  <2>1. UNCHANGED list
    BY <1>35 DEF Stopped, index
  <2> QED
    BY <1>35, <2>1, UnchangedLists, Constants DEF Stopped
<1>36. ASSUME Crash PROVE FinishedRests'
  <2>1. UNCHANGED list
    BY <1>36 DEF Crash, index
  <2> QED
    BY <1>36, <2>1, UnchangedLists, Constants DEF Crash
<1>37. ASSUME Pause PROVE FinishedRests'
  <2>1. UNCHANGED list
    BY <1>37 DEF Pause, index
  <2> QED
    BY <1>37, <2>1, UnchangedLists, Constants DEF Pause
<1>38. ASSUME Resume PROVE FinishedRests'
  <2>1. UNCHANGED list
    BY <1>38 DEF Resume, index
  <2> QED
    BY <1>38, <2>1, UnchangedLists, Constants DEF Resume
<1>39. ASSUME NEW j \in Jobs, Age(j) PROVE FinishedRests'
  <2>1. UNCHANGED list
    BY <1>39 DEF Age, index
  <2> QED
    BY <1>39, <2>1, UnchangedLists, Constants DEF Age
<1>40. ASSUME NEW j \in Jobs, Expire(j) PROVE FinishedRests'
  <2>1. UNCHANGED list
    BY <1>40 DEF Expire, index
  <2> QED
    BY <1>40, <2>1, UnchangedLists, Constants DEF Expire
<1>41. ASSUME NEW j \in Jobs, ListRecent(j) PROVE FinishedRests'
  <2>1. UNCHANGED list
    BY <1>41 DEF ListRecent, index
  <2> QED
    BY <1>41, <2>1, UnchangedLists, Constants DEF ListRecent
<1>42. ASSUME NEW l \in Loops, LoopStep(l) PROVE FinishedRests'
  BY <1>42, <1>3, <1>4, <1>5, <1>6, <1>7, <1>8, <1>9, <1>10, <1>11, <1>12, <1>13, <1>14
     DEF LoopStep
<1>43. ASSUME NEW s \in Submitters, SubmitterStep(s) PROVE FinishedRests'
  BY <1>43, <1>17, <1>18, <1>19, <1>20, <1>21, <1>22, <1>23, <1>24, <1>25, <1>26, <1>27, <1>28
     DEF SubmitterStep
<1>44. ASSUME StarterStep PROVE FinishedRests'
  BY <1>44, <1>29, <1>30, <1>31, <1>32, <1>33 DEF StarterStep
<1> QED
  BY <1>2, <1>15, <1>16, <1>34, <1>35, <1>36, <1>37, <1>38, <1>39, <1>40, <1>41, <1>42,
     <1>43, <1>44 DEF Next

LEMMA FinishedGivesStaysOut == FinishedRests => FinishedStaysOut
  BY DEF FinishedRests, FinishedStaysOut, HeldBy, Holding

\* A job that ended COMPLETED or HELD is never queued, recovered or run again
\* (recover_orphaned_running, mark_completed, mark_held).
THEOREM FinishedForGood == Spec => []FinishedStaysOut
<1>1. Init => FinishedRests
  BY DEF Init, FinishedRests
<1>2. Ownership /\ FinishedRests /\ [Next]_vars => FinishedRests'
  BY NextFinished
<1>3. FinishedRests => FinishedStaysOut
  BY FinishedGivesStaysOut
<1> QED
  BY <1>1, <1>2, <1>3, OwnershipInvariant, PTL DEF Spec

-----------------------------------------------------------------------------
(* The retry budget.                                                       *)

\* The loop's job has just raised and the record does not count the attempt yet.
HasFailedRun(l) == pc[l] \in {"settle", "unregister", "recent", "retry"} /\ outcome[l] = "failed"

\* The job will not run again.
GivenUp(j) ==
    /\ state[j] \in {"failed", "absent"}
    /\ ~InList(j) /\ ~Recovered(j)
    /\ \A l \in Loops : job[l] # j
    /\ \A s \in Submitters : sjob[s] # j

\* A loop knows the retry_count its job's record carries.
SeenIsRecorded ==
    \A l \in Loops :
        pc[l] \in Holding \ {"load", "repush"} => seen[l] = retry_count[job[l]]

\* A run that raised goes beyond the recorded attempts by one at most, and
\* then the record says FAILED until the retry saves the next attempt.
FailedRunsCounted ==
    \A l \in Loops : HasFailedRun(l) =>
        /\ failures[job[l]] <= seen[l] + 1 + crashes + errors
        /\ \/ pc[l] = "settle" \/ state[job[l]] = "failed"
           \/ failures[job[l]] <= seen[l] + crashes + errors

\* A job that may run again has raised no more often than its record says.
RunsBudgeted ==
    \A j \in Jobs :
        \/ failures[j] <= retry_count[j] + crashes + errors
        \/ GivenUp(j) /\ failures[j] <= MaxRetries + crashes + errors
        \/ \E l \in Loops : job[l] = j /\ HasFailedRun(l)

Budget == SeenIsRecorded /\ FailedRunsCounted /\ RunsBudgeted

LEMMA InitBudget == Init => Budget
  BY DEF Init, Budget, SeenIsRecorded, FailedRunsCounted, RunsBudgeted, HasFailedRun, Holding

\* Every step keeps the runs that raised within what the record allows.
LEMMA NextBudget == Ownership /\ Budget /\ [Next]_vars => Budget'
<1> SUFFICES ASSUME Ownership, Budget, [Next]_vars PROVE Budget'
  OBVIOUS
<1>1. Ownership
  OBVIOUS
<1> USE DEF Budget, SeenIsRecorded, FailedRunsCounted, RunsBudgeted, HasFailedRun, GivenUp,
            Ownership, Owned, QueuedWaits, LoopsOwn, SubmittersOwn, RecoveryOwns, Recovered,
            TypeOK, RecordTypes, LoopTypes, SubmitterTypes, WorkerTypes, CounterTypes, Holding,
            record, index, worker, loop, sub
<1>2. CASE UNCHANGED vars
  <2>1. UNCHANGED <<record, list, worker, loop, sub, errors, crashes, failures>>
    BY <1>2 DEF vars, faults
  <2> QED
    BY <2>1, UnchangedLists
<1>3. ASSUME NEW l \in Loops, NEW r \in Reply, Poll(l, r) PROVE Budget'
  <2>1. UNCHANGED list
    BY <1>3 DEF Poll, index
  <2> QED
    BY <1>3, <2>1, UnchangedLists, Constants, SMTT(30)
       DEF Poll, Step, Priorities, Redis, Raised, Executed, faults
<1>4. ASSUME NEW l \in Loops, NEW r \in Reply, Pop(l, r) PROVE Budget'
  <2>1. /\ \A i \in Jobs : InList(i)' => InList(i)
        /\ pc[l] \in Priorities /\ job[l] \notin Jobs
        /\ Redis(r) /\ UNCHANGED <<record, worker, sub, faults, failures>>
    BY <1>1, <1>4, PopStep
  <2>2. CASE \E next \in {"poll", "medium", "low"} : Step(l, next)
    <3>1. PICK next \in {"poll", "medium", "low"} : Step(l, next)
      BY <2>2
    <3> QED
      BY <2>1, <3>1, Constants, SMTT(30) DEF Step, Priorities, Redis, faults
  <2>3. ASSUME NEW j \in Jobs, InList(j), ~InList(j)',
               pc' = [pc EXCEPT ![l] = "load"], job' = [job EXCEPT ![l] = j],
               UNCHANGED <<seen, outcome>>
        PROVE  Budget'
    <3>1. errors' \in Nat /\ errors' >= errors /\ UNCHANGED <<state, retry_count, crashes,
         failures>>
      BY <2>1 DEF Redis, faults
    <3>2. SeenIsRecorded'
      BY <2>1, <2>3, <3>1
    <3>3. FailedRunsCounted'
      BY <2>1, <2>3, <3>1
    <3>4. ASSUME NEW i \in Jobs, i # j, GivenUp(i) PROVE GivenUp(i)'
      BY <2>1, <2>3, <3>4
    <3>5. ASSUME NEW i \in Jobs, NEW m \in Loops, job[m] = i, HasFailedRun(m)
          PROVE  job'[m] = i /\ HasFailedRun(m)'
      BY <2>1, <2>3, <3>5 DEF Priorities
    <3>6. ~GivenUp(j)
      BY <2>3
    <3>7. RunsBudgeted'
      <4> SUFFICES ASSUME NEW i \in Jobs
                   PROVE  \/ failures'[i] <= retry_count'[i] + crashes' + errors'
                          \/ GivenUp(i)' /\ failures'[i] <= MaxRetries + crashes' + errors'
                          \/ \E m \in Loops : job'[m] = i /\ HasFailedRun(m)'
        OBVIOUS
      <4>1. CASE failures[i] <= retry_count[i] + crashes + errors
        BY <3>1, <4>1
      <4>2. CASE GivenUp(i) /\ failures[i] <= MaxRetries + crashes + errors
        BY <3>1, <3>4, <3>6, <4>2, Constants
      <4>3. CASE \E m \in Loops : job[m] = i /\ HasFailedRun(m)
        BY <3>5, <4>3
      <4> QED
        BY <4>1, <4>2, <4>3
    <3> QED
      BY <3>2, <3>3, <3>7
  <2> QED
    BY <1>1, <1>4, <2>2, <2>3, PopStep
<1>5. ASSUME NEW l \in Loops, NEW r \in Reply, Load(l, r) PROVE Budget'
  <2>1. UNCHANGED list
    BY <1>5 DEF Load, index
  <2>2. SeenIsRecorded'
    BY <1>5, <2>1, UnchangedLists, Constants DEF Load, Step, Redis, Raised, Executed, faults
  <2>3. FailedRunsCounted'
    BY <1>5, <2>1, UnchangedLists, Constants DEF Load, Step, Redis, Raised, Executed, faults
  <2>4. RunsBudgeted'
    BY <1>5, <2>1, UnchangedLists, Constants DEF Load, Step, Redis, Raised, Executed, faults
  <2> QED
    BY <2>2, <2>3, <2>4
<1>6. ASSUME NEW l \in Loops, NEW r \in Reply, MarkRunning(l, r) PROVE Budget'
  <2>1. UNCHANGED list
    BY <1>6 DEF MarkRunning, index
  <2>2. SeenIsRecorded'
    BY <1>6, <2>1, UnchangedLists, Constants DEF MarkRunning, Step, AbandonTick, Redis, Raised,
         Executed, faults
  <2>3. FailedRunsCounted'
    BY <1>6, <2>1, UnchangedLists, Constants DEF MarkRunning, Step, AbandonTick, Redis, Raised,
         Executed, faults
  <2>4. RunsBudgeted'
    BY <1>6, <2>1, UnchangedLists, Constants, SMTT(30)
       DEF MarkRunning, Step, AbandonTick, Redis, Raised, Executed, faults
  <2> QED
    BY <2>2, <2>3, <2>4
<1>7. ASSUME NEW l \in Loops, NEW r \in Reply, Register(l, r) PROVE Budget'
  <2>1. UNCHANGED list
    BY <1>7 DEF Register, index
  <2> QED
    BY <1>7, <2>1, UnchangedLists, Constants DEF Register, Step, AbandonTick, Redis, Raised,
         Executed, faults
<1>8. ASSUME NEW l \in Loops, NEW o \in {"completed", "held", "failed", "rejected"}, Run(l,
     o) PROVE Budget'
  <2>1. UNCHANGED list
    BY <1>8 DEF Run, index
  <2> QED
    BY <1>8, <2>1, UnchangedLists, Constants DEF Run, faults
<1>9. ASSUME NEW l \in Loops, NEW r \in Reply, Settle(l, r) PROVE Budget'
  <2>1. UNCHANGED list
    BY <1>9 DEF Settle, index
  <2> QED
    BY <1>9, <2>1, UnchangedLists, Constants DEF Settle, Step, AfterMark, Terminal, Raised,
         Executed, Redis, faults
<1>10. ASSUME NEW l \in Loops, NEW r \in Reply, Unregister(l, r) PROVE Budget'
  <2>1. UNCHANGED list
    BY <1>10 DEF Unregister, index
  <2> QED
    BY <1>10, <2>1, UnchangedLists, Constants DEF Unregister, Step, AfterMark, Raised, Redis,
         Executed, faults
<1>11. ASSUME NEW l \in Loops, NEW r \in Reply, AddRecent(l, r) PROVE Budget'
  <2>1. UNCHANGED list
    BY <1>11 DEF AddRecent, index
  <2> QED
    BY <1>11, <2>1, UnchangedLists, Constants, SMTT(30)
       DEF AddRecent, Step, AfterMark, Redis, Raised, Executed, faults
<1>12. ASSUME NEW l \in Loops, NEW r \in Reply, Retry(l, r) PROVE Budget'
  <2>1. UNCHANGED list
    BY <1>12 DEF Retry, index
  <2>2. SeenIsRecorded'
    BY <1>12, <2>1, UnchangedLists, Constants DEF Retry, Step, Raised, Executed, Redis, faults,
         HasBudget
  <2>3. FailedRunsCounted'
    BY <1>12, <2>1, UnchangedLists, Constants DEF Retry, Step, Raised, Executed, Redis, faults,
         HasBudget
  <2>4. RunsBudgeted'
    <3>1. /\ job[l] \in Jobs /\ seen[l] = retry_count[job[l]]
          /\ failures[job[l]] <= seen[l] + 1 + crashes + errors
      BY <1>12 DEF Retry
    <3>2. failures'[job[l]] <= retry_count'[job[l]] + crashes' + errors'
      BY <1>12, <3>1 DEF Retry, Raised, Executed, Redis, faults
    <3>3. \A i \in Jobs : i # job[l] => state'[i] = state[i] /\ retry_count'[i] = retry_count[i]
      BY <1>12, <3>1 DEF Retry
    <3>4. errors' >= errors /\ crashes' = crashes /\ failures' = failures /\ errors' \in Nat
      BY <1>12 DEF Retry, Redis, faults
    <3>5. ASSUME NEW i \in Jobs, i # job[l], GivenUp(i) PROVE GivenUp(i)'
      BY <1>12, <2>1, <3>3, <3>5, UnchangedLists, Constants DEF Retry, Step
    <3>6. ASSUME NEW i \in Jobs, i # job[l], NEW m \in Loops, job[m] = i, HasFailedRun(m)
          PROVE  job'[m] = i /\ HasFailedRun(m)'
      BY <1>12, <3>6 DEF Retry, Step
    <3> SUFFICES ASSUME NEW i \in Jobs, i # job[l]
                 PROVE  \/ failures'[i] <= retry_count'[i] + crashes' + errors'
                        \/ GivenUp(i)' /\ failures'[i] <= MaxRetries + crashes' + errors'
                        \/ \E m \in Loops : job'[m] = i /\ HasFailedRun(m)'
      BY <3>2
    <3>7. CASE failures[i] <= retry_count[i] + crashes + errors
      BY <3>3, <3>4, <3>7
    <3>8. CASE GivenUp(i) /\ failures[i] <= MaxRetries + crashes + errors
      BY <3>4, <3>5, <3>8, Constants
    <3>9. CASE \E m \in Loops : job[m] = i /\ HasFailedRun(m)
      BY <3>6, <3>9
    <3> QED
      BY <3>7, <3>8, <3>9
  <2> QED
    BY <2>2, <2>3, <2>4
<1>13. ASSUME NEW l \in Loops, Exhausted(l) PROVE Budget'
  <2>1. UNCHANGED list
    BY <1>13 DEF Exhausted, index
  <2> QED
    BY <1>13, <2>1, UnchangedLists, Constants DEF Exhausted, Step, faults, HasBudget
<1>14. ASSUME NEW l \in Loops, NEW r \in Reply, Repush(l, r) PROVE Budget'
  <2>1. job[l] \in Jobs /\ \A i \in Jobs : InList(i)' => InList(i) \/ i = job[l]
    BY <1>1, <1>14, PushingSteps
  <2>2. SeenIsRecorded'
    BY <1>14, <2>1, Constants DEF Repush, Step, Priorities, Redis, Raised, Executed, faults
  <2>3. FailedRunsCounted'
    BY <1>14, <2>1, Constants, SMTT(30) DEF Repush, Step, Priorities, Redis, Raised, Executed, faults
  <2>4. RunsBudgeted'
    BY <1>14, <2>1, Constants, SMTT(30) DEF Repush, Step, Priorities, Redis, Raised, Executed, faults
  <2> QED
    BY <2>2, <2>3, <2>4
<1>15. ASSUME NEW s \in Submitters, NEW j \in Jobs, Enqueue(s, j) PROVE Budget'
  <2>1. UNCHANGED list
    BY <1>15 DEF Enqueue, index, Begin
  <2> QED
    BY <1>15, <2>1, UnchangedLists, Constants DEF Enqueue, Begin, faults
<1>16. ASSUME NEW s \in Submitters, NEW j \in Jobs, EnqueueIfAbsent(s, j) PROVE Budget'
  <2>1. UNCHANGED list
    BY <1>16 DEF EnqueueIfAbsent, index, Begin
  <2> QED
    BY <1>16, <2>1, UnchangedLists, Constants DEF EnqueueIfAbsent, Begin, faults
<1>17. ASSUME NEW s \in Submitters, NEW r \in Reply, ReadLists(s, r) PROVE Budget'
  <2>1. UNCHANGED list
    BY <1>17 DEF ReadLists, index
  <2> QED
    BY <1>17, <2>1, UnchangedLists, Constants DEF ReadLists, Redis, Raised, Executed, faults
<1>18. ASSUME NEW s \in Submitters, NEW r \in Reply, ReadRunning(s, r) PROVE Budget'
  <2>1. UNCHANGED list
    BY <1>18 DEF ReadRunning, index
  <2> QED
    BY <1>18, <2>1, UnchangedLists, Constants DEF ReadRunning, Redis, Raised, Executed, faults
<1>19. ASSUME NEW s \in Submitters, NEW r \in Reply, MatchRaised(s, r) PROVE Budget'
  <2>1. UNCHANGED list
    BY <1>19 DEF MatchRaised, index
  <2> QED
    BY <1>19, <2>1, UnchangedLists, Constants DEF MatchRaised, Redis, Raised, Executed, faults
<1>20. ASSUME NEW s \in Submitters, NEW e \in Jobs, SkipMissing(s, e) PROVE Budget'
  <2>1. UNCHANGED list
    BY <1>20 DEF SkipMissing, index
  <2> QED
    BY <1>20, <2>1, UnchangedLists, Constants DEF SkipMissing, faults
<1>21. ASSUME NEW s \in Submitters, NEW e \in Jobs, FindStale(s, e) PROVE Budget'
  <2>1. UNCHANGED list
    BY <1>21 DEF FindStale, index
  <2> QED
    BY <1>21, <2>1, UnchangedLists, Constants DEF FindStale, faults
<1>22. ASSUME NEW s \in Submitters, NEW e \in Jobs, Collapse(s, e) PROVE Budget'
  <2>1. UNCHANGED list
    BY <1>22 DEF Collapse, index
  <2> QED
    BY <1>22, <2>1, UnchangedLists, Constants DEF Collapse, Forget, faults
<1>23. ASSUME NEW s \in Submitters, NoMatch(s) PROVE Budget'
  <2>1. UNCHANGED list
    BY <1>23 DEF NoMatch, index
  <2> QED
    BY <1>23, <2>1, UnchangedLists, Constants DEF NoMatch, faults
<1>24. ASSUME NEW s \in Submitters, NEW r \in Reply, PruneRemove(s, r) PROVE Budget'
  <2>1. \A i \in Jobs : InList(i)' => InList(i)
    BY <1>1, <1>24, PruneRemoveStep
  <2> QED
    BY <1>24, <2>1, Constants DEF PruneRemove, PruneStep, Redis, Raised, Executed, faults
<1>25. ASSUME NEW s \in Submitters, NEW r \in Reply, PruneFail(s, r) PROVE Budget'
  <2>1. UNCHANGED list
    BY <1>25 DEF PruneFail, index
  <2> QED
    BY <1>25, <2>1, UnchangedLists, Constants DEF PruneFail, PruneStep, Redis, Raised, Executed,
         faults
<1>26. ASSUME NEW s \in Submitters, NEW r \in Reply, PruneRecent(s, r) PROVE Budget'
  <2>1. UNCHANGED list
    BY <1>26 DEF PruneRecent, index
  <2> QED
    BY <1>26, <2>1, UnchangedLists, Constants, SMTT(30)
       DEF PruneRecent, PruneStep, Redis, Raised,
         Executed, faults
<1>27. ASSUME NEW s \in Submitters, NEW r \in Reply, Save(s, r) PROVE Budget'
  <2>1. UNCHANGED list
    BY <1>27 DEF Save, index
  <2> QED
    BY <1>27, <2>1, UnchangedLists, Constants DEF Save, Forget, Raised, Executed, Redis, faults
<1>28. ASSUME NEW s \in Submitters, NEW r \in Reply, Push(s, r) PROVE Budget'
  <2>1. sjob[s] \in Jobs /\ \A i \in Jobs : InList(i)' => InList(i) \/ i = sjob[s]
    BY <1>1, <1>28, PushingSteps
  <2> QED
    BY <1>28, <2>1, Constants DEF Push, Forget, Redis, Raised, Executed, faults
<1>29. ASSUME NEW r \in Reply, Start(r) PROVE Budget'
  <2>1. UNCHANGED list
    BY <1>29 DEF Start, index
  <2> QED
    BY <1>29, <2>1, UnchangedLists, Constants DEF Start, Redis, Raised, Executed, faults
<1>30. ASSUME NEW j \in Jobs, NEW r \in Reply, Requeue(j, r) PROVE Budget'
  <2>1. UNCHANGED list
    BY <1>30 DEF Requeue, index
  <2> QED
    BY <1>30, <2>1, UnchangedLists, Constants DEF Requeue, WasInterrupted, Raised, Executed,
         Redis, faults
<1>31. ASSUME NEW r \in Reply, RequeuePush(r) PROVE Budget'
  <2>1. orphan \in Jobs /\ \A i \in Jobs : InList(i)' => InList(i) \/ i = orphan
    BY <1>1, <1>31, PushingSteps
  <2> QED
    BY <1>31, <2>1, Constants DEF RequeuePush, Recovering, Redis, Raised, Executed, faults
<1>32. ASSUME NEW r \in Reply, RequeueDone(r) PROVE Budget'
  <2>1. UNCHANGED list
    BY <1>32 DEF RequeueDone, index
  <2> QED
    BY <1>32, <2>1, UnchangedLists, Constants DEF RequeueDone, Recovering, Redis, Raised,
         Executed, faults
<1>33. ASSUME Spawn PROVE Budget'
  <2>1. UNCHANGED list
    BY <1>33 DEF Spawn, index
  <2> QED
    BY <1>33, <2>1, UnchangedLists, Constants DEF Spawn, faults
<1>34. ASSUME Stop PROVE Budget'
  <2>1. UNCHANGED list
    BY <1>34 DEF Stop, index
  <2> QED
    BY <1>34, <2>1, UnchangedLists, Constants DEF Stop, faults
<1>35. ASSUME Stopped PROVE Budget'
  <2>1. UNCHANGED list
    BY <1>35 DEF Stopped, index
  <2> QED
    BY <1>35, <2>1, UnchangedLists, Constants DEF Stopped, faults
<1>36. ASSUME Crash PROVE Budget'
  <2>1. UNCHANGED list
    BY <1>36 DEF Crash, index
  <2>2. SeenIsRecorded'
    BY <1>36, <2>1, UnchangedLists, Constants DEF Crash, faults
  <2>3. FailedRunsCounted'
    BY <1>36, <2>1, UnchangedLists, Constants DEF Crash, faults
  <2>4. RunsBudgeted'
    <3> SUFFICES ASSUME NEW j \in Jobs
                 PROVE  \/ failures'[j] <= retry_count'[j] + crashes' + errors'
                        \/ GivenUp(j)' /\ failures'[j] <= MaxRetries + crashes' + errors'
      OBVIOUS
    <3>1. UNCHANGED <<state, retry_count, errors, failures>> /\ crashes' = crashes + 1
      BY <1>36 DEF Crash
    <3>2. CASE failures[j] <= retry_count[j] + crashes + errors
      BY <3>1, <3>2
    <3>3. CASE GivenUp(j) /\ failures[j] <= MaxRetries + crashes + errors
      <4>1. GivenUp(j)'
        BY <1>36, <2>1, <3>1, <3>3, UnchangedLists, Constants DEF Crash
      <4> QED
        BY <3>1, <3>3, <4>1, Constants
    <3>4. CASE \E l \in Loops : job[l] = j /\ HasFailedRun(l)
      BY <3>1, <3>4
    <3> QED
      BY <3>2, <3>3, <3>4
  <2> QED
    BY <2>2, <2>3, <2>4
<1>37. ASSUME Pause PROVE Budget'
  <2>1. UNCHANGED list
    BY <1>37 DEF Pause, index
  <2> QED
    BY <1>37, <2>1, UnchangedLists, Constants DEF Pause, faults
<1>38. ASSUME Resume PROVE Budget'
  <2>1. UNCHANGED list
    BY <1>38 DEF Resume, index
  <2> QED
    BY <1>38, <2>1, UnchangedLists, Constants DEF Resume, faults
<1>39. ASSUME NEW j \in Jobs, Age(j) PROVE Budget'
  <2>1. UNCHANGED list
    BY <1>39 DEF Age, index
  <2> QED
    BY <1>39, <2>1, UnchangedLists, Constants DEF Age, faults
<1>40. ASSUME NEW j \in Jobs, Expire(j) PROVE Budget'
  <2>1. UNCHANGED list
    BY <1>40 DEF Expire, index
  <2> QED
    BY <1>40, <2>1, UnchangedLists, Constants DEF Expire, faults
<1>41. ASSUME NEW j \in Jobs, ListRecent(j) PROVE Budget'
  <2>1. UNCHANGED list
    BY <1>41 DEF ListRecent, index
  <2> QED
    BY <1>41, <2>1, UnchangedLists, Constants DEF ListRecent, faults
<1>42. ASSUME NEW l \in Loops, LoopStep(l) PROVE Budget'
  BY <1>42, <1>3, <1>4, <1>5, <1>6, <1>7, <1>8, <1>9, <1>10, <1>11, <1>12, <1>13, <1>14
     DEF LoopStep
<1>43. ASSUME NEW s \in Submitters, SubmitterStep(s) PROVE Budget'
  BY <1>43, <1>17, <1>18, <1>19, <1>20, <1>21, <1>22, <1>23, <1>24, <1>25, <1>26, <1>27, <1>28
     DEF SubmitterStep
<1>44. ASSUME StarterStep PROVE Budget'
  BY <1>44, <1>29, <1>30, <1>31, <1>32, <1>33 DEF StarterStep
<1> QED
  BY <1>2, <1>15, <1>16, <1>34, <1>35, <1>36, <1>37, <1>38, <1>39, <1>40, <1>41, <1>42,
     <1>43, <1>44 DEF Next

LEMMA BudgetBoundsRuns == Ownership /\ Budget => FailedRunsWithinBudget
<1> SUFFICES ASSUME Ownership, Budget, NEW j \in Jobs
             PROVE  failures[j] <= MaxRetries + crashes + errors
  BY DEF FailedRunsWithinBudget
<1> USE DEF Ownership, TypeOK, RecordTypes, LoopTypes, CounterTypes
<1>1. CASE failures[j] <= retry_count[j] + crashes + errors
  BY <1>1, Constants
<1>2. CASE \E l \in Loops : job[l] = j /\ HasFailedRun(l)
  BY <1>2, Constants DEF Budget, FailedRunsCounted
<1> QED
  BY <1>1, <1>2 DEF Budget, RunsBudgeted

\* The run of a job raises at most MaxRetries times, plus once for every death of
\* the server and every Redis command that raised (_handle_failure,
\* recover_orphaned_running).
THEOREM RunsWithinBudget == Spec => []FailedRunsWithinBudget
<1>1. Ownership /\ Budget /\ [Next]_vars => Budget'
  BY NextBudget
<1>2. Ownership /\ Budget => FailedRunsWithinBudget
  BY BudgetBoundsRuns
<1> QED
  BY <1>1, <1>2, InitBudget, OwnershipInvariant, PTL DEF Spec

-----------------------------------------------------------------------------
(* The running set, seen by a loop.                                        *)

\* Only a slow job is ever pruned; between mark_running and the end of its run a
\* job's hash says RUNNING, or FAILED by a late prune, and during the run it is in
\* the running set.
Registered ==
    /\ aged \subseteq Slow
    /\ \A s \in Submitters : victim[s] \in Jobs => victim[s] \in Slow
    /\ \A l \in Loops : pc[l] \in {"register", "run"} =>
          /\ state[job[l]] \in {"running", "failed"}
          /\ state[job[l]] = "failed" => job[l] \in Slow
    /\ \A l \in Loops : pc[l] = "run" => job[l] \in running

LEMMA InitRegistered == Init => Registered
  BY Constants DEF Init, Registered

\* Nobody but its loop unregisters a job that runs, or rewrites its hash except
\* to write off a stale one.
LEMMA NextRegistered == Ownership /\ Registered /\ [Next]_vars => Registered'
<1> SUFFICES ASSUME Ownership, Registered, [Next]_vars PROVE Registered'
  OBVIOUS
<1> USE DEF Registered, Ownership, Owned, LoopsOwn, SubmittersOwn, TypeOK, RecordTypes, LoopTypes,
            SubmitterTypes, Holding, record, index, worker, loop, sub
<1>1. CASE UNCHANGED vars
  BY <1>1 DEF vars
<1>2. ASSUME NEW l \in Loops, NEW r \in Reply, Poll(l, r) PROVE Registered'
  BY <1>2, Constants DEF Poll, Step, Priorities, Raised, Executed
<1>3. ASSUME NEW l \in Loops, NEW r \in Reply, Pop(l, r) PROVE Registered'
  BY <1>3, Constants DEF Pop, Step, Priorities, NextPriority, Raised, Executed
<1>4. ASSUME NEW l \in Loops, NEW r \in Reply, Load(l, r) PROVE Registered'
  BY <1>4, Constants DEF Load, Step, Raised, Executed
<1>5. ASSUME NEW l \in Loops, NEW r \in Reply, MarkRunning(l, r) PROVE Registered'
  BY <1>5, Constants DEF MarkRunning, Step, AbandonTick, Raised, Executed
<1>6. ASSUME NEW l \in Loops, NEW r \in Reply, Register(l, r) PROVE Registered'
  BY <1>6, Constants DEF Register, Step, AbandonTick, Raised, Executed
<1>7. ASSUME NEW l \in Loops, NEW o \in {"completed", "held", "failed", "rejected"}, Run(l, o) PROVE Registered'
  BY <1>7, Constants DEF Run
<1>8. ASSUME NEW l \in Loops, NEW r \in Reply, Settle(l, r) PROVE Registered'
  BY <1>8, Constants DEF Settle, Step, AfterMark, Terminal, Raised, Executed
<1>9. ASSUME NEW l \in Loops, NEW r \in Reply, Unregister(l, r) PROVE Registered'
  BY <1>9, Constants DEF Unregister, Step, AfterMark, Raised, Executed
<1>10. ASSUME NEW l \in Loops, NEW r \in Reply, AddRecent(l, r) PROVE Registered'
  BY <1>10, Constants DEF AddRecent, Step, AfterMark, Raised, Executed
<1>11. ASSUME NEW l \in Loops, NEW r \in Reply, Retry(l, r) PROVE Registered'
  BY <1>11, Constants DEF Retry, Step, Raised, Executed
<1>12. ASSUME NEW l \in Loops, Exhausted(l) PROVE Registered'
  BY <1>12, Constants DEF Exhausted, Step
<1>13. ASSUME NEW l \in Loops, NEW r \in Reply, Repush(l, r) PROVE Registered'
  BY <1>13, Constants DEF Repush, Step, Priorities, Raised, Executed
<1>14. ASSUME NEW s \in Submitters, NEW j \in Jobs, Enqueue(s, j) PROVE Registered'
  BY <1>14, Constants DEF Enqueue, Begin
<1>15. ASSUME NEW s \in Submitters, NEW j \in Jobs, EnqueueIfAbsent(s, j) PROVE Registered'
  BY <1>15, Constants DEF EnqueueIfAbsent, Begin
<1>16. ASSUME NEW s \in Submitters, NEW r \in Reply, ReadLists(s, r) PROVE Registered'
  BY <1>16, Constants DEF ReadLists, Raised, Executed
<1>17. ASSUME NEW s \in Submitters, NEW r \in Reply, ReadRunning(s, r) PROVE Registered'
  BY <1>17, Constants DEF ReadRunning, Raised, Executed
<1>18. ASSUME NEW s \in Submitters, NEW r \in Reply, MatchRaised(s, r) PROVE Registered'
  BY <1>18, Constants DEF MatchRaised, Raised, Executed
<1>19. ASSUME NEW s \in Submitters, NEW e \in Jobs, SkipMissing(s, e) PROVE Registered'
  BY <1>19, Constants DEF SkipMissing
<1>20. ASSUME NEW s \in Submitters, NEW e \in Jobs, FindStale(s, e) PROVE Registered'
  BY <1>20, Constants DEF FindStale
<1>21. ASSUME NEW s \in Submitters, NEW e \in Jobs, Collapse(s, e) PROVE Registered'
  BY <1>21, Constants DEF Collapse, Forget
<1>22. ASSUME NEW s \in Submitters, NoMatch(s) PROVE Registered'
  BY <1>22, Constants DEF NoMatch
<1>23. ASSUME NEW s \in Submitters, NEW r \in Reply, PruneRemove(s, r) PROVE Registered'
  BY <1>23, Constants DEF PruneRemove, PruneStep, Raised, Executed
<1>24. ASSUME NEW s \in Submitters, NEW r \in Reply, PruneFail(s, r) PROVE Registered'
  BY <1>24, Constants DEF PruneFail, PruneStep, Raised, Executed
<1>25. ASSUME NEW s \in Submitters, NEW r \in Reply, PruneRecent(s, r) PROVE Registered'
  BY <1>25, Constants DEF PruneRecent, PruneStep, Raised, Executed
<1>26. ASSUME NEW s \in Submitters, NEW r \in Reply, Save(s, r) PROVE Registered'
  BY <1>26, Constants DEF Save, Forget, Raised, Executed
<1>27. ASSUME NEW s \in Submitters, NEW r \in Reply, Push(s, r) PROVE Registered'
  BY <1>27, Constants DEF Push, Forget, Raised, Executed
<1>28. ASSUME NEW r \in Reply, Start(r) PROVE Registered'
  BY <1>28, Constants DEF Start, Raised, Executed
<1>29. ASSUME NEW j \in Jobs, NEW r \in Reply, Requeue(j, r) PROVE Registered'
  BY <1>29, Constants DEF Requeue, WasInterrupted, Raised, Executed, WorkerTypes
<1>30. ASSUME NEW r \in Reply, RequeuePush(r) PROVE Registered'
  BY <1>30, Constants DEF RequeuePush, Recovering, Raised, Executed
<1>31. ASSUME NEW r \in Reply, RequeueDone(r) PROVE Registered'
  BY <1>31, Constants DEF RequeueDone, Recovering, Raised, Executed, WorkerTypes
<1>32. ASSUME Spawn PROVE Registered'
  BY <1>32, Constants DEF Spawn
<1>33. ASSUME Stop PROVE Registered'
  BY <1>33, Constants DEF Stop
<1>34. ASSUME Stopped PROVE Registered'
  BY <1>34, Constants DEF Stopped
<1>35. ASSUME Crash PROVE Registered'
  BY <1>35, Constants DEF Crash
<1>36. ASSUME Pause PROVE Registered'
  BY <1>36, Constants DEF Pause
<1>37. ASSUME Resume PROVE Registered'
  BY <1>37, Constants DEF Resume
<1>38. ASSUME NEW j \in Jobs, Age(j) PROVE Registered'
  BY <1>38, Constants DEF Age
<1>39. ASSUME NEW j \in Jobs, Expire(j) PROVE Registered'
  BY <1>39, Constants DEF Expire
<1>40. ASSUME NEW j \in Jobs, ListRecent(j) PROVE Registered'
  BY <1>40, Constants DEF ListRecent
<1>41. ASSUME NEW l \in Loops, LoopStep(l) PROVE Registered'
  BY <1>41, <1>2, <1>3, <1>4, <1>5, <1>6, <1>7, <1>8, <1>9, <1>10, <1>11, <1>12, <1>13 DEF
     LoopStep
<1>42. ASSUME NEW s \in Submitters, SubmitterStep(s) PROVE Registered'
  BY <1>42, <1>16, <1>17, <1>18, <1>19, <1>20, <1>21, <1>22, <1>23, <1>24, <1>25, <1>26, <1>27
     DEF SubmitterStep
<1>43. ASSUME StarterStep PROVE Registered'
  BY <1>43, <1>28, <1>29, <1>30, <1>31, <1>32 DEF StarterStep
<1> QED
  BY <1>1, <1>14, <1>15, <1>33, <1>34, <1>35, <1>36, <1>37, <1>38, <1>39, <1>40, <1>41, <1>42,
     <1>43 DEF Next

LEMMA RegisteredGivesRunning == Registered => RunningIsRegistered
  BY DEF Registered, RunningIsRegistered

\* While a job's body runs the next start would find it: it is in the running set
\* and its hash says RUNNING, unless a prune came late, for any number of loops
\* and submitters and whatever fails (mark_running, recover_orphaned_running).
THEOREM RunningAreRegistered == Spec => []RunningIsRegistered
<1>1. Ownership /\ Registered /\ [Next]_vars => Registered'
  BY NextRegistered
<1>2. Registered => RunningIsRegistered
  BY RegisteredGivesRunning
<1> QED
  BY <1>1, <1>2, InitRegistered, OwnershipInvariant, PTL DEF Spec

-----------------------------------------------------------------------------
(* The running set, seen from outside.                                     *)

\* With no command refused so far: what is registered is being run or settled
\* while the loops are up, and is still to be looked at while the recovery runs.
GhostsCleared ==
    errors = 0 =>
        /\ Serving => \A j \in running : \E l \in Loops :
                         job[l] = j /\ pc[l] \in {"run", "settle", "unregister"}
        /\ phase \in {"recover", "repush", "srem"} => running \subseteq todo
        /\ phase \in {"repush", "srem"} => orphan \in todo

\* A command that leaves the count of errors at zero was the first to be counted,
\* and was answered.
LEMMA NoErrorYet ==
  ASSUME TypeOK, NEW r \in Reply, Redis(r), errors' = 0
  PROVE  errors = 0 /\ r = "ok"
  BY DEF TypeOK, CounterTypes, Redis, Raised

LEMMA InitGhosts == Init => GhostsCleared
  BY DEF Init, GhostsCleared, Serving

\* The step of a loop whose job is not registered leaves the others where they are.
LEMMA OthersStay ==
  ASSUME GhostsCleared, NEW l \in Loops, pc[l] \notin {"run", "settle", "unregister"},
         \A m \in Loops \ {l} : pc'[m] = pc[m] /\ job'[m] = job[m],
         UNCHANGED <<running, worker>>, errors' = 0 => errors = 0
  PROVE  GhostsCleared'
  BY DEF GhostsCleared, Serving, worker

\* Without errors a job leaves the hands of its loop only after the SREM, and the
\* loops start only when the recovery has emptied the running set.
LEMMA NextGhosts == Ownership /\ GhostsCleared /\ [Next]_vars => GhostsCleared'
<1> SUFFICES ASSUME Ownership, GhostsCleared, [Next]_vars PROVE GhostsCleared'
  OBVIOUS
<1>0. TypeOK
  BY DEF Ownership
<1> USE DEF GhostsCleared, Serving, Ownership, Owned, LoopsOwn, TypeOK, IndexTypes, LoopTypes,
            WorkerTypes, Holding, index, worker, loop, sub
<1>1. CASE UNCHANGED vars
  BY <1>1 DEF vars
<1>2. ASSUME NEW l \in Loops, NEW r \in Reply, Poll(l, r) PROVE GhostsCleared'
  <2>1. /\ pc[l] \notin {"run", "settle", "unregister"} /\ UNCHANGED <<running, worker>>
        /\ \A m \in Loops \ {l} : pc'[m] = pc[m] /\ job'[m] = job[m]
    BY <1>2 DEF Poll, Step, Priorities
  <2>2. errors' = 0 => errors = 0
    BY <1>2, <1>0, NoErrorYet DEF Poll
  <2> QED
    BY <2>1, <2>2, OthersStay
<1>3. ASSUME NEW l \in Loops, NEW r \in Reply, Pop(l, r) PROVE GhostsCleared'
  <2>1. /\ pc[l] \notin {"run", "settle", "unregister"} /\ UNCHANGED <<running, worker>>
        /\ \A m \in Loops \ {l} : pc'[m] = pc[m] /\ job'[m] = job[m]
    BY <1>3 DEF Pop, Step, Priorities
  <2>2. errors' = 0 => errors = 0
    BY <1>3, <1>0, NoErrorYet DEF Pop
  <2> QED
    BY <2>1, <2>2, OthersStay
<1>4. ASSUME NEW l \in Loops, NEW r \in Reply, Load(l, r) PROVE GhostsCleared'
  <2>1. /\ pc[l] \notin {"run", "settle", "unregister"} /\ UNCHANGED <<running, worker>>
        /\ \A m \in Loops \ {l} : pc'[m] = pc[m] /\ job'[m] = job[m]
    BY <1>4 DEF Load, Step
  <2>2. errors' = 0 => errors = 0
    BY <1>4, <1>0, NoErrorYet DEF Load
  <2> QED
    BY <2>1, <2>2, OthersStay
<1>5. ASSUME NEW l \in Loops, NEW r \in Reply, MarkRunning(l, r) PROVE GhostsCleared'
  <2>1. /\ pc[l] \notin {"run", "settle", "unregister"} /\ UNCHANGED <<running, worker>>
        /\ \A m \in Loops \ {l} : pc'[m] = pc[m] /\ job'[m] = job[m]
    BY <1>5 DEF MarkRunning, Step, AbandonTick
  <2>2. errors' = 0 => errors = 0
    BY <1>5, <1>0, NoErrorYet DEF MarkRunning
  <2> QED
    BY <2>1, <2>2, OthersStay
<1>6. ASSUME NEW l \in Loops, NEW r \in Reply, Register(l, r) PROVE GhostsCleared'
  BY <1>6, <1>0, NoErrorYet, Constants DEF Register, Step, AbandonTick, Raised, Executed
<1>7. ASSUME NEW l \in Loops, NEW o \in {"completed", "held", "failed", "rejected"}, Run(l, o) PROVE GhostsCleared'
  BY <1>7, Constants DEF Run
<1>8. ASSUME NEW l \in Loops, NEW r \in Reply, Settle(l, r) PROVE GhostsCleared'
  BY <1>8, <1>0, NoErrorYet, Constants DEF Settle, Step, AfterMark, Terminal, Raised, Executed
<1>9. ASSUME NEW l \in Loops, NEW r \in Reply, Unregister(l, r) PROVE GhostsCleared'
  BY <1>9, <1>0, NoErrorYet, Constants DEF Unregister, Step, AfterMark, Raised, Executed
<1>10. ASSUME NEW l \in Loops, NEW r \in Reply, AddRecent(l, r) PROVE GhostsCleared'
  <2>1. /\ pc[l] \notin {"run", "settle", "unregister"} /\ UNCHANGED <<running, worker>>
        /\ \A m \in Loops \ {l} : pc'[m] = pc[m] /\ job'[m] = job[m]
    BY <1>10 DEF AddRecent, Step, AfterMark
  <2>2. errors' = 0 => errors = 0
    BY <1>10, <1>0, NoErrorYet DEF AddRecent
  <2> QED
    BY <2>1, <2>2, OthersStay
<1>11. ASSUME NEW l \in Loops, NEW r \in Reply, Retry(l, r) PROVE GhostsCleared'
  <2>1. /\ pc[l] \notin {"run", "settle", "unregister"} /\ UNCHANGED <<running, worker>>
        /\ \A m \in Loops \ {l} : pc'[m] = pc[m] /\ job'[m] = job[m]
    BY <1>11 DEF Retry, Step
  <2>2. errors' = 0 => errors = 0
    BY <1>11, <1>0, NoErrorYet DEF Retry
  <2> QED
    BY <2>1, <2>2, OthersStay
<1>12. ASSUME NEW l \in Loops, Exhausted(l) PROVE GhostsCleared'
  <2>1. /\ pc[l] \notin {"run", "settle", "unregister"} /\ UNCHANGED <<running, worker>>
        /\ \A m \in Loops \ {l} : pc'[m] = pc[m] /\ job'[m] = job[m]
    BY <1>12 DEF Exhausted, Step
  <2>2. UNCHANGED errors
    BY <1>12 DEF Exhausted
  <2> QED
    BY <2>1, <2>2, OthersStay
<1>13. ASSUME NEW l \in Loops, NEW r \in Reply, Repush(l, r) PROVE GhostsCleared'
  <2>1. /\ pc[l] \notin {"run", "settle", "unregister"} /\ UNCHANGED <<running, worker>>
        /\ \A m \in Loops \ {l} : pc'[m] = pc[m] /\ job'[m] = job[m]
    BY <1>13 DEF Repush, Step, Priorities
  <2>2. errors' = 0 => errors = 0
    BY <1>13, <1>0, NoErrorYet DEF Repush
  <2> QED
    BY <2>1, <2>2, OthersStay
<1>14. ASSUME NEW s \in Submitters, NEW j \in Jobs, Enqueue(s, j) PROVE GhostsCleared'
  BY <1>14, Constants DEF Enqueue, Begin
<1>15. ASSUME NEW s \in Submitters, NEW j \in Jobs, EnqueueIfAbsent(s, j) PROVE GhostsCleared'
  BY <1>15, Constants DEF EnqueueIfAbsent, Begin
<1>16. ASSUME NEW s \in Submitters, NEW r \in Reply, ReadLists(s, r) PROVE GhostsCleared'
  BY <1>16, <1>0, NoErrorYet, Constants DEF ReadLists, Raised, Executed
<1>17. ASSUME NEW s \in Submitters, NEW r \in Reply, ReadRunning(s, r) PROVE GhostsCleared'
  BY <1>17, <1>0, NoErrorYet, Constants DEF ReadRunning, Raised, Executed
<1>18. ASSUME NEW s \in Submitters, NEW r \in Reply, MatchRaised(s, r) PROVE GhostsCleared'
  BY <1>18, <1>0, NoErrorYet, Constants DEF MatchRaised, Raised, Executed
<1>19. ASSUME NEW s \in Submitters, NEW e \in Jobs, SkipMissing(s, e) PROVE GhostsCleared'
  BY <1>19, Constants DEF SkipMissing
<1>20. ASSUME NEW s \in Submitters, NEW e \in Jobs, FindStale(s, e) PROVE GhostsCleared'
  BY <1>20, Constants DEF FindStale
<1>21. ASSUME NEW s \in Submitters, NEW e \in Jobs, Collapse(s, e) PROVE GhostsCleared'
  BY <1>21, Constants DEF Collapse, Forget
<1>22. ASSUME NEW s \in Submitters, NoMatch(s) PROVE GhostsCleared'
  BY <1>22, Constants DEF NoMatch
<1>23. ASSUME NEW s \in Submitters, NEW r \in Reply, PruneRemove(s, r) PROVE GhostsCleared'
  BY <1>23, <1>0, NoErrorYet, Constants DEF PruneRemove, PruneStep, Raised, Executed
<1>24. ASSUME NEW s \in Submitters, NEW r \in Reply, PruneFail(s, r) PROVE GhostsCleared'
  BY <1>24, <1>0, NoErrorYet, Constants DEF PruneFail, PruneStep, Raised, Executed
<1>25. ASSUME NEW s \in Submitters, NEW r \in Reply, PruneRecent(s, r) PROVE GhostsCleared'
  BY <1>25, <1>0, NoErrorYet, Constants DEF PruneRecent, PruneStep, Raised, Executed
<1>26. ASSUME NEW s \in Submitters, NEW r \in Reply, Save(s, r) PROVE GhostsCleared'
  BY <1>26, <1>0, NoErrorYet, Constants DEF Save, Forget, Raised, Executed
<1>27. ASSUME NEW s \in Submitters, NEW r \in Reply, Push(s, r) PROVE GhostsCleared'
  BY <1>27, <1>0, NoErrorYet, Constants DEF Push, Forget, Raised, Executed
<1>28. ASSUME NEW r \in Reply, Start(r) PROVE GhostsCleared'
  BY <1>28, <1>0, NoErrorYet, Constants DEF Start, Raised, Executed
<1>29. ASSUME NEW j \in Jobs, NEW r \in Reply, Requeue(j, r) PROVE GhostsCleared'
  BY <1>29, <1>0, NoErrorYet, Constants DEF Requeue, WasInterrupted, Raised, Executed
<1>30. ASSUME NEW r \in Reply, RequeuePush(r) PROVE GhostsCleared'
  BY <1>30, <1>0, NoErrorYet, Constants DEF RequeuePush, Recovering, Raised, Executed
<1>31. ASSUME NEW r \in Reply, RequeueDone(r) PROVE GhostsCleared'
  BY <1>31, <1>0, NoErrorYet, Constants DEF RequeueDone, Recovering, Raised, Executed
<1>32. ASSUME Spawn PROVE GhostsCleared'
  BY <1>32, Constants DEF Spawn
<1>33. ASSUME Stop PROVE GhostsCleared'
  BY <1>33, Constants DEF Stop
<1>34. ASSUME Stopped PROVE GhostsCleared'
  BY <1>34, Constants DEF Stopped
<1>35. ASSUME Crash PROVE GhostsCleared'
  BY <1>35, Constants DEF Crash
<1>36. ASSUME Pause PROVE GhostsCleared'
  BY <1>36, Constants DEF Pause
<1>37. ASSUME Resume PROVE GhostsCleared'
  BY <1>37, Constants DEF Resume
<1>38. ASSUME NEW j \in Jobs, Age(j) PROVE GhostsCleared'
  BY <1>38, Constants DEF Age
<1>39. ASSUME NEW j \in Jobs, Expire(j) PROVE GhostsCleared'
  BY <1>39, Constants DEF Expire
<1>40. ASSUME NEW j \in Jobs, ListRecent(j) PROVE GhostsCleared'
  BY <1>40, Constants DEF ListRecent
<1>41. ASSUME NEW l \in Loops, LoopStep(l) PROVE GhostsCleared'
  BY <1>41, <1>2, <1>3, <1>4, <1>5, <1>6, <1>7, <1>8, <1>9, <1>10, <1>11, <1>12, <1>13 DEF
     LoopStep
<1>42. ASSUME NEW s \in Submitters, SubmitterStep(s) PROVE GhostsCleared'
  BY <1>42, <1>16, <1>17, <1>18, <1>19, <1>20, <1>21, <1>22, <1>23, <1>24, <1>25, <1>26, <1>27
     DEF SubmitterStep
<1>43. ASSUME StarterStep PROVE GhostsCleared'
  BY <1>43, <1>28, <1>29, <1>30, <1>31, <1>32 DEF StarterStep
<1> QED
  BY <1>1, <1>14, <1>15, <1>33, <1>34, <1>35, <1>36, <1>37, <1>38, <1>39, <1>40, <1>41, <1>42,
     <1>43 DEF Next

LEMMA GhostsClearedGivesNone == Ownership /\ GhostsCleared => NoGhosts
  BY DEF GhostsCleared, NoGhosts, Ownership, TypeOK, LoopTypes, HeldBy, Holding, Serving

\* While the loops are up and no command has raised, the running set holds nothing
\* but jobs some loop executes or settles, whatever deaths and stops came before
\* (mark_completed, mark_failed, mark_held, recover_orphaned_running).
THEOREM NoGhostStays == Spec => []NoGhosts
<1>1. Ownership /\ GhostsCleared /\ [Next]_vars => GhostsCleared'
  BY NextGhosts
<1>2. Ownership /\ GhostsCleared => NoGhosts
  BY GhostsClearedGivesNone
<1> QED
  BY <1>1, <1>2, InitGhosts, OwnershipInvariant, PTL DEF Spec

-----------------------------------------------------------------------------
(* Nothing is lost without a failure.                                      *)

\* While no command was refused and no server died: a job whose hash says RUNNING
\* is in a loop's hands, one that says PENDING is in line, in hand or about to be
\* written off, and a loop that has saved a terminal record finds it so.
Accounted ==
    errors = 0 /\ crashes = 0 =>
        /\ \A j \in Jobs : state[j] = "running" => \E l \in Loops : job[l] = j
        /\ \A j \in Jobs : state[j] = "pending" =>
              \/ InList(j)
              \/ \E l \in Loops : job[l] = j
              \/ \E s \in Submitters : sjob[s] = j
              \/ \E s \in Submitters : spc[s] = "fail" /\ victim[s] = j
        /\ \A l \in Loops : pc[l] \in {"unregister", "recent", "retry"} =>
              state[job[l]] \in Terminal

LEMMA InitAccounted == Init => Accounted
  BY DEF Init, Accounted

\* A loop may drop a job that is neither PENDING nor RUNNING.
LEMMA DoneWith ==
  ASSUME Ownership, Accounted, NEW l \in Loops, Step(l, "poll"),
         UNCHANGED <<state, list, sub, crashes>>, errors' = 0 => errors = 0,
         errors = 0 /\ crashes = 0 => state[job[l]] \notin {"pending", "running"}
  PROVE  Accounted'
<1>1. /\ \A m \in Loops \ {l} : job'[m] = job[m] /\ pc'[m] = pc[m]
      /\ pc'[l] = "poll"
  BY DEF Step, Ownership, TypeOK, LoopTypes
<1> QED
  BY <1>1, UnchangedLists DEF Accounted, sub

\* A loop may go on with its job; past its terminal record it needs to find it so.
LEMMA HandsOn ==
  ASSUME Ownership, Accounted, NEW l \in Loops, NEW p, p # "poll", Step(l, p),
         UNCHANGED <<state, list, sub, crashes>>, errors' = 0 => errors = 0,
         errors = 0 /\ crashes = 0 /\ p \in {"unregister", "recent", "retry"}
           => state[job[l]] \in Terminal
  PROVE  Accounted'
<1>1. /\ job' = job /\ pc'[l] = p
      /\ \A m \in Loops \ {l} : pc'[m] = pc[m]
  BY DEF Step, Ownership, TypeOK, LoopTypes
<1>2. errors' = 0 /\ crashes' = 0 => errors = 0 /\ crashes = 0
  OBVIOUS
<1> QED
  BY <1>1, <1>2, UnchangedLists DEF Accounted, sub

\* A submitter that touches no record and no list, and is not about to write one off,
\* changes nothing for the others.
LEMMA ScanGoesOn ==
  ASSUME Accounted, UNCHANGED <<state, list, pc, job, sjob, crashes>>, errors' = 0 => errors = 0,
         \A s \in Submitters : spc[s] = "fail" => spc'[s] = "fail" /\ victim'[s] = victim[s]
  PROVE  Accounted'
<1>1. errors' = 0 /\ crashes' = 0 => errors = 0 /\ crashes = 0
  OBVIOUS
<1> QED
  BY <1>1, UnchangedLists DEF Accounted

\* Without failures a job goes from hand to hand until its record is terminal.
LEMMA NextAccounted == Ownership /\ Accounted /\ [Next]_vars => Accounted'
<1> SUFFICES ASSUME Ownership, Accounted, [Next]_vars PROVE Accounted'
  OBVIOUS
<1>0. Ownership /\ TypeOK
  BY DEF Ownership
<1> USE DEF Accounted, Terminal, Ownership, Owned, QueuedWaits, LoopsOwn, SubmittersOwn, RecoveryOwns,
            TypeOK, RecordTypes, LoopTypes, SubmitterTypes, WorkerTypes, CounterTypes, Holding, record, index, worker,
            loop, sub, faults
<1>1. CASE UNCHANGED vars
  BY <1>1, UnchangedLists DEF vars
<1>2. ASSUME NEW l \in Loops, NEW r \in Reply, Poll(l, r) PROVE Accounted'
  <2>1. UNCHANGED list
    BY <1>2 DEF Poll, index
  <2> QED
    BY <1>2, <1>0, <2>1, NoErrorYet, UnchangedLists, Constants DEF Poll, Step, Priorities, Raised,
       Executed
<1>3. ASSUME NEW l \in Loops, NEW r \in Reply, Pop(l, r) PROVE Accounted'
  <2>1. \/ UNCHANGED list /\ \E next \in {"poll", "medium", "low"} : Step(l, next)
        \/ r = "lost"
        \/ \E j \in Jobs : /\ ListsLose(j)
                         /\ pc' = [pc EXCEPT ![l] = "load"] /\ job' = [job EXCEPT ![l] = j]
    BY <1>3, <1>0, PopOutcome
  <2>2. errors' = 0 => errors = 0 /\ r = "ok"
    BY <1>3, <1>0, NoErrorYet DEF Pop
  <2>3. job[l] \notin Jobs /\ UNCHANGED <<record, worker, sub, crashes>>
    BY <1>3, <1>0, PopStep DEF faults
  <2>4. CASE UNCHANGED list /\ \E next \in {"poll", "medium", "low"} : Step(l, next)
    BY <2>2, <2>3, <2>4, UnchangedLists DEF Step
  <2>5. ASSUME NEW j \in Jobs, ListsLose(j),
               pc' = [pc EXCEPT ![l] = "load"], job' = [job EXCEPT ![l] = j]
        PROVE  Accounted'
    BY <2>2, <2>3, <2>5 DEF ListsLose
  <2> QED
    BY <2>1, <2>2, <2>4, <2>5
<1>4. ASSUME NEW l \in Loops, NEW r \in Reply, Load(l, r) PROVE Accounted'
  <2>1. UNCHANGED <<state, list, sub, crashes>>
    BY <1>4 DEF Load
  <2>2. errors' = 0 => errors = 0 /\ r = "ok"
    BY <1>4, <1>0, NoErrorYet DEF Load
  <2>3. CASE r = "ok" /\ Missing(job[l])
    <3>1. Step(l, "poll")
      BY <1>4, <2>3 DEF Load
    <3> QED
      BY <1>0, <2>1, <2>2, <2>3, <3>1, DoneWith DEF Missing
  <2>4. CASE r = "ok" /\ ~Missing(job[l])
    BY <1>4, <2>1, <2>2, <2>4, UnchangedLists DEF Load, Raised
  <2> QED
    BY <2>2, <2>3, <2>4
<1>5. ASSUME NEW l \in Loops, NEW r \in Reply, MarkRunning(l, r) PROVE Accounted'
  <2>1. UNCHANGED list
    BY <1>5 DEF MarkRunning, index
  <2> QED
    BY <1>5, <1>0, <2>1, NoErrorYet, UnchangedLists, Constants DEF MarkRunning, Step, AbandonTick,
       Raised, Executed
<1>6. ASSUME NEW l \in Loops, NEW r \in Reply, Register(l, r) PROVE Accounted'
  <2>1. UNCHANGED <<state, list, sub, crashes>>
    BY <1>6 DEF Register
  <2>2. errors' = 0 => errors = 0 /\ r = "ok"
    BY <1>6, <1>0, NoErrorYet DEF Register
  <2>3. CASE r = "ok"
    BY <1>6, <1>0, <2>1, <2>2, <2>3, HandsOn DEF Register, Raised
  <2> QED
    BY <2>2, <2>3
<1>7. ASSUME NEW l \in Loops, NEW o \in {"completed", "held", "failed", "rejected"}, Run(l, o) PROVE Accounted'
  <2>1. UNCHANGED list
    BY <1>7 DEF Run, index
  <2> QED
    BY <1>7, <1>0, <2>1, UnchangedLists, Constants DEF Run
<1>8. ASSUME NEW l \in Loops, NEW r \in Reply, Settle(l, r) PROVE Accounted'
  <2>1. UNCHANGED list
    BY <1>8 DEF Settle, index
  <2> QED
    BY <1>8, <1>0, <2>1, NoErrorYet, UnchangedLists, Constants DEF Settle, Step, AfterMark,
       Terminal, Raised, Executed
<1>9. ASSUME NEW l \in Loops, NEW r \in Reply, Unregister(l, r) PROVE Accounted'
  <2>1. UNCHANGED <<state, list, sub, crashes>> /\ pc[l] = "unregister"
    BY <1>9 DEF Unregister
  <2>2. errors' = 0 => errors = 0 /\ r = "ok"
    BY <1>9, <1>0, NoErrorYet DEF Unregister
  <2>3. errors = 0 /\ crashes = 0 => state[job[l]] \in Terminal
    BY <2>1
  <2>4. CASE r = "ok"
    BY <1>9, <1>0, <2>1, <2>2, <2>3, <2>4, HandsOn DEF Unregister, Raised
  <2> QED
    BY <2>2, <2>4
<1>10. ASSUME NEW l \in Loops, NEW r \in Reply, AddRecent(l, r) PROVE Accounted'
  <2>1. UNCHANGED <<state, list, sub, crashes>> /\ pc[l] = "recent"
    BY <1>10 DEF AddRecent
  <2>2. errors' = 0 => errors = 0
    BY <1>10, <1>0, NoErrorYet DEF AddRecent
  <2>3. errors = 0 /\ crashes = 0 => state[job[l]] \in Terminal
    BY <2>1
  <2>4. Step(l, "retry") \/ Step(l, "poll")
    BY <1>10 DEF AddRecent, AfterMark
  <2>5. CASE Step(l, "retry")
    BY <1>0, <2>1, <2>2, <2>3, <2>5, HandsOn
  <2>6. CASE Step(l, "poll")
    BY <1>0, <2>1, <2>2, <2>3, <2>6, DoneWith
  <2> QED
    BY <2>4, <2>5, <2>6
<1>11. ASSUME NEW l \in Loops, NEW r \in Reply, Retry(l, r) PROVE Accounted'
  <2>1. UNCHANGED list
    BY <1>11 DEF Retry, index
  <2> QED
    BY <1>11, <1>0, <2>1, NoErrorYet, UnchangedLists, Constants DEF Retry, Step, Raised, Executed
<1>12. ASSUME NEW l \in Loops, Exhausted(l) PROVE Accounted'
  <2>1. UNCHANGED <<state, list, sub, errors, crashes>> /\ Step(l, "poll")
    BY <1>12 DEF Exhausted
  <2>2. errors = 0 /\ crashes = 0 => state[job[l]] \in Terminal
    BY <1>12 DEF Exhausted
  <2> QED
    BY <1>0, <2>1, <2>2, DoneWith
<1>13. ASSUME NEW l \in Loops, NEW r \in Reply, Repush(l, r) PROVE Accounted'
  <2>1. job[l] \in Jobs /\ ~InList(job[l])
    BY <1>13 DEF Repush
  <2>2. IF Executed(r) THEN ListsGain(job[l]) ELSE UNCHANGED list
    BY <1>13, <1>0, <2>1, PushOutcome DEF Repush
  <2> QED
    BY <1>13, <1>0, <2>1, <2>2, NoErrorYet, UnchangedLists, Constants DEF ListsGain, Repush, Step,
       Priorities, Raised, Executed
<1>14. ASSUME NEW s \in Submitters, NEW j \in Jobs, Enqueue(s, j) PROVE Accounted'
  <2>1. UNCHANGED list
    BY <1>14 DEF Enqueue, index, Begin
  <2> QED
    BY <1>14, <1>0, <2>1, UnchangedLists, Constants DEF Enqueue, Begin
<1>15. ASSUME NEW s \in Submitters, NEW j \in Jobs, EnqueueIfAbsent(s, j) PROVE Accounted'
  <2>1. UNCHANGED list
    BY <1>15 DEF EnqueueIfAbsent, index, Begin
  <2> QED
    BY <1>15, <1>0, <2>1, UnchangedLists, Constants DEF EnqueueIfAbsent, Begin
<1>16. ASSUME NEW s \in Submitters, NEW r \in Reply, ReadLists(s, r) PROVE Accounted'
  <2>1. UNCHANGED <<state, list, pc, job, sjob, crashes>> /\ spc[s] # "fail"
    BY <1>16 DEF ReadLists
  <2>2. errors' = 0 => errors = 0
    BY <1>16, <1>0, NoErrorYet DEF ReadLists
  <2>3. \A t \in Submitters : spc[t] = "fail" => spc'[t] = "fail" /\ victim'[t] = victim[t]
    BY <1>16, <2>1 DEF ReadLists
  <2> QED
    BY <2>1, <2>2, <2>3, ScanGoesOn
<1>17. ASSUME NEW s \in Submitters, NEW r \in Reply, ReadRunning(s, r) PROVE Accounted'
  <2>1. UNCHANGED <<state, list, pc, job, sjob, crashes>> /\ spc[s] # "fail"
    BY <1>17 DEF ReadRunning
  <2>2. errors' = 0 => errors = 0
    BY <1>17, <1>0, NoErrorYet DEF ReadRunning
  <2>3. \A t \in Submitters : spc[t] = "fail" => spc'[t] = "fail" /\ victim'[t] = victim[t]
    BY <1>17, <2>1 DEF ReadRunning
  <2> QED
    BY <2>1, <2>2, <2>3, ScanGoesOn
<1>18. ASSUME NEW s \in Submitters, NEW r \in Reply, MatchRaised(s, r) PROVE Accounted'
  <2>1. UNCHANGED <<state, list, pc, job, sjob, crashes>> /\ spc[s] # "fail"
    BY <1>18 DEF MatchRaised
  <2>2. errors' = 0 => errors = 0
    BY <1>18, <1>0, NoErrorYet DEF MatchRaised
  <2>3. \A t \in Submitters : spc[t] = "fail" => spc'[t] = "fail" /\ victim'[t] = victim[t]
    BY <1>18, <2>1 DEF MatchRaised
  <2> QED
    BY <2>1, <2>2, <2>3, ScanGoesOn
<1>19. ASSUME NEW s \in Submitters, NEW e \in Jobs, SkipMissing(s, e) PROVE Accounted'
  <2>1. UNCHANGED <<state, list, pc, job, sjob, crashes>> /\ spc[s] # "fail"
    BY <1>19 DEF SkipMissing
  <2>2. errors' = 0 => errors = 0
    BY <1>19, <1>0 DEF SkipMissing
  <2>3. \A t \in Submitters : spc[t] = "fail" => spc'[t] = "fail" /\ victim'[t] = victim[t]
    BY <1>19, <2>1 DEF SkipMissing
  <2> QED
    BY <2>1, <2>2, <2>3, ScanGoesOn
<1>20. ASSUME NEW s \in Submitters, NEW e \in Jobs, FindStale(s, e) PROVE Accounted'
  <2>1. UNCHANGED <<state, list, pc, job, sjob, crashes>> /\ spc[s] # "fail"
    BY <1>20 DEF FindStale
  <2>2. errors' = 0 => errors = 0
    BY <1>20, <1>0 DEF FindStale
  <2>3. \A t \in Submitters : spc[t] = "fail" => spc'[t] = "fail" /\ victim'[t] = victim[t]
    BY <1>20, <2>1 DEF FindStale
  <2> QED
    BY <2>1, <2>2, <2>3, ScanGoesOn
<1>21. ASSUME NEW s \in Submitters, NEW e \in Jobs, Collapse(s, e) PROVE Accounted'
  <2>1. UNCHANGED list
    BY <1>21 DEF Collapse, index
  <2> QED
    BY <1>21, <1>0, <2>1, UnchangedLists, Constants DEF Collapse, Forget
<1>22. ASSUME NEW s \in Submitters, NoMatch(s) PROVE Accounted'
  <2>1. UNCHANGED <<state, list, pc, job, sjob, crashes>> /\ spc[s] # "fail"
    BY <1>22 DEF NoMatch
  <2>2. errors' = 0 => errors = 0
    BY <1>22, <1>0 DEF NoMatch
  <2>3. \A t \in Submitters : spc[t] = "fail" => spc'[t] = "fail" /\ victim'[t] = victim[t]
    BY <1>22, <2>1 DEF NoMatch
  <2> QED
    BY <2>1, <2>2, <2>3, ScanGoesOn
<1>23. ASSUME NEW s \in Submitters, NEW r \in Reply, PruneRemove(s, r) PROVE Accounted'
  <2>1. \A i \in Jobs : InList(i) /\ i # victim[s] => InList(i)'
    BY <1>23, <1>0, PruneRemoveStep
  <2> QED
    BY <1>23, <1>0, <2>1, NoErrorYet, Constants DEF PruneRemove, PruneStep, Raised, Executed
<1>24. ASSUME NEW s \in Submitters, NEW r \in Reply, PruneFail(s, r) PROVE Accounted'
  <2>1. UNCHANGED list
    BY <1>24 DEF PruneFail, index
  <2> QED
    BY <1>24, <1>0, <2>1, NoErrorYet, UnchangedLists, Constants DEF PruneFail, PruneStep, Raised,
       Executed
<1>25. ASSUME NEW s \in Submitters, NEW r \in Reply, PruneRecent(s, r) PROVE Accounted'
  <2>1. UNCHANGED list
    BY <1>25 DEF PruneRecent, index
  <2> QED
    BY <1>25, <1>0, <2>1, NoErrorYet, UnchangedLists, Constants DEF PruneRecent, PruneStep, Raised,
       Executed
<1>26. ASSUME NEW s \in Submitters, NEW r \in Reply, Save(s, r) PROVE Accounted'
  <2>1. UNCHANGED list
    BY <1>26 DEF Save, index
  <2> QED
    BY <1>26, <1>0, <2>1, NoErrorYet, UnchangedLists, Constants DEF Save, Forget, Raised, Executed
<1>27. ASSUME NEW s \in Submitters, NEW r \in Reply, Push(s, r) PROVE Accounted'
  <2>1. sjob[s] \in Jobs /\ ~InList(sjob[s])
    BY <1>27 DEF Push
  <2>2. IF Executed(r) THEN ListsGain(sjob[s]) ELSE UNCHANGED list
    BY <1>27, <1>0, <2>1, PushOutcome DEF Push
  <2> QED
    BY <1>27, <1>0, <2>1, <2>2, NoErrorYet, UnchangedLists, Constants DEF ListsGain, Push, Forget,
       Raised, Executed
<1>28. ASSUME NEW r \in Reply, Start(r) PROVE Accounted'
  <2>1. UNCHANGED list
    BY <1>28 DEF Start, index
  <2> QED
    BY <1>28, <1>0, <2>1, NoErrorYet, UnchangedLists, Constants DEF Start, Raised, Executed
<1>29. ASSUME NEW j \in Jobs, NEW r \in Reply, Requeue(j, r) PROVE Accounted'
  <2>1. UNCHANGED <<list, loop, sub, crashes>> /\ phase = "recover"
    BY <1>29 DEF Requeue, index
  <2>2. errors' = 0 => errors = 0 /\ r = "ok"
    BY <1>29, <1>0, NoErrorYet DEF Requeue
  <2>3. \A l \in Loops : job[l] = NoJob
    BY <2>1
  <2>4. errors = 0 /\ crashes = 0 => state[j] # "running"
    BY <2>3, Constants
  <2>5. errors = 0 /\ crashes = 0 => state' = state
    BY <1>29, <2>4 DEF Requeue, WasInterrupted
  <2> QED
    BY <2>1, <2>2, <2>5, UnchangedLists
<1>30. ASSUME NEW r \in Reply, RequeuePush(r) PROVE Accounted'
  <2>1. orphan \in Jobs /\ ~InList(orphan)
    BY <1>30 DEF RequeuePush
  <2>2. IF Executed(r) THEN ListsGain(orphan) ELSE UNCHANGED list
    BY <1>30, <1>0, <2>1, PushOutcome DEF RequeuePush
  <2> QED
    BY <1>30, <1>0, <2>1, <2>2, NoErrorYet, UnchangedLists, Constants DEF ListsGain, RequeuePush,
       Recovering, Raised, Executed
<1>31. ASSUME NEW r \in Reply, RequeueDone(r) PROVE Accounted'
  <2>1. UNCHANGED list
    BY <1>31 DEF RequeueDone, index
  <2> QED
    BY <1>31, <1>0, <2>1, NoErrorYet, UnchangedLists, Constants DEF RequeueDone, Recovering,
       Raised, Executed
<1>32. ASSUME Spawn PROVE Accounted'
  <2>1. UNCHANGED list
    BY <1>32 DEF Spawn, index
  <2> QED
    BY <1>32, <1>0, <2>1, UnchangedLists, Constants DEF Spawn
<1>33. ASSUME Stop PROVE Accounted'
  <2>1. UNCHANGED list
    BY <1>33 DEF Stop, index
  <2> QED
    BY <1>33, <1>0, <2>1, UnchangedLists, Constants DEF Stop
<1>34. ASSUME Stopped PROVE Accounted'
  <2>1. UNCHANGED list
    BY <1>34 DEF Stopped, index
  <2> QED
    BY <1>34, <1>0, <2>1, UnchangedLists, Constants DEF Stopped
<1>35. ASSUME Crash PROVE Accounted'
  <2>1. UNCHANGED list
    BY <1>35 DEF Crash, index
  <2> QED
    BY <1>35, <1>0, <2>1, UnchangedLists, Constants DEF Crash
<1>36. ASSUME Pause PROVE Accounted'
  <2>1. UNCHANGED list
    BY <1>36 DEF Pause, index
  <2> QED
    BY <1>36, <1>0, <2>1, UnchangedLists, Constants DEF Pause
<1>37. ASSUME Resume PROVE Accounted'
  <2>1. UNCHANGED list
    BY <1>37 DEF Resume, index
  <2> QED
    BY <1>37, <1>0, <2>1, UnchangedLists, Constants DEF Resume
<1>38. ASSUME NEW j \in Jobs, Age(j) PROVE Accounted'
  <2>1. UNCHANGED list
    BY <1>38 DEF Age, index
  <2> QED
    BY <1>38, <1>0, <2>1, UnchangedLists, Constants DEF Age
<1>39. ASSUME NEW j \in Jobs, Expire(j) PROVE Accounted'
  <2>1. UNCHANGED list
    BY <1>39 DEF Expire, index
  <2> QED
    BY <1>39, <1>0, <2>1, UnchangedLists, Constants DEF Expire
<1>40. ASSUME NEW j \in Jobs, ListRecent(j) PROVE Accounted'
  <2>1. UNCHANGED list
    BY <1>40 DEF ListRecent, index
  <2> QED
    BY <1>40, <1>0, <2>1, UnchangedLists, Constants DEF ListRecent
<1>41. ASSUME NEW l \in Loops, LoopStep(l) PROVE Accounted'
  BY <1>41, <1>2, <1>3, <1>4, <1>5, <1>6, <1>7, <1>8, <1>9, <1>10, <1>11, <1>12, <1>13 DEF
     LoopStep
<1>42. ASSUME NEW s \in Submitters, SubmitterStep(s) PROVE Accounted'
  BY <1>42, <1>16, <1>17, <1>18, <1>19, <1>20, <1>21, <1>22, <1>23, <1>24, <1>25, <1>26, <1>27
     DEF SubmitterStep
<1>43. ASSUME StarterStep PROVE Accounted'
  BY <1>43, <1>28, <1>29, <1>30, <1>31, <1>32 DEF StarterStep
<1> QED
  BY <1>1, <1>14, <1>15, <1>33, <1>34, <1>35, <1>36, <1>37, <1>38, <1>39, <1>40, <1>41, <1>42,
     <1>43 DEF Next

LEMMA AccountedGivesSomewhere == Ownership /\ Accounted => NothingLost
<1> SUFFICES ASSUME Ownership, Accounted, errors = 0, crashes = 0,
                    NEW j \in Jobs, state[j] \in {"pending", "running"}
             PROVE  Somewhere(j)
  BY DEF NothingLost
<1>1. ASSUME NEW l \in Loops, job[l] = j PROVE l \in HeldBy(j)
  BY <1>1 DEF Ownership, TypeOK, LoopTypes, HeldBy
<1>2. ASSUME NEW s \in Submitters, sjob[s] = j PROVE s \in PushedBy(j)
  BY <1>2 DEF Ownership, Owned, SubmittersOwn, PushedBy
<1> QED
  BY <1>1, <1>2 DEF Accounted, Somewhere

\* Without deaths and errors a job that has neither ended nor expired is always in
\* line, in a loop's hands, in a submitter's, or about to be written off by one,
\* for any number of them (enqueue_job, dequeue, _execute, _prune_stale_pending).
THEOREM NoJobIsLost == Spec => []NothingLost
<1>1. Ownership /\ Accounted /\ [Next]_vars => Accounted'
  BY NextAccounted
<1>2. Ownership /\ Accounted => NothingLost
  BY AccountedGivesSomewhere
<1> QED
  BY <1>1, <1>2, InitAccounted, OwnershipInvariant, PTL DEF Spec

-----------------------------------------------------------------------------
(* The queue implements the job pool.                                      *)

\* What the two abstract variables stand for.
Place   == [j \in Jobs |-> PlaceOf(j)]
Holders == [j \in Jobs |-> HeldBy(j)]

\* A submitter's job is in no other submitter's candidates, and once saved it is
\* PENDING until it is pushed: nothing prunes it in between.
NeverListed ==
    /\ \A s \in Submitters : spc[s] = "push" => state[sjob[s]] = "pending"
    /\ \A s, t \in Submitters : sjob[s] \in Jobs => sjob[s] \notin listed[t] /\ victim[t] # sjob[s]
    /\ \A t \in Submitters : \A e \in listed[t] : state[e] # "new"

LEMMA OnePlaceOnly ==
  ASSUME Ownership, NEW j \in Jobs
  PROVE  /\ ~(InList(j) /\ HeldBy(j) # {})
         /\ InList(j) => PlaceOf(j) = "waiting"
         /\ HeldBy(j) # {} => PlaceOf(j) = "owned"
         /\ ~InList(j) /\ HeldBy(j) = {} =>
               PlaceOf(j) = IF state[j] = "new" THEN "new"
                            ELSE IF state[j] \in Terminal \cup {"absent"} /\ ~Recovered(j) THEN "ended"
                            ELSE "adrift"
<1>1. ~(InList(j) /\ HeldBy(j) # {})
  BY DEF Ownership, Owned, LoopsOwn, HeldBy
<1> QED
  BY <1>1 DEF PlaceOf

\* A step in which one job moves, as the pool allows it to, is a step of the pool.
LEMMA PoolStep ==
  ASSUME NEW j \in Jobs,
         \A i \in Jobs \ {j} : PlaceOf(i)' = PlaceOf(i) /\ HeldBy(i)' = HeldBy(i),
         \/ /\ HeldBy(j)' = HeldBy(j)
            /\ \/ PlaceOf(j)' = PlaceOf(j)
               \/ PlaceOf(j) = "new" /\ PlaceOf(j)' = "adrift"
               \/ PlaceOf(j) = "adrift" /\ PlaceOf(j)' \in {"waiting", "ended"}
               \/ PlaceOf(j) = "waiting" /\ PlaceOf(j)' \in {"adrift", "ended"}
         \/ \E l \in Loops :
               /\ PlaceOf(j) = "waiting" /\ PlaceOf(j)' = "owned"
               /\ HeldBy(j)' = {l} /\ \A i \in Jobs : l \notin HeldBy(i)
         \/ \E l \in Loops :
               /\ PlaceOf(j) = "owned" /\ PlaceOf(j)' \in {"waiting", "adrift", "ended"}
               /\ HeldBy(j) = {l} /\ HeldBy(j)' = {}
  PROVE  [Pool!Next]_(Pool!vars)
<1>1. /\ Place' = [Place EXCEPT ![j] = PlaceOf(j)']
      /\ Holders' = [Holders EXCEPT ![j] = HeldBy(j)']
  BY DEF Place, Holders
<1>2. Place[j] = PlaceOf(j) /\ \A i \in Jobs : Holders[i] = HeldBy(i)
  BY DEF Place, Holders
<1>3. HeldBy(j)' = HeldBy(j) => UNCHANGED Holders
  BY <1>1 DEF Holders
<1>4. HeldBy(j)' = HeldBy(j) /\ PlaceOf(j)' = PlaceOf(j) => UNCHANGED <<Place, Holders>>
  BY <1>1 DEF Place, Holders
<1>5. ASSUME NEW to, PlaceOf(j)' \in to PROVE \E p \in to : Place' = [Place EXCEPT ![j] = p]
  BY <1>1, <1>5
<1>6. CASE /\ HeldBy(j)' = HeldBy(j)
           /\ PlaceOf(j) = "new" /\ PlaceOf(j)' = "adrift"
  <2>1. Pool!Accept(j)
    BY <1>2, <1>3, <1>5, <1>6 DEF Pool!Accept, Pool!Move, Place, Holders
  <2> QED
    BY <2>1 DEF Pool!Next
<1>7. CASE /\ HeldBy(j)' = HeldBy(j)
           /\ PlaceOf(j) = "adrift" /\ PlaceOf(j)' \in {"waiting", "ended"}
  <2>1. Pool!Queue(j) \/ Pool!WriteOff(j)
    BY <1>2, <1>3, <1>5, <1>7 DEF Pool!Queue, Pool!WriteOff, Pool!Move, Place, Holders
  <2> QED
    BY <2>1 DEF Pool!Next
<1>8. CASE /\ HeldBy(j)' = HeldBy(j)
           /\ PlaceOf(j) = "waiting" /\ PlaceOf(j)' \in {"adrift", "ended"}
  <2>1. Pool!Drop(j)
    BY <1>2, <1>3, <1>5, <1>8 DEF Pool!Drop, Pool!Move, Place, Holders
  <2> QED
    BY <2>1 DEF Pool!Next
<1>9. ASSUME NEW l \in Loops, PlaceOf(j) = "waiting", PlaceOf(j)' = "owned",
             HeldBy(j)' = {l}, \A i \in Jobs : l \notin HeldBy(i)
      PROVE  Pool!Next
  <2>1. Pool!Claim(l, j)
    BY <1>1, <1>2, <1>5, <1>9 DEF Pool!Claim, Pool!Move, Place, Holders
  <2> QED
    BY <2>1 DEF Pool!Next
<1>10. ASSUME NEW l \in Loops, PlaceOf(j) = "owned",
              PlaceOf(j)' \in {"waiting", "adrift", "ended"}, HeldBy(j) = {l}, HeldBy(j)' = {}
       PROVE  Pool!Next
  <2>1. Pool!LetGo(l, j)
    BY <1>1, <1>2, <1>5, <1>10 DEF Pool!LetGo, Pool!Move, Place, Holders
  <2> QED
    BY <2>1 DEF Pool!Next
<1>11. UNCHANGED <<Place, Holders>> => UNCHANGED Pool!vars
  BY DEF Pool!vars, Place, Holders
<1> QED
  BY <1>4, <1>6, <1>7, <1>8, <1>9, <1>10, <1>11

LEMMA InitNeverListed == Init => NeverListed
  BY Constants DEF Init, NeverListed

\* A candidate was in line when it was read, so it is no submitter's.
LEMMA NextNeverListed == Ownership /\ NeverListed /\ [Next]_vars => NeverListed'
<1> SUFFICES ASSUME Ownership, NeverListed, [Next]_vars PROVE NeverListed'
  OBVIOUS
<1> USE DEF NeverListed, Ownership, Owned, QueuedWaits, LoopsOwn, SubmittersOwn, TypeOK, RecordTypes,
            LoopTypes, SubmitterTypes, Holding, record, index, worker, loop, sub
<1>1. CASE UNCHANGED vars
  BY <1>1 DEF vars
<1>2. ASSUME NEW l \in Loops, NEW r \in Reply, Poll(l, r) PROVE NeverListed'
  BY <1>2, Constants DEF Poll, Step, Priorities, Raised, Executed
<1>3. ASSUME NEW l \in Loops, NEW r \in Reply, Pop(l, r) PROVE NeverListed'
  BY <1>3, Constants DEF Pop, Step, Priorities, NextPriority, Raised, Executed
<1>4. ASSUME NEW l \in Loops, NEW r \in Reply, Load(l, r) PROVE NeverListed'
  BY <1>4, Constants DEF Load, Step, Raised, Executed
<1>5. ASSUME NEW l \in Loops, NEW r \in Reply, MarkRunning(l, r) PROVE NeverListed'
  BY <1>5, Constants DEF MarkRunning, Step, AbandonTick, Raised, Executed
<1>6. ASSUME NEW l \in Loops, NEW r \in Reply, Register(l, r) PROVE NeverListed'
  BY <1>6, Constants DEF Register, Step, AbandonTick, Raised, Executed
<1>7. ASSUME NEW l \in Loops, NEW o \in {"completed", "held", "failed", "rejected"}, Run(l, o) PROVE NeverListed'
  BY <1>7, Constants DEF Run
<1>8. ASSUME NEW l \in Loops, NEW r \in Reply, Settle(l, r) PROVE NeverListed'
  BY <1>8, Constants DEF Settle, Step, AfterMark, Terminal, Raised, Executed
<1>9. ASSUME NEW l \in Loops, NEW r \in Reply, Unregister(l, r) PROVE NeverListed'
  BY <1>9, Constants DEF Unregister, Step, AfterMark, Raised, Executed
<1>10. ASSUME NEW l \in Loops, NEW r \in Reply, AddRecent(l, r) PROVE NeverListed'
  BY <1>10, Constants DEF AddRecent, Step, AfterMark, Raised, Executed
<1>11. ASSUME NEW l \in Loops, NEW r \in Reply, Retry(l, r) PROVE NeverListed'
  BY <1>11, Constants DEF Retry, Step, Raised, Executed
<1>12. ASSUME NEW l \in Loops, Exhausted(l) PROVE NeverListed'
  BY <1>12, Constants DEF Exhausted, Step
<1>13. ASSUME NEW l \in Loops, NEW r \in Reply, Repush(l, r) PROVE NeverListed'
  BY <1>13, Constants DEF Repush, Step, Priorities, Raised, Executed
<1>14. ASSUME NEW s \in Submitters, NEW j \in Jobs, Enqueue(s, j) PROVE NeverListed'
  BY <1>14, Constants DEF Enqueue, Begin
<1>15. ASSUME NEW s \in Submitters, NEW j \in Jobs, EnqueueIfAbsent(s, j) PROVE NeverListed'
  BY <1>15, Constants DEF EnqueueIfAbsent, Begin
<1>16. ASSUME NEW s \in Submitters, NEW r \in Reply, ReadLists(s, r) PROVE NeverListed'
  BY <1>16, Constants DEF ReadLists, Raised, Executed, SameKind
<1>17. ASSUME NEW s \in Submitters, NEW r \in Reply, ReadRunning(s, r) PROVE NeverListed'
  BY <1>17, Constants DEF ReadRunning, Raised, Executed
<1>18. ASSUME NEW s \in Submitters, NEW r \in Reply, MatchRaised(s, r) PROVE NeverListed'
  BY <1>18, Constants DEF MatchRaised, Raised, Executed
<1>19. ASSUME NEW s \in Submitters, NEW e \in Jobs, SkipMissing(s, e) PROVE NeverListed'
  BY <1>19, Constants DEF SkipMissing
<1>20. ASSUME NEW s \in Submitters, NEW e \in Jobs, FindStale(s, e) PROVE NeverListed'
  BY <1>20, Constants DEF FindStale
<1>21. ASSUME NEW s \in Submitters, NEW e \in Jobs, Collapse(s, e) PROVE NeverListed'
  BY <1>21, Constants DEF Collapse, Forget
<1>22. ASSUME NEW s \in Submitters, NoMatch(s) PROVE NeverListed'
  BY <1>22, Constants DEF NoMatch
<1>23. ASSUME NEW s \in Submitters, NEW r \in Reply, PruneRemove(s, r) PROVE NeverListed'
  <2>1. \A t \in Submitters : listed'[t] \subseteq listed[t] /\ victim'[t] \in {victim[t], NoJob}
    BY <1>23 DEF PruneRemove, PruneStep
  <2>2. UNCHANGED <<state, sjob>> /\ \A t \in Submitters : spc'[t] = "push" => spc[t] = "push"
    BY <1>23 DEF PruneRemove, PruneStep
  <2> QED
    BY <2>1, <2>2, Constants
<1>24. ASSUME NEW s \in Submitters, NEW r \in Reply, PruneFail(s, r) PROVE NeverListed'
  BY <1>24, Constants DEF PruneFail, PruneStep, Raised, Executed
<1>25. ASSUME NEW s \in Submitters, NEW r \in Reply, PruneRecent(s, r) PROVE NeverListed'
  BY <1>25, Constants DEF PruneRecent, PruneStep, Raised, Executed
<1>26. ASSUME NEW s \in Submitters, NEW r \in Reply, Save(s, r) PROVE NeverListed'
  <2>1. sjob[s] \in Jobs /\ state[sjob[s]] = "new" /\ UNCHANGED victim
    BY <1>26 DEF Save
  <2>2. CASE Forget(s)
    <3>1. \A t \in Submitters : /\ listed'[t] \subseteq listed[t] /\ sjob'[t] \in {sjob[t], NoJob}
                                /\ spc'[t] = "push" => spc[t] = "push" /\ sjob'[t] = sjob[t]
      BY <1>26, <2>2 DEF Forget
    <3>2. \A i \in Jobs : state'[i] = state[i] \/ (i = sjob[s] /\ state'[i] = "pending")
      BY <1>26, <2>1 DEF Save
    <3> QED
      BY <2>1, <3>1, <3>2, Constants
  <2>3. CASE ~Forget(s)
    <3>1. /\ UNCHANGED <<sjob, listed>> /\ spc' = [spc EXCEPT ![s] = "push"]
          /\ state' = [state EXCEPT ![sjob[s]] = "pending"]
      BY <1>26, <2>3 DEF Save, Raised, Executed
    <3> QED
      BY <2>1, <3>1
  <2> QED
    BY <2>2, <2>3
<1>27. ASSUME NEW s \in Submitters, NEW r \in Reply, Push(s, r) PROVE NeverListed'
  BY <1>27, Constants DEF Push, Forget, Raised, Executed
<1>28. ASSUME NEW r \in Reply, Start(r) PROVE NeverListed'
  BY <1>28, Constants DEF Start, Raised, Executed
<1>29. ASSUME NEW j \in Jobs, NEW r \in Reply, Requeue(j, r) PROVE NeverListed'
  BY <1>29, Constants DEF Requeue, WasInterrupted, Raised, Executed, WorkerTypes
<1>30. ASSUME NEW r \in Reply, RequeuePush(r) PROVE NeverListed'
  BY <1>30, Constants DEF RequeuePush, Recovering, Raised, Executed
<1>31. ASSUME NEW r \in Reply, RequeueDone(r) PROVE NeverListed'
  BY <1>31, Constants DEF RequeueDone, Recovering, Raised, Executed
<1>32. ASSUME Spawn PROVE NeverListed'
  BY <1>32, Constants DEF Spawn
<1>33. ASSUME Stop PROVE NeverListed'
  BY <1>33, Constants DEF Stop
<1>34. ASSUME Stopped PROVE NeverListed'
  BY <1>34, Constants DEF Stopped
<1>35. ASSUME Crash PROVE NeverListed'
  BY <1>35, Constants DEF Crash
<1>36. ASSUME Pause PROVE NeverListed'
  BY <1>36, Constants DEF Pause
<1>37. ASSUME Resume PROVE NeverListed'
  BY <1>37, Constants DEF Resume
<1>38. ASSUME NEW j \in Jobs, Age(j) PROVE NeverListed'
  BY <1>38, Constants DEF Age
<1>39. ASSUME NEW j \in Jobs, Expire(j) PROVE NeverListed'
  BY <1>39, Constants DEF Expire
<1>40. ASSUME NEW j \in Jobs, ListRecent(j) PROVE NeverListed'
  BY <1>40, Constants DEF ListRecent
<1>41. ASSUME NEW l \in Loops, LoopStep(l) PROVE NeverListed'
  BY <1>41, <1>2, <1>3, <1>4, <1>5, <1>6, <1>7, <1>8, <1>9, <1>10, <1>11, <1>12, <1>13 DEF
     LoopStep
<1>42. ASSUME NEW s \in Submitters, SubmitterStep(s) PROVE NeverListed'
  BY <1>42, <1>16, <1>17, <1>18, <1>19, <1>20, <1>21, <1>22, <1>23, <1>24, <1>25, <1>26, <1>27
     DEF SubmitterStep
<1>43. ASSUME StarterStep PROVE NeverListed'
  BY <1>43, <1>28, <1>29, <1>30, <1>31, <1>32 DEF StarterStep
<1> QED
  BY <1>1, <1>14, <1>15, <1>33, <1>34, <1>35, <1>36, <1>37, <1>38, <1>39, <1>40, <1>41, <1>42,
     <1>43 DEF Next

\* The same, in the next state.
LEMMA OnePlaceNext ==
  ASSUME Ownership', NEW j \in Jobs
  PROVE  /\ InList(j)' => PlaceOf(j)' = "waiting"
         /\ HeldBy(j)' # {} => PlaceOf(j)' = "owned"
         /\ ~InList(j)' /\ HeldBy(j)' = {} =>
               PlaceOf(j)' = IF state'[j] = "new" THEN "new"
                             ELSE IF state'[j] \in Terminal \cup {"absent"} /\ ~Recovered(j)' THEN "ended"
                             ELSE "adrift"
<1>1. ~(InList(j)' /\ HeldBy(j)' # {})
  BY DEF Ownership, Owned, LoopsOwn, HeldBy
<1> QED
  BY <1>1 DEF PlaceOf

\* A job whose record, line and holder stay as they are stays where it is.
LEMMA Bystander ==
  ASSUME Ownership, Ownership', NEW i \in Jobs,
         InList(i)' <=> InList(i), HeldBy(i)' = HeldBy(i),
         \/ InList(i) \/ HeldBy(i) # {}
         \/ state'[i] = state[i] /\ (Recovered(i)' <=> Recovered(i))
  PROVE  PlaceOf(i)' = PlaceOf(i)
<1>1. CASE InList(i)
  BY <1>1, OnePlaceOnly, OnePlaceNext
<1>2. CASE HeldBy(i) # {}
  BY <1>2, OnePlaceOnly, OnePlaceNext
<1>3. CASE ~InList(i) /\ HeldBy(i) = {}
  BY <1>3, OnePlaceOnly, OnePlaceNext
<1> QED
  BY <1>1, <1>2, <1>3

\* Who holds what after the step of one loop.
LEMMA KeepsHolding ==
  ASSUME LoopTypes, NEW l \in Loops, UNCHANGED job, pc[l] \in Holding <=> pc'[l] \in Holding,
         \A m \in Loops \ {l} : pc'[m] = pc[m]
  PROVE  \A i \in Jobs : HeldBy(i)' = HeldBy(i)
  BY DEF HeldBy

LEMMA LetsGo ==
  ASSUME Ownership, NEW l \in Loops, NEW j \in Jobs, job[l] = j, Step(l, "poll")
  PROVE  /\ HeldBy(j) = {l} /\ HeldBy(j)' = {}
         /\ \A i \in Jobs \ {j} : HeldBy(i)' = HeldBy(i)
<1>1. /\ pc[l] \in Holding /\ pc'[l] \notin Holding
      /\ \A m \in Loops \ {l} : pc'[m] = pc[m] /\ job'[m] = job[m] /\ job[m] # j
  BY DEF Ownership, Owned, LoopsOwn, TypeOK, LoopTypes, Step, Holding
<1>2. HeldBy(j) = {l} /\ HeldBy(j)' = {}
  BY <1>1 DEF HeldBy
<1>3. \A i \in Jobs \ {j} : HeldBy(i)' = HeldBy(i)
  BY <1>1 DEF HeldBy
<1> QED
  BY <1>2, <1>3

\* A loop that keeps its job, and rewrites no record but that job's, moves nothing.
LEMMA LoopKeeps ==
  ASSUME Ownership, Ownership', NEW l \in Loops, job[l] \in Jobs,
         UNCHANGED <<job, list, worker>>, pc'[l] \in Holding,
         \A m \in Loops \ {l} : pc'[m] = pc[m],
         \A i \in Jobs \ {job[l]} : state'[i] = state[i]
  PROVE  [Pool!Next]_(Pool!vars)
<1>1. LoopTypes /\ pc[l] \in Holding
  BY DEF Ownership, TypeOK, LoopTypes
<1>2. \A i \in Jobs : HeldBy(i)' = HeldBy(i)
  BY <1>1, KeepsHolding
<1>3. HeldBy(job[l]) # {}
  BY <1>1 DEF HeldBy
<1>4. \A i \in Jobs : PlaceOf(i)' = PlaceOf(i)
  BY <1>2, <1>3, UnchangedLists, Bystander DEF Recovered, worker
<1> QED
  BY <1>2, <1>4, PoolStep

\* A loop that goes back to "poll" lets go of its job, in line or not.
LEMMA LoopLetsGo ==
  ASSUME Ownership, Ownership', NEW l \in Loops, NEW j \in Jobs, job[l] = j,
         Step(l, "poll"), UNCHANGED worker, state'[j] # "new",
         \A i \in Jobs \ {j} : state'[i] = state[i] /\ (InList(i)' <=> InList(i))
  PROVE  [Pool!Next]_(Pool!vars)
<1>1. /\ HeldBy(j) = {l} /\ HeldBy(j)' = {}
      /\ \A i \in Jobs \ {j} : HeldBy(i)' = HeldBy(i)
  BY LetsGo
<1>2. \A i \in Jobs \ {j} : PlaceOf(i)' = PlaceOf(i)
  BY <1>1, Bystander DEF Recovered, worker
<1>3. PlaceOf(j) = "owned"
  BY <1>1, OnePlaceOnly
<1>4. PlaceOf(j)' \in {"waiting", "adrift", "ended"}
  BY <1>1, OnePlaceNext
<1> QED
  BY <1>1, <1>2, <1>3, <1>4, PoolStep

\* A step outside the loops that touches one job at most.
LEMMA OneJob ==
  ASSUME Ownership, Ownership', NEW j \in Jobs, UNCHANGED <<pc, job>>,
         \A i \in Jobs \ {j} : /\ InList(i)' <=> InList(i)
                               /\ state'[i] = state[i]
                               /\ Recovered(i)' <=> Recovered(i),
         \/ PlaceOf(j)' = PlaceOf(j)
         \/ PlaceOf(j) = "new" /\ PlaceOf(j)' = "adrift"
         \/ PlaceOf(j) = "adrift" /\ PlaceOf(j)' \in {"waiting", "ended"}
         \/ PlaceOf(j) = "waiting" /\ PlaceOf(j)' \in {"adrift", "ended"}
  PROVE  [Pool!Next]_(Pool!vars)
<1>1. \A i \in Jobs : HeldBy(i)' = HeldBy(i)
  BY DEF HeldBy
<1>2. \A i \in Jobs \ {j} : PlaceOf(i)' = PlaceOf(i)
  BY <1>1, Bystander
<1> QED
  BY <1>1, <1>2, PoolStep

\* A step that touches no list, no hash, no loop and not what the recovery pushes.
LEMMA Elsewhere ==
  ASSUME Ownership, Ownership', UNCHANGED <<pc, job, list, state>>,
         \A i \in Jobs : Recovered(i)' <=> Recovered(i)
  PROVE  [Pool!Next]_(Pool!vars)
<1>1. \A i \in Jobs : HeldBy(i)' = HeldBy(i)
  BY DEF HeldBy
<1>2. \A i \in Jobs : PlaceOf(i)' = PlaceOf(i)
  BY <1>1, UnchangedLists, Bystander
<1>3. UNCHANGED <<Place, Holders>>
  BY <1>1, <1>2 DEF Place, Holders
<1> QED
  BY <1>3 DEF Pool!vars, Place, Holders

\* A loop at one of its commands about a job: it keeps the job or lets go of it.
LEMMA LoopMoves ==
  ASSUME Ownership, Ownership', NEW l \in Loops, job[l] \in Jobs, UNCHANGED <<list, worker>>,
         \A i \in Jobs \ {job[l]} : state'[i] = state[i], state'[job[l]] # "new",
         NEW next \in {"poll"} \cup Holding,
         \/ Step(l, next)
         \/ next # "poll" /\ pc' = [pc EXCEPT ![l] = next] /\ UNCHANGED job
  PROVE  [Pool!Next]_(Pool!vars)
<1>1. CASE next = "poll"
  <2>1. PICK j \in Jobs : job[l] = j
    OBVIOUS
  <2> QED
    BY <1>1, <2>1, UnchangedLists, LoopLetsGo
<1>2. CASE next # "poll"
  <2>1. UNCHANGED job /\ pc' = [pc EXCEPT ![l] = next]
    BY <1>2 DEF Step
  <2>2. pc'[l] \in Holding /\ \A m \in Loops \ {l} : pc'[m] = pc[m]
    BY <1>2, <2>1 DEF Ownership, TypeOK, LoopTypes
  <2> QED
    BY <2>1, <2>2, LoopKeeps
<1> QED
  BY <1>1, <1>2

\* A loop that looks for a job.
LEMMA LoopLooks ==
  ASSUME Ownership, Ownership', NEW l \in Loops, pc[l] \notin Holding,
         NEW next \in {"poll"} \cup Priorities, Step(l, next), UNCHANGED <<list, state, worker>>
  PROVE  [Pool!Next]_(Pool!vars)
<1>1. UNCHANGED job /\ next \notin Holding /\ pc'[l] = next
  BY DEF Ownership, TypeOK, LoopTypes, Step, Holding, Priorities
<1>2. \A i \in Jobs : HeldBy(i)' = HeldBy(i)
  BY <1>1, KeepsHolding DEF Ownership, TypeOK, LoopTypes, Step
<1>3. \A i \in Jobs : PlaceOf(i)' = PlaceOf(i)
  BY <1>2, UnchangedLists, Bystander DEF Recovered, worker
<1>4. UNCHANGED <<Place, Holders>>
  BY <1>2, <1>3 DEF Place, Holders
<1> QED
  BY <1>4 DEF Pool!vars, Place, Holders

\* What a pop does to the place of the id it takes out of the line.
LEMMA PopMoves ==
  ASSUME Ownership, Ownership', NEW l \in Loops, NEW r \in Reply, Pop(l, r)
  PROVE  [Pool!Next]_(Pool!vars)
<1>1. /\ pc[l] \in Priorities /\ job[l] \notin Jobs /\ pc[l] \notin Holding
      /\ UNCHANGED <<record, worker, sub>>
  BY PopStep DEF Priorities, Holding
<1>2. CASE UNCHANGED list /\ \E next \in {"poll", "medium", "low"} : Step(l, next)
  BY <1>1, <1>2, LoopLooks DEF record, Priorities
<1>3. ASSUME NEW j \in Jobs, InList(j), ListsLose(j), Step(l, "poll")
      PROVE  [Pool!Next]_(Pool!vars)
  <2>1. UNCHANGED job /\ pc'[l] \notin Holding /\ \A m \in Loops \ {l} : pc'[m] = pc[m]
    BY <1>1, <1>3 DEF Ownership, TypeOK, LoopTypes, Step, Holding
  <2>2. \A i \in Jobs : HeldBy(i)' = HeldBy(i)
    BY <1>1, <2>1, KeepsHolding DEF Ownership, TypeOK
  <2>3. \A i \in Jobs \ {j} : PlaceOf(i)' = PlaceOf(i)
    BY <1>1, <1>3, <2>2, Bystander DEF ListsLose, record, worker, Recovered
  <2>4. ~InList(j)' /\ HeldBy(j)' = {} /\ state'[j] # "new"
    BY <1>1, <1>3, <2>2, OnePlaceOnly DEF ListsLose, record, Ownership, Owned, QueuedWaits
  <2>5. PlaceOf(j) = "waiting" /\ PlaceOf(j)' \in {"adrift", "ended"}
    BY <1>3, <2>4, OnePlaceOnly, OnePlaceNext
  <2> QED
    BY <2>2, <2>3, <2>5, PoolStep
<1>4. ASSUME NEW j \in Jobs, InList(j), ListsLose(j),
             pc' = [pc EXCEPT ![l] = "load"], job' = [job EXCEPT ![l] = j]
      PROVE  [Pool!Next]_(Pool!vars)
  <2>1. HeldBy(j) = {} /\ PlaceOf(j) = "waiting"
    BY <1>4, OnePlaceOnly
  <2>2. /\ pc'[l] \in Holding /\ job'[l] = j
        /\ \A m \in Loops \ {l} : pc'[m] = pc[m] /\ job'[m] = job[m]
    BY <1>4 DEF Ownership, TypeOK, LoopTypes, Holding
  <2>3. HeldBy(j)' = {l}
    BY <2>1, <2>2 DEF HeldBy
  <2>4. \A i \in Jobs \ {j} : HeldBy(i)' = HeldBy(i)
    BY <1>1, <2>2 DEF HeldBy
  <2>5. \A i \in Jobs \ {j} : PlaceOf(i)' = PlaceOf(i)
    BY <1>1, <1>4, <2>4, Bystander DEF ListsLose, record, worker, Recovered
  <2>6. PlaceOf(j)' = "owned" /\ \A i \in Jobs : l \notin HeldBy(i)
    BY <1>1, <2>3, OnePlaceNext DEF HeldBy
  <2> QED
    BY <2>1, <2>3, <2>4, <2>5, <2>6, PoolStep
<1> QED
  BY <1>2, <1>3, <1>4, PopOutcome

\* A death takes every job out of every hand.
LEMMA CrashMoves ==
  ASSUME Ownership, Ownership', Crash
  PROVE  [Pool!Next]_(Pool!vars)
<1>1. UNCHANGED <<list, state>> /\ \A l \in Loops : pc'[l] \notin Holding
  BY DEF Crash, record, index, Holding
<1>2. /\ \A j \in Jobs : HeldBy(j)' = {} /\ ~Recovered(j)'
      /\ \A j \in Jobs : InList(j)' <=> InList(j)
  BY <1>1, UnchangedLists DEF HeldBy, Crash, Recovered
<1>3. ASSUME NEW j \in Jobs
      PROVE  /\ PlaceOf(j)' \in {"new", "waiting", "owned", "adrift", "ended"}
             /\ \/ PlaceOf(j) \in {"owned", "adrift"} /\ PlaceOf(j)' \in {"adrift", "ended"}
                \/ PlaceOf(j)' = PlaceOf(j) /\ PlaceOf(j) # "owned"
  <2>1. CASE InList(j)
    BY <1>2, <2>1, OnePlaceOnly, OnePlaceNext
  <2>2. CASE HeldBy(j) # {}
    <3>1. ~InList(j) /\ state[j] # "new"
      BY <2>2 DEF HeldBy, Ownership, Owned, LoopsOwn
    <3> QED
      BY <1>1, <1>2, <2>2, <3>1, OnePlaceOnly, OnePlaceNext
  <2>3. CASE ~InList(j) /\ HeldBy(j) = {}
    BY <1>1, <1>2, <2>3, OnePlaceOnly, OnePlaceNext
  <2> QED
    BY <2>1, <2>2, <2>3
<1>4. /\ Place' = [j \in Jobs |-> PlaceOf(j)'] /\ Place = [j \in Jobs |-> PlaceOf(j)]
      /\ Holders' = [j \in Jobs |-> {}]
  BY <1>2 DEF Place, Holders
<1>5. Pool!Die
  BY <1>3, <1>4 DEF Pool!Die, Pool!Places, Place, Holders
<1> QED
  BY <1>5 DEF Pool!Next

\* A record that becomes terminal or expires ends a job only if nobody has it.
LEMMA RecordSettles ==
  ASSUME Ownership, Ownership', NEW j \in Jobs, UNCHANGED <<pc, job, list, worker>>,
         state[j] # "new", state'[j] \in {state[j], "failed", "absent"},
         \A i \in Jobs \ {j} : state'[i] = state[i]
  PROVE  [Pool!Next]_(Pool!vars)
<1>1. /\ HeldBy(j)' = HeldBy(j) /\ (InList(j)' <=> InList(j))
      /\ \A i \in Jobs : /\ Recovered(i)' <=> Recovered(i)
                         /\ InList(i)' <=> InList(i)
  BY UnchangedLists DEF HeldBy, Recovered, worker
<1>2. CASE InList(j) \/ HeldBy(j) # {} \/ state'[j] = state[j]
  <2>1. PlaceOf(j)' = PlaceOf(j)
    BY <1>1, <1>2, Bystander
  <2> QED
    BY <1>1, <2>1, OneJob
<1>3. CASE ~InList(j) /\ HeldBy(j) = {} /\ state'[j] # state[j]
  <2>1. PlaceOf(j) \in {"adrift", "ended"} /\ PlaceOf(j)' \in {PlaceOf(j), "ended"}
    BY <1>1, <1>3, OnePlaceOnly, OnePlaceNext DEF Terminal
  <2> QED
    BY <1>1, <2>1, OneJob
<1> QED
  BY <1>2, <1>3

\* A push puts a job that was adrift in line, or leaves it or writes it off.
LEMMA GetsInLine ==
  ASSUME Ownership, Ownership', NEW j \in Jobs, UNCHANGED <<pc, job, state>>,
         PlaceOf(j) = "adrift", HeldBy(j) = {}, state[j] # "new",
         ListsGain(j) \/ UNCHANGED list,
         \A i \in Jobs \ {j} : Recovered(i)' <=> Recovered(i)
  PROVE  [Pool!Next]_(Pool!vars)
<1>1. HeldBy(j)' = {}
  BY DEF HeldBy
<1>2. PlaceOf(j)' \in {"waiting", "adrift", "ended"}
  BY <1>1, OnePlaceNext
<1>3. \A i \in Jobs \ {j} : InList(i)' <=> InList(i)
  BY UnchangedLists DEF ListsGain
<1> QED
  BY <1>2, <1>3, OneJob

\* Every step of the queue is a step of the pool or none.
LEMMA NextPool ==
  ASSUME Ownership, Ownership', NeverListed, [Next]_vars
  PROVE  [Pool!Next]_(Pool!vars)
<1>0. Ownership /\ Ownership'
  OBVIOUS
<1> USE DEF Ownership, Owned, QueuedWaits, LoopsOwn, SubmittersOwn, RecoveryOwns, TypeOK, RecordTypes,
            LoopTypes, SubmitterTypes, WorkerTypes, Holding, record, index, worker, loop, sub
<1>1. CASE UNCHANGED vars
  <2>1. UNCHANGED <<pc, job, list, state>> /\ \A i \in Jobs : Recovered(i)' <=> Recovered(i)
    BY <1>1 DEF vars, Recovered
  <2> QED
    BY <1>0, <2>1, Elsewhere
<1>2. ASSUME NEW l \in Loops, NEW r \in Reply, Poll(l, r) PROVE [Pool!Next]_(Pool!vars)
  <2>1. /\ pc[l] \notin Holding /\ UNCHANGED <<list, state, worker>>
        /\ \E next \in {"poll", "high"} : Step(l, next)
    BY <1>2 DEF Poll, Holding, record, index
  <2> QED
    BY <1>0, <2>1, LoopLooks DEF Priorities
<1>3. ASSUME NEW l \in Loops, NEW r \in Reply, Pop(l, r) PROVE [Pool!Next]_(Pool!vars)
  BY <1>3, <1>0, PopMoves
<1>4. ASSUME NEW l \in Loops, NEW r \in Reply, Load(l, r) PROVE [Pool!Next]_(Pool!vars)
  <2>1. job[l] \in Jobs /\ state[job[l]] # "new" /\ UNCHANGED <<list, worker>>
    BY <1>4 DEF Load
  <2>2. state'[job[l]] # "new" /\ \A i \in Jobs \ {job[l]} : state'[i] = state[i]
    BY <1>4, <2>1 DEF Load
  <2>3. Step(l, "poll") \/ (pc' = [pc EXCEPT ![l] = "mark"] /\ UNCHANGED job)
    BY <1>4 DEF Load
  <2> QED
    BY <1>0, <2>1, <2>2, <2>3, LoopMoves
<1>5. ASSUME NEW l \in Loops, NEW r \in Reply, MarkRunning(l, r) PROVE [Pool!Next]_(Pool!vars)
  <2>1. job[l] \in Jobs /\ state[job[l]] # "new" /\ UNCHANGED <<list, worker>>
    BY <1>5 DEF MarkRunning
  <2>2. state'[job[l]] # "new" /\ \A i \in Jobs \ {job[l]} : state'[i] = state[i]
    BY <1>5, <2>1 DEF MarkRunning
  <2>3. \E next \in {"poll", "register"} : Step(l, next)
    BY <1>5 DEF MarkRunning, AbandonTick
  <2> QED
    BY <1>0, <2>1, <2>2, <2>3, LoopMoves
<1>6. ASSUME NEW l \in Loops, NEW r \in Reply, Register(l, r) PROVE [Pool!Next]_(Pool!vars)
  <2>1. job[l] \in Jobs /\ state[job[l]] # "new" /\ UNCHANGED <<list, worker>>
    BY <1>6 DEF Register
  <2>2. state'[job[l]] # "new" /\ \A i \in Jobs \ {job[l]} : state'[i] = state[i]
    BY <1>6, <2>1 DEF Register
  <2>3. \E next \in {"poll", "run"} : Step(l, next)
    BY <1>6 DEF Register, AbandonTick
  <2> QED
    BY <1>0, <2>1, <2>2, <2>3, LoopMoves
<1>7. ASSUME NEW l \in Loops, NEW o \in {"completed", "held", "failed", "rejected"}, Run(l, o) PROVE [Pool!Next]_(Pool!vars)
  <2>1. job[l] \in Jobs /\ state[job[l]] # "new" /\ UNCHANGED <<list, worker>>
    BY <1>7 DEF Run
  <2>2. state'[job[l]] # "new" /\ \A i \in Jobs \ {job[l]} : state'[i] = state[i]
    BY <1>7, <2>1 DEF Run
  <2>3. pc' = [pc EXCEPT ![l] = "settle"] /\ UNCHANGED job
    BY <1>7 DEF Run
  <2> QED
    BY <1>0, <2>1, <2>2, <2>3, LoopMoves
<1>8. ASSUME NEW l \in Loops, NEW r \in Reply, Settle(l, r) PROVE [Pool!Next]_(Pool!vars)
  <2>1. job[l] \in Jobs /\ state[job[l]] # "new" /\ UNCHANGED <<list, worker>>
    BY <1>8 DEF Settle
  <2>2. state'[job[l]] # "new" /\ \A i \in Jobs \ {job[l]} : state'[i] = state[i]
    BY <1>8, <2>1 DEF Settle
  <2>3. \E next \in {"poll", "retry", "unregister"} : Step(l, next)
    BY <1>8 DEF Settle, AfterMark
  <2> QED
    BY <1>0, <2>1, <2>2, <2>3, LoopMoves
<1>9. ASSUME NEW l \in Loops, NEW r \in Reply, Unregister(l, r) PROVE [Pool!Next]_(Pool!vars)
  <2>1. job[l] \in Jobs /\ state[job[l]] # "new" /\ UNCHANGED <<list, worker>>
    BY <1>9 DEF Unregister
  <2>2. state'[job[l]] # "new" /\ \A i \in Jobs \ {job[l]} : state'[i] = state[i]
    BY <1>9, <2>1 DEF Unregister
  <2>3. \E next \in {"poll", "retry", "recent"} : Step(l, next)
    BY <1>9 DEF Unregister, AfterMark
  <2> QED
    BY <1>0, <2>1, <2>2, <2>3, LoopMoves
<1>10. ASSUME NEW l \in Loops, NEW r \in Reply, AddRecent(l, r) PROVE [Pool!Next]_(Pool!vars)
  <2>1. job[l] \in Jobs /\ state[job[l]] # "new" /\ UNCHANGED <<list, worker>>
    BY <1>10 DEF AddRecent
  <2>2. state'[job[l]] # "new" /\ \A i \in Jobs \ {job[l]} : state'[i] = state[i]
    BY <1>10, <2>1 DEF AddRecent
  <2>3. \E next \in {"poll", "retry"} : Step(l, next)
    BY <1>10 DEF AddRecent, AfterMark
  <2> QED
    BY <1>0, <2>1, <2>2, <2>3, LoopMoves
<1>11. ASSUME NEW l \in Loops, NEW r \in Reply, Retry(l, r) PROVE [Pool!Next]_(Pool!vars)
  <2>1. job[l] \in Jobs /\ state[job[l]] # "new" /\ UNCHANGED <<list, worker>>
    BY <1>11 DEF Retry
  <2>2. state'[job[l]] # "new" /\ \A i \in Jobs \ {job[l]} : state'[i] = state[i]
    BY <1>11, <2>1 DEF Retry
  <2>3. \E next \in {"poll", "repush"} : Step(l, next)
    BY <1>11 DEF Retry
  <2> QED
    BY <1>0, <2>1, <2>2, <2>3, LoopMoves
<1>12. ASSUME NEW l \in Loops, Exhausted(l) PROVE [Pool!Next]_(Pool!vars)
  <2>1. job[l] \in Jobs /\ state[job[l]] # "new" /\ UNCHANGED <<list, worker>>
    BY <1>12 DEF Exhausted
  <2>2. state'[job[l]] # "new" /\ \A i \in Jobs \ {job[l]} : state'[i] = state[i]
    BY <1>12, <2>1 DEF Exhausted
  <2>3. \E next \in {"poll"} : Step(l, next)
    BY <1>12 DEF Exhausted
  <2> QED
    BY <1>0, <2>1, <2>2, <2>3, LoopMoves
<1>13. ASSUME NEW l \in Loops, NEW r \in Reply, Repush(l, r) PROVE [Pool!Next]_(Pool!vars)
  <2>1. PICK j \in Jobs : j = job[l]
    BY <1>13 DEF Repush
  <2>2. ~InList(j) /\ state[j] # "new" /\ UNCHANGED <<state, worker>> /\ Step(l, "poll")
    BY <1>13, <2>1 DEF Repush
  <2>3. IF Executed(r) THEN ListsGain(j) ELSE UNCHANGED list
    BY <1>13, <1>0, <2>1, <2>2, PushOutcome DEF Repush
  <2>4. \A i \in Jobs \ {j} : InList(i)' <=> InList(i)
    BY <2>3, UnchangedLists DEF ListsGain
  <2> QED
    BY <1>0, <2>1, <2>2, <2>4, LoopLetsGo
<1>14. ASSUME NEW s \in Submitters, NEW j \in Jobs, Enqueue(s, j) PROVE [Pool!Next]_(Pool!vars)
  <2>1. UNCHANGED <<pc, job, list, state>> /\ \A i \in Jobs : Recovered(i)' <=> Recovered(i)
    BY <1>14 DEF Enqueue, Begin, Recovered
  <2> QED
    BY <1>0, <2>1, Elsewhere
<1>15. ASSUME NEW s \in Submitters, NEW j \in Jobs, EnqueueIfAbsent(s, j) PROVE [Pool!Next]_(Pool!vars)
  <2>1. UNCHANGED <<pc, job, list, state>> /\ \A i \in Jobs : Recovered(i)' <=> Recovered(i)
    BY <1>15 DEF EnqueueIfAbsent, Begin, Recovered
  <2> QED
    BY <1>0, <2>1, Elsewhere
<1>16. ASSUME NEW s \in Submitters, NEW r \in Reply, ReadLists(s, r) PROVE [Pool!Next]_(Pool!vars)
  <2>1. UNCHANGED <<pc, job, list, state>> /\ \A i \in Jobs : Recovered(i)' <=> Recovered(i)
    BY <1>16 DEF ReadLists, Recovered
  <2> QED
    BY <1>0, <2>1, Elsewhere
<1>17. ASSUME NEW s \in Submitters, NEW r \in Reply, ReadRunning(s, r) PROVE [Pool!Next]_(Pool!vars)
  <2>1. UNCHANGED <<pc, job, list, state>> /\ \A i \in Jobs : Recovered(i)' <=> Recovered(i)
    BY <1>17 DEF ReadRunning, Recovered
  <2> QED
    BY <1>0, <2>1, Elsewhere
<1>18. ASSUME NEW s \in Submitters, NEW r \in Reply, MatchRaised(s, r) PROVE [Pool!Next]_(Pool!vars)
  <2>1. UNCHANGED <<pc, job, list, state>> /\ \A i \in Jobs : Recovered(i)' <=> Recovered(i)
    BY <1>18 DEF MatchRaised, Recovered
  <2> QED
    BY <1>0, <2>1, Elsewhere
<1>19. ASSUME NEW s \in Submitters, NEW e \in Jobs, SkipMissing(s, e) PROVE [Pool!Next]_(Pool!vars)
  <2>1. UNCHANGED <<pc, job, list, state>> /\ \A i \in Jobs : Recovered(i)' <=> Recovered(i)
    BY <1>19 DEF SkipMissing, Recovered
  <2> QED
    BY <1>0, <2>1, Elsewhere
<1>20. ASSUME NEW s \in Submitters, NEW e \in Jobs, FindStale(s, e) PROVE [Pool!Next]_(Pool!vars)
  <2>1. UNCHANGED <<pc, job, list, state>> /\ \A i \in Jobs : Recovered(i)' <=> Recovered(i)
    BY <1>20 DEF FindStale, Recovered
  <2> QED
    BY <1>0, <2>1, Elsewhere
<1>21. ASSUME NEW s \in Submitters, NEW e \in Jobs, Collapse(s, e) PROVE [Pool!Next]_(Pool!vars)
  <2>1. UNCHANGED <<pc, job, list, state>> /\ \A i \in Jobs : Recovered(i)' <=> Recovered(i)
    BY <1>21 DEF Collapse, Recovered
  <2> QED
    BY <1>0, <2>1, Elsewhere
<1>22. ASSUME NEW s \in Submitters, NoMatch(s) PROVE [Pool!Next]_(Pool!vars)
  <2>1. UNCHANGED <<pc, job, list, state>> /\ \A i \in Jobs : Recovered(i)' <=> Recovered(i)
    BY <1>22 DEF NoMatch, Recovered
  <2> QED
    BY <1>0, <2>1, Elsewhere
<1>23. ASSUME NEW s \in Submitters, NEW r \in Reply, PruneRemove(s, r) PROVE [Pool!Next]_(Pool!vars)
  <2>1. PICK j \in Jobs : j = victim[s]
    BY <1>23 DEF PruneRemove
  <2>2. UNCHANGED <<pc, job, state, worker>> /\ state[j] # "new"
    BY <1>23, <2>1 DEF PruneRemove
  <2>3. /\ \A i \in Jobs : InList(i)' => InList(i)
        /\ \A i \in Jobs \ {j} : InList(i)' <=> InList(i)
    BY <1>23, <1>0, <2>1, PruneRemoveStep
  <2>4. HeldBy(j)' = HeldBy(j)
    BY <2>2 DEF HeldBy
  <2>5. CASE InList(j)' <=> InList(j)
    <3>1. PlaceOf(j)' = PlaceOf(j)
      BY <1>0, <2>2, <2>4, <2>5, Bystander DEF Recovered
    <3> QED
      BY <1>0, <2>2, <2>3, <3>1, OneJob DEF Recovered
  <2>6. CASE InList(j) /\ ~InList(j)'
    <3>1. PlaceOf(j) = "waiting" /\ HeldBy(j)' = {}
      BY <1>0, <2>4, <2>6, OnePlaceOnly
    <3>2. PlaceOf(j)' \in {"adrift", "ended"}
      BY <1>0, <2>2, <2>6, <3>1, OnePlaceNext
    <3> QED
      BY <1>0, <2>2, <2>3, <3>1, <3>2, OneJob DEF Recovered
  <2> QED
    BY <2>3, <2>5, <2>6
<1>24. ASSUME NEW s \in Submitters, NEW r \in Reply, PruneFail(s, r) PROVE [Pool!Next]_(Pool!vars)
  <2>1. PICK j \in Jobs : j = victim[s]
    BY <1>24 DEF PruneFail
  <2>2. /\ UNCHANGED <<pc, job, list, worker>> /\ state[j] # "new"
        /\ state'[j] \in {state[j], "failed"} /\ \A i \in Jobs \ {j} : state'[i] = state[i]
    BY <1>24, <2>1 DEF PruneFail
  <2> QED
    BY <1>0, <2>2, RecordSettles DEF Recovered
<1>25. ASSUME NEW s \in Submitters, NEW r \in Reply, PruneRecent(s, r) PROVE [Pool!Next]_(Pool!vars)
  <2>1. UNCHANGED <<pc, job, list, state>> /\ \A i \in Jobs : Recovered(i)' <=> Recovered(i)
    BY <1>25 DEF PruneRecent, Recovered
  <2> QED
    BY <1>0, <2>1, Elsewhere
<1>26. ASSUME NEW s \in Submitters, NEW r \in Reply, Save(s, r) PROVE [Pool!Next]_(Pool!vars)
  <2>1. PICK j \in Jobs : j = sjob[s]
    BY <1>26 DEF Save
  <2>2. /\ UNCHANGED <<pc, job, list, worker>> /\ state[j] = "new"
        /\ state'[j] \in {"new", "pending"} /\ \A i \in Jobs \ {j} : state'[i] = state[i]
    BY <1>26, <2>1 DEF Save
  <2>3. ~InList(j) /\ ~InList(j)'
    BY <2>2, UnchangedLists
  <2>5. HeldBy(j) = {} /\ HeldBy(j)' = {}
    BY <2>2 DEF HeldBy
  <2>4. PlaceOf(j) = "new" /\ PlaceOf(j)' \in {"new", "adrift"}
    BY <1>0, <2>2, <2>3, <2>5, OnePlaceOnly, OnePlaceNext DEF Terminal
  <2> QED
    BY <1>0, <2>2, <2>4, UnchangedLists, OneJob DEF Recovered
<1>27. ASSUME NEW s \in Submitters, NEW r \in Reply, Push(s, r) PROVE [Pool!Next]_(Pool!vars)
  <2>1. PICK j \in Jobs : j = sjob[s]
    BY <1>27 DEF Push
  <2>2. UNCHANGED <<pc, job, state, worker>> /\ state[j] = "pending" /\ ~InList(j) /\ HeldBy(j) = {}
    BY <1>27, <2>1 DEF Push, NeverListed, HeldBy
  <2>3. ListsGain(j) \/ UNCHANGED list
    BY <1>27, <1>0, <2>1, <2>2, PushOutcome DEF Push
  <2>4. PlaceOf(j) = "adrift"
    BY <1>0, <2>2, OnePlaceOnly DEF Terminal
  <2> QED
    BY <1>0, <2>2, <2>3, <2>4, GetsInLine DEF Recovered
<1>28. ASSUME NEW r \in Reply, Start(r) PROVE [Pool!Next]_(Pool!vars)
  <2>1. UNCHANGED <<pc, job, list, state>> /\ \A i \in Jobs : Recovered(i)' <=> Recovered(i)
    BY <1>28 DEF Start, Recovered
  <2> QED
    BY <1>0, <2>1, Elsewhere
<1>29. ASSUME NEW j \in Jobs, NEW r \in Reply, Requeue(j, r) PROVE [Pool!Next]_(Pool!vars)
  <2>1. UNCHANGED <<pc, job, list>> /\ phase = "recover" /\ \A i \in Jobs \ {j} : state'[i] = state[i]
    BY <1>29 DEF Requeue
  <2>2. \A i \in Jobs : ~Recovered(i) /\ (i # j => ~Recovered(i)')
    BY <1>29 DEF Requeue, Recovered
  <2>3. HeldBy(j) = {} /\ HeldBy(j)' = HeldBy(j)
    BY <2>1 DEF HeldBy
  <2>4. CASE ~WasInterrupted(j)
    <3>1. state'[j] = state[j] /\ ~Recovered(j)'
      BY <1>29, <2>4 DEF Requeue, Recovered
    <3> QED
      BY <1>0, <2>1, <2>2, <3>1, Elsewhere
  <2>5. CASE WasInterrupted(j)
    <3>1. state[j] = "running" /\ state'[j] \in {"running", "pending"} /\ ~InList(j)
      BY <1>29, <2>5 DEF Requeue, WasInterrupted
    <3>2. ~InList(j)' /\ PlaceOf(j) = "adrift"
      BY <1>0, <2>1, <2>3, <3>1, UnchangedLists, OnePlaceOnly DEF Terminal
    <3>3. HeldBy(j)' = {} /\ state'[j] \notin Terminal \cup {"absent", "new"}
      BY <2>3, <3>1 DEF Terminal
    <3>4. PlaceOf(j)' = "adrift"
      BY <1>0, <3>2, <3>3, OnePlaceNext
    <3> QED
      BY <1>0, <2>1, <2>2, <3>2, <3>4, UnchangedLists, OneJob
  <2> QED
    BY <2>4, <2>5
<1>30. ASSUME NEW r \in Reply, RequeuePush(r) PROVE [Pool!Next]_(Pool!vars)
  <2>1. PICK j \in Jobs : j = orphan
    BY <1>30 DEF RequeuePush
  <2>2. /\ UNCHANGED <<pc, job, state>> /\ phase = "repush"
        /\ ~InList(j) /\ state[j] # "new"
    BY <1>30, <2>1 DEF RequeuePush
  <2>3. /\ Recovered(j)
        /\ \A i \in Jobs \ {j} : ~Recovered(i) /\ ~Recovered(i)'
    BY <1>30, <2>1, <2>2 DEF RequeuePush, Recovering, Recovered
  <2>4. HeldBy(j) = {}
    BY <2>2 DEF HeldBy
  <2>5. ListsGain(j) \/ UNCHANGED list
    BY <1>30, <1>0, <2>1, <2>2, PushOutcome DEF RequeuePush
  <2>6. PlaceOf(j) = "adrift"
    BY <1>0, <2>2, <2>3, <2>4, OnePlaceOnly
  <2> QED
    BY <1>0, <2>2, <2>3, <2>4, <2>5, <2>6, GetsInLine
<1>31. ASSUME NEW r \in Reply, RequeueDone(r) PROVE [Pool!Next]_(Pool!vars)
  <2>1. UNCHANGED <<pc, job, list, state>> /\ \A i \in Jobs : Recovered(i)' <=> Recovered(i)
    BY <1>31 DEF RequeueDone, Recovering, Recovered
  <2> QED
    BY <1>0, <2>1, Elsewhere
<1>32. ASSUME Spawn PROVE [Pool!Next]_(Pool!vars)
  <2>1. UNCHANGED <<pc, job, list, state>> /\ \A i \in Jobs : Recovered(i)' <=> Recovered(i)
    BY <1>32 DEF Spawn, Recovered
  <2> QED
    BY <1>0, <2>1, Elsewhere
<1>33. ASSUME Stop PROVE [Pool!Next]_(Pool!vars)
  <2>1. UNCHANGED <<pc, job, list, state>> /\ \A i \in Jobs : Recovered(i)' <=> Recovered(i)
    BY <1>33 DEF Stop, Recovered
  <2> QED
    BY <1>0, <2>1, Elsewhere
<1>34. ASSUME Stopped PROVE [Pool!Next]_(Pool!vars)
  <2>1. UNCHANGED <<pc, job, list, state>> /\ \A i \in Jobs : Recovered(i)' <=> Recovered(i)
    BY <1>34 DEF Stopped, Recovered
  <2> QED
    BY <1>0, <2>1, Elsewhere
<1>35. ASSUME Crash PROVE [Pool!Next]_(Pool!vars)
  BY <1>35, <1>0, CrashMoves
<1>36. ASSUME Pause PROVE [Pool!Next]_(Pool!vars)
  <2>1. UNCHANGED <<pc, job, list, state>> /\ \A i \in Jobs : Recovered(i)' <=> Recovered(i)
    BY <1>36 DEF Pause, Recovered
  <2> QED
    BY <1>0, <2>1, Elsewhere
<1>37. ASSUME Resume PROVE [Pool!Next]_(Pool!vars)
  <2>1. UNCHANGED <<pc, job, list, state>> /\ \A i \in Jobs : Recovered(i)' <=> Recovered(i)
    BY <1>37 DEF Resume, Recovered
  <2> QED
    BY <1>0, <2>1, Elsewhere
<1>38. ASSUME NEW j \in Jobs, Age(j) PROVE [Pool!Next]_(Pool!vars)
  <2>1. UNCHANGED <<pc, job, list, state>> /\ \A i \in Jobs : Recovered(i)' <=> Recovered(i)
    BY <1>38 DEF Age, Recovered
  <2> QED
    BY <1>0, <2>1, Elsewhere
<1>39. ASSUME NEW j \in Jobs, Expire(j) PROVE [Pool!Next]_(Pool!vars)
  <2>1. /\ UNCHANGED <<pc, job, list, worker>> /\ state[j] # "new"
        /\ state'[j] = "absent" /\ \A i \in Jobs \ {j} : state'[i] = state[i]
    BY <1>39 DEF Expire
  <2> QED
    BY <1>0, <2>1, RecordSettles DEF Recovered
<1>40. ASSUME NEW j \in Jobs, ListRecent(j) PROVE [Pool!Next]_(Pool!vars)
  <2>1. UNCHANGED <<pc, job, list, state>> /\ \A i \in Jobs : Recovered(i)' <=> Recovered(i)
    BY <1>40 DEF ListRecent, Recovered
  <2> QED
    BY <1>0, <2>1, Elsewhere
<1>41. ASSUME NEW l \in Loops, LoopStep(l) PROVE [Pool!Next]_(Pool!vars)
  BY <1>41, <1>2, <1>3, <1>4, <1>5, <1>6, <1>7, <1>8, <1>9, <1>10, <1>11, <1>12, <1>13 DEF
     LoopStep
<1>42. ASSUME NEW s \in Submitters, SubmitterStep(s) PROVE [Pool!Next]_(Pool!vars)
  BY <1>42, <1>16, <1>17, <1>18, <1>19, <1>20, <1>21, <1>22, <1>23, <1>24, <1>25, <1>26, <1>27
     DEF SubmitterStep
<1>43. ASSUME StarterStep PROVE [Pool!Next]_(Pool!vars)
  BY <1>43, <1>28, <1>29, <1>30, <1>31, <1>32 DEF StarterStep
<1> QED
  BY <1>1, <1>14, <1>15, <1>33, <1>34, <1>35, <1>36, <1>37, <1>38, <1>39, <1>40, <1>41, <1>42,
     <1>43 DEF Next

\* The hashes, lists and sets of the queue implement the job pool, for any number
\* of jobs, loops, submitters and failures: a job is claimed only while it is in
\* line, by one loop, and one that has ended is never taken up again (dequeue,
\* _handle_failure, recover_orphaned_running, _prune_stale_pending).
THEOREM QueueImplementsJobPool == Spec => ImplementsJobPool
<1>1. Init => Pool!Init
  <2> SUFFICES ASSUME Init PROVE Pool!Init
    OBVIOUS
  <2>1. \A j \in Jobs : PlaceOf(j) = "new" /\ HeldBy(j) = {}
    <3>1. \A j \in Jobs : ~InList(j) /\ HeldBy(j) = {} /\ state[j] = "new"
      BY DEF Init, InList, HeldBy, Holding
    <3> QED
      BY <3>1, InitOwnership, OnePlaceOnly
  <2> QED
    BY <2>1 DEF Pool!Init
<1>2. Ownership /\ NeverListed /\ [Next]_vars => NeverListed'
  BY NextNeverListed
<1>3. Ownership /\ Ownership' /\ NeverListed /\ [Next]_vars => [Pool!Next]_(Pool!vars)
  BY NextPool
<1> QED
  BY <1>1, <1>2, <1>3, InitNeverListed, OwnershipInvariant, PTL DEF Spec, ImplementsJobPool, Pool!Spec
=============================================================================
