-------------------------- MODULE MapUpdater_proofs --------------------------
(***************************************************************************)
(* Proofs about MapUpdater, for every set of workers, maps, instances,     *)
(* players and operations.                                                 *)
(***************************************************************************)
EXTENDS MapUpdater, FiniteSetTheorems, TLAPS

\* Appending and taking the tail change the length by one: the facts about
\* the request queue that the counter rests on.
LEMMA QueueLength ==
  ASSUME NEW S, NEW s \in Seq(S)
  PROVE  /\ Len(s) \in Nat
         /\ Len(s) = 0 <=> s = << >>
         /\ \A e \in S : Append(s, e) \in Seq(S) /\ Len(Append(s, e)) = Len(s) + 1
         /\ s # << >> => /\ Head(s) \in S
                         /\ Tail(s) \in Seq(S)
                         /\ Len(Tail(s)) = Len(s) - 1
OBVIOUS

\* Busy is finite: worker threads are.
LEMMA BusyFinite == IsFiniteSet(Busy) /\ Cardinality(Busy) \in Nat
  BY WorkersFinite, FS_Subset, FS_CardinalityType DEF Busy

LEMMA NoTaskNotTask == NoTask \notin Task
  BY UnitsDisjoint DEF NoTask, Task, Units, Maps

\* Scheduling a request keeps the queue and the program counters well typed.
LEMMA ScheduleType ==
  ASSUME TypeOK, NEW task \in Task, Schedule(task, wpc)
  PROVE  queue' \in Seq(Task) /\ wpc' \in [Workers -> WorkerPC]
<1>1. queue' \in Seq(Task)
  BY QueueLength DEF Schedule, TypeOK
<1>2. wpc' \in [Workers -> WorkerPC]
  BY DEF Schedule, NotifyOne, Waiting, TypeOK, WorkerPC
<1> QED BY <1>1, <1>2

\* Types are preserved, given that the counter stays a natural number.
LEMMA TypeStep ==
  ASSUME TypeOK, [Next]_vars, pending' \in Nat
  PROVE  TypeOK'
<1> USE DEF TypeOK, MainPC
<1>1. CASE SkipTick BY <1>1 DEF SkipTick, world, criteria, critical
<1>2. CASE PrepareCriteria
  BY <1>2 DEF PrepareCriteria, world, critical, Units
<1>3. ASSUME NEW p \in Players, ScheduleCriteria(p) PROVE TypeOK'
  <2>1. CriteriaRequest(p) \in Task BY DEF CriteriaRequest, Task, Units
  <2>2. queue' \in Seq(Task) /\ wpc' \in [Workers -> WorkerPC]
    BY <1>3, <2>1, ScheduleType DEF ScheduleCriteria
  <2> QED BY <1>3, <2>2 DEF ScheduleCriteria, world, criteria, critical
<1>4. ASSUME NEW p \in Players, CallCriteria(p) PROVE TypeOK'
  BY <1>4 DEF CallCriteria, world, critical, Units
<1>5. CASE StartMaps BY <1>5 DEF StartMaps, world, criteria, critical, Units, Maps
<1>6. ASSUME NEW b \in BaseMaps, ScheduleMap(b) PROVE TypeOK'
  <2>1. MapRequest(b) \in Task BY DEF MapRequest, Task, Units, Maps
  <2>2. queue' \in Seq(Task) /\ wpc' \in [Workers -> WorkerPC]
    BY <1>6, <2>1, ScheduleType DEF ScheduleMap
  <2> QED BY <1>6, <2>2 DEF ScheduleMap, world, criteria, critical
<1>7. ASSUME NEW b \in BaseMaps, UpdateMap(b) PROVE TypeOK'
  BY <1>7 DEF UpdateMap, InstancesOf, world, criteria, critical, Units, Maps
<1>8. CASE EndMaps BY <1>8 DEF EndMaps, world, criteria, critical
<1>9. CASE Wait BY <1>9 DEF Wait, world, criteria, critical
<1>10. CASE TakeOperations BY <1>10 DEF TakeOperations, world
<1>11. ASSUME NEW done \in BOOLEAN, RunOperation(done) PROVE TypeOK'
  <2>1. Head(operations) \in Operations /\ Tail(operations) \in Seq(Operations)
    BY <1>11, QueueLength DEF RunOperation
  <2>2. Append(fallback, Head(operations)) \in Seq(Operations)
    BY <2>1, QueueLength
  <2>3. fallback' \in Seq(Operations) /\ asked' \in SUBSET Operations
    <3>1. CASE done BY <1>11, <3>1 DEF RunOperation
    <3>2. CASE ~done BY <1>11, <2>2, <3>2 DEF RunOperation
    <3> QED BY <3>1, <3>2
  <2> QED BY <1>11, <2>1, <2>3 DEF RunOperation, threads, world, criteria
<1>12. CASE PutBack BY <1>12 DEF PutBack, world, criteria
<1>13. CASE Loop BY <1>13 DEF Loop, world, criteria, critical
<1>14. CASE UnloadAll BY <1>14 DEF UnloadAll, criteria, critical
<1>15. CASE Deactivate BY <1>15 DEF Deactivate, world, criteria, critical
<1>16. CASE Cancel BY <1>16 DEF Cancel, world, criteria, critical, WorkerPC
<1>17. CASE Join BY <1>17 DEF Join, world, criteria, critical
<1>18. ASSUME NEW w \in Workers, WaitAndPop(w) PROVE TypeOK'
  <2>1. queue # << >> => Head(queue) \in Task /\ Tail(queue) \in Seq(Task)
    BY QueueLength
  <2>2. queue' \in Seq(Task) /\ wtask' \in [Workers -> Task \cup {NoTask}]
    BY <1>18, <2>1 DEF WaitAndPop
  <2> QED BY <1>18, <2>2 DEF WaitAndPop, world, criteria, critical, WorkerPC
<1>19. ASSUME NEW w \in Workers, StartCall(w) PROVE TypeOK'
  <2>1. wtask[w].of \in Units \cup {Null} BY DEF Task, NoTask
  <2> QED BY <1>19, <2>1 DEF StartCall, InstancesOf, world, criteria, critical, WorkerPC
<1>20. ASSUME NEW w \in Workers, NEW i \in Instances, VisitInstance(w, i) PROVE TypeOK'
  <2>1. MapRequest(i) \in Task BY DEF MapRequest, Task, Units, Maps
  <2>2. queue' \in Seq(Task) /\ wpc' \in [Workers -> WorkerPC]
    BY <1>20, <2>1, ScheduleType DEF VisitInstance
  <2> QED BY <1>20, <2>2 DEF VisitInstance, criteria, critical
<1>21. ASSUME NEW w \in Workers, RunCriteria(w) PROVE TypeOK'
  <2>1. wtask[w] \in Task BY <1>21 DEF RunCriteria, NoTask
  <2>2. /\ wtask[w].of \in Units /\ wtask[w].todo \in Seq(Nat)
        /\ wtask[w].todo # << >>
    BY <1>21, <2>1 DEF RunCriteria, Task
  <2>3. Head(wtask[w].todo) \in Nat /\ Tail(wtask[w].todo) \in Seq(Nat)
    BY <2>2, QueueLength
  <2>4. [wtask[w] EXCEPT !.todo = Tail(wtask[w].todo)] \in Task
    BY <2>1, <2>3 DEF Task
  <2>5. wtask' = [wtask EXCEPT ![w] = [wtask[w] EXCEPT !.todo = Tail(wtask[w].todo)]]
    BY <1>21 DEF RunCriteria
  <2>6. wtask' \in [Workers -> Task \cup {NoTask}]
    BY <2>4, <2>5
  <2>7. applied' \in [Players -> Seq(Nat)]
    <3>1. \A p \in Players : Append(applied[p], Head(wtask[w].todo)) \in Seq(Nat)
      BY <2>3
    <3> QED BY <1>21, <3>1 DEF RunCriteria
  <2> QED BY <1>21, <2>6, <2>7 DEF RunCriteria, world, critical
<1>22. ASSUME NEW w \in Workers, UpdateFinished(w) PROVE TypeOK'
  BY <1>22 DEF UpdateFinished, world, criteria, critical, WorkerPC
<1>23. ASSUME NEW p \in Players, AddCriteriaUpdateTask(p) PROVE TypeOK'
  BY <1>23 DEF AddCriteriaUpdateTask, threads, world, critical
<1>24. ASSUME NEW op \in Operations, AddCriticalOperation(op) PROVE TypeOK'
  BY <1>24 DEF AddCriticalOperation, threads, world, criteria
<1>25. ASSUME NEW b \in BaseMaps, CreateBaseMap(b) PROVE TypeOK'
  BY <1>25 DEF CreateBaseMap, threads, criteria, critical
<1>26. ASSUME NEW i \in Instances, CreateInstance(i) PROVE TypeOK'
  BY <1>26 DEF CreateInstance, threads, criteria, critical
<1>27. CASE StopNow BY <1>27 DEF StopNow, world, criteria, critical
<1>28. CASE WaitAgain BY <1>28 DEF WaitAgain, world, criteria, critical
<1>29. ASSUME NEW w \in Workers, SpuriousWakeup(w) PROVE TypeOK'
  BY <1>29 DEF SpuriousWakeup, world, criteria, critical, WorkerPC
<1>30. CASE UNCHANGED vars BY <1>30 DEF vars, threads, world, criteria, critical
<1> QED
  BY <1>1, <1>2, <1>3, <1>4, <1>5, <1>6, <1>7, <1>8, <1>9, <1>10, <1>11, <1>12,
     <1>13, <1>14, <1>15, <1>16, <1>17, <1>18, <1>19, <1>20, <1>21, <1>22, <1>23,
     <1>24, <1>25, <1>26, <1>27, <1>28, <1>29, <1>30
  DEF Next, Main, Worker, Environment, Terminated

-----------------------------------------------------------------------------

\* A request a worker runs names a map or a player, so it is not the null one.
LEMMA RunningIsTask ==
  ASSUME TypeOK, NEW w \in Workers, RunCriteria(w)
  PROVE  wtask[w] \in Task /\ Busy' = Busy
<1>1. wtask[w] \in Task BY DEF RunCriteria, NoTask, TypeOK
<1>2. wtask' = [wtask EXCEPT ![w] = [wtask[w] EXCEPT !.todo = Tail(wtask[w].todo)]]
  BY DEF RunCriteria
<1>3. wtask'[w].of = wtask[w].of BY <1>1, <1>2 DEF TypeOK, Task
<1>4. wtask'[w] # NoTask /\ wtask[w] # NoTask
  BY <1>1, <1>3, UnitsDisjoint DEF Task, NoTask, Units, Maps
<1>5. \A v \in Workers \ {w} : wtask'[v] = wtask[v] BY <1>2 DEF TypeOK
<1> QED BY <1>1, <1>4, <1>5 DEF Busy

\* A worker at the top of its loop that takes a request becomes busy.
LEMMA PopBusy ==
  ASSUME TypeOK, WorkerShape, NEW w \in Workers, WaitAndPop(w)
  PROVE  \/ queue' = queue /\ wtask' = wtask
         \/ /\ queue # << >> /\ ~shutdown /\ queue' = Tail(queue)
            /\ w \notin Busy /\ Busy' = Busy \cup {w}
<1>1. CASE queue # << >> /\ ~shutdown
  <2>1. Head(queue) \in Task BY <1>1, QueueLength DEF TypeOK
  <2>2. wtask' = [wtask EXCEPT ![w] = Head(queue)] /\ queue' = Tail(queue)
    BY <1>1 DEF WaitAndPop
  <2>3. wtask[w] = NoTask BY DEF WaitAndPop, WorkerShape
  <2>4. Head(queue) # NoTask BY <2>1, NoTaskNotTask
  <2>5. wtask'[w] # NoTask /\ \A v \in Workers \ {w} : wtask'[v] = wtask[v]
    BY <2>2, <2>4 DEF TypeOK
  <2> QED BY <1>1, <2>2, <2>3, <2>5 DEF Busy
<1>2. CASE ~(queue # << >> /\ ~shutdown) BY <1>2 DEF WaitAndPop
<1> QED BY <1>1, <1>2

\* A worker that finishes a request held one, and holds none afterwards.
LEMMA FinishBusy ==
  ASSUME TypeOK, WorkerShape, NEW w \in Workers, UpdateFinished(w)
  PROVE  w \in Busy /\ Busy' = Busy \ {w}
<1>1. wtask[w] # NoTask BY DEF UpdateFinished, WorkerShape
<1>2. wtask'[w] = NoTask /\ \A v \in Workers \ {w} : wtask'[v] = wtask[v]
  BY DEF UpdateFinished, TypeOK
<1> QED BY <1>1, <1>2 DEF Busy

\* Every step is one of the steps that move a request, or leaves the counter,
\* the queue and the requests in the workers' hands alone.
LEMMA StepKinds ==
  ASSUME [Next]_vars
  PROVE  \/ UNCHANGED <<pending, queue, wtask>>
         \/ \E p \in Players : ScheduleCriteria(p)
         \/ \E b \in BaseMaps : ScheduleMap(b)
         \/ \E w \in Workers : \/ WaitAndPop(w) \/ RunCriteria(w) \/ UpdateFinished(w)
                               \/ \E i \in Instances : VisitInstance(w, i)
         \/ Cancel
<1>1. CASE UNCHANGED vars BY <1>1 DEF vars, threads
<1>2. CASE Main
  BY <1>2 DEF Main, SkipTick, PrepareCriteria, CallCriteria, StartMaps, UpdateMap,
       EndMaps, Wait, TakeOperations, RunOperation, PutBack, Loop, UnloadAll,
       Deactivate, Join, threads
<1>3. ASSUME NEW w \in Workers, Worker(w)
      PROVE  \/ UNCHANGED <<pending, queue, wtask>>
             \/ WaitAndPop(w) \/ RunCriteria(w) \/ UpdateFinished(w)
             \/ \E i \in Instances : VisitInstance(w, i)
  BY <1>3 DEF Worker, StartCall
<1>4. CASE Environment
  BY <1>4 DEF Environment, AddCriteriaUpdateTask, AddCriticalOperation,
       CreateBaseMap, CreateInstance, StopNow, WaitAgain, SpuriousWakeup, threads
<1> QED BY <1>1, <1>2, <1>3, <1>4 DEF Next, Terminated

\* The counter stays exact.
LEMMA CountStep ==
  ASSUME TypeOK, PendingExact, WorkerShape, Quiet, [Next]_vars
  PROVE  PendingExact'
<1> USE DEF PendingExact
<1>1. CASE UNCHANGED <<pending, queue, wtask>> BY <1>1 DEF Busy
<1>2. ASSUME NEW task \in Task, Schedule(task, wpc), wtask' = wtask PROVE PendingExact'
  <2>1. Len(queue') = Len(queue) + 1 /\ Len(queue) \in Nat
    BY <1>2, QueueLength DEF Schedule, TypeOK
  <2>2. Busy' = Busy BY <1>2 DEF Busy
  <2> QED BY <1>2, <2>1, <2>2, BusyFinite DEF Schedule, TypeOK
<1>3. ASSUME NEW p \in Players, ScheduleCriteria(p) PROVE PendingExact'
  <2>1. CriteriaRequest(p) \in Task BY DEF CriteriaRequest, Task, Units, TypeOK
  <2> QED BY <1>2, <1>3, <2>1 DEF ScheduleCriteria
<1>4. ASSUME NEW b \in BaseMaps, ScheduleMap(b) PROVE PendingExact'
  <2>1. MapRequest(b) \in Task BY DEF MapRequest, Task, Units, Maps
  <2> QED BY <1>2, <1>4, <2>1 DEF ScheduleMap
<1>5. ASSUME NEW w \in Workers, NEW i \in Instances, VisitInstance(w, i) PROVE PendingExact'
  <2>1. MapRequest(i) \in Task BY DEF MapRequest, Task, Units, Maps
  <2> QED BY <1>1, <1>2, <1>5, <2>1 DEF VisitInstance
<1>6. ASSUME NEW w \in Workers, WaitAndPop(w) PROVE PendingExact'
  <2>1. CASE queue' = queue /\ wtask' = wtask BY <1>6, <2>1 DEF WaitAndPop, Busy
  <2>2. CASE queue # << >> /\ queue' = Tail(queue) /\ w \notin Busy /\ Busy' = Busy \cup {w}
    <3>1. Len(queue') = Len(queue) - 1 /\ Len(queue) \in Nat
      BY <2>2, QueueLength DEF TypeOK
    <3>2. Cardinality(Busy') = Cardinality(Busy) + 1
      BY <2>2, BusyFinite, FS_AddElement
    <3> QED BY <1>6, <3>1, <3>2, BusyFinite DEF WaitAndPop
  <2> QED BY <1>6, <2>1, <2>2, PopBusy
<1>7. ASSUME NEW w \in Workers, RunCriteria(w) PROVE PendingExact'
  BY <1>7, RunningIsTask DEF RunCriteria
<1>8. ASSUME NEW w \in Workers, UpdateFinished(w) PROVE PendingExact'
  <2>1. w \in Busy /\ Busy' = Busy \ {w} BY <1>8, FinishBusy
  <2>2. Cardinality(Busy') = Cardinality(Busy) - 1
    BY <2>1, BusyFinite, FS_RemoveElement
  <2>3. Len(queue) \in Nat BY QueueLength DEF TypeOK
  <2> QED BY <1>8, <2>2, <2>3, BusyFinite DEF UpdateFinished
<1>9. CASE Cancel
  BY <1>9 DEF Cancel, Quiet, PastBarrier, Busy
<1> QED BY <1>1, <1>3, <1>4, <1>5, <1>6, <1>7, <1>8, <1>9, StepKinds

\* The counter never wraps: a worker that counts a request off was counted.
LEMMA CounterNat ==
  ASSUME TypeOK, PendingExact, WorkerShape, [Next]_vars
  PROVE  pending' \in Nat
<1>1. ASSUME NEW w \in Workers, UpdateFinished(w) PROVE pending' \in Nat
  <2>1. Busy # {} BY <1>1, FinishBusy
  <2>2. Cardinality(Busy) \in Nat \ {0} BY <2>1, BusyFinite, FS_EmptySet
  <2>3. Len(queue) \in Nat BY QueueLength DEF TypeOK
  <2> QED BY <1>1, <2>2, <2>3 DEF UpdateFinished, PendingExact
<1>2. CASE pending' \in {pending, pending + 1} BY <1>2 DEF TypeOK
<1> QED
  BY <1>1, <1>2, StepKinds
  DEF ScheduleCriteria, ScheduleMap, VisitInstance, Schedule, WaitAndPop, RunCriteria, Cancel

\* Pushing a request only wakes a sleeping worker.
LEMMA ScheduleWakes ==
  ASSUME TypeOK, NEW task \in Task, Schedule(task, wpc), NEW v \in Workers
  PROVE  wpc'[v] = wpc[v] \/ (wpc[v] = "waiting" /\ wpc'[v] = "pop")
  BY DEF Schedule, NotifyOne, Waiting, TypeOK

\* What a worker holds at each place of its loop, and the order in which
\* deactivate sets the token and shuts the queue down, are preserved.
LEMMA ShapeStep ==
  ASSUME TypeOK, WorkerShape, Quiet, [Next]_vars
  PROVE  WorkerShape'
<1> USE DEF WorkerShape
<1>1. CASE UNCHANGED vars BY <1>1 DEF vars, threads
<1>2. CASE SkipTick \/ StartMaps \/ EndMaps \/ Wait \/ TakeOperations \/ PutBack \/ Loop
           \/ UnloadAll \/ PrepareCriteria \/ Join \/ WaitAgain \/ StopNow
  <2>1. UNCHANGED <<wpc, wtask, shutdown, cancel>>
    BY <1>2 DEF SkipTick, StartMaps, EndMaps, Wait, TakeOperations, PutBack, Loop,
         UnloadAll, PrepareCriteria, Join, WaitAgain, StopNow
  <2>2. /\ cancel => main' \in {"wait", "blocked", "cancel", "join", "stopped"}
        /\ main' = "cancel" => cancel
    BY <1>2 DEF SkipTick, StartMaps, EndMaps, Wait, TakeOperations, PutBack, Loop,
         UnloadAll, PrepareCriteria, Join, WaitAgain, StopNow
  <2> QED BY <2>1, <2>2
<1>3. CASE Deactivate BY <1>3 DEF Deactivate
<1>4. CASE Cancel
  <2>1. cancel BY <1>4 DEF Cancel
  <2> QED BY <1>4, <2>1 DEF Cancel, TypeOK
<1>5. ASSUME NEW task \in Task, Schedule(task, wpc), UNCHANGED <<main, shutdown, cancel, wtask>>
      PROVE  WorkerShape'
  BY <1>5, ScheduleWakes
<1>6. ASSUME NEW p \in Players, ScheduleCriteria(p) PROVE WorkerShape'
  <2>1. CriteriaRequest(p) \in Task BY DEF CriteriaRequest, Task, Units, TypeOK
  <2> QED BY <1>5, <1>6, <2>1 DEF ScheduleCriteria
<1>7. ASSUME NEW b \in BaseMaps, ScheduleMap(b) PROVE WorkerShape'
  <2>1. MapRequest(b) \in Task BY DEF MapRequest, Task, Units, Maps
  <2> QED BY <1>5, <1>7, <2>1 DEF ScheduleMap
<1>8. ASSUME NEW w \in Workers, NEW i \in Instances, VisitInstance(w, i) PROVE WorkerShape'
  <2>1. MapRequest(i) \in Task BY DEF MapRequest, Task, Units, Maps
  <2> QED BY <1>5, <1>8, <2>1 DEF VisitInstance
<1>9. CASE \/ \E p \in Players : CallCriteria(p) \/ AddCriteriaUpdateTask(p)
           \/ \E b \in BaseMaps : UpdateMap(b) \/ CreateBaseMap(b)
           \/ \E done \in BOOLEAN : RunOperation(done)
           \/ \E op \in Operations : AddCriticalOperation(op)
           \/ \E i \in Instances : CreateInstance(i)
  <2>1. UNCHANGED <<main, wpc, wtask, shutdown, cancel>>
    BY <1>9 DEF CallCriteria, AddCriteriaUpdateTask, UpdateMap, CreateBaseMap,
         RunOperation, AddCriticalOperation, CreateInstance, threads
  <2> QED BY <2>1
<1>10. ASSUME NEW w \in Workers, WaitAndPop(w) PROVE WorkerShape'
  <2>1. queue # << >> => Head(queue) # NoTask
    BY QueueLength, NoTaskNotTask DEF TypeOK
  <2> QED BY <1>10, <2>1 DEF WaitAndPop, TypeOK
<1>11. ASSUME NEW w \in Workers, SpuriousWakeup(w) PROVE WorkerShape'
  BY <1>11 DEF SpuriousWakeup, TypeOK
<1>12. ASSUME NEW w \in Workers, StartCall(w) PROVE WorkerShape'
  BY <1>12 DEF StartCall, TypeOK
<1>13. ASSUME NEW w \in Workers, RunCriteria(w) PROVE WorkerShape'
  <2>1. Busy' = Busy /\ UNCHANGED <<main, wpc, shutdown, cancel>>
    BY <1>13, RunningIsTask DEF RunCriteria
  <2> QED BY <2>1 DEF Busy
<1>14. ASSUME NEW w \in Workers, UpdateFinished(w) PROVE WorkerShape'
  BY <1>14 DEF UpdateFinished, TypeOK
<1> QED
  BY <1>1, <1>2, <1>3, <1>4, <1>6, <1>7, <1>8, <1>9, <1>10, <1>11, <1>12, <1>13, <1>14
  DEF Next, Main, Worker, Environment, Terminated

\* The barrier is preserved: the world thread gets past it only when the
\* counter is zero, and nothing is scheduled behind it.
LEMMA QuietStep ==
  ASSUME TypeOK, PendingExact, WorkerShape, Quiet, [Next]_vars
  PROVE  Quiet'
<1> USE DEF Quiet, PastBarrier
<1>1. CASE Wait
  <2>1. CASE pending > 0 BY <1>1, <2>1 DEF Wait, Busy
  <2>2. CASE ~(pending > 0)
    <3>1. Len(queue) \in Nat /\ (Len(queue) = 0 <=> queue = << >>)
      BY QueueLength DEF TypeOK
    <3>2. Len(queue) = 0 /\ Cardinality(Busy) = 0
      BY <2>2, <3>1, BusyFinite DEF TypeOK, PendingExact
    <3>3. queue = << >> /\ Busy = {}
      BY <3>1, <3>2, BusyFinite, FS_EmptySet
    <3> QED BY <1>1, <3>3 DEF Wait, Busy
  <2> QED BY <2>1, <2>2
<1>2. CASE Cancel BY <1>2 DEF Cancel, Busy
<1>3. ASSUME NEW p \in Players, ScheduleCriteria(p) PROVE Quiet'
  BY <1>3 DEF ScheduleCriteria, WorkerShape
<1>4. ASSUME NEW b \in BaseMaps, ScheduleMap(b) PROVE Quiet'
  BY <1>4 DEF ScheduleMap, WorkerShape
<1>5. ASSUME NEW w \in Workers, wpc[w] = "call", cancel' = cancel,
             main' = main \/ (main = "blocked" /\ main' = "wait")
      PROVE  Quiet'
  <2>1. w \in Busy BY <1>5 DEF WorkerShape, Busy
  <2> QED BY <1>5, <2>1 DEF activated
<1>6. ASSUME NEW w \in Workers, NEW i \in Instances, VisitInstance(w, i) PROVE Quiet'
  BY <1>5, <1>6 DEF VisitInstance
<1>7. ASSUME NEW w \in Workers, RunCriteria(w) PROVE Quiet'
  BY <1>5, <1>7 DEF RunCriteria
<1>8. ASSUME NEW w \in Workers, UpdateFinished(w) PROVE Quiet'
  BY <1>5, <1>8 DEF UpdateFinished
<1>9. ASSUME NEW w \in Workers, WaitAndPop(w) PROVE Quiet'
  <2>1. UNCHANGED <<main, cancel>> BY <1>9 DEF WaitAndPop
  <2> QED BY <1>9, <2>1, PopBusy DEF Busy
<1>10. CASE UNCHANGED <<queue, wtask>> /\ ~Wait
  <2>1. Busy' = Busy BY <1>10 DEF Busy
  <2>2. PastBarrier' \/ cancel' => PastBarrier \/ cancel \/ ~activated
    <3>1. CASE UNCHANGED <<main, cancel>> BY <3>1
    <3>2. CASE SkipTick \/ PrepareCriteria \/ StartMaps \/ EndMaps \/ TakeOperations
               \/ PutBack \/ Loop \/ UnloadAll \/ Deactivate \/ Join \/ WaitAgain
      BY <3>2 DEF SkipTick, PrepareCriteria, StartMaps, EndMaps, TakeOperations,
           PutBack, Loop, UnloadAll, Deactivate, Join, WaitAgain
    <3>3. UNCHANGED <<main, cancel>> \/ SkipTick \/ PrepareCriteria \/ StartMaps \/ EndMaps
          \/ TakeOperations \/ PutBack \/ Loop \/ UnloadAll \/ Deactivate \/ Join
          \/ WaitAgain \/ Cancel \/ \E w \in Workers : UpdateFinished(w)
      <4>1. CASE UNCHANGED vars BY <4>1 DEF vars, threads
      <4>2. CASE Main
        BY <1>10, <4>2 DEF Main, ScheduleCriteria, CallCriteria, ScheduleMap, UpdateMap,
             RunOperation, threads
      <4>3. ASSUME NEW w \in Workers, Worker(w), ~UpdateFinished(w)
            PROVE  UNCHANGED <<main, cancel>>
        BY <4>3 DEF Worker, WaitAndPop, StartCall, VisitInstance, RunCriteria
      <4>4. CASE Environment
        BY <4>4 DEF Environment, AddCriteriaUpdateTask, AddCriticalOperation,
             CreateBaseMap, CreateInstance, StopNow, SpuriousWakeup, threads
      <4> QED BY <4>1, <4>2, <4>3, <4>4 DEF Next, Terminated
    <3>4. CASE Cancel BY <3>4 DEF Cancel
    <3>5. ASSUME NEW w \in Workers, UpdateFinished(w) PROVE PastBarrier' \/ cancel' => PastBarrier \/ cancel
      BY <3>5 DEF UpdateFinished
    <3> QED BY <3>1, <3>2, <3>3, <3>4, <3>5
  <2> QED BY <1>10, <2>1, <2>2 DEF activated
<1> QED BY <1>1, <1>2, <1>3, <1>4, <1>6, <1>7, <1>8, <1>9, <1>10, StepKinds

\* The invariant of the world tick: the request counter of MapUpdater is exact,
\* and behind the barrier of MapManager::Update nothing is queued or running.
THEOREM TickInvariant == Spec => []TickInv
<1>1. Init => TickInv
  <2> SUFFICES ASSUME Init PROVE TickInv OBVIOUS
  <2>1. Busy = {} BY DEF Init, Busy
  <2>2. TypeOK
    <3>1. wtask \in [Workers -> Task \cup {NoTask}] /\ wtodo \in [Workers -> SUBSET Instances]
      BY DEF Init
    <3>2. /\ locked \in [Players -> Seq(Nat)] /\ playerTasks \in [Players -> Seq(Nat)]
          /\ posted \in [Players -> Nat] /\ applied \in [Players -> Seq(Nat)]
      BY DEF Init
    <3>3. /\ queue \in Seq(Task) /\ criticalQ \in Seq(Operations)
          /\ operations \in Seq(Operations) /\ fallback \in Seq(Operations)
      BY DEF Init
    <3>4. wpc \in [Workers -> WorkerPC] /\ main \in MainPC BY DEF Init, MainPC, WorkerPC
    <3> QED BY <3>1, <3>2, <3>3, <3>4 DEF Init, TypeOK
  <2>3. PendingExact BY <2>1, FS_EmptySet DEF Init, PendingExact
  <2>4. WorkerShape BY DEF Init, WorkerShape
  <2>5. Quiet BY <2>1 DEF Init, Quiet
  <2> QED BY <2>2, <2>3, <2>4, <2>5 DEF TickInv
<1>2. TickInv /\ [Next]_vars => TickInv'
  <2> SUFFICES ASSUME TickInv, [Next]_vars PROVE TickInv' OBVIOUS
  <2> USE DEF TickInv
  <2>1. PendingExact' BY CountStep
  <2>2. WorkerShape' BY ShapeStep
  <2>3. Quiet' BY QuietStep
  <2>4. TypeOK' BY CounterNat, TypeStep
  <2> QED BY <2>1, <2>2, <2>3, <2>4
<1> QED BY <1>1, <1>2, PTL DEF Spec

\* pending_requests equals the requests queued or in the hands of a worker.
THEOREM PendingAlwaysExact == Spec => []PendingExact
<1>1. TickInv => PendingExact BY DEF TickInv
<1> QED BY <1>1, TickInvariant, PTL

\* DelayedUpdate, the critical operations, the session updates and UnloadAll run
\* with no request queued and no worker inside an update.
THEOREM BarrierHolds == Spec => []Quiescent
<1>1. TickInv => Quiescent BY DEF TickInv, Quiet, Quiescent
<1> QED BY <1>1, TickInvariant, PTL

\* No worker thread calls through the null request WaitAndPop leaves at shutdown.
THEOREM RequestNeverNull == Spec => []NoNullRequest
<1>1. TickInv => NoNullRequest BY DEF TickInv, WorkerShape, NoNullRequest
<1> QED BY <1>1, TickInvariant, PTL

\* Types, and with them that the unsigned pending_requests never wraps.
THEOREM TickTypes == Spec => []TypeOK
<1>1. TickInv => TypeOK BY DEF TickInv
<1> QED BY <1>1, TickInvariant, PTL

=============================================================================
