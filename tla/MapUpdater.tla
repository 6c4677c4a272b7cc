----------------------------- MODULE MapUpdater -----------------------------
(***************************************************************************)
(* The world tick: MapManager::Update hands one request per player with    *)
(* outstanding achievement criteria and one per base map to the worker     *)
(* threads of MapUpdater, waits until pending_requests is back to zero,    *)
(* and only then runs the code that is allowed to touch every map          *)
(* (DelayedUpdate, the critical operations).  A request for an instanced   *)
(* base map (MapInstanced::Update) itself destroys its idle instances and  *)
(* schedules one more request for every other instance.                    *)
(*                                                                         *)
(* The mutexes of the code protect short sections without blocking calls,  *)
(* so each section is one step.  The two condition variables are wait      *)
(* sets: a thread whose program counter is "waiting" (a worker, on the     *)
(* queue's _condition) or "blocked" (the world thread, on MapUpdater's     *)
(* _condition) sleeps until it is notified or wakes up spuriously.         *)
(***************************************************************************)
EXTENDS Integers, Sequences, FiniteSets

CONSTANTS
  Workers,      \* the threads started by MapUpdater::activate
  BaseMaps,     \* map ids: continents and instanceable maps
  Instances,    \* copies of instanceable maps
  Base,         \* the base map each instance is a copy of
  Players,      \* players that post achievement criteria tasks
  Operations,   \* critical operations
  MaxCriteria,  \* bound: criteria tasks posted per player
  Null          \* the subject of no request

ASSUME WorkersFinite == IsFiniteSet(Workers)
ASSUME InstanceBase == Base \in [Instances -> BaseMaps]
ASSUME CriteriaBound == MaxCriteria \in Nat
ASSUME UnitsDisjoint == /\ BaseMaps \cap Instances = {}
                        /\ Players \cap (BaseMaps \cup Instances) = {}
                        /\ Null \notin BaseMaps \cup Instances \cup Players

VARIABLES
  main,       \* program counter of the world thread
  toSchedule, \* players or base maps the scheduling loops have still to reach
  pending,    \* MapUpdater::pending_requests
  queue,      \* ProducerConsumerQueue::_queue
  shutdown,   \* ProducerConsumerQueue::_shutdown
  cancel,     \* MapUpdater::_cancelationToken
  stop,       \* World::m_stopEvent
  wpc,        \* program counter of every worker
  wtask,      \* the request a worker holds
  wtodo,      \* the instances a worker's MapInstanced::Update has still to visit
  maps,       \* MapManager::i_maps
  live,       \* the instances in the m_InstancedMaps of all base maps
  locked,     \* m_LockedPlayersAchievementCriteriaTask
  playerTasks,\* m_PlayersAchievementCriteriaTask
  posted,     \* history: how many criteria tasks a player has posted
  applied,    \* history: the criteria tasks run for a player, in order
  criticalQ,  \* m_CriticalOperation
  operations, \* l_Operations
  fallback,   \* l_CriticalOperationFallBack
  asked,      \* history: operations added and not yet performed
  updated     \* history: the maps whose Update was started in this tick

threads == <<main, toSchedule, pending, queue, shutdown, cancel, stop, wpc, wtask, wtodo>>
world   == <<maps, live>>
criteria == <<locked, playerTasks, posted, applied>>
critical == <<criticalQ, operations, fallback, asked>>
vars == <<threads, world, criteria, critical, updated>>

Maps  == BaseMaps \cup Instances
Units == Maps \cup Players
Task  == [of : Units, todo : Seq(Nat)]

\* The null pointer a worker holds between two requests.
NoTask == [of |-> Null, todo |-> << >>]

\* MapUpdateRequest: the map to update.
MapRequest(m) == [of |-> m, todo |-> << >>]

\* AchievementCriteriaUpdateRequest: a copy of the player's task queue.
CriteriaRequest(p) == [of |-> p, todo |-> playerTasks[p]]

activated == Workers # {}

\* The instances in m_InstancedMaps of base map b.
InstancesOf(b) == {i \in live : Base[i] = b}

Init ==
  /\ main = "world" /\ toSchedule = {}
  /\ pending = 0 /\ queue = << >> /\ shutdown = FALSE
  /\ cancel = FALSE /\ stop = FALSE
  /\ wpc = [w \in Workers |-> "pop"]
  /\ wtask = [w \in Workers |-> NoTask]
  /\ wtodo = [w \in Workers |-> {}]
  /\ maps = {} /\ live = {}
  /\ locked = [p \in Players |-> << >>]
  /\ playerTasks = [p \in Players |-> << >>]
  /\ posted = [p \in Players |-> 0]
  /\ applied = [p \in Players |-> << >>]
  /\ criticalQ = << >> /\ operations = << >> /\ fallback = << >>
  /\ asked = {} /\ updated = {}

-----------------------------------------------------------------------------
(* ProducerConsumerQueue and the request counter.                          *)

Waiting == {w \in Workers : wpc[w] = "waiting"}

\* _condition.notify_one() of the queue: pcs is wpc with at most one waiting
\* worker awake; a notification nobody waits for is lost.
NotifyOne(pcs) ==
  \/ Waiting = {} /\ wpc' = pcs
  \/ \E w \in Waiting : wpc' = [pcs EXCEPT ![w] = "pop"]

\* Mutant: the request is pushed without being counted.
ScheduleUncounted(task, pcs) ==
  pending' = pending /\ queue' = Append(queue, task) /\ NotifyOne(pcs)

\* schedule_update / schedule_specific: count the request and push it, both
\* under MapUpdater::_lock.
Schedule(task, pcs) ==
  /\ pending' = pending + 1
  /\ queue' = Append(queue, task)
  /\ NotifyOne(pcs)

\* WaitAndPop.
WaitAndPop(w) ==
  /\ wpc[w] = "pop"
  /\ \/ /\ queue = << >> /\ ~shutdown
        /\ wpc' = [wpc EXCEPT ![w] = "waiting"]
        /\ UNCHANGED <<queue, wtask>>
     \/ /\ shutdown
        /\ wpc' = [wpc EXCEPT ![w] = "popped"]
        /\ UNCHANGED <<queue, wtask>>
     \/ /\ queue # << >> /\ ~shutdown
        /\ wpc' = [wpc EXCEPT ![w] = "popped"]
        /\ wtask' = [wtask EXCEPT ![w] = Head(queue)]
        /\ queue' = Tail(queue)
  /\ UNCHANGED <<main, toSchedule, pending, shutdown, cancel, stop, wtodo,
                 world, criteria, critical, updated>>

\* Mutant: "if" instead of "while" around the wait in WaitAndPop.
WakeupUnchecked(w) ==
  /\ wpc[w] = "waiting"
  /\ wpc' = [wpc EXCEPT ![w] = "popped"]
  /\ UNCHANGED <<main, toSchedule, pending, queue, shutdown, cancel, stop,
                 wtask, wtodo, world, criteria, critical, updated>>

\* A condition variable may wake up without a notification.
SpuriousWakeup(w) ==
  /\ wpc[w] = "waiting"
  /\ wpc' = [wpc EXCEPT ![w] = "pop"]
  /\ UNCHANGED <<main, toSchedule, pending, queue, shutdown, cancel, stop,
                 wtask, wtodo, world, criteria, critical, updated>>

-----------------------------------------------------------------------------
(* MapUpdater::WorkerThread.                                               *)

\* The worker looks at the cancelation token and either returns or enters
\* call(); MapInstanced::Update starts its loop at the first instance.
StartCall(w) ==
  /\ wpc[w] = "popped"
  /\ \/ cancel /\ wpc' = [wpc EXCEPT ![w] = "exited"] /\ UNCHANGED <<wtodo, updated>>
     \/ /\ ~cancel
        /\ wpc' = [wpc EXCEPT ![w] = "call"]
        /\ wtodo' = [wtodo EXCEPT ![w] = InstancesOf(wtask[w].of)]
        /\ updated' = updated \cup {wtask[w].of}
  /\ UNCHANGED <<main, toSchedule, pending, queue, shutdown, cancel, stop,
                 wtask, world, criteria, critical>>

\* Mutant: an instance that was scheduled is destroyed as well.
VisitBoth(w, i) ==
  /\ wpc[w] = "call" /\ i \in wtodo[w]
  /\ wtodo' = [wtodo EXCEPT ![w] = @ \ {i}]
  /\ live' = live \ {i} /\ Schedule(MapRequest(i), wpc)
  /\ UNCHANGED <<main, toSchedule, shutdown, cancel, stop, wtask, maps,
                 criteria, critical, updated>>

\* MapInstanced::Update reaches instance i: an instance that can unload is
\* destroyed, or kept without an update when players are still in it; any
\* other instance is scheduled.
VisitInstance(w, i) ==
  /\ wpc[w] = "call" /\ i \in wtodo[w]
  /\ wtodo' = [wtodo EXCEPT ![w] = @ \ {i}]
  /\ \/ live' = live \ {i} /\ UNCHANGED <<pending, queue, wpc>>
     \/ UNCHANGED <<live, pending, queue, wpc>>
     \/ Schedule(MapRequest(i), wpc) /\ UNCHANGED live
  /\ UNCHANGED <<main, toSchedule, shutdown, cancel, stop, wtask, maps,
                 criteria, critical, updated>>

\* AchievementCriteriaUpdateRequest::call runs the next task of its copy.
RunCriteria(w) ==
  /\ wpc[w] = "call" /\ wtask[w].todo # << >>
  /\ applied' = [applied EXCEPT ![wtask[w].of] = Append(@, Head(wtask[w].todo))]
  /\ wtask' = [wtask EXCEPT ![w].todo = Tail(@)]
  /\ UNCHANGED <<main, toSchedule, pending, queue, shutdown, cancel, stop, wpc,
                 wtodo, world, locked, playerTasks, posted, critical, updated>>

\* UpdateFinished, the last statement of call(): count the request off and
\* wake the world thread; WorkerThread then deletes the request.
UpdateFinished(w) ==
  /\ wpc[w] = "call" /\ wtodo[w] = {} /\ wtask[w].todo = << >>
  /\ pending' = pending - 1
  /\ main' = IF main = "blocked" THEN "wait" ELSE main
  /\ wpc' = [wpc EXCEPT ![w] = "pop"]
  /\ wtask' = [wtask EXCEPT ![w] = NoTask]
  /\ UNCHANGED <<toSchedule, queue, shutdown, cancel, stop, wtodo,
                 world, criteria, critical, updated>>

-----------------------------------------------------------------------------
(* The world thread.                                                       *)

\* Code of the game runs in the world thread outside MapManager::Update (while
\* it kicks the players, too), in a critical operation, and inside a map update or a criteria task.
GameCodeRuns ==
  main \in {"world", "critical", "kick"} \/ \E w \in Workers : wpc[w] = "call"

\* AddCriteriaUpdateTask.
AddCriteriaUpdateTask(p) ==
  /\ GameCodeRuns /\ posted[p] < MaxCriteria
  /\ posted' = [posted EXCEPT ![p] = @ + 1]
  /\ locked' = [locked EXCEPT ![p] = Append(@, posted[p] + 1)]
  /\ UNCHANGED <<threads, world, playerTasks, applied, critical, updated>>

\* AddCriticalOperation.
AddCriticalOperation(op) ==
  /\ GameCodeRuns /\ op \notin asked
  /\ criticalQ' = Append(criticalQ, op)
  /\ asked' = asked \cup {op}
  /\ UNCHANGED <<threads, world, criteria, operations, fallback, updated>>

\* CreateBaseMap, on the world thread.
CreateBaseMap(b) ==
  /\ main = "world" /\ b \notin maps
  /\ maps' = maps \cup {b}
  /\ UNCHANGED <<threads, live, criteria, critical, updated>>

\* MapInstanced::CreateInstance, on the world thread.
CreateInstance(i) ==
  /\ main = "world" /\ i \notin live /\ Base[i] \in maps
  /\ live' = live \cup {i}
  /\ UNCHANGED <<threads, maps, criteria, critical, updated>>

\* World::StopNow, from any thread.
StopNow ==
  /\ ~stop
  /\ stop' = TRUE
  /\ UNCHANGED <<main, toSchedule, pending, queue, shutdown, cancel, wpc, wtask,
                 wtodo, world, criteria, critical, updated>>

\* The timer has not passed: MapManager::Update returns at once.
SkipTick ==
  /\ main = "world"
  /\ main' = "loop"
  /\ UNCHANGED <<toSchedule, pending, queue, shutdown, cancel, stop, wpc, wtask,
                 wtodo, world, criteria, critical, updated>>

\* PrepareCriteriaUpdateTaskThread drains every locked queue into the map of
\* player task queues; the loop over that map starts.
PrepareCriteria ==
  /\ main = "world"
  /\ playerTasks' = [p \in Players |-> playerTasks[p] \o locked[p]]
  /\ locked' = [p \in Players |-> << >>]
  /\ main' = "criteria"
  /\ toSchedule' = {p \in Players : playerTasks'[p] # << >>}
  /\ updated' = {}
  /\ UNCHANGED <<pending, queue, shutdown, cancel, stop, wpc, wtask, wtodo,
                 world, posted, applied, critical>>

\* One turn of the loop over the player tasks, with worker threads.
ScheduleCriteria(p) ==
  /\ main = "criteria" /\ activated /\ p \in toSchedule
  /\ toSchedule' = toSchedule \ {p}
  /\ Schedule(CriteriaRequest(p), wpc)
  /\ UNCHANGED <<main, shutdown, cancel, stop, wtask, wtodo, world, criteria,
                 critical, updated>>

\* The same turn without worker threads: the request is called in place.
CallCriteria(p) ==
  /\ main = "criteria" /\ ~activated /\ p \in toSchedule
  /\ toSchedule' = toSchedule \ {p}
  /\ applied' = [applied EXCEPT ![p] = @ \o playerTasks[p]]
  /\ updated' = updated \cup {p}
  /\ UNCHANGED <<main, pending, queue, shutdown, cancel, stop, wpc, wtask, wtodo,
                 world, locked, playerTasks, posted, critical>>

\* The loop over the base maps starts.
StartMaps ==
  /\ main = "criteria" /\ toSchedule = {}
  /\ main' = "maps"
  /\ toSchedule' = maps
  /\ UNCHANGED <<pending, queue, shutdown, cancel, stop, wpc, wtask, wtodo,
                 world, criteria, critical, updated>>

\* One turn of that loop, with worker threads.
ScheduleMap(b) ==
  /\ main = "maps" /\ activated /\ b \in toSchedule
  /\ toSchedule' = toSchedule \ {b}
  /\ Schedule(MapRequest(b), wpc)
  /\ UNCHANGED <<main, shutdown, cancel, stop, wtask, wtodo, world, criteria,
                 critical, updated>>

\* Mutant: instances are updated in place whether destroyed or not.
UpdateMapDestroyed(b) ==
  /\ main = "maps" /\ ~activated /\ b \in toSchedule
  /\ toSchedule' = toSchedule \ {b}
  /\ \E destroyed \in SUBSET InstancesOf(b) : live' = live \ destroyed
  /\ updated' = updated \cup {b} \cup InstancesOf(b)
  /\ UNCHANGED <<main, pending, queue, shutdown, cancel, stop, wpc, wtask, wtodo,
                 maps, criteria, critical>>

\* The same turn without: the map, and the instances of an instanced map that
\* are neither destroyed nor kept for their players, are updated in place.
UpdateMap(b) ==
  /\ main = "maps" /\ ~activated /\ b \in toSchedule
  /\ toSchedule' = toSchedule \ {b}
  /\ \E destroyed \in SUBSET InstancesOf(b) :
       \E kept \in SUBSET (InstancesOf(b) \ destroyed) :
         /\ live' = live \ destroyed
         /\ updated' = updated \cup {b} \cup (InstancesOf(b) \ (destroyed \cup kept))
  /\ UNCHANGED <<main, pending, queue, shutdown, cancel, stop, wpc, wtask, wtodo,
                 maps, criteria, critical>>

\* Mutant: the world thread does not wait.
EndMapsNoWait ==
  /\ main = "maps" /\ toSchedule = {}
  /\ main' = "serial"
  /\ UNCHANGED <<toSchedule, pending, queue, shutdown, cancel, stop, wpc, wtask,
                 wtodo, world, criteria, critical, updated>>

\* The loop ends; the world thread waits only when there are worker threads.
EndMaps ==
  /\ main = "maps" /\ toSchedule = {}
  /\ main' = IF activated THEN "wait" ELSE "serial"
  /\ UNCHANGED <<toSchedule, pending, queue, shutdown, cancel, stop, wpc, wtask,
                 wtodo, world, criteria, critical, updated>>

\* Mutant: off by one in the condition of wait.
WaitOffByOne ==
  /\ main = "wait"
  /\ main' = IF pending > 1 THEN "blocked"
             ELSE IF cancel THEN "cancel" ELSE "serial"
  /\ UNCHANGED <<toSchedule, pending, queue, shutdown, cancel, stop, wpc, wtask,
                 wtodo, world, criteria, critical, updated>>

\* MapUpdater::wait, called by MapManager::Update and by deactivate.
Wait ==
  /\ main = "wait"
  /\ main' = IF pending > 0 THEN "blocked"
             ELSE IF cancel THEN "cancel" ELSE "serial"
  /\ UNCHANGED <<toSchedule, pending, queue, shutdown, cancel, stop, wpc, wtask,
                 wtodo, world, criteria, critical, updated>>

\* Mutant: "if" instead of "while" in wait.
WaitOnce ==
  /\ main = "blocked"
  /\ main' = "serial"
  /\ UNCHANGED <<toSchedule, pending, queue, shutdown, cancel, stop, wpc, wtask,
                 wtodo, world, criteria, critical, updated>>

\* A spurious wakeup of the world thread.
WaitAgain ==
  /\ main = "blocked"
  /\ main' = "wait"
  /\ UNCHANGED <<toSchedule, pending, queue, shutdown, cancel, stop, wpc, wtask,
                 wtodo, world, criteria, critical, updated>>

\* Mutant: the player task queues are not cleared.
TakeOperationsUncleared ==
  /\ main = "serial"
  /\ operations' = criticalQ
  /\ criticalQ' = << >>
  /\ main' = "critical"
  /\ UNCHANGED <<toSchedule, pending, queue, shutdown, cancel, stop, wpc, wtask,
                 wtodo, world, criteria, fallback, asked, updated>>

\* ClearPlayersCriteriaTask, the delayed updates, and the critical operations
\* swapped out under m_CriticalOperationLock.
TakeOperations ==
  /\ main = "serial"
  /\ playerTasks' = [p \in Players |-> << >>]
  /\ operations' = criticalQ
  /\ criticalQ' = << >>
  /\ main' = "critical"
  /\ UNCHANGED <<toSchedule, pending, queue, shutdown, cancel, stop, wpc, wtask,
                 wtodo, world, locked, posted, applied, fallback, asked, updated>>

\* Mutant: an operation is kept whatever it returns.
RunOperationKept(done) ==
  /\ main = "critical" /\ operations # << >>
  /\ operations' = Tail(operations)
  /\ asked' = IF done THEN asked \ {Head(operations)} ELSE asked
  /\ fallback' = Append(fallback, Head(operations))
  /\ UNCHANGED <<threads, world, criteria, criticalQ, updated>>

\* The operation at the front is called; one that returns false is kept.
RunOperation(done) ==
  /\ main = "critical" /\ operations # << >>
  /\ operations' = Tail(operations)
  /\ IF done
     THEN asked' = asked \ {Head(operations)} /\ UNCHANGED fallback
     ELSE fallback' = Append(fallback, Head(operations)) /\ UNCHANGED asked
  /\ UNCHANGED <<threads, world, criteria, criticalQ, updated>>

\* Mutant: the operations kept are not put back.
PutBackNothing ==
  /\ main = "critical" /\ operations = << >>
  /\ fallback' = << >>
  /\ main' = "loop"
  /\ UNCHANGED <<toSchedule, pending, queue, shutdown, cancel, stop, wpc, wtask,
                 wtodo, world, criteria, criticalQ, operations, asked, updated>>

\* The operations kept are put back, behind those added in the meantime.
PutBack ==
  /\ main = "critical" /\ operations = << >>
  /\ criticalQ' = criticalQ \o fallback
  /\ fallback' = << >>
  /\ main' = "loop"
  /\ UNCHANGED <<toSchedule, pending, queue, shutdown, cancel, stop, wpc, wtask,
                 wtodo, world, criteria, operations, asked, updated>>

\* WorldRunnable::run goes round its loop, or leaves it and kicks the players.
Loop ==
  /\ main = "loop"
  /\ main' = IF stop THEN "kick" ELSE "world"
  /\ UNCHANGED <<toSchedule, pending, queue, shutdown, cancel, stop, wpc, wtask,
                 wtodo, world, criteria, critical, updated>>

\* MapManager::UnloadAll deletes every map and then stops the workers.
UnloadAll ==
  /\ main = "kick"
  /\ maps' = {} /\ live' = {}
  /\ main' = IF activated THEN "deactivate" ELSE "stopped"
  /\ UNCHANGED <<toSchedule, pending, queue, shutdown, cancel, stop, wpc, wtask,
                 wtodo, criteria, critical, updated>>

\* deactivate sets the token before it waits.
Deactivate ==
  /\ main = "deactivate"
  /\ cancel' = TRUE
  /\ main' = "wait"
  /\ UNCHANGED <<toSchedule, pending, queue, shutdown, stop, wpc, wtask,
                 wtodo, world, criteria, critical, updated>>

\* Mutant: Cancel notifies nobody.
CancelSilently ==
  /\ main = "cancel"
  /\ queue' = << >>
  /\ shutdown' = TRUE
  /\ main' = "join"
  /\ UNCHANGED <<toSchedule, pending, cancel, stop, wpc, wtask, wtodo, world,
                 criteria, critical, updated>>

\* ProducerConsumerQueue::Cancel deletes what is queued and wakes everyone.
Cancel ==
  /\ main = "cancel"
  /\ queue' = << >>
  /\ shutdown' = TRUE
  /\ wpc' = [w \in Workers |-> IF wpc[w] = "waiting" THEN "pop" ELSE wpc[w]]
  /\ main' = "join"
  /\ UNCHANGED <<toSchedule, pending, cancel, stop, wtask, wtodo, world,
                 criteria, critical, updated>>

\* join() returned for every worker thread.
Join ==
  /\ main = "join" /\ \A w \in Workers : wpc[w] = "exited"
  /\ main' = "stopped"
  /\ UNCHANGED <<toSchedule, pending, queue, shutdown, cancel, stop, wpc, wtask,
                 wtodo, world, criteria, critical, updated>>

-----------------------------------------------------------------------------

Main ==
  \/ SkipTick \/ PrepareCriteria
  \/ \E p \in Players : ScheduleCriteria(p) \/ CallCriteria(p)
  \/ StartMaps
  \/ \E b \in BaseMaps : ScheduleMap(b) \/ UpdateMap(b)
  \/ EndMaps \/ Wait \/ TakeOperations
  \/ \E done \in BOOLEAN : RunOperation(done)
  \/ PutBack \/ Loop \/ UnloadAll \/ Deactivate \/ Cancel \/ Join

Worker(w) ==
  \/ WaitAndPop(w) \/ StartCall(w)
  \/ \E i \in Instances : VisitInstance(w, i)
  \/ RunCriteria(w) \/ UpdateFinished(w)

Environment ==
  \/ \E p \in Players : AddCriteriaUpdateTask(p)
  \/ \E op \in Operations : AddCriticalOperation(op)
  \/ \E b \in BaseMaps : CreateBaseMap(b)
  \/ \E i \in Instances : CreateInstance(i)
  \/ StopNow \/ WaitAgain
  \/ \E w \in Workers : SpuriousWakeup(w)

\* The threads have stopped; nothing is left to do.
Terminated == main = "stopped" /\ UNCHANGED vars

Next == Main \/ (\E w \in Workers : Worker(w)) \/ Environment \/ Terminated

Spec == Init /\ [][Next]_vars

\* Every thread that can run is run: the operating system's scheduler; map
\* updates, criteria tasks and critical operations return.  The interval timer
\* adds up the time of the ticks it skips, so ticks are not skipped for ever.
Fairness == WF_vars(Main) /\ SF_vars(PrepareCriteria) /\ \A w \in Workers : WF_vars(Worker(w))

FairSpec == Spec /\ Fairness

-----------------------------------------------------------------------------
(* Properties.                                                             *)

MainPC == {"world", "criteria", "maps", "wait", "blocked", "serial", "critical",
           "loop", "kick", "deactivate", "cancel", "join", "stopped"}
WorkerPC == {"pop", "waiting", "popped", "call", "exited"}

\* The type of every variable.
TypeOK ==
  /\ main \in MainPC /\ toSchedule \in SUBSET Units
  /\ pending \in Nat /\ queue \in Seq(Task)
  /\ shutdown \in BOOLEAN /\ cancel \in BOOLEAN /\ stop \in BOOLEAN
  /\ wpc \in [Workers -> WorkerPC]
  /\ wtask \in [Workers -> Task \cup {NoTask}]
  /\ wtodo \in [Workers -> SUBSET Instances]
  /\ maps \in SUBSET BaseMaps /\ live \in SUBSET Instances
  /\ locked \in [Players -> Seq(Nat)] /\ playerTasks \in [Players -> Seq(Nat)]
  /\ posted \in [Players -> Nat] /\ applied \in [Players -> Seq(Nat)]
  /\ criticalQ \in Seq(Operations) /\ operations \in Seq(Operations)
  /\ fallback \in Seq(Operations) /\ asked \in SUBSET Operations
  /\ updated \in SUBSET (Units \cup {Null})

\* A worker that holds a request it has not counted off yet.
Busy == {w \in Workers : wtask[w] # NoTask}

\* pending_requests is exactly the number of requests that are queued or in the
\* hands of a worker, whatever the interleaving of pushes, pops and nested
\* schedules: it never drops to zero early and never stays above it.
PendingExact == pending = Len(queue) + Cardinality(Busy)

\* The world thread past the barrier of MapManager::Update.
PastBarrier == main \notin {"criteria", "maps", "wait", "blocked"}

\* Whenever the world thread is not between the start of scheduling and the end
\* of wait(), no request is queued and no worker is inside call(): the delayed
\* updates, the critical operations, the sessions and UnloadAll are alone.
Quiescent == PastBarrier => queue = << >> /\ Busy = {}

\* A worker dereferences a request it got from the queue, also when it was
\* woken by Cancel or spuriously while the server stops.
NoNullRequest == \A w \in Workers : wpc[w] = "call" => wtask[w] # NoTask

\* The inductive strengthening of the three invariants above.  A worker holds no
\* request at the top of its loop, and holds none behind WaitAndPop only if the
\* queue was shut down, which happens with the cancelation token already set.
WorkerShape ==
  /\ \A w \in Workers :
       /\ wpc[w] \in {"pop", "waiting"} => wtask[w] = NoTask
       /\ wpc[w] = "call" => wtask[w] # NoTask
       /\ wpc[w] = "popped" /\ wtask[w] = NoTask => shutdown
  /\ shutdown => cancel
  /\ cancel => main \in {"wait", "blocked", "cancel", "join", "stopped"}
  /\ main = "cancel" => cancel

\* The barrier holds in deactivate's wait(), too, and trivially without workers.
Quiet == PastBarrier \/ cancel \/ ~activated => queue = << >> /\ Busy = {}

\* The inductive invariant.
TickInv == TypeOK /\ PendingExact /\ WorkerShape /\ Quiet

\* No map and no player has two requests in flight, so no two workers ever
\* update the same map or run criteria of the same player concurrently.
NoConcurrentUpdate ==
  /\ \A i, j \in 1..Len(queue) : queue[i].of = queue[j].of => i = j
  /\ \A w, v \in Busy : wtask[w].of = wtask[v].of => w = v
  /\ \A i \in 1..Len(queue), w \in Busy : queue[i].of # wtask[w].of

\* A request in flight, and an instance an update has still to visit, is for a
\* map that exists: DestroyInstance and UnloadAll never delete a map a worker
\* will still dereference.
NoDanglingMap ==
  LET exists(u) == u \in maps \cup live \cup Players
  IN  /\ \A i \in 1..Len(queue) : exists(queue[i].of)
      /\ \A w \in Busy : exists(wtask[w].of) /\ wtodo[w] \subseteq live

\* The criteria tasks of a player run in the order they were posted, each at
\* most once and without a gap, though every request holds a copy of the queue
\* it was made from; between ticks those not yet run are still queued.
CriteriaInOrder ==
  \A p \in Players :
    /\ applied[p] = [n \in 1..Len(applied[p]) |-> n]
    /\ main = "world" => Len(applied[p]) + Len(locked[p]) = posted[p]

\* An operation that was added and has not succeeded is in exactly one of the
\* three queues, exactly once: operations that return false are neither lost
\* nor run twice in a tick.
OperationsKept ==
  LET held == operations \o fallback \o criticalQ
  IN  /\ Len(held) = Cardinality(asked)
      /\ \A op \in asked : \E i \in 1..Len(held) : held[i] = op

\* An operation added to the queue is tried, unless the server stops first.
OperationTried ==
  \A op \in Operations :
    (op \in asked) ~> (op \notin asked \/ (operations # << >> /\ Head(operations) = op)
                         \/ main = "stopped")

\* The refinement mapping to the abstract tick.
TickPhase == IF PastBarrier \/ cancel THEN "serial" ELSE "parallel"
TickReady ==
  (CASE main = "criteria" -> toSchedule \cup maps
     [] main = "maps" -> toSchedule
     [] OTHER -> {})
  \cup {queue[i].of : i \in 1..Len(queue)}
  \cup {wtask[w].of : w \in {v \in Busy : wpc[v] = "popped"}}
TickRunning == {wtask[w].of : w \in {v \in Workers : wpc[v] = "call"}}

Tick == INSTANCE MapTick WITH phase <- TickPhase, ready <- TickReady,
                              running <- TickRunning, started <- updated

\* The thread pool, its counter, queue and condition variables implement the
\* abstract tick: every map updated once per tick, nothing overlapping, maps
\* created and operations performed only behind the barrier.
ImplementsTick == Tick!Spec

\* Once stopping is requested, all workers return and the world thread gets
\* past join(), from every state of the tick and of the queue.
Stops == stop ~> (main = "stopped" /\ \A w \in Workers : wpc[w] = "exited")

=============================================================================
