--------------------------- MODULE MapTick_proofs ----------------------------
(***************************************************************************)
(* MapUpdater implements MapTick, for every set of workers, maps,          *)
(* instances, players and operations: the requests of a tick are distinct  *)
(* and for maps that exist, criteria run in order, critical operations are *)
(* neither lost nor duplicated, and every step of the thread pool is a     *)
(* step of the abstract tick or a stutter.                                 *)
(***************************************************************************)
EXTENDS MapUpdater_proofs, SequenceTheorems

-----------------------------------------------------------------------------
(* Sequences seen as sets.                                                 *)

\* No two elements of s are equal.
Once(s) == \A i, j \in 1..Len(s) : s[i] = s[j] => i = j

\* No two requests of s are for the same map or player.
OfOnce(s) == \A i, j \in 1..Len(s) : s[i].of = s[j].of => i = j

\* What is in a sequence after a push.
LEMMA PushRange ==
  ASSUME NEW S, NEW s \in Seq(S), NEW e \in S
  PROVE  Range(Append(s, e)) = Range(s) \cup {e}
<1>1. Append(s, e) = s \o <<e>> BY AppendIsConcat
<1>2. Range(<<e>>) = {e} BY DEF Range
<1>3. <<e>> \in Seq(S) OBVIOUS
<1>4. Range(s \o <<e>>) = Range(s) \cup Range(<<e>>) BY <1>3, RangeConcatenation, Zenon
<1> QED BY <1>1, <1>2, <1>4, Zenon

\* What is in a sequence before a pop.
LEMMA PopRange ==
  ASSUME NEW S, NEW s \in Seq(S), s # << >>
  PROVE  Range(s) = {Head(s)} \cup Range(Tail(s))
<1>1. Len(s) \in Nat \ {0} /\ Head(s) = s[1] BY EmptySeq
<1>2. Tail(s) \in Seq(S) /\ Len(Tail(s)) = Len(s) - 1
      /\ \A i \in 1..Len(Tail(s)) : Tail(s)[i] = s[i + 1]
  BY HeadTailProperties
<1>3. Range(s) = {s[i] : i \in 1..Len(s)} BY RangeEquality
<1>4. Range(Tail(s)) = {Tail(s)[i] : i \in 1..Len(Tail(s))} BY <1>2, RangeEquality
<1>5. ASSUME NEW i \in 1..Len(s) PROVE s[i] = Head(s) \/ s[i] \in Range(Tail(s))
  <2>1. CASE i = 1 BY <1>1, <2>1
  <2>2. CASE i # 1
    <3>1. i - 1 \in 1..Len(Tail(s)) BY <1>1, <1>2, <2>2
    <3>2. Tail(s)[i - 1] = s[i] BY <1>2, <3>1
    <3> QED BY <1>4, <3>1, <3>2
  <2> QED BY <2>1, <2>2
<1>6. ASSUME NEW i \in 1..Len(Tail(s)) PROVE Tail(s)[i] \in Range(s)
  BY <1>1, <1>2, <1>3
<1>7. Head(s) \in Range(s) BY <1>1, <1>3
<1> QED BY <1>3, <1>4, <1>5, <1>6, <1>7

\* Pushing what is not there, and popping, keep the elements distinct.
LEMMA OnceFacts ==
  ASSUME NEW S, NEW s \in Seq(S), Once(s)
  PROVE  /\ \A e \in S : e \notin Range(s) => Once(Append(s, e))
         /\ s # << >> => Once(Tail(s)) /\ Head(s) \notin Range(Tail(s))
<1>1. ASSUME NEW e \in S, e \notin Range(s) PROVE Once(Append(s, e))
  <2>1. \A i \in 1..Len(s) : s[i] # e BY <1>1, RangeEquality
  <2> QED BY <2>1, AppendProperties, LenProperties DEF Once
<1>2. ASSUME s # << >> PROVE Once(Tail(s)) /\ Head(s) \notin Range(Tail(s))
  <2>1. Len(s) \in Nat \ {0} /\ Head(s) = s[1] BY <1>2, EmptySeq
  <2>2. Tail(s) \in Seq(S) /\ Len(Tail(s)) = Len(s) - 1
        /\ \A i \in 1..Len(Tail(s)) : Tail(s)[i] = s[i + 1]
    BY <1>2, HeadTailProperties
  <2>3. Range(Tail(s)) = {Tail(s)[i] : i \in 1..Len(Tail(s))} BY <2>2, RangeEquality
  <2>4. Once(Tail(s)) BY <2>1, <2>2 DEF Once
  <2>5. \A i \in 1..Len(Tail(s)) : Tail(s)[i] # Head(s) BY <2>1, <2>2 DEF Once
  <2> QED BY <2>3, <2>4, <2>5
<1> QED BY <1>1, <1>2

\* Two disjoint sequences of distinct elements make one.
LEMMA OnceConcat ==
  ASSUME NEW S, NEW s \in Seq(S), NEW t \in Seq(S), Once(s), Once(t),
         Range(s) \cap Range(t) = {}
  PROVE  Once(s \o t)
<1>1. Len(s \o t) = Len(s) + Len(t) /\ Len(s) \in Nat /\ Len(t) \in Nat
  BY ConcatProperties, LenProperties
<1>2. \A i \in 1..Len(s), j \in 1..Len(t) : s[i] # t[j]
  <2>1. Range(s) = {s[i] : i \in 1..Len(s)} BY RangeEquality
  <2>2. Range(t) = {t[j] : j \in 1..Len(t)} BY RangeEquality
  <2> QED BY <2>1, <2>2
<1>3. \A i \in 1 .. Len(s) + Len(t) :
        (s \o t)[i] = IF i <= Len(s) THEN s[i] ELSE t[i - Len(s)]
  BY ConcatProperties
<1>4. SUFFICES ASSUME NEW i \in 1..Len(s \o t), NEW j \in 1..Len(s \o t),
                      (s \o t)[i] = (s \o t)[j]
               PROVE  i = j
  BY DEF Once
<1>5. CASE i <= Len(s) /\ j <= Len(s) BY <1>1, <1>3, <1>4, <1>5 DEF Once
<1>6. CASE i > Len(s) /\ j > Len(s)
  <2>1. i - Len(s) \in 1..Len(t) /\ j - Len(s) \in 1..Len(t) BY <1>1, <1>6
  <2>2. t[i - Len(s)] = t[j - Len(s)] BY <1>1, <1>3, <1>4, <1>6
  <2>3. i - Len(s) = j - Len(s) BY <2>1, <2>2 DEF Once
  <2> QED BY <1>1, <2>3
<1>7. CASE i <= Len(s) /\ j > Len(s)
  <2>1. i \in 1..Len(s) /\ j - Len(s) \in 1..Len(t) BY <1>1, <1>7
  <2>2. s[i] = t[j - Len(s)] BY <1>1, <1>3, <1>4, <1>7
  <2> QED BY <1>2, <2>1, <2>2
<1>8. CASE i > Len(s) /\ j <= Len(s)
  <2>1. j \in 1..Len(s) /\ i - Len(s) \in 1..Len(t) BY <1>1, <1>8
  <2>2. s[j] = t[i - Len(s)] BY <1>1, <1>3, <1>4, <1>8
  <2> QED BY <1>2, <2>1, <2>2
<1> QED BY <1>1, <1>5, <1>6, <1>7, <1>8

\* A sequence without repetitions is as long as its set of elements is large.
LEMMA OnceCardinality ==
  ASSUME NEW S, NEW s \in Seq(S), Once(s)
  PROVE  Cardinality(Range(s)) = Len(s)
<1>1. Len(s) \in Nat /\ s \in [1..Len(s) -> S] BY LenProperties
<1>2. Range(s) = {s[i] : i \in 1..Len(s)} BY RangeEquality
<1>3. s \in [1..Len(s) -> Range(s)] BY <1>1, <1>2
<1>4. s \in Injection(1..Len(s), Range(s)) BY <1>3 DEF Injection, IsInjective, Once
<1>5. s \in Surjection(1..Len(s), Range(s)) BY <1>2, <1>3 DEF Surjection
<1>6. ExistsBijection(1..Len(s), Range(s)) BY <1>4, <1>5 DEF ExistsBijection, Bijection
<1> QED BY <1>1, <1>6, FS_CountingElements

-----------------------------------------------------------------------------
(* The requests of a tick.                                                 *)

\* The maps and players with a request in the queue, and in a worker's hands.
Queued == {r.of : r \in Range(queue)}
Held == {wtask[w].of : w \in Busy}
InFlight == Queued \cup Held

\* What the world thread's loops have still to schedule in this tick.
Due == CASE main = "criteria" -> toSchedule \cup maps
         [] main = "maps" -> toSchedule
         [] OTHER -> {}

OneRequest ==
  /\ OfOnce(queue)
  /\ \A w, v \in Busy : wtask[w].of = wtask[v].of => w = v
  /\ Queued \cap Held = {}

\* A request in the queue has not been started in this tick, one in a worker's
\* hands has been exactly if the worker is inside call().
StartedOnce ==
  /\ Queued \cap updated = {}
  /\ \A w \in Busy : wtask[w].of \in updated <=> wpc[w] = "call"

\* What is still due is neither in flight nor started.
DueOnce ==
  /\ Due \cap (updated \cup InFlight) = {}
  /\ main = "criteria" => toSchedule \subseteq Players
  /\ main = "maps" => toSchedule \subseteq maps

\* The instances an update has still to visit exist, are those of its map, and
\* are neither in flight nor started.
VisitOnce ==
  \A w \in Workers : \A i \in wtodo[w] :
    /\ wpc[w] = "call" /\ i \in live /\ Base[i] = wtask[w].of
    /\ i \notin updated \cup InFlight

\* The update of an instance was started by that of its base map.
BaseFirst == \A i \in Instances \cap (updated \cup InFlight) : Base[i] \in updated

RequestsExist == InFlight \subseteq maps \cup live \cup Players

\* The inductive invariant behind NoConcurrentUpdate and NoDanglingMap.
RequestInv ==
  OneRequest /\ StartedOnce /\ DueOnce /\ VisitOnce /\ BaseFirst /\ RequestsExist

\* What the world thread still has to schedule is a player or a base map.
LEMMA DueUnits ==
  ASSUME TypeOK, DueOnce
  PROVE  Due \subseteq Players \cup BaseMaps
  BY DEF TypeOK, DueOnce, Due

\* Without worker threads, and behind the barrier, nothing is in flight.
LEMMA NothingInFlight ==
  ASSUME queue = << >>, Busy = {}
  PROVE  Queued = {} /\ Held = {} /\ InFlight = {}
<1>1. Range(queue) = {} BY DEF Range
<1> QED BY <1>1 DEF Queued, Held, InFlight

\* A request for a unit that has none is pushed.
LEMMA PushQueued ==
  ASSUME TypeOK, NEW t \in Task, Schedule(t, wpc), OfOnce(queue), t.of \notin Queued
  PROVE  OfOnce(queue') /\ Queued' = Queued \cup {t.of}
<1>1. queue \in Seq(Task) /\ queue' = Append(queue, t) BY DEF TypeOK, Schedule
<1>2. Range(queue') = Range(queue) \cup {t} BY <1>1, PushRange
<1>3. Queued' = Queued \cup {t.of} BY <1>2 DEF Queued
<1>4. \A i \in 1..Len(queue) : queue[i].of # t.of
  BY <1>1, RangeEquality DEF Queued
<1>5. OfOnce(queue') BY <1>1, <1>4, AppendProperties, LenProperties DEF OfOnce
<1> QED BY <1>3, <1>5

\* A worker takes the request at the front.
LEMMA PopQueued ==
  ASSUME TypeOK, WorkerShape, OfOnce(queue), NEW w \in Workers, WaitAndPop(w),
         queue # << >>, ~shutdown
  PROVE  /\ OfOnce(queue')
         /\ Queued = Queued' \cup {Head(queue).of} /\ Head(queue).of \notin Queued'
         /\ w \notin Busy /\ Busy' = Busy \cup {w}
         /\ wtask'[w] = Head(queue) /\ \A v \in Busy : wtask'[v] = wtask[v]
         /\ Held' = Held \cup {Head(queue).of}
         /\ wpc[w] = "pop" /\ wpc'[w] = "popped" /\ \A v \in Busy : wpc'[v] = wpc[v]
<1>1. queue \in Seq(Task) /\ queue' = Tail(queue) /\ wtask' = [wtask EXCEPT ![w] = Head(queue)]
      /\ wpc[w] = "pop" /\ wpc' = [wpc EXCEPT ![w] = "popped"]
  BY DEF TypeOK, WaitAndPop
<1>2. w \notin Busy /\ Busy' = Busy \cup {w}
  <2>1. Head(queue) \in Task BY <1>1, HeadTailProperties
  <2>2. Head(queue) # NoTask BY <2>1, NoTaskNotTask
  <2>3. wtask[w] = NoTask BY <1>1 DEF WorkerShape
  <2> QED BY <1>1, <2>2, <2>3 DEF Busy, TypeOK
<1>3. wtask'[w] = Head(queue) /\ \A v \in Busy : wtask'[v] = wtask[v]
  BY <1>1, <1>2 DEF TypeOK, Busy
<1>4. Held' = Held \cup {Head(queue).of} BY <1>2, <1>3 DEF Held
<1>5. Range(queue) = {Head(queue)} \cup Range(queue') BY <1>1, PopRange
<1>6. Queued = Queued' \cup {Head(queue).of} BY <1>5 DEF Queued
<1>7. Len(queue) \in Nat \ {0} /\ Head(queue) = queue[1] BY <1>1, EmptySeq
<1>8. queue' \in Seq(Task) /\ Len(queue') = Len(queue) - 1
      /\ \A i \in 1..Len(queue') : queue'[i] = queue[i + 1]
  BY <1>1, HeadTailProperties
<1>9. OfOnce(queue') BY <1>7, <1>8 DEF OfOnce
<1>10. Head(queue).of \notin Queued'
  <2>1. \A i \in 1..Len(queue') : queue'[i].of # Head(queue).of BY <1>7, <1>8 DEF OfOnce
  <2>2. Range(queue') = {queue'[i] : i \in 1..Len(queue')} BY <1>8, RangeEquality
  <2> QED BY <2>1, <2>2 DEF Queued
<1>11. wpc'[w] = "popped" /\ \A v \in Busy : wpc'[v] = wpc[v] BY <1>1, <1>2 DEF TypeOK, Busy
<1> QED BY <1>1, <1>2, <1>3, <1>4, <1>6, <1>9, <1>10, <1>11

\* Steps that move no request, start no update and make nothing due.
LEMMA RequestFrame ==
  ASSUME TypeOK, RequestInv,
         UNCHANGED <<queue, wtask, wtodo, updated, maps, live>>,
         \A w \in Workers : wpc'[w] = "call" <=> wpc[w] = "call",
         Due' \subseteq Due,
         main' = "criteria" => toSchedule' \subseteq Players,
         main' = "maps" => toSchedule' \subseteq maps
  PROVE  RequestInv'
<1>1. Busy' = Busy /\ Queued' = Queued BY DEF Busy, Queued
<1>2. Held' = Held /\ InFlight' = InFlight BY <1>1 DEF Held, InFlight
<1>3. OneRequest' BY <1>1, <1>2 DEF RequestInv, OneRequest
<1>4. StartedOnce' BY <1>1 DEF RequestInv, StartedOnce, Busy
<1>5. DueOnce' BY <1>2 DEF RequestInv, DueOnce
<1>6. VisitOnce' BY <1>2 DEF RequestInv, VisitOnce
<1>7. BaseFirst' BY <1>2 DEF RequestInv, BaseFirst
<1>8. RequestsExist' BY <1>2 DEF RequestInv, RequestsExist
<1> QED BY <1>3, <1>4, <1>5, <1>6, <1>7, <1>8 DEF RequestInv

\* A request is scheduled for a unit that is neither in flight nor started.
LEMMA ScheduleStep ==
  ASSUME TypeOK, RequestInv, NEW t \in Task, Schedule(t, wpc),
         UNCHANGED <<wtask, maps, live, updated>>,
         t.of \notin updated \cup InFlight,
         t.of \in maps \cup live \cup Players,
         t.of \in Instances => Base[t.of] \in updated,
         \A w \in Workers : wtodo'[w] \subseteq wtodo[w] \ {t.of},
         Due' \subseteq Due \ {t.of},
         main' = "criteria" => toSchedule' \subseteq Players,
         main' = "maps" => toSchedule' \subseteq maps
  PROVE  RequestInv'
<1> USE DEF RequestInv
<1>1. OfOnce(queue') /\ Queued' = Queued \cup {t.of}
  BY PushQueued DEF OneRequest, InFlight
<1>2. Busy' = Busy BY DEF Busy
<1>3. Held' = Held BY <1>2 DEF Held
<1>4. InFlight' = InFlight \cup {t.of} BY <1>1, <1>3 DEF InFlight
<1>5. \A w \in Workers : wpc'[w] = "call" <=> wpc[w] = "call" BY ScheduleWakes
<1>6. OneRequest' BY <1>1, <1>2, <1>3 DEF OneRequest, InFlight
<1>7. StartedOnce' BY <1>1, <1>2, <1>5 DEF StartedOnce, Busy
<1>8. DueOnce' BY <1>4 DEF DueOnce
<1>9. VisitOnce' BY <1>4, <1>5 DEF VisitOnce
<1>10. BaseFirst' BY <1>4 DEF BaseFirst
<1>11. RequestsExist' BY <1>4 DEF RequestsExist
<1> QED BY <1>6, <1>7, <1>8, <1>9, <1>10, <1>11

\* Steps of the world thread with nothing in flight and no worker in an update.
LEMMA SerialStep ==
  ASSUME queue' = << >>, Busy' = {},
         \A w \in Workers : wtodo'[w] = {},
         Due' \cap updated' = {},
         main' = "criteria" => toSchedule' \subseteq Players,
         main' = "maps" => toSchedule' \subseteq maps',
         \A i \in Instances \cap updated' : Base[i] \in updated'
  PROVE  RequestInv'
<1>1. Range(queue') = {} BY DEF Range
<1>2. Queued' = {} /\ Held' = {} /\ InFlight' = {} BY <1>1 DEF Queued, Held, InFlight
<1>3. OneRequest' BY <1>2 DEF OneRequest, OfOnce
<1> QED BY <1>2, <1>3 DEF RequestInv, StartedOnce, DueOnce, VisitOnce, BaseFirst, RequestsExist

\* The actions that touch neither requests, maps nor what was updated, and leave
\* the scheduling loops where they are or end them.
LEMMA QuietActions ==
  ASSUME TickInv,
         \/ SkipTick \/ EndMaps \/ Wait \/ TakeOperations \/ PutBack \/ Loop \/ Deactivate
         \/ Cancel \/ Join \/ StopNow \/ WaitAgain \/ UNCHANGED vars
         \/ \E done \in BOOLEAN : RunOperation(done)
         \/ \E p \in Players : AddCriteriaUpdateTask(p)
         \/ \E op \in Operations : AddCriticalOperation(op)
         \/ \E w \in Workers : SpuriousWakeup(w)
  PROVE  /\ UNCHANGED <<queue, wtask, wtodo, updated, maps, live, toSchedule>>
         /\ \A w \in Workers : wpc'[w] = "call" <=> wpc[w] = "call"
         /\ main' = main \/ main' \notin {"criteria", "maps"}
<1> USE DEF TickInv, world
<1>1. CASE SkipTick \/ EndMaps \/ Wait \/ TakeOperations \/ PutBack \/ Loop \/ Deactivate
           \/ Join \/ StopNow \/ WaitAgain
  BY <1>1 DEF SkipTick, EndMaps, Wait, TakeOperations, PutBack, Loop, Deactivate,
       Join, StopNow, WaitAgain
<1>2. CASE UNCHANGED vars BY <1>2 DEF vars, threads
<1>3. CASE Cancel
  <2>1. queue' = queue BY <1>3 DEF Cancel, Quiet, PastBarrier
  <2> QED BY <1>3, <2>1 DEF Cancel, TypeOK
<1>4. CASE \/ \E done \in BOOLEAN : RunOperation(done)
           \/ \E p \in Players : AddCriteriaUpdateTask(p)
           \/ \E op \in Operations : AddCriticalOperation(op)
  BY <1>4 DEF RunOperation, AddCriteriaUpdateTask, AddCriticalOperation, threads
<1>5. ASSUME NEW w \in Workers, SpuriousWakeup(w)
      PROVE  /\ UNCHANGED <<queue, wtask, wtodo, updated, maps, live, toSchedule, main>>
             /\ \A v \in Workers : wpc'[v] = "call" <=> wpc[v] = "call"
  BY <1>5 DEF SpuriousWakeup, TypeOK
<1> QED BY <1>1, <1>2, <1>3, <1>4, <1>5

\* Behind the barrier nothing is in flight and no update has anything to visit.
LEMMA SerialState ==
  ASSUME TickInv, RequestInv, PastBarrier
  PROVE  /\ queue = << >> /\ Busy = {}
         /\ \A w \in Workers : wpc[w] # "call" /\ wtodo[w] = {}
<1>1. queue = << >> /\ Busy = {} BY DEF TickInv, Quiet
<1>2. \A w \in Workers : wpc[w] # "call" BY <1>1 DEF TickInv, WorkerShape, Busy
<1>3. \A w \in Workers : wtodo[w] = {} BY <1>2 DEF RequestInv, VisitOnce
<1> QED BY <1>1, <1>2, <1>3

\* RequestInv is inductive.
LEMMA RequestStep ==
  ASSUME TickInv, TickInv', RequestInv, [Next]_vars
  PROVE  RequestInv'
<1> USE DEF TickInv
<1>1. ASSUME UNCHANGED <<queue, wtask, wtodo, updated, maps, live, toSchedule>>,
             \A w \in Workers : wpc'[w] = "call" <=> wpc[w] = "call",
             main' = main \/ main' \notin {"criteria", "maps"}
      PROVE  RequestInv'
  <2>1. Due' \subseteq Due BY <1>1 DEF Due
  <2> QED BY <1>1, <2>1, RequestFrame DEF RequestInv, DueOnce
<1>2. CASE PrepareCriteria
  <2>1. queue' = << >> /\ Busy' = {} /\ \A w \in Workers : wtodo'[w] = {}
    BY <1>2, SerialState DEF PrepareCriteria, PastBarrier, Busy
  <2> QED BY <1>2, <2>1, SerialStep DEF PrepareCriteria
<1>3. ASSUME NEW p \in Players, ScheduleCriteria(p) PROVE RequestInv'
  <2>1. CriteriaRequest(p) \in Task /\ CriteriaRequest(p).of = p
    BY DEF CriteriaRequest, Task, Units, TypeOK
  <2>2. p \notin BaseMaps /\ p \notin Instances BY UnitsDisjoint
  <2>3. p \in Due /\ Due' \subseteq Due \ {p} 
    BY <1>3, <2>2 DEF ScheduleCriteria, Due, TypeOK, world
  <2>4. p \notin updated \cup InFlight BY <2>3 DEF RequestInv, DueOnce
  <2>5. \A w \in Workers : wtodo'[w] \subseteq wtodo[w] \ {p}
    BY <1>3, <2>2 DEF ScheduleCriteria, TypeOK
  <2>6. main' = "criteria" /\ toSchedule' \subseteq Players
    BY <1>3 DEF ScheduleCriteria, RequestInv, DueOnce
  <2> QED BY <1>3, <2>1, <2>2, <2>3, <2>4, <2>5, <2>6, ScheduleStep DEF ScheduleCriteria, world
<1>4. ASSUME NEW p \in Players, CallCriteria(p) PROVE RequestInv'
  <2>1. queue' = << >> /\ Busy' = {} /\ Workers = {}
    BY <1>4 DEF CallCriteria, Quiet, activated
  <2>2. p \notin BaseMaps /\ p \notin Instances BY UnitsDisjoint
  <2>3. Due' \subseteq Due \ {p} BY <1>4, <2>2 DEF CallCriteria, Due, TypeOK, world
  <2>4. Due' \cap updated' = {} BY <1>4, <2>3 DEF CallCriteria, RequestInv, DueOnce
  <2>5. \A i \in Instances \cap updated' : Base[i] \in updated'
    BY <1>4, <2>2 DEF CallCriteria, RequestInv, BaseFirst
  <2>6. main' = "criteria" /\ toSchedule' \subseteq Players
    BY <1>4 DEF CallCriteria, RequestInv, DueOnce
  <2> QED BY <2>1, <2>4, <2>5, <2>6, SerialStep
<1>5. CASE StartMaps
  <2>1. Due' \subseteq Due BY <1>5 DEF StartMaps, Due, world
  <2> QED BY <1>5, <2>1, RequestFrame DEF StartMaps, world
<1>6. ASSUME NEW b \in BaseMaps, ScheduleMap(b) PROVE RequestInv'
  <2>1. MapRequest(b) \in Task /\ MapRequest(b).of = b
    BY DEF MapRequest, Task, Units, Maps
  <2>2. b \notin Instances BY UnitsDisjoint
  <2>3. b \in Due /\ Due' \subseteq Due \ {b} BY <1>6 DEF ScheduleMap, Due
  <2>4. b \notin updated \cup InFlight BY <2>3 DEF RequestInv, DueOnce
  <2>5. \A w \in Workers : wtodo'[w] \subseteq wtodo[w] \ {b}
    BY <1>6, <2>2 DEF ScheduleMap, TypeOK
  <2>6. main' = "maps" /\ b \in maps /\ toSchedule' \subseteq maps
    BY <1>6 DEF ScheduleMap, RequestInv, DueOnce
  <2> QED BY <1>6, <2>1, <2>2, <2>3, <2>4, <2>5, <2>6, ScheduleStep DEF ScheduleMap, world
<1>7. ASSUME NEW b \in BaseMaps, UpdateMap(b) PROVE RequestInv'
  <2>1. queue' = << >> /\ Busy' = {} /\ Workers = {}
    BY <1>7 DEF UpdateMap, Quiet, activated
  <2>2. updated' \subseteq updated \cup {b} \cup {i \in Instances : Base[i] = b}
        /\ updated \cup {b} \subseteq updated'
    BY <1>7 DEF UpdateMap, InstancesOf, TypeOK
  <2>3. main' = "maps" /\ toSchedule' \subseteq maps' /\ toSchedule' = toSchedule \ {b}
    BY <1>7 DEF UpdateMap, RequestInv, DueOnce
  <2>4. Due' = Due \ {b} BY <1>7, <2>3 DEF UpdateMap, Due
  <2>5. Due' \cap Instances = {} BY <2>3, UnitsDisjoint DEF Due, TypeOK
  <2>6. Due' \cap updated' = {} BY <2>2, <2>4, <2>5 DEF RequestInv, DueOnce
  <2>7. \A i \in Instances \cap updated' : Base[i] \in updated'
    BY <2>2, UnitsDisjoint DEF RequestInv, BaseFirst
  <2> QED BY <2>1, <2>3, <2>6, <2>7, SerialStep
<1>8. CASE \/ UnloadAll
           \/ \E b \in BaseMaps : CreateBaseMap(b)
           \/ \E i \in Instances : CreateInstance(i)
  <2>1. /\ PastBarrier /\ main' \notin {"criteria", "maps"}
        /\ UNCHANGED <<queue, wtask, wtodo, updated>>
    BY <1>8 DEF UnloadAll, CreateBaseMap, CreateInstance, PastBarrier, threads
  <2>2. queue' = << >> /\ Busy' = {} /\ \A w \in Workers : wtodo'[w] = {}
    BY <2>1, SerialState DEF Busy
  <2>3. \A i \in Instances \cap updated' : Base[i] \in updated'
    BY <2>1 DEF RequestInv, BaseFirst
  <2>4. Due' = {} BY <2>1 DEF Due
  <2> QED BY <2>1, <2>2, <2>3, <2>4, SerialStep
<1>9. ASSUME NEW w \in Workers, WaitAndPop(w) PROVE RequestInv'
  <2>1. UNCHANGED <<main, toSchedule, wtodo, updated, maps, live>> /\ Due' = Due
    BY <1>9 DEF WaitAndPop, world, Due
  <2>2. \A v \in Workers : wpc'[v] = "call" <=> wpc[v] = "call"
    BY <1>9 DEF WaitAndPop, TypeOK
  <2>3. CASE ~(queue # << >> /\ ~shutdown)
    BY <1>1, <1>9, <2>1, <2>2, <2>3 DEF WaitAndPop
  <2>4. CASE queue # << >> /\ ~shutdown
    <3> DEFINE u == Head(queue).of
    <3>1. /\ OfOnce(queue')
          /\ Queued = Queued' \cup {u} /\ u \notin Queued'
          /\ w \notin Busy /\ Busy' = Busy \cup {w}
          /\ wtask'[w].of = u /\ \A v \in Busy : wtask'[v] = wtask[v]
          /\ Held' = Held \cup {u}
          /\ wpc'[w] = "popped" /\ \A v \in Busy : wpc'[v] = wpc[v]
      BY <1>9, <2>4, PopQueued DEF RequestInv, OneRequest
    <3> HIDE DEF u
    <3>2. InFlight' = InFlight BY <3>1 DEF InFlight
    <3>3. u \notin updated /\ u \notin Held BY <3>1 DEF RequestInv, StartedOnce, OneRequest
    <3>4. OneRequest' BY <3>1, <3>3 DEF OneRequest, RequestInv, Held
    <3>5. StartedOnce' BY <2>1, <3>1, <3>3 DEF StartedOnce, RequestInv
    <3>6. DueOnce' BY <2>1, <3>2 DEF DueOnce, RequestInv
    <3>7. VisitOnce'
      <4>1. \A v \in Workers : wpc[v] = "call" => v \in Busy BY DEF WorkerShape, Busy
      <4> QED BY <2>1, <2>2, <3>1, <3>2, <4>1 DEF VisitOnce, RequestInv
    <3>8. BaseFirst' BY <2>1, <3>2 DEF BaseFirst, RequestInv
    <3>9. RequestsExist' BY <2>1, <3>2 DEF RequestsExist, RequestInv
    <3> QED BY <3>4, <3>5, <3>6, <3>7, <3>8, <3>9 DEF RequestInv
  <2> QED BY <2>3, <2>4
<1>10. ASSUME NEW w \in Workers, StartCall(w) PROVE RequestInv'
  <2>1. UNCHANGED <<main, toSchedule, queue, wtask, maps, live>> /\ Due' = Due
    BY <1>10 DEF StartCall, world, Due
  <2>2. CASE cancel
    <3>1. \A v \in Workers : wpc'[v] = "call" <=> wpc[v] = "call"
      BY <1>10, <2>2 DEF StartCall, TypeOK
    <3> QED BY <1>1, <1>10, <2>1, <2>2, <3>1 DEF StartCall
  <2>3. CASE ~cancel
    <3> DEFINE u == wtask[w].of
    <3>1. /\ wpc[w] = "popped" /\ wpc' = [wpc EXCEPT ![w] = "call"]
          /\ wtodo' = [wtodo EXCEPT ![w] = InstancesOf(u)]
          /\ updated' = updated \cup {u}
      BY <1>10, <2>3 DEF StartCall
    <3>2. w \in Busy BY <2>3, <3>1 DEF WorkerShape, Busy
    <3>3. Busy' = Busy /\ Queued' = Queued BY <2>1 DEF Busy, Queued
    <3>4. Held' = Held /\ InFlight' = InFlight BY <2>1, <3>3 DEF Held, InFlight
    <3>5. u \in InFlight /\ u \notin Queued /\ u \notin updated
      BY <3>1, <3>2 DEF RequestInv, StartedOnce, OneRequest, InFlight, Held
    <3>6. \A v \in Busy : u = wtask[v].of => v = w BY <3>2 DEF RequestInv, OneRequest
    <3>7. wpc'[w] = "call" /\ \A v \in Workers \ {w} : wpc'[v] = wpc[v] BY <3>1 DEF TypeOK
    <3>8. wtodo'[w] = InstancesOf(u) /\ \A v \in Workers \ {w} : wtodo'[v] = wtodo[v]
      BY <3>1 DEF TypeOK
    <3> HIDE DEF u
    <3>9. OneRequest' BY <2>1, <3>3, <3>4 DEF OneRequest, RequestInv
    <3>10. StartedOnce'
      <4>1. Queued' \cap updated' = {} BY <3>1, <3>3, <3>5 DEF RequestInv, StartedOnce
      <4>2. ASSUME NEW v \in Busy PROVE wtask'[v].of \in updated' <=> wpc'[v] = "call"
        <5>1. CASE v = w BY <2>1, <3>1, <3>7, <5>1 DEF u
        <5>2. CASE v # w
          BY <2>1, <3>1, <3>6, <3>7, <5>2 DEF RequestInv, StartedOnce, Busy
        <5> QED BY <5>1, <5>2
      <4> QED BY <3>3, <4>1, <4>2 DEF StartedOnce
    <3>11. DueOnce' BY <2>1, <3>1, <3>4, <3>5 DEF DueOnce, RequestInv
    <3>12. VisitOnce'
      <4> SUFFICES ASSUME NEW v \in Workers, NEW i \in wtodo'[v]
                   PROVE  /\ wpc'[v] = "call" /\ i \in live' /\ Base[i] = wtask'[v].of
                          /\ i \notin updated' \cup InFlight'
        BY DEF VisitOnce
      <4>1. CASE v = w
        <5>1. i \in live /\ Base[i] = u BY <3>8, <4>1 DEF InstancesOf
        <5>2. i \in Instances BY <5>1 DEF TypeOK
        <5>3. i \notin updated \cup InFlight
          BY <3>5, <5>1, <5>2 DEF RequestInv, BaseFirst
        <5>4. i # u BY <3>5, <5>3
        <5> QED BY <2>1, <3>1, <3>4, <3>7, <4>1, <5>1, <5>3, <5>4 DEF u
      <4>2. CASE v # w
        <5>1. /\ wpc[v] = "call" /\ i \in live /\ Base[i] = wtask[v].of
              /\ i \notin updated \cup InFlight
          BY <3>8, <4>2 DEF RequestInv, VisitOnce
        <5> QED BY <2>1, <3>1, <3>4, <3>5, <3>7, <4>2, <5>1
      <4> QED BY <4>1, <4>2
    <3>13. BaseFirst'
      <4>1. updated' \cup InFlight' = updated \cup InFlight BY <3>1, <3>4, <3>5
      <4> QED BY <3>1, <4>1 DEF BaseFirst, RequestInv
    <3>14. RequestsExist' BY <2>1, <3>4 DEF RequestsExist, RequestInv
    <3> QED BY <3>9, <3>10, <3>11, <3>12, <3>13, <3>14 DEF RequestInv
  <2> QED BY <2>2, <2>3
<1>11. ASSUME NEW w \in Workers, NEW i \in Instances, VisitInstance(w, i) PROVE RequestInv'
  <2>1. UNCHANGED <<main, toSchedule, wtask, maps, updated>> /\ Due' = Due
    BY <1>11 DEF VisitInstance, Due
  <2>2. /\ i \in wtodo[w] /\ wpc[w] = "call"
        /\ wtodo'[w] = wtodo[w] \ {i} /\ \A v \in Workers \ {w} : wtodo'[v] = wtodo[v]
    BY <1>11 DEF VisitInstance, TypeOK
  <2>3. i \in live /\ Base[i] = wtask[w].of /\ i \notin updated \cup InFlight
    BY <2>2 DEF RequestInv, VisitOnce
  <2>4. \A v \in Workers : wtodo'[v] \subseteq wtodo[v] \ {i}
    <3>1. \A v \in Workers : wpc[v] = "call" => v \in Busy BY DEF WorkerShape, Busy
    <3>2. \A v \in Workers \ {w} : i \notin wtodo[v]
      BY <2>2, <2>3, <3>1 DEF RequestInv, VisitOnce, OneRequest
    <3> QED BY <2>2, <3>2
  <2>5. Base[i] \in updated
    <3>1. w \in Busy BY <2>2 DEF WorkerShape, Busy
    <3> QED BY <2>2, <2>3, <3>1 DEF RequestInv, StartedOnce
  <2>6. i \notin Due BY DueUnits, UnitsDisjoint DEF RequestInv
  <2>7. CASE Schedule(MapRequest(i), wpc) /\ UNCHANGED live
    <3>1. MapRequest(i) \in Task /\ MapRequest(i).of = i BY DEF MapRequest, Task, Units, Maps
    <3> QED BY <2>1, <2>3, <2>4, <2>5, <2>6, <2>7, <3>1, ScheduleStep DEF RequestInv, DueOnce
  <2>8. CASE live' \in {live, live \ {i}} /\ UNCHANGED <<pending, queue, wpc>>
    <3>1. Busy' = Busy /\ Queued' = Queued BY <2>1, <2>8 DEF Busy, Queued
    <3>2. Held' = Held /\ InFlight' = InFlight BY <2>1, <3>1 DEF Held, InFlight
    <3>3. OneRequest' BY <2>1, <2>8, <3>1, <3>2 DEF RequestInv, OneRequest
    <3>4. StartedOnce' BY <2>1, <2>8, <3>1 DEF RequestInv, StartedOnce
    <3>5. DueOnce' BY <2>1, <3>2 DEF RequestInv, DueOnce
    <3>6. VisitOnce' BY <2>1, <2>4, <2>8, <3>2 DEF RequestInv, VisitOnce
    <3>7. BaseFirst' BY <2>1, <3>2 DEF RequestInv, BaseFirst
    <3>8. RequestsExist' BY <2>1, <2>3, <2>8, <3>2 DEF RequestInv, RequestsExist
    <3> QED BY <3>3, <3>4, <3>5, <3>6, <3>7, <3>8 DEF RequestInv
  <2> QED BY <1>11, <2>7, <2>8 DEF VisitInstance
<1>12. ASSUME NEW w \in Workers, RunCriteria(w) PROVE RequestInv'
  <2>1. UNCHANGED <<main, toSchedule, queue, wpc, wtodo, maps, live, updated>> /\ Due' = Due
    BY <1>12 DEF RunCriteria, world, Due
  <2>2. Busy' = Busy /\ wtask[w] \in Task BY <1>12, RunningIsTask
  <2>3. \A v \in Workers : wtask'[v].of = wtask[v].of
    <3>1. wtask' = [wtask EXCEPT ![w] = [wtask[w] EXCEPT !.todo = Tail(wtask[w].todo)]]
      BY <1>12 DEF RunCriteria
    <3>2. [wtask[w] EXCEPT !.todo = Tail(wtask[w].todo)].of = wtask[w].of
      BY <2>2 DEF Task
    <3> QED BY <3>1, <3>2 DEF TypeOK
  <2>4. Queued' = Queued BY <2>1 DEF Queued
  <2>5. Held' = Held BY <2>2, <2>3 DEF Held, Busy
  <2>6. InFlight' = InFlight BY <2>4, <2>5 DEF InFlight
  <2>7. OneRequest' BY <2>1, <2>2, <2>3, <2>4, <2>5 DEF RequestInv, OneRequest, Busy
  <2>8. StartedOnce' BY <2>1, <2>2, <2>3, <2>4 DEF RequestInv, StartedOnce, Busy
  <2>9. DueOnce' BY <2>1, <2>6 DEF RequestInv, DueOnce
  <2>10. VisitOnce' BY <2>1, <2>3, <2>6 DEF RequestInv, VisitOnce
  <2>11. BaseFirst' BY <2>1, <2>6 DEF RequestInv, BaseFirst
  <2>12. RequestsExist' BY <2>1, <2>6 DEF RequestInv, RequestsExist
  <2> QED BY <2>7, <2>8, <2>9, <2>10, <2>11, <2>12 DEF RequestInv
<1>13. ASSUME NEW w \in Workers, UpdateFinished(w) PROVE RequestInv'
  <2>1. /\ UNCHANGED <<toSchedule, queue, wtodo, maps, live, updated>>
        /\ main' = main \/ (main = "blocked" /\ main' = "wait")
        /\ wtodo[w] = {}
    BY <1>13 DEF UpdateFinished, world
  <2>2. Due' = Due BY <2>1 DEF Due
  <2>3. w \in Busy /\ Busy' = Busy \ {w} BY <1>13, FinishBusy
  <2>4. \A v \in Workers \ {w} : wtask'[v] = wtask[v] /\ wpc'[v] = wpc[v]
    BY <1>13 DEF UpdateFinished, TypeOK
  <2>5. Queued' = Queued BY <2>1 DEF Queued
  <2>6. Held' \subseteq Held BY <2>3, <2>4 DEF Held, Busy
  <2>7. InFlight' \subseteq InFlight BY <2>5, <2>6 DEF InFlight
  <2>8. OneRequest' BY <2>1, <2>3, <2>4, <2>5, <2>6 DEF RequestInv, OneRequest, Busy
  <2>9. StartedOnce' BY <2>1, <2>3, <2>4, <2>5 DEF RequestInv, StartedOnce, Busy
  <2>10. DueOnce' BY <2>1, <2>2, <2>7 DEF RequestInv, DueOnce
  <2>11. VisitOnce' BY <2>1, <2>4, <2>7 DEF RequestInv, VisitOnce
  <2>12. BaseFirst' BY <2>1, <2>7 DEF RequestInv, BaseFirst
  <2>13. RequestsExist' BY <2>1, <2>7 DEF RequestInv, RequestsExist
  <2> QED BY <2>8, <2>9, <2>10, <2>11, <2>12, <2>13 DEF RequestInv
<1> QED
  BY <1>1, <1>2, <1>3, <1>4, <1>5, <1>6, <1>7, <1>8, <1>9, <1>10, <1>11, <1>12, <1>13,
     QuietActions
  DEF Next, Main, Worker, Environment, Terminated

-----------------------------------------------------------------------------
(* Critical operations.                                                    *)

\* The inductive invariant behind OperationsKept: every operation asked for is
\* in one of the three queues, once; the two local ones of MapManager::Update are
\* empty outside the loop over the operations.
OperationsInv ==
  /\ Once(operations) /\ Once(fallback) /\ Once(criticalQ)
  /\ Range(operations) \cap Range(fallback) = {}
  /\ Range(operations) \cap Range(criticalQ) = {}
  /\ Range(fallback) \cap Range(criticalQ) = {}
  /\ asked = Range(operations) \cup Range(fallback) \cup Range(criticalQ)
  /\ main # "critical" => operations = << >> /\ fallback = << >>

LEMMA EmptyRange == Range(<< >>) = {} /\ Once(<< >>)
  BY DEF Range, Once

\* The steps that touch the queues of operations.
LEMMA OperationSteps ==
  ASSUME [Next]_vars
  PROVE  \/ UNCHANGED critical /\ (main = "critical" => main' = main)
         \/ \E op \in Operations : AddCriticalOperation(op)
         \/ TakeOperations \/ PutBack
         \/ \E done \in BOOLEAN : RunOperation(done)
<1>1. CASE UNCHANGED vars BY <1>1 DEF vars, threads
<1>2. CASE Main
  BY <1>2 DEF Main, SkipTick, PrepareCriteria, ScheduleCriteria, CallCriteria, StartMaps,
       ScheduleMap, UpdateMap, EndMaps, Wait, Loop, UnloadAll, Deactivate, Cancel, Join
<1>3. ASSUME NEW w \in Workers, Worker(w) PROVE UNCHANGED critical /\ (main = "critical" => main' = main)
  BY <1>3 DEF Worker, WaitAndPop, StartCall, VisitInstance, RunCriteria, UpdateFinished
<1>4. CASE Environment
  BY <1>4 DEF Environment, AddCriteriaUpdateTask, CreateBaseMap, CreateInstance, StopNow,
       WaitAgain, SpuriousWakeup, threads
<1> QED BY <1>1, <1>2, <1>3, <1>4 DEF Next, Terminated

\* OperationsInv is inductive.
LEMMA OperationsStep ==
  ASSUME TypeOK, OperationsInv, [Next]_vars
  PROVE  OperationsInv'
<1> USE DEF OperationsInv
<1>1. CASE UNCHANGED critical /\ (main = "critical" => main' = main)
  BY <1>1 DEF critical
<1>2. ASSUME NEW op \in Operations, AddCriticalOperation(op) PROVE OperationsInv'
  <2>1. criticalQ' = Append(criticalQ, op) /\ asked' = asked \cup {op} /\ op \notin asked
        /\ UNCHANGED <<operations, fallback, main>>
    BY <1>2 DEF AddCriticalOperation, threads
  <2>2. Range(criticalQ') = Range(criticalQ) \cup {op} BY <2>1, PushRange DEF TypeOK
  <2>3. Once(criticalQ') BY <2>1, OnceFacts DEF TypeOK
  <2> QED BY <2>1, <2>2, <2>3
<1>3. CASE TakeOperations
  <2>1. operations' = criticalQ /\ criticalQ' = << >> /\ UNCHANGED <<fallback, asked>>
        /\ main' = "critical" /\ operations = << >> /\ fallback = << >>
    BY <1>3 DEF TakeOperations
  <2> QED BY <2>1, EmptyRange
<1>4. ASSUME NEW done \in BOOLEAN, RunOperation(done) PROVE OperationsInv'
  <2> DEFINE op == Head(operations)
  <2>1. operations # << >> /\ operations' = Tail(operations) /\ UNCHANGED <<criticalQ, main>>
        /\ main = "critical"
    BY <1>4 DEF RunOperation, threads
  <2>2. op \in Operations BY <2>1, HeadTailProperties DEF TypeOK
  <2>3. Range(operations) = {op} \cup Range(operations') BY <2>1, PopRange DEF TypeOK
  <2>4. Once(operations') /\ op \notin Range(operations') BY <2>1, OnceFacts DEF TypeOK
  <2> HIDE DEF op
  <2>5. CASE done
    <3>1. asked' = asked \ {op} /\ fallback' = fallback BY <1>4, <2>5 DEF RunOperation, op
    <3> QED BY <2>1, <2>3, <2>4, <3>1
  <2>6. CASE ~done
    <3>1. asked' = asked /\ fallback' = Append(fallback, op) BY <1>4, <2>6 DEF RunOperation, op
    <3>2. Range(fallback') = Range(fallback) \cup {op} BY <2>2, <3>1, PushRange DEF TypeOK
    <3>3. Once(fallback') BY <2>2, <2>3, <3>1, OnceFacts DEF TypeOK
    <3> QED BY <2>1, <2>3, <2>4, <3>1, <3>2, <3>3
  <2> QED BY <2>5, <2>6
<1>5. CASE PutBack
  <2>1. operations = << >> /\ operations' = operations /\ fallback' = << >> /\ asked' = asked
        /\ criticalQ' = criticalQ \o fallback
    BY <1>5 DEF PutBack
  <2>2. Range(criticalQ') = Range(criticalQ) \cup Range(fallback)
    BY <2>1, RangeConcatenation DEF TypeOK
  <2>3. Once(criticalQ') BY <2>1, OnceConcat DEF TypeOK
  <2> QED BY <2>1, <2>2, <2>3, EmptyRange
<1> QED BY <1>1, <1>2, <1>3, <1>4, <1>5, OperationSteps

\* The queues hold as many operations as are asked for, and each of those.
LEMMA OperationsCounted ==
  ASSUME TypeOK, OperationsInv
  PROVE  OperationsKept
<1> DEFINE held == operations \o fallback \o criticalQ
<1>1. /\ operations \in Seq(Operations) /\ fallback \in Seq(Operations)
      /\ criticalQ \in Seq(Operations)
  BY DEF TypeOK
<1>2. operations \o fallback \in Seq(Operations) /\ held \in Seq(Operations)
  BY <1>1, ConcatProperties
<1>3. Range(operations \o fallback) = Range(operations) \cup Range(fallback)
  BY <1>1, RangeConcatenation
<1>4. Range(held) = asked
  <2> DEFINE s == operations \o fallback
  <2> HIDE DEF s
  <2>0. s \in Seq(Operations) BY <1>2 DEF s
  <2>1. Range(s \o criticalQ) = Range(s) \cup Range(criticalQ)
    BY <1>1, <2>0, RangeConcatenation
  <2> QED BY <1>3, <2>1 DEF OperationsInv, s
<1>5. Once(operations \o fallback) BY <1>1, OnceConcat DEF OperationsInv
<1>6. Once(held)
  <2>1. Range(operations \o fallback) \cap Range(criticalQ) = {}
    BY <1>3 DEF OperationsInv
  <2> QED BY <1>1, <1>2, <1>5, <2>1, OnceConcat DEF OperationsInv
<1>7. Cardinality(Range(held)) = Len(held) BY <1>2, <1>6, OnceCardinality
<1>8. Range(held) = {held[i] : i \in 1..Len(held)} BY <1>2, RangeEquality
<1> HIDE DEF held
<1>9. /\ Len(held) = Cardinality(asked)
      /\ \A op \in asked : \E i \in 1..Len(held) : held[i] = op
  BY <1>4, <1>7, <1>8
<1> QED BY <1>9 DEF OperationsKept, held

-----------------------------------------------------------------------------
(* Achievement criteria.                                                   *)

\* Tasks are numbered in the order they are posted.  What was applied, a, are the
\* first ones; s continues a; the locked ones, l, are the last ones of n.
Runs(a) == \A k \in 1..Len(a) : a[k] = k
Continues(a, l, n, s) ==
  /\ \A k \in 1..Len(s) : s[k] = Len(a) + k
  /\ Len(a) + Len(s) + Len(l) = n
EndsAt(l, n) == \A k \in 1..Len(l) : l[k] = n - Len(l) + k

\* The tasks of p are due to be scheduled in this tick.
CriteriaDue(p) == main = "criteria" /\ p \in toSchedule

\* The tasks posted for p are the ones applied, then those of the player's queue
\* or of the one request made from it, then the locked ones.
CriteriaOf(p) ==
  LET continues(s) == Continues(applied[p], locked[p], posted[p], s)
  IN  /\ Runs(applied[p]) /\ EndsAt(locked[p], posted[p])
      /\ CriteriaDue(p) => continues(playerTasks[p])
      /\ \A r \in Range(queue) : r.of = p => continues(r.todo)
      /\ \A w \in Busy : wtask[w].of = p => continues(wtask[w].todo)
      /\ ~CriteriaDue(p) /\ p \notin InFlight => continues(<< >>)

\* The inductive invariant behind CriteriaInOrder.
CriteriaInv ==
  /\ \A p \in Players : CriteriaOf(p)
  /\ main \in {"world", "critical", "loop"} => \A p \in Players : playerTasks[p] = << >>

\* The next task of a request is run.
LEMMA ContinueOne ==
  ASSUME NEW a \in Seq(Nat), NEW l \in Seq(Nat), NEW n \in Nat, NEW s \in Seq(Nat),
         Runs(a), Continues(a, l, n, s), s # << >>
  PROVE  Runs(Append(a, Head(s))) /\ Continues(Append(a, Head(s)), l, n, Tail(s))
<1>1. Len(s) \in Nat \ {0} /\ Head(s) = s[1] /\ Len(a) \in Nat /\ Len(l) \in Nat
  BY EmptySeq, LenProperties
<1>2. Head(s) \in Nat /\ Len(Tail(s)) = Len(s) - 1
      /\ \A i \in 1..Len(Tail(s)) : Tail(s)[i] = s[i + 1]
  BY HeadTailProperties
<1>3. Head(s) = Len(a) + 1 BY <1>1 DEF Continues
<1>4. Len(Append(a, Head(s))) = Len(a) + 1
      /\ \A i \in 1..Len(a) : Append(a, Head(s))[i] = a[i]
      /\ Append(a, Head(s))[Len(a) + 1] = Head(s)
  BY <1>2, AppendProperties
<1>5. Runs(Append(a, Head(s))) BY <1>1, <1>3, <1>4 DEF Runs
<1>6. \A k \in 1..Len(Tail(s)) : Tail(s)[k] = Len(a) + 1 + k
  BY <1>1, <1>2 DEF Continues
<1>7. Len(a) + 1 + Len(Tail(s)) + Len(l) = n
  <2>1. Len(a) + Len(s) + Len(l) = n BY DEF Continues
  <2> QED BY <1>1, <1>2, <2>1
<1> QED BY <1>4, <1>5, <1>6, <1>7 DEF Continues

\* All tasks of a queue are run.
LEMMA ContinueAll ==
  ASSUME NEW a \in Seq(Nat), NEW l \in Seq(Nat), NEW n \in Nat, NEW s \in Seq(Nat),
         Runs(a), Continues(a, l, n, s)
  PROVE  Runs(a \o s) /\ Continues(a \o s, l, n, << >>)
<1>1. Len(a) \in Nat /\ Len(s) \in Nat /\ Len(l) \in Nat BY LenProperties
<1>2. Len(a \o s) = Len(a) + Len(s)
      /\ \A i \in 1 .. Len(a) + Len(s) :
           (a \o s)[i] = IF i <= Len(a) THEN a[i] ELSE s[i - Len(a)]
  BY ConcatProperties
<1>3. Runs(a \o s) BY <1>1, <1>2 DEF Runs, Continues
<1> QED BY <1>1, <1>2, <1>3, EmptySeq DEF Continues

\* A task is posted: it gets the next number and goes behind the locked ones.
LEMMA ContinuePost ==
  ASSUME NEW a \in Seq(Nat), NEW l \in Seq(Nat), NEW n \in Nat
  PROVE  /\ \A s \in Seq(Nat) : Continues(a, l, n, s) => Continues(a, Append(l, n + 1), n + 1, s)
         /\ EndsAt(l, n) => EndsAt(Append(l, n + 1), n + 1)
<1>1. Len(a) \in Nat /\ Len(l) \in Nat BY LenProperties
<1>2. Len(Append(l, n + 1)) = Len(l) + 1
      /\ \A i \in 1..Len(l) : Append(l, n + 1)[i] = l[i]
      /\ Append(l, n + 1)[Len(l) + 1] = n + 1
  BY AppendProperties
<1>3. ASSUME NEW s \in Seq(Nat), Continues(a, l, n, s)
      PROVE  Continues(a, Append(l, n + 1), n + 1, s)
  <2>1. Len(a) + Len(s) + Len(l) = n BY <1>3 DEF Continues
  <2>2. Len(s) \in Nat BY LenProperties
  <2>3. Len(a) + Len(s) + Len(Append(l, n + 1)) = n + 1 BY <1>1, <1>2, <2>1, <2>2
  <2> QED BY <1>3, <2>3 DEF Continues
<1>4. ASSUME EndsAt(l, n) PROVE EndsAt(Append(l, n + 1), n + 1)
  <2> SUFFICES ASSUME NEW k \in 1..Len(l) + 1
               PROVE  Append(l, n + 1)[k] = n + 1 - (Len(l) + 1) + k
    BY <1>2 DEF EndsAt
  <2>1. CASE k = Len(l) + 1 BY <1>1, <1>2, <2>1
  <2>2. CASE k \in 1..Len(l)
    <3>1. l[k] = n - Len(l) + k BY <1>4, <2>2 DEF EndsAt
    <3> QED BY <1>1, <1>2, <2>2, <3>1
  <2> QED BY <1>1, <2>1, <2>2
<1> QED BY <1>3, <1>4

\* The locked tasks are drained into the player's empty queue.
LEMMA ContinueDrain ==
  ASSUME NEW a \in Seq(Nat), NEW l \in Seq(Nat), NEW n \in Nat,
         Continues(a, l, n, << >>), EndsAt(l, n)
  PROVE  Continues(a, << >>, n, l) /\ EndsAt(<< >>, n)
<1>1. Len(a) \in Nat /\ Len(l) \in Nat /\ Len(<< >>) = 0 BY LenProperties, EmptySeq
<1>2. Len(a) + Len(<< >>) + Len(l) = n BY DEF Continues
<1>3. Len(a) = n - Len(l) BY <1>1, <1>2
<1>4. \A k \in 1..Len(l) : l[k] = Len(a) + k BY <1>3 DEF EndsAt
<1>5. Len(a) + Len(l) + Len(<< >>) = n BY <1>1, <1>2
<1> QED BY <1>1, <1>4, <1>5 DEF Continues, EndsAt

\* Nothing is left between what was applied and what is locked.
LEMMA ContinueNothing ==
  ASSUME NEW a \in Seq(Nat), NEW l \in Seq(Nat), NEW n \in Nat, Continues(a, l, n, << >>)
  PROVE  Len(a) + Len(l) = n
<1>1. Len(a) \in Nat /\ Len(l) \in Nat /\ Len(<< >>) = 0 BY LenProperties, EmptySeq
<1>2. Len(a) + Len(<< >>) + Len(l) = n BY DEF Continues
<1> QED BY <1>1, <1>2

\* Steps that leave alone what belongs to p.
LEMMA CriteriaFrame ==
  ASSUME NEW p \in Players, CriteriaOf(p),
         applied'[p] = applied[p], locked'[p] = locked[p], posted'[p] = posted[p],
         CriteriaDue(p)' <=> CriteriaDue(p),
         CriteriaDue(p) => playerTasks'[p] = playerTasks[p],
         \A r \in Range(queue') : r.of = p => r \in Range(queue),
         \A w \in Busy' : wtask'[w].of = p => w \in Busy /\ wtask'[w] = wtask[w],
         p \in InFlight' <=> p \in InFlight
  PROVE  CriteriaOf(p)'
  BY DEF CriteriaOf

\* The steps that move criteria tasks; all others leave them, and the requests
\* that hold them, alone.
LEMMA CriteriaSteps ==
  ASSUME TickInv, [Next]_vars
  PROVE  \/ /\ UNCHANGED <<criteria, queue, wtask>>
            /\ \A p \in Players : CriteriaDue(p)' <=> CriteriaDue(p)
         \/ /\ UNCHANGED <<criteria, wtask>>
            /\ \A p \in Players : CriteriaDue(p)' <=> CriteriaDue(p)
            /\ \E m \in Maps : Schedule(MapRequest(m), wpc)
         \/ \E p \in Players : ScheduleCriteria(p) \/ CallCriteria(p) \/ AddCriteriaUpdateTask(p)
         \/ PrepareCriteria \/ TakeOperations
         \/ \E w \in Workers : WaitAndPop(w) \/ RunCriteria(w) \/ UpdateFinished(w)
<1> USE DEF CriteriaDue
<1>1. CASE SkipTick \/ StartMaps \/ EndMaps \/ Wait \/ PutBack \/ Loop \/ UnloadAll \/ Deactivate
           \/ Join \/ StopNow \/ WaitAgain
  BY <1>1 DEF SkipTick, StartMaps, EndMaps, Wait, PutBack, Loop, UnloadAll, Deactivate,
       Join, StopNow, WaitAgain
<1>2. CASE UNCHANGED vars BY <1>2 DEF vars, threads
<1>3. CASE Cancel
  <2>1. queue' = queue BY <1>3 DEF Cancel, TickInv, Quiet, PastBarrier
  <2> QED BY <1>3, <2>1 DEF Cancel
<1>4. CASE \/ \E done \in BOOLEAN : RunOperation(done)
           \/ \E op \in Operations : AddCriticalOperation(op)
           \/ \E b \in BaseMaps : CreateBaseMap(b) \/ UpdateMap(b)
           \/ \E i \in Instances : CreateInstance(i)
           \/ \E w \in Workers : SpuriousWakeup(w) \/ StartCall(w)
  BY <1>4 DEF RunOperation, AddCriticalOperation, CreateBaseMap, UpdateMap, CreateInstance,
       SpuriousWakeup, StartCall, threads
<1>5. ASSUME NEW b \in BaseMaps, ScheduleMap(b)
      PROVE  /\ UNCHANGED <<criteria, wtask>>
             /\ \A p \in Players : CriteriaDue(p)' <=> CriteriaDue(p)
             /\ b \in Maps /\ Schedule(MapRequest(b), wpc)
  BY <1>5 DEF ScheduleMap, Maps
<1>6. ASSUME NEW w \in Workers, NEW i \in Instances, VisitInstance(w, i)
      PROVE  /\ UNCHANGED <<criteria, wtask>>
             /\ \A p \in Players : CriteriaDue(p)' <=> CriteriaDue(p)
             /\ i \in Maps
             /\ queue' = queue \/ Schedule(MapRequest(i), wpc)
  BY <1>6 DEF VisitInstance, Maps
<1> QED BY <1>1, <1>2, <1>3, <1>4, <1>5, <1>6 DEF Next, Main, Worker, Environment, Terminated

\* CriteriaOf is inductive.
LEMMA CriteriaOfStep ==
  ASSUME TickInv, TickInv', RequestInv, CriteriaInv, [Next]_vars, NEW p \in Players
  PROVE  CriteriaOf(p)'
<1> USE DEF TickInv
<1>0. /\ CriteriaOf(p)
      /\ applied[p] \in Seq(Nat) /\ locked[p] \in Seq(Nat) /\ playerTasks[p] \in Seq(Nat)
      /\ posted[p] \in Nat
  BY DEF CriteriaInv, TypeOK
<1>1. CASE /\ UNCHANGED <<criteria, queue, wtask>>
           /\ CriteriaDue(p)' <=> CriteriaDue(p)
  <2>1. Busy' = Busy /\ InFlight' = InFlight BY <1>1 DEF Busy, InFlight, Queued, Held
  <2> QED BY <1>0, <1>1, <2>1, CriteriaFrame DEF criteria
<1>2. ASSUME NEW t \in Task, Schedule(t, wpc), t.of # p, UNCHANGED <<criteria, wtask>>,
             CriteriaDue(p)' <=> CriteriaDue(p)
      PROVE  CriteriaOf(p)'
  <2>1. Range(queue') = Range(queue) \cup {t} BY <1>2, PushRange DEF Schedule, TypeOK
  <2>2. Busy' = Busy BY <1>2 DEF Busy
  <2>3. p \in InFlight' <=> p \in InFlight BY <1>2, <2>1, <2>2 DEF InFlight, Queued, Held
  <2> QED BY <1>0, <1>2, <2>1, <2>2, <2>3, CriteriaFrame DEF criteria
<1>3. ASSUME NEW m \in Maps, Schedule(MapRequest(m), wpc), UNCHANGED <<criteria, wtask>>,
             CriteriaDue(p)' <=> CriteriaDue(p)
      PROVE  CriteriaOf(p)'
  <2>1. MapRequest(m) \in Task /\ MapRequest(m).of # p
    BY UnitsDisjoint DEF MapRequest, Task, Units, Maps
  <2> QED BY <1>2, <1>3, <2>1
<1>4. ASSUME NEW q \in Players, ScheduleCriteria(q) PROVE CriteriaOf(p)'
  <2>1. CriteriaRequest(q) \in Task /\ CriteriaRequest(q).of = q
    BY DEF CriteriaRequest, Task, Units, TypeOK
  <2>2. CASE q # p
    <3>1. CriteriaDue(p)' <=> CriteriaDue(p) BY <1>4, <2>2 DEF ScheduleCriteria, CriteriaDue
    <3> QED BY <1>2, <1>4, <2>1, <2>2, <3>1 DEF ScheduleCriteria
  <2>3. CASE q = p
    <3> DEFINE r == CriteriaRequest(p)
    <3>1. /\ r.of = p /\ r.todo = playerTasks[p]
          /\ UNCHANGED <<applied, locked, posted, playerTasks, wtask>>
          /\ ~CriteriaDue(p)' /\ CriteriaDue(p)
      BY <1>4, <2>3 DEF ScheduleCriteria, CriteriaDue, criteria, CriteriaRequest
    <3>2. Range(queue') = Range(queue) \cup {r}
      BY <1>4, <2>1, <2>3, PushRange DEF ScheduleCriteria, Schedule, TypeOK
    <3> HIDE DEF r
    <3>3. Busy' = Busy BY <3>1 DEF Busy
    <3>4. p \in InFlight' BY <3>1, <3>2 DEF InFlight, Queued
    <3>5. Continues(applied[p], locked[p], posted[p], r.todo) BY <1>0, <3>1 DEF CriteriaOf
    <3> QED BY <1>0, <3>1, <3>2, <3>3, <3>4, <3>5 DEF CriteriaOf
  <2> QED BY <2>2, <2>3
<1>5. ASSUME NEW q \in Players, CallCriteria(q) PROVE CriteriaOf(p)'
  <2>1. /\ UNCHANGED <<queue, wtask, locked, posted, playerTasks>>
        /\ applied' = [applied EXCEPT ![q] = applied[q] \o playerTasks[q]]
        /\ queue = << >> /\ Busy = {}
    BY <1>5 DEF CallCriteria, Quiet
  <2>2. Busy' = Busy /\ InFlight' = InFlight BY <2>1 DEF Busy, InFlight, Queued, Held
  <2>3. CASE q # p
    <3>1. CriteriaDue(p)' <=> CriteriaDue(p) BY <1>5, <2>3 DEF CallCriteria, CriteriaDue
    <3>2. applied'[p] = applied[p] BY <2>1, <2>3 DEF TypeOK
    <3> QED BY <1>0, <2>1, <2>2, <3>1, <3>2, CriteriaFrame
  <2>4. CASE q = p
    <3>1. ~CriteriaDue(p)' /\ CriteriaDue(p) BY <1>5, <2>4 DEF CallCriteria, CriteriaDue
    <3>2. applied'[p] = applied[p] \o playerTasks[p] BY <2>1, <2>4 DEF TypeOK
    <3>3. Continues(applied[p], locked[p], posted[p], playerTasks[p]) /\ Runs(applied[p])
      BY <1>0, <3>1 DEF CriteriaOf
    <3>4. /\ Runs(applied'[p])
          /\ Continues(applied'[p], locked[p], posted[p], << >>)
      BY <1>0, <3>2, <3>3, ContinueAll
    <3>5. Range(queue') = {} BY <2>1 DEF Range
    <3> QED BY <1>0, <2>1, <2>2, <3>1, <3>4, <3>5 DEF CriteriaOf
  <2> QED BY <2>3, <2>4
<1>6. ASSUME NEW q \in Players, AddCriteriaUpdateTask(q) PROVE CriteriaOf(p)'
  <2>1. /\ UNCHANGED <<main, toSchedule, queue, wtask, playerTasks, applied>>
        /\ posted' = [posted EXCEPT ![q] = posted[q] + 1]
        /\ locked' = [locked EXCEPT ![q] = Append(locked[q], posted[q] + 1)]
    BY <1>6 DEF AddCriteriaUpdateTask, threads
  <2>2. Busy' = Busy /\ InFlight' = InFlight /\ (CriteriaDue(p)' <=> CriteriaDue(p))
    BY <2>1 DEF Busy, InFlight, Queued, Held, CriteriaDue
  <2>3. CASE q # p
    <3>1. posted'[p] = posted[p] /\ locked'[p] = locked[p] BY <2>1, <2>3 DEF TypeOK
    <3> QED BY <1>0, <2>1, <2>2, <3>1, CriteriaFrame
  <2>4. CASE q = p
    <3>1. posted'[p] = posted[p] + 1 /\ locked'[p] = Append(locked[p], posted[p] + 1)
      BY <2>1, <2>4 DEF TypeOK
    <3>2. \A s \in Seq(Nat) : Continues(applied[p], locked[p], posted[p], s)
                                => Continues(applied[p], locked'[p], posted'[p], s)
      BY <1>0, <3>1, ContinuePost
    <3>3. EndsAt(locked'[p], posted'[p]) BY <1>0, <3>1, ContinuePost DEF CriteriaOf
    <3>4. \A r \in Range(queue) : r.todo \in Seq(Nat)
      <4>1. Range(queue) \in SUBSET Task BY RangeOfSeq DEF TypeOK
      <4> QED BY <4>1 DEF Task
    <3>5. \A w \in Busy : wtask[w].todo \in Seq(Nat) BY DEF Busy, TypeOK, Task
    <3>6. << >> \in Seq(Nat) BY EmptySeq
    <3> QED BY <1>0, <2>1, <2>2, <3>2, <3>3, <3>4, <3>5, <3>6 DEF CriteriaOf
  <2> QED BY <2>3, <2>4
<1>7. CASE PrepareCriteria
  <2>1. /\ queue = << >> /\ Busy = {} /\ queue' = << >> /\ Busy' = {}
        /\ UNCHANGED <<applied, posted>> /\ main = "world" /\ main' = "criteria"
        /\ playerTasks'[p] = playerTasks[p] \o locked[p] /\ locked'[p] = << >>
        /\ toSchedule' = {q \in Players : playerTasks'[q] # << >>}
    BY <1>7, SerialState DEF PrepareCriteria, PastBarrier, Busy
  <2>2. Range(queue') = {} BY <2>1 DEF Range
  <2>3. playerTasks[p] = << >> BY <2>1 DEF CriteriaInv
  <2>4. playerTasks'[p] = locked[p] BY <1>0, <2>1, <2>3, ConcatEmptySeq
  <2>5. ~CriteriaDue(p) /\ p \notin InFlight BY <2>1, NothingInFlight DEF CriteriaDue
  <2>6. Continues(applied[p], locked[p], posted[p], << >>) BY <1>0, <2>5 DEF CriteriaOf
  <2>7. Continues(applied[p], << >>, posted[p], locked[p]) /\ EndsAt(<< >>, posted[p])
    BY <1>0, <2>6, ContinueDrain DEF CriteriaOf
  <2>8. ~CriteriaDue(p)' => playerTasks'[p] = << >> BY <2>1 DEF CriteriaDue
  <2> QED BY <1>0, <2>1, <2>2, <2>4, <2>7, <2>8 DEF CriteriaOf
<1>8. CASE TakeOperations
  <2>1. UNCHANGED <<queue, wtask, applied, locked, posted>> /\ main = "serial" /\ main' = "critical"
    BY <1>8 DEF TakeOperations
  <2>2. Busy' = Busy /\ InFlight' = InFlight /\ ~CriteriaDue(p) /\ ~CriteriaDue(p)'
    BY <2>1 DEF Busy, InFlight, Queued, Held, CriteriaDue
  <2> QED BY <1>0, <2>1, <2>2, CriteriaFrame
<1>9. ASSUME NEW w \in Workers, WaitAndPop(w) PROVE CriteriaOf(p)'
  <2>1. UNCHANGED <<main, toSchedule, criteria>> BY <1>9 DEF WaitAndPop
  <2>2. CriteriaDue(p)' <=> CriteriaDue(p) BY <2>1 DEF CriteriaDue
  <2>3. CASE ~(queue # << >> /\ ~shutdown)
    BY <1>1, <1>9, <2>1, <2>2, <2>3 DEF WaitAndPop
  <2>4. CASE queue # << >> /\ ~shutdown
    <3>1. /\ Queued = Queued' \cup {Head(queue).of}
          /\ Busy' = Busy \cup {w} /\ wtask'[w] = Head(queue)
          /\ \A v \in Busy : wtask'[v] = wtask[v]
          /\ Held' = Held \cup {Head(queue).of}
      BY <1>9, <2>4, PopQueued DEF RequestInv, OneRequest
    <3>2. InFlight' = InFlight BY <3>1 DEF InFlight
    <3>3. Range(queue) = {Head(queue)} \cup Range(queue')
      BY <1>9, <2>4, PopRange DEF WaitAndPop, TypeOK
    <3> QED BY <1>0, <2>1, <2>2, <3>1, <3>2, <3>3 DEF CriteriaOf, criteria
  <2> QED BY <2>3, <2>4
<1>10. ASSUME NEW w \in Workers, RunCriteria(w) PROVE CriteriaOf(p)'
  <2> DEFINE u == wtask[w].of
             todo == wtask[w].todo
  <2>1. /\ UNCHANGED <<main, toSchedule, queue, locked, playerTasks, posted>>
        /\ todo # << >>
        /\ wtask' = [wtask EXCEPT ![w] = [wtask[w] EXCEPT !.todo = Tail(todo)]]
        /\ applied' = [applied EXCEPT ![u] = Append(applied[u], Head(todo))]
    BY <1>10 DEF RunCriteria
  <2>2. wtask[w] \in Task /\ Busy' = Busy BY <1>10, RunningIsTask
  <2>3. w \in Busy BY <1>10 DEF RunCriteria, WorkerShape, Busy
  <2>4. wtask'[w].of = u /\ wtask'[w].todo = Tail(todo)
        /\ \A v \in Workers \ {w} : wtask'[v] = wtask[v]
    BY <2>1, <2>2 DEF TypeOK, Task
  <2>5. Held' = Held BY <2>2, <2>4 DEF Held, Busy
  <2>6. InFlight' = InFlight /\ (CriteriaDue(p)' <=> CriteriaDue(p))
    BY <2>1, <2>5 DEF InFlight, Queued, CriteriaDue
  <2>7. CASE u # p
    <3>1. applied'[p] = applied[p] BY <2>1, <2>7 DEF TypeOK
    <3>2. \A v \in Busy' : wtask'[v].of = p => v \in Busy /\ wtask'[v] = wtask[v]
      BY <2>2, <2>4, <2>7 DEF Busy
    <3> QED BY <1>0, <2>1, <2>6, <3>1, <3>2, CriteriaFrame
  <2>8. CASE u = p
    <3>1. applied'[p] = Append(applied[p], Head(todo)) BY <2>1, <2>8 DEF TypeOK
    <3>2. Continues(applied[p], locked[p], posted[p], todo) /\ Runs(applied[p])
      BY <1>0, <2>3, <2>8 DEF CriteriaOf
    <3>3. todo \in Seq(Nat) BY <2>2 DEF Task
    <3>4. Runs(applied'[p]) /\ Continues(applied'[p], locked[p], posted[p], Tail(todo))
      BY <1>0, <2>1, <3>1, <3>2, <3>3, ContinueOne
    <3>5. p \in Held BY <2>3, <2>8 DEF Held
    <3>6. ~CriteriaDue(p)
      BY <3>5 DEF CriteriaDue, RequestInv, DueOnce, Due, InFlight
    <3>7. \A r \in Range(queue) : r.of # p
      BY <3>5 DEF RequestInv, OneRequest, Queued
    <3>8. \A v \in Busy : wtask[v].of = p => v = w
      BY <2>3, <2>8 DEF RequestInv, OneRequest
    <3>9. \A v \in Busy' : wtask'[v].of = p => wtask'[v].todo = Tail(todo)
      BY <2>2, <2>4, <3>8 DEF Busy
    <3>10. p \in InFlight' BY <2>6, <3>5 DEF InFlight
    <3> QED BY <1>0, <2>1, <2>6, <3>4, <3>6, <3>7, <3>9, <3>10 DEF CriteriaOf
  <2> QED BY <2>7, <2>8
<1>11. ASSUME NEW w \in Workers, UpdateFinished(w) PROVE CriteriaOf(p)'
  <2>1. /\ UNCHANGED <<toSchedule, queue, applied, locked, playerTasks, posted>>
        /\ main' = main \/ (main = "blocked" /\ main' = "wait")
        /\ wtask[w].todo = << >>
    BY <1>11 DEF UpdateFinished, criteria
  <2>2. CriteriaDue(p)' <=> CriteriaDue(p) BY <2>1 DEF CriteriaDue
  <2>3. w \in Busy /\ Busy' = Busy \ {w} BY <1>11, FinishBusy
  <2>4. \A v \in Busy' : wtask'[v] = wtask[v] /\ v \in Busy
    BY <1>11, <2>3 DEF UpdateFinished, TypeOK, Busy
  <2>5. ~CriteriaDue(p) /\ p \notin InFlight'
          => Continues(applied[p], locked[p], posted[p], << >>)
    <3>1. CASE p = wtask[w].of BY <1>0, <2>1, <2>3, <3>1 DEF CriteriaOf
    <3>2. CASE p # wtask[w].of
      <4>1. p \notin InFlight' => p \notin InFlight
        BY <2>1, <2>3, <2>4, <3>2 DEF InFlight, Queued, Held
      <4> QED BY <1>0, <4>1 DEF CriteriaOf
    <3> QED BY <3>1, <3>2
  <2> QED BY <1>0, <2>1, <2>2, <2>4, <2>5 DEF CriteriaOf
<1> QED BY <1>1, <1>3, <1>4, <1>5, <1>6, <1>7, <1>8, <1>9, <1>10, <1>11, CriteriaSteps

\* The players' queues are empty between ClearPlayersCriteriaTask and the next
\* PrepareCriteriaUpdateTaskThread.
LEMMA QueuesCleared ==
  ASSUME CriteriaInv, [Next]_vars
  PROVE  (main \in {"world", "critical", "loop"} => \A p \in Players : playerTasks[p] = << >>)'
<1>1. CASE TakeOperations BY <1>1 DEF TakeOperations
<1>2. CASE PrepareCriteria BY <1>2 DEF PrepareCriteria
<1>3. CASE /\ playerTasks' = playerTasks
           /\ main' \in {"world", "critical", "loop"} => main \in {"world", "critical", "loop"}
  BY <1>3 DEF CriteriaInv
<1>4. CASE UNCHANGED vars BY <1>3, <1>4 DEF vars, threads, criteria
<1>5. CASE Main
  BY <1>1, <1>2, <1>3, <1>5 DEF Main, SkipTick, ScheduleCriteria, CallCriteria, StartMaps,
       ScheduleMap, UpdateMap, EndMaps, Wait, RunOperation, PutBack, Loop, UnloadAll,
       Deactivate, Cancel, Join, criteria, threads
<1>6. ASSUME NEW w \in Workers, Worker(w)
      PROVE  /\ playerTasks' = playerTasks
             /\ main' = main \/ (main = "blocked" /\ main' = "wait")
  BY <1>6 DEF Worker, WaitAndPop, StartCall, VisitInstance, RunCriteria, UpdateFinished, criteria
<1>7. CASE Environment
  BY <1>3, <1>7 DEF Environment, AddCriteriaUpdateTask, AddCriticalOperation, CreateBaseMap,
       CreateInstance, StopNow, WaitAgain, SpuriousWakeup, threads, criteria
<1> QED BY <1>3, <1>4, <1>5, <1>6, <1>7 DEF Next, Terminated

-----------------------------------------------------------------------------
(* The invariants.                                                         *)

\* The inductive invariant of the whole tick.
WorldInv == TickInv /\ RequestInv /\ OperationsInv /\ CriteriaInv

LEMMA InitWorldInv ==
  ASSUME Init, TickInv
  PROVE  WorldInv
<1>1. Busy = {} /\ queue = << >> BY DEF Init, Busy
<1>2. Range(queue) = {} /\ InFlight = {} /\ Queued = {} /\ Held = {}
  BY <1>1, NothingInFlight DEF Range
<1>3. RequestInv
  BY <1>1, <1>2 DEF Init, RequestInv, OneRequest, OfOnce, StartedOnce, DueOnce, Due, VisitOnce,
       BaseFirst, RequestsExist
<1>4. OperationsInv BY EmptyRange DEF Init, OperationsInv
<1>5. ASSUME NEW p \in Players PROVE CriteriaOf(p)
  <2>1. applied[p] = << >> /\ locked[p] = << >> /\ posted[p] = 0 /\ ~CriteriaDue(p)
    BY DEF Init, CriteriaDue
  <2>2. Runs(<< >>) /\ EndsAt(<< >>, 0) /\ Continues(<< >>, << >>, 0, << >>)
    BY EmptySeq DEF Runs, EndsAt, Continues
  <2> QED BY <1>1, <1>2, <2>1, <2>2 DEF CriteriaOf
<1>6. CriteriaInv BY <1>5 DEF CriteriaInv, Init
<1> QED BY <1>3, <1>4, <1>6 DEF WorldInv

\* The requests, the operations and the criteria of a tick stay in order along
\* every behaviour of the world thread and the workers.
THEOREM WorldInvariant == Spec => []WorldInv
<1>1. Init /\ TickInv => WorldInv BY InitWorldInv
<1>2. TickInv /\ TickInv' /\ WorldInv /\ [Next]_vars => WorldInv'
  <2> SUFFICES ASSUME TickInv, TickInv', WorldInv, [Next]_vars PROVE WorldInv' OBVIOUS
  <2> USE DEF WorldInv
  <2>1. RequestInv' BY RequestStep
  <2>2. OperationsInv' BY OperationsStep DEF TickInv
  <2>3. \A p \in Players : CriteriaOf(p)' BY CriteriaOfStep
  <2>4. CriteriaInv' BY <2>3, QueuesCleared DEF CriteriaInv
  <2> QED BY <2>1, <2>2, <2>4
<1> QED BY <1>1, <1>2, TickInvariant, PTL DEF Spec

\* No two workers update the same map or run criteria of the same player at the
\* same time: schedule_update and schedule_specific never see a unit twice.
THEOREM UpdatesNeverConcurrent == Spec => []NoConcurrentUpdate
<1>1. WorldInv => NoConcurrentUpdate
  <2> SUFFICES ASSUME WorldInv PROVE NoConcurrentUpdate OBVIOUS
  <2>1. OneRequest /\ queue \in Seq(Task) BY DEF WorldInv, RequestInv, TickInv, TypeOK
  <2>2. \A i \in 1..Len(queue) : queue[i].of \in Queued BY <2>1, RangeEquality DEF Queued
  <2>3. \A w \in Busy : wtask[w].of \in Held BY DEF Held
  <2> QED BY <2>1, <2>2, <2>3 DEF OneRequest, OfOnce, NoConcurrentUpdate
<1> QED BY <1>1, WorldInvariant, PTL

\* A request in flight, and an instance MapInstanced::Update has still to visit,
\* is for a map that exists, whatever other workers destroy meanwhile.
THEOREM MapsNeverDangle == Spec => []NoDanglingMap
<1>1. WorldInv => NoDanglingMap
  <2> SUFFICES ASSUME WorldInv PROVE NoDanglingMap OBVIOUS
  <2>1. RequestInv /\ queue \in Seq(Task) BY DEF WorldInv, TickInv, TypeOK
  <2>2. \A i \in 1..Len(queue) : queue[i].of \in InFlight
    BY <2>1, RangeEquality DEF Queued, InFlight
  <2>3. \A w \in Busy : wtask[w].of \in InFlight BY DEF Held, InFlight
  <2>4. \A w \in Busy : wtodo[w] \subseteq live BY <2>1 DEF RequestInv, VisitOnce, Busy
  <2> QED BY <2>1, <2>2, <2>3, <2>4 DEF RequestInv, RequestsExist, NoDanglingMap
<1> QED BY <1>1, WorldInvariant, PTL

\* AddCriteriaUpdateTask's tasks run in the order they were posted, each at most
\* once and without a gap, and between ticks none is lost.
THEOREM CriteriaAlwaysInOrder == Spec => []CriteriaInOrder
<1>1. WorldInv => CriteriaInOrder
  <2> SUFFICES ASSUME WorldInv, NEW p \in Players
               PROVE  /\ applied[p] = [n \in 1..Len(applied[p]) |-> n]
                      /\ main = "world" => Len(applied[p]) + Len(locked[p]) = posted[p]
    BY DEF CriteriaInOrder
  <2>1. CriteriaOf(p) BY DEF WorldInv, CriteriaInv
  <2>2. applied[p] \in Seq(Nat) /\ locked[p] \in Seq(Nat) /\ posted[p] \in Nat
    BY DEF WorldInv, TickInv, TypeOK
  <2>3. Len(applied[p]) \in Nat /\ Len(locked[p]) \in Nat
        /\ applied[p] \in [1..Len(applied[p]) -> Nat]
    BY <2>2, LenProperties
  <2>4. applied[p] = [n \in 1..Len(applied[p]) |-> n]
    BY <2>1, <2>3 DEF CriteriaOf, Runs
  <2>5. ASSUME main = "world" PROVE Len(applied[p]) + Len(locked[p]) = posted[p]
    <3>1. queue = << >> /\ Busy = {} BY <2>5 DEF WorldInv, TickInv, Quiet, PastBarrier
    <3>2. p \notin InFlight /\ ~CriteriaDue(p) BY <2>5, <3>1, NothingInFlight DEF CriteriaDue
    <3>3. Continues(applied[p], locked[p], posted[p], << >>) BY <2>1, <3>2 DEF CriteriaOf
    <3> QED BY <2>2, <3>3, ContinueNothing
  <2> QED BY <2>4, <2>5
<1> QED BY <1>1, WorldInvariant, PTL

\* An operation given to AddCriticalOperation that has not succeeded is in one of
\* the queues of MapManager, once.
THEOREM OperationsAlwaysKept == Spec => []OperationsKept
<1>1. WorldInv => OperationsKept BY OperationsCounted DEF WorldInv, TickInv
<1> QED BY <1>1, WorldInvariant, PTL

-----------------------------------------------------------------------------
(* The refinement.                                                         *)

\* The requests workers took and have not started.
Popped == {wtask[w].of : w \in {v \in Busy : wpc[v] = "popped"}}

\* What is ready in the abstract tick: due, queued or taken.
LEMMA ReadyParts == TypeOK => TickReady = Due \cup Queued \cup Popped
<1> SUFFICES ASSUME TypeOK PROVE TickReady = Due \cup Queued \cup Popped OBVIOUS
<1>1. Range(queue) = {queue[i] : i \in 1..Len(queue)} BY RangeEquality DEF TypeOK
<1>2. Queued = {queue[i].of : i \in 1..Len(queue)} BY <1>1 DEF Queued
<1> QED BY <1>2 DEF TickReady, Due, Popped

\* The same in the next state.
LEMMA ReadyPartsNext == TypeOK' => TickReady' = Due' \cup Queued' \cup Popped'
<1>1. (TypeOK => TickReady = Due \cup Queued \cup Popped)' BY ReadyParts, PTL
<1> QED BY <1>1

\* What is ready or running is due or in flight.
LEMMA ReadyInFlight ==
  ASSUME TypeOK, WorkerShape
  PROVE  TickReady \subseteq Due \cup InFlight /\ TickRunning \subseteq Held
<1>1. Popped \subseteq Held BY DEF Popped, Held
<1>2. TickRunning \subseteq Held BY DEF TickRunning, Held, Busy, WorkerShape
<1> QED BY <1>1, <1>2, ReadyParts DEF InFlight

\* A step that changes nothing the abstract tick sees.
TickStutter == UNCHANGED <<TickPhase, maps, live, TickReady, TickRunning, updated, asked>>

\* The requests in the workers' hands are as ready or running as before if their
\* program counters pass none of the two places that matter.
LEMMA WorkersSame ==
  ASSUME wtask' = wtask,
         \A w \in Workers : /\ wpc'[w] = "call" <=> wpc[w] = "call"
                            /\ wpc'[w] = "popped" <=> wpc[w] = "popped"
  PROVE  Popped' = Popped /\ TickRunning' = TickRunning
<1>1. Busy' = Busy BY DEF Busy
<1> QED BY <1>1 DEF Popped, TickRunning, Busy

\* The world thread's and the environment's steps that are stutters.
LEMMA QuietRefines ==
  ASSUME WorldInv, WorldInv',
         \/ SkipTick \/ StartMaps \/ TakeOperations \/ PutBack \/ Loop \/ Deactivate
         \/ Cancel \/ Join \/ StopNow \/ WaitAgain \/ UNCHANGED vars
         \/ RunOperation(FALSE)
         \/ \E p \in Players : AddCriteriaUpdateTask(p)
         \/ \E w \in Workers : SpuriousWakeup(w)
  PROVE  TickStutter
<1> USE DEF WorldInv, TickInv
<1>1. UNCHANGED <<queue, wtask, maps, live, updated, asked>>
  <2>1. CASE Cancel
    <3>1. queue' = queue BY <2>1 DEF Cancel, Quiet, PastBarrier
    <3> QED BY <2>1, <3>1 DEF Cancel, world, critical
  <2> QED
    BY <2>1 DEF SkipTick, StartMaps, TakeOperations, PutBack, Loop, Deactivate, Join, StopNow,
       WaitAgain, RunOperation, AddCriteriaUpdateTask, SpuriousWakeup, vars, threads, world, critical
<1>2. \A w \in Workers : /\ wpc'[w] = "call" <=> wpc[w] = "call"
                         /\ wpc'[w] = "popped" <=> wpc[w] = "popped"
  <2>1. CASE Cancel BY <2>1 DEF Cancel
  <2>2. ASSUME NEW w \in Workers, SpuriousWakeup(w)
        PROVE  \A v \in Workers : /\ wpc'[v] = "call" <=> wpc[v] = "call"
                                  /\ wpc'[v] = "popped" <=> wpc[v] = "popped"
    BY <2>2 DEF SpuriousWakeup, TypeOK
  <2> QED
    BY <2>1, <2>2 DEF SkipTick, StartMaps, TakeOperations, PutBack, Loop, Deactivate, Join, StopNow,
       WaitAgain, RunOperation, AddCriteriaUpdateTask, vars, threads
<1>3. Due' = Due
  BY DEF Due, SkipTick, StartMaps, TakeOperations, PutBack, Loop, Deactivate, Join, StopNow,
     Cancel, WaitAgain, RunOperation, AddCriteriaUpdateTask, SpuriousWakeup, vars, threads, world
<1>4. TickPhase' = TickPhase
  BY DEF TickPhase, PastBarrier, SkipTick, StartMaps, TakeOperations, PutBack, Loop, Deactivate,
     Join, StopNow, Cancel, WaitAgain, RunOperation, AddCriteriaUpdateTask, SpuriousWakeup, vars, threads
<1>5. Queued' = Queued BY <1>1 DEF Queued
<1>6. Popped' = Popped /\ TickRunning' = TickRunning BY <1>1, <1>2, WorkersSame
<1>7. TickReady' = TickReady BY <1>3, <1>5, <1>6, ReadyParts, ReadyPartsNext
<1> QED BY <1>1, <1>4, <1>6, <1>7 DEF TickStutter

\* A request that was due is scheduled: it stays ready.
LEMMA ScheduleRefines ==
  ASSUME WorldInv, WorldInv', NEW t \in Task, Schedule(t, wpc), wtask' = wtask
  PROVE  /\ TickRunning' = TickRunning
         /\ TickReady' = Due' \cup Queued \cup {t.of} \cup Popped
<1> USE DEF WorldInv, TickInv
<1>1. Range(queue') = Range(queue) \cup {t} BY PushRange DEF Schedule, TypeOK
<1>2. Queued' = Queued \cup {t.of} BY <1>1 DEF Queued
<1>3. \A w \in Workers : /\ wpc'[w] = "call" <=> wpc[w] = "call"
                         /\ wpc'[w] = "popped" <=> wpc[w] = "popped"
  BY ScheduleWakes
<1>4. Popped' = Popped /\ TickRunning' = TickRunning BY <1>3, WorkersSame
<1> QED BY <1>2, <1>4, ReadyPartsNext

\* With nothing in flight, only what is due is ready and nothing runs.
LEMMA ReadySerial ==
  (TypeOK /\ WorkerShape /\ queue = << >> /\ Busy = {}) => (TickReady = Due /\ TickRunning = {})
<1> SUFFICES ASSUME TypeOK, WorkerShape, queue = << >>, Busy = {}
             PROVE  TickReady = Due /\ TickRunning = {}
  OBVIOUS
<1>1. Queued = {} /\ Held = {} BY NothingInFlight
<1>2. Popped = {} BY DEF Popped
<1>3. TickRunning = {} BY <1>1, ReadyInFlight
<1> QED BY <1>1, <1>2, <1>3, ReadyParts

LEMMA ReadySerialNext ==
  (TypeOK /\ WorkerShape /\ queue = << >> /\ Busy = {})' => (TickReady = Due /\ TickRunning = {})'
<1>1. ((TypeOK /\ WorkerShape /\ queue = << >> /\ Busy = {}) => (TickReady = Due /\ TickRunning = {}))'
  BY ReadySerial, PTL
<1> QED BY <1>1

\* The world thread's steps.
LEMMA MainRefines ==
  ASSUME WorldInv, WorldInv', Main
  PROVE  Tick!Next \/ TickStutter
<1> USE DEF WorldInv, TickInv
<1>1. CASE PrepareCriteria
  <2>1. /\ queue = << >> /\ Busy = {} /\ queue' = << >> /\ Busy' = {}
        /\ main = "world" /\ main' = "criteria" /\ cancel' = cancel /\ updated' = {}
        /\ toSchedule' \subseteq Players
        /\ UNCHANGED <<maps, live, asked>>
    BY <1>1 DEF PrepareCriteria, Quiet, PastBarrier, Busy, world, critical
  <2>2. ~cancel BY <2>1 DEF WorkerShape
  <2>3. TickPhase = "serial" /\ TickPhase' = "parallel"
    BY <2>1, <2>2 DEF TickPhase, PastBarrier
  <2>4. TickReady' = Due' /\ TickRunning' = {} /\ TickRunning = {}
    BY <2>1, ReadySerial, ReadySerialNext
  <2>5. Due' = maps \cup toSchedule' BY <2>1 DEF Due
  <2>6. Tick!Begin BY <2>1, <2>3, <2>4, <2>5 DEF Tick!Begin
  <2> QED BY <2>6 DEF Tick!Next
<1>2. ASSUME NEW p \in Players, ScheduleCriteria(p) PROVE TickStutter
  <2>1. CriteriaRequest(p) \in Task /\ CriteriaRequest(p).of = p
    BY DEF CriteriaRequest, Task, Units, TypeOK
  <2>2. /\ Schedule(CriteriaRequest(p), wpc) /\ main = "criteria" /\ p \in toSchedule
        /\ toSchedule' = toSchedule \ {p}
        /\ UNCHANGED <<main, cancel, wtask, maps, live, asked, updated>>
    BY <1>2 DEF ScheduleCriteria, world, critical
  <2>3. TickRunning' = TickRunning /\ TickReady' = Due' \cup Queued \cup {p} \cup Popped
    BY <2>1, <2>2, ScheduleRefines
  <2>4. Due' \cup {p} = Due BY <2>2 DEF Due
  <2>5. TickReady' = TickReady BY <2>3, <2>4, ReadyParts
  <2>6. TickPhase' = TickPhase BY <2>2 DEF TickPhase, PastBarrier
  <2> QED BY <2>2, <2>3, <2>5, <2>6 DEF TickStutter
<1>3. ASSUME NEW b \in BaseMaps, ScheduleMap(b) PROVE TickStutter
  <2>1. MapRequest(b) \in Task /\ MapRequest(b).of = b BY DEF MapRequest, Task, Units, Maps
  <2>2. /\ Schedule(MapRequest(b), wpc) /\ main = "maps" /\ b \in toSchedule
        /\ toSchedule' = toSchedule \ {b}
        /\ UNCHANGED <<main, cancel, wtask, maps, live, asked, updated>>
    BY <1>3 DEF ScheduleMap, world, critical
  <2>3. TickRunning' = TickRunning /\ TickReady' = Due' \cup Queued \cup {b} \cup Popped
    BY <2>1, <2>2, ScheduleRefines
  <2>4. Due' \cup {b} = Due BY <2>2 DEF Due
  <2>5. TickReady' = TickReady BY <2>3, <2>4, ReadyParts
  <2>6. TickPhase' = TickPhase BY <2>2 DEF TickPhase, PastBarrier
  <2> QED BY <2>2, <2>3, <2>5, <2>6 DEF TickStutter
<1>4. ASSUME NEW p \in Players, CallCriteria(p) PROVE Tick!UpdateInPlace(p)
  <2>1. /\ queue = << >> /\ Busy = {} /\ queue' = << >> /\ Busy' = {}
        /\ main = "criteria" /\ p \in toSchedule /\ toSchedule' = toSchedule \ {p}
        /\ updated' = updated \cup {p}
        /\ UNCHANGED <<main, cancel, maps, live, asked>>
    BY <1>4 DEF CallCriteria, Quiet, Busy, world, critical
  <2>2. TickReady = Due /\ TickRunning = {} /\ TickReady' = Due' /\ TickRunning' = {}
    BY <2>1, ReadySerial, ReadySerialNext
  <2>3. p \notin BaseMaps BY UnitsDisjoint
  <2>4. p \in Due /\ Due' = Due \ {p} BY <2>1, <2>3 DEF Due, TypeOK
  <2>5. p \notin updated BY <2>4 DEF RequestInv, DueOnce
  <2>6. TickPhase' = TickPhase BY <2>1 DEF TickPhase, PastBarrier
  <2>7. /\ {} \in SUBSET (live \ updated) /\ {} \in SUBSET (live \ ({} \cup updated))
        /\ live' = live \ {} /\ updated' = updated \cup {p} \cup {}
    BY <2>1
  <2>8. \E gone \in SUBSET (live \ updated) :
          \E copies \in SUBSET (live \ (gone \cup updated)) :
            live' = live \ gone /\ updated' = updated \cup {p} \cup copies
    BY <2>7
  <2> QED BY <2>1, <2>2, <2>4, <2>5, <2>6, <2>8 DEF Tick!UpdateInPlace
<1>5. ASSUME NEW b \in BaseMaps, UpdateMap(b) PROVE Tick!UpdateInPlace(b)
  <2>1. /\ queue = << >> /\ Busy = {} /\ queue' = << >> /\ Busy' = {}
        /\ main = "maps" /\ b \in toSchedule /\ toSchedule' = toSchedule \ {b}
        /\ UNCHANGED <<main, cancel, maps, asked>>
    BY <1>5 DEF UpdateMap, Quiet, Busy, critical
  <2>2. TickReady = Due /\ TickRunning = {} /\ TickReady' = Due' /\ TickRunning' = {}
    BY <2>1, ReadySerial, ReadySerialNext
  <2>3. b \in Due /\ Due' = Due \ {b} BY <2>1 DEF Due
  <2>4. b \notin updated BY <2>3 DEF RequestInv, DueOnce
  <2>5. InstancesOf(b) \subseteq live \ updated
    <3>1. \A i \in live : Base[i] = b => i \notin updated
      BY <2>4 DEF RequestInv, BaseFirst, TypeOK
    <3> QED BY <3>1 DEF InstancesOf
  <2>6. \E destroyed \in SUBSET InstancesOf(b) :
          \E kept \in SUBSET (InstancesOf(b) \ destroyed) :
            /\ live' = live \ destroyed
            /\ updated' = updated \cup {b} \cup (InstancesOf(b) \ (destroyed \cup kept))
    BY <1>5 DEF UpdateMap
  <2>7. \E gone \in SUBSET (live \ updated) :
          \E copies \in SUBSET (live \ (gone \cup updated)) :
            live' = live \ gone /\ updated' = updated \cup {b} \cup copies
    <3>1. PICK destroyed \in SUBSET InstancesOf(b), kept \in SUBSET InstancesOf(b) :
            /\ live' = live \ destroyed
            /\ updated' = updated \cup {b} \cup (InstancesOf(b) \ (destroyed \cup kept))
      BY <2>6
    <3>2. destroyed \in SUBSET (live \ updated) BY <2>5
    <3>3. InstancesOf(b) \ (destroyed \cup kept) \in SUBSET (live \ (destroyed \cup updated))
      BY <2>5
    <3> QED BY <3>1, <3>2, <3>3
  <2>8. TickPhase' = TickPhase BY <2>1 DEF TickPhase, PastBarrier
  <2> QED BY <2>1, <2>2, <2>3, <2>4, <2>7, <2>8 DEF Tick!UpdateInPlace
<1>6. CASE EndMaps \/ Wait
  <2>1. UNCHANGED <<queue, wpc, wtask, cancel, maps, live, updated, asked>> /\ Due = {} /\ Due' = {}
    BY <1>6 DEF EndMaps, Wait, world, critical, Due
  <2>2. Busy' = Busy /\ Queued' = Queued BY <2>1 DEF Busy, Queued
  <2>3. Popped' = Popped /\ TickRunning' = TickRunning BY <2>1, WorkersSame
  <2>4. TickReady' = TickReady BY <2>1, <2>2, <2>3, ReadyParts, ReadyPartsNext
  <2>5. CASE TickPhase' = TickPhase BY <2>1, <2>3, <2>4, <2>5 DEF TickStutter
  <2>6. CASE TickPhase' # TickPhase
    <3>1. TickPhase = "parallel" /\ TickPhase' = "serial" /\ PastBarrier'
      BY <1>6, <2>1, <2>6 DEF TickPhase, PastBarrier, EndMaps, Wait
    <3>2. queue = << >> /\ Busy = {} BY <2>1, <2>2, <3>1 DEF Quiet
    <3>3. TickReady = {} /\ TickRunning = {} BY <2>1, <3>2, ReadySerial
    <3>4. Tick!End BY <2>1, <2>3, <2>4, <3>1, <3>3 DEF Tick!End
    <3> QED BY <3>4 DEF Tick!Next
  <2> QED BY <2>5, <2>6
<1>7. ASSUME RunOperation(TRUE)
      PROVE  Head(operations) \in Operations /\ Tick!Perform(Head(operations))
  <2>1. /\ main = "critical" /\ operations # << >> /\ asked' = asked \ {Head(operations)}
        /\ UNCHANGED <<main, toSchedule, queue, wpc, wtask, cancel, maps, live, updated>>
    BY <1>7 DEF RunOperation, threads, world
  <2>2. Head(operations) \in Operations BY <2>1, HeadTailProperties DEF TypeOK
  <2>3. Head(operations) \in asked
    BY <2>1, PopRange DEF TypeOK, OperationsInv
  <2>4. TickPhase = "serial" /\ TickPhase' = "serial" BY <2>1 DEF TickPhase, PastBarrier
  <2>5. Popped' = Popped /\ TickRunning' = TickRunning BY <2>1, WorkersSame
  <2>6. Queued' = Queued /\ Due' = Due BY <2>1 DEF Queued, Due
  <2>7. TickReady' = TickReady BY <2>5, <2>6, ReadyParts, ReadyPartsNext
  <2> QED BY <2>1, <2>2, <2>3, <2>4, <2>5, <2>7 DEF Tick!Perform
<1>8. CASE UnloadAll
  <2>1. /\ main = "kick" /\ main' \in {"deactivate", "stopped"} /\ maps' = {} /\ live' = {}
        /\ UNCHANGED <<queue, wpc, wtask, asked, updated>>
    BY <1>8 DEF UnloadAll, critical
  <2>2. TickPhase = "serial" /\ TickPhase' = "serial" BY <2>1 DEF TickPhase, PastBarrier
  <2>3. Popped' = Popped /\ TickRunning' = TickRunning BY <2>1, WorkersSame
  <2>4. Queued' = Queued /\ Due' = {} /\ Due = {} BY <2>1 DEF Queued, Due
  <2>5. TickReady' = TickReady BY <2>3, <2>4, ReadyParts, ReadyPartsNext
  <2>6. Tick!Unload BY <2>1, <2>2, <2>3, <2>5 DEF Tick!Unload
  <2> QED BY <2>6 DEF Tick!Next
<1>9. CASE \/ SkipTick \/ StartMaps \/ TakeOperations \/ PutBack \/ Loop \/ Deactivate
           \/ Cancel \/ Join \/ RunOperation(FALSE)
  BY <1>9, QuietRefines
<1>10. \A p \in Players : Tick!UpdateInPlace(p) => Tick!Next BY DEF Tick!Next
<1>11. \A b \in BaseMaps : Tick!UpdateInPlace(b) => Tick!Next BY DEF Tick!Next
<1>12. \A op \in Operations : Tick!Perform(op) => Tick!Next BY DEF Tick!Next
<1>13. \A done \in BOOLEAN : RunOperation(done) => RunOperation(TRUE) \/ RunOperation(FALSE)
  OBVIOUS
<1> QED
  BY <1>1, <1>2, <1>3, <1>4, <1>5, <1>6, <1>7, <1>8, <1>9, <1>10, <1>11, <1>12, <1>13 DEF Main

\* A worker's steps.
LEMMA WorkerRefines ==
  ASSUME WorldInv, WorldInv', NEW w \in Workers, Worker(w)
  PROVE  Tick!Next \/ TickStutter
<1> USE DEF WorldInv, TickInv
<1> DEFINE u == wtask[w].of
<1>1. CASE WaitAndPop(w)
  <2>1. /\ UNCHANGED <<main, cancel, maps, live, updated, asked>> /\ Due' = Due
        /\ TickPhase' = TickPhase
    BY <1>1 DEF WaitAndPop, world, critical, Due, TickPhase, PastBarrier
  <2>2. CASE ~(queue # << >> /\ ~shutdown)
    <3>1. /\ UNCHANGED <<queue, wtask>> /\ w \notin Busy /\ wpc'[w] # "call" /\ wpc[w] # "call"
          /\ \A v \in Workers \ {w} : wpc'[v] = wpc[v]
      BY <1>1, <2>2 DEF WaitAndPop, TypeOK, WorkerShape, Busy
    <3>2. Busy' = Busy /\ Queued' = Queued BY <3>1 DEF Busy, Queued
    <3>3. Popped' = Popped BY <3>1, <3>2 DEF Popped, Busy
    <3>4. TickRunning' = TickRunning BY <3>1 DEF TickRunning
    <3>5. TickReady' = TickReady BY <2>1, <3>2, <3>3, ReadyParts, ReadyPartsNext
    <3> QED BY <2>1, <3>4, <3>5 DEF TickStutter
  <2>3. CASE queue # << >> /\ ~shutdown
    <3>1. /\ Queued = Queued' \cup {Head(queue).of}
          /\ w \notin Busy /\ Busy' = Busy \cup {w}
          /\ wtask'[w] = Head(queue) /\ \A v \in Busy : wtask'[v] = wtask[v]
          /\ wpc[w] = "pop" /\ wpc'[w] = "popped" /\ \A v \in Busy : wpc'[v] = wpc[v]
      BY <1>1, <2>3, PopQueued DEF RequestInv, OneRequest
    <3>2. Popped' = Popped \cup {Head(queue).of} BY <3>1 DEF Popped
    <3>3. \A v \in Workers \ {w} : wpc'[v] = wpc[v] /\ wtask'[v] = wtask[v]
      BY <1>1, <2>3 DEF WaitAndPop, TypeOK
    <3>4. TickRunning' = TickRunning BY <3>1, <3>3 DEF TickRunning
    <3>5. TickReady' = TickReady BY <2>1, <3>1, <3>2, ReadyParts, ReadyPartsNext
    <3> QED BY <2>1, <3>4, <3>5 DEF TickStutter
  <2> QED BY <2>2, <2>3
<1>2. CASE StartCall(w)
  <2>1. /\ UNCHANGED <<main, toSchedule, queue, wtask, cancel, maps, live, asked>>
        /\ wpc[w] = "popped" /\ \A v \in Workers \ {w} : wpc'[v] = wpc[v]
    BY <1>2 DEF StartCall, world, critical, TypeOK
  <2>2. /\ Due' = Due /\ TickPhase' = TickPhase /\ Busy' = Busy /\ Queued' = Queued
    BY <2>1 DEF Due, TickPhase, PastBarrier, Busy, Queued
  <2>3. CASE cancel
    <3>1. updated' = updated /\ wpc'[w] = "exited" BY <1>2, <2>3 DEF StartCall, TypeOK
    <3>2. Busy = {} BY <2>3 DEF Quiet
    <3>3. Popped' = {} /\ Popped = {} BY <2>2, <3>2 DEF Popped
    <3>4. TickRunning' = TickRunning BY <2>1, <3>1 DEF TickRunning
    <3>5. TickReady' = TickReady BY <2>2, <3>3, ReadyParts, ReadyPartsNext
    <3> QED BY <2>1, <2>2, <3>1, <3>4, <3>5 DEF TickStutter
  <2>4. CASE ~cancel
    <3>1. wpc'[w] = "call" /\ updated' = updated \cup {u} BY <1>2, <2>4 DEF StartCall, TypeOK
    <3>2. w \in Busy BY <2>1, <2>4 DEF WorkerShape, Busy
    <3>3. u \in Popped /\ u \in Held BY <2>1, <3>2 DEF Popped, Held
    <3>4. u \notin updated /\ u \notin Due /\ u \notin Queued
      BY <2>1, <3>2, <3>3 DEF RequestInv, StartedOnce, DueOnce, OneRequest, InFlight
    <3>5. \A v \in Busy : wtask[v].of = u => v = w BY <3>2 DEF RequestInv, OneRequest
    <3>6. Popped' = Popped \ {u} BY <2>1, <2>2, <3>1, <3>2, <3>5 DEF Popped, Busy
    <3>7. TickRunning' = TickRunning \cup {u} BY <2>1, <3>1 DEF TickRunning
    <3>8. TickReady' = TickReady \ {u} /\ u \in TickReady
      BY <2>2, <3>3, <3>4, <3>6, ReadyParts, ReadyPartsNext
    <3>9. Tick!Start(u) BY <2>1, <2>2, <3>1, <3>4, <3>7, <3>8 DEF Tick!Start
    <3>10. u \in BaseMaps \cup Instances \cup Players
      BY <3>2 DEF Busy, TypeOK, Task, Units, Maps
    <3> QED BY <3>9, <3>10 DEF Tick!Next
  <2> QED BY <2>3, <2>4
<1>3. ASSUME NEW i \in Instances, VisitInstance(w, i) PROVE Tick!Next \/ TickStutter
  <2>1. /\ UNCHANGED <<main, toSchedule, cancel, wtask, maps, updated, asked>>
        /\ wpc[w] = "call" /\ i \in wtodo[w]
    BY <1>3 DEF VisitInstance, critical
  <2>2. TickPhase' = TickPhase /\ Due' = Due BY <2>1 DEF TickPhase, PastBarrier, Due
  <2>3. i \in live /\ i \notin updated /\ i \notin InFlight
    BY <2>1 DEF RequestInv, VisitOnce
  <2>4. i \notin Due BY DueUnits, UnitsDisjoint DEF RequestInv
  <2>5. i \notin TickReady BY <2>3, <2>4, ReadyInFlight
  <2>6. TickRunning # {} BY <2>1 DEF TickRunning
  <2>7. CASE Schedule(MapRequest(i), wpc) /\ UNCHANGED live
    <3>1. MapRequest(i) \in Task /\ MapRequest(i).of = i BY DEF MapRequest, Task, Units, Maps
    <3>2. TickRunning' = TickRunning /\ TickReady' = Due' \cup Queued \cup {i} \cup Popped
      BY <2>1, <2>7, <3>1, ScheduleRefines
    <3>3. TickReady' = TickReady \cup {i} BY <2>2, <3>2, ReadyParts
    <3>4. Tick!Fork(i) BY <2>1, <2>2, <2>3, <2>5, <2>6, <2>7, <3>2, <3>3 DEF Tick!Fork
    <3> QED BY <3>4 DEF Tick!Next
  <2>8. CASE UNCHANGED <<queue, wpc>> /\ live' \in {live, live \ {i}}
    <3>1. Popped' = Popped /\ TickRunning' = TickRunning BY <2>1, <2>8, WorkersSame
    <3>2. Queued' = Queued BY <2>8 DEF Queued
    <3>3. TickReady' = TickReady BY <2>2, <3>1, <3>2, ReadyParts, ReadyPartsNext
    <3>4. CASE live' = live BY <2>1, <2>2, <3>1, <3>3, <3>4 DEF TickStutter
    <3>5. CASE live' = live \ {i}
      <4>1. Tick!Destroy(i)
        BY <2>1, <2>2, <2>3, <2>5, <2>6, <3>1, <3>3, <3>5 DEF Tick!Destroy
      <4> QED BY <4>1 DEF Tick!Next
    <3> QED BY <2>8, <3>4, <3>5
  <2> QED BY <1>3, <2>7, <2>8 DEF VisitInstance
<1>4. CASE RunCriteria(w)
  <2>1. UNCHANGED <<main, toSchedule, queue, wpc, cancel, maps, live, updated, asked>>
    BY <1>4 DEF RunCriteria, world, critical
  <2>2. Busy' = Busy /\ wtask[w] \in Task BY <1>4, RunningIsTask
  <2>3. \A v \in Workers : wtask'[v].of = wtask[v].of
    <3>1. wtask' = [wtask EXCEPT ![w] = [wtask[w] EXCEPT !.todo = Tail(wtask[w].todo)]]
      BY <1>4 DEF RunCriteria
    <3>2. [wtask[w] EXCEPT !.todo = Tail(wtask[w].todo)].of = wtask[w].of BY <2>2 DEF Task
    <3> QED BY <3>1, <3>2 DEF TypeOK
  <2>4. Popped' = Popped BY <2>1, <2>2, <2>3 DEF Popped, Busy
  <2>5. TickRunning' = TickRunning BY <2>1, <2>3 DEF TickRunning
  <2>6. /\ Queued' = Queued /\ Due' = Due /\ TickPhase' = TickPhase
    BY <2>1 DEF Queued, Due, TickPhase, PastBarrier
  <2>7. TickReady' = TickReady BY <2>4, <2>6, ReadyParts, ReadyPartsNext
  <2> QED BY <2>1, <2>5, <2>6, <2>7 DEF TickStutter
<1>5. CASE UpdateFinished(w)
  <2>1. /\ UNCHANGED <<toSchedule, queue, cancel, maps, live, updated, asked>>
        /\ main' = main \/ (main = "blocked" /\ main' = "wait")
        /\ wpc[w] = "call" /\ wpc'[w] = "pop"
        /\ \A v \in Workers \ {w} : wtask'[v] = wtask[v] /\ wpc'[v] = wpc[v]
    BY <1>5 DEF UpdateFinished, world, critical, TypeOK
  <2>2. w \in Busy /\ Busy' = Busy \ {w} BY <1>5, FinishBusy
  <2>3. \A v \in Workers : wpc[v] = "call" /\ wtask[v].of = u => v = w
    BY <2>2 DEF RequestInv, OneRequest, WorkerShape, Busy
  <2>4. TickRunning' = TickRunning \ {u} /\ u \in TickRunning BY <2>1, <2>3 DEF TickRunning
  <2>5. Popped' = Popped BY <2>1, <2>2 DEF Popped, Busy
  <2>6. Queued' = Queued /\ Due' = Due /\ TickPhase' = TickPhase
    BY <2>1 DEF Queued, Due, TickPhase, PastBarrier
  <2>7. TickReady' = TickReady BY <2>5, <2>6, ReadyParts, ReadyPartsNext
  <2>8. Tick!Finish(u) BY <2>1, <2>4, <2>6, <2>7 DEF Tick!Finish
  <2>9. u \in BaseMaps \cup Instances \cup Players
    BY <2>2 DEF Busy, TypeOK, Task, Units, Maps
  <2> QED BY <2>8, <2>9 DEF Tick!Next
<1> QED BY <1>1, <1>2, <1>3, <1>4, <1>5 DEF Worker

\* Maps created and operations asked for by game code.
LEMMA EnvironmentRefines ==
  ASSUME WorldInv, WorldInv', Environment
  PROVE  Tick!Next \/ TickStutter
<1> USE DEF WorldInv, TickInv
<1>1. ASSUME UNCHANGED <<main, toSchedule, queue, wpc, wtask, cancel, updated>>, Due' = Due
      PROVE  UNCHANGED <<TickPhase, TickReady, TickRunning, updated>>
  <2>1. Popped' = Popped /\ TickRunning' = TickRunning BY <1>1, WorkersSame
  <2>2. Queued' = Queued /\ TickPhase' = TickPhase BY <1>1 DEF Queued, TickPhase, PastBarrier
  <2> QED BY <1>1, <2>1, <2>2, ReadyParts, ReadyPartsNext
<1>2. ASSUME NEW op \in Operations, AddCriticalOperation(op) PROVE Tick!Next
  <2>1. /\ UNCHANGED <<main, toSchedule, queue, wpc, wtask, cancel, updated, maps, live>>
        /\ asked' = asked \cup {op} /\ Due' = Due
    BY <1>2 DEF AddCriticalOperation, threads, world, Due
  <2>2. Tick!Ask(op) BY <1>1, <2>1 DEF Tick!Ask
  <2> QED BY <2>2 DEF Tick!Next
<1>3. ASSUME NEW b \in BaseMaps, CreateBaseMap(b) PROVE Tick!Next
  <2>1. /\ UNCHANGED <<main, toSchedule, queue, wpc, wtask, cancel, updated, asked, live>>
        /\ maps' = maps \cup {b} /\ main = "world" /\ Due' = Due
    BY <1>3 DEF CreateBaseMap, threads, critical, Due
  <2>2. TickPhase = "serial" BY <2>1 DEF TickPhase, PastBarrier
  <2>3. Tick!CreateMap(b) BY <1>1, <2>1, <2>2 DEF Tick!CreateMap
  <2> QED BY <2>3 DEF Tick!Next
<1>4. ASSUME NEW i \in Instances, CreateInstance(i) PROVE Tick!Next
  <2>1. /\ UNCHANGED <<main, toSchedule, queue, wpc, wtask, cancel, updated, asked, maps>>
        /\ live' = live \cup {i} /\ main = "world" /\ Due' = Due
    BY <1>4 DEF CreateInstance, threads, critical, Due
  <2>2. TickPhase = "serial" BY <2>1 DEF TickPhase, PastBarrier
  <2>3. Tick!CreateCopy(i) BY <1>1, <2>1, <2>2 DEF Tick!CreateCopy
  <2> QED BY <2>3 DEF Tick!Next
<1> QED BY <1>2, <1>3, <1>4, QuietRefines DEF Environment

\* The thread pool implements the abstract tick: every step of the world thread,
\* of a worker or of game code is a step of MapTick, or none it can see.
THEOREM ImplementsTickProved == Spec => ImplementsTick
<1>1. Init /\ WorldInv => Tick!Init
  <2> SUFFICES ASSUME Init, WorldInv PROVE Tick!Init OBVIOUS
  <2>1. Busy = {} /\ queue = << >> /\ Due = {} BY DEF Init, Busy, Due
  <2>2. TickReady = {} /\ TickRunning = {} BY <2>1, ReadySerial DEF WorldInv, TickInv
  <2>3. TickPhase = "serial" BY DEF Init, TickPhase, PastBarrier
  <2> QED BY <2>2, <2>3 DEF Init, Tick!Init
<1>2. WorldInv /\ WorldInv' /\ [Next]_vars => [Tick!Next]_(Tick!tickVars)
  <2> SUFFICES ASSUME WorldInv, WorldInv', [Next]_vars PROVE Tick!Next \/ TickStutter
    BY DEF TickStutter, Tick!tickVars
  <2>1. CASE UNCHANGED vars BY <2>1, QuietRefines
  <2>2. CASE Main BY <2>2, MainRefines
  <2>3. ASSUME NEW w \in Workers, Worker(w) PROVE Tick!Next \/ TickStutter
    BY <2>3, WorkerRefines
  <2>4. CASE Environment BY <2>4, EnvironmentRefines
  <2> QED BY <2>1, <2>2, <2>3, <2>4 DEF Next, Terminated
<1> QED BY <1>1, <1>2, WorldInvariant, PTL DEF Spec, ImplementsTick, Tick!Spec

=============================================================================
