------------------------- MODULE InstanceSaves_proofs -------------------------
(***************************************************************************)
(* Proofs about InstanceSaves, for any number of players, ids, restarts    *)
(* and events.                                                             *)
(*                                                                         *)
(* With login races, late rows and truncated ids allowed: NextIdFree is    *)
(* inductive together with the types.  BindsListed needs to know that a    *)
(* player who is not in the world has no bind, so that a login or a first  *)
(* entry never overwrites one; the types need that a player inside is      *)
(* linked to a map, whose timer it starts on leaving.  EmptyMapUnloads     *)
(* needs that at most one player is linked to a map.                       *)
(*                                                                         *)
(* SoloPrivate and ResetPendingOnce are about the rows as well, and        *)
(* assume away what breaks them (see StoredInv below).                     *)
(***************************************************************************)
EXTENDS InstanceSaves, FiniteSetTheorems, TLAPS

\* A player that is offline or loading has no bind.
AwayUnbound == \A p \in Player : st[p] \in {"offline", "loading"} => bind[p] = None

\* A player inside the dungeon, or on its way out, is linked to a map.
InsideLinked == \A p \in Player : st[p] \in {"inside", "transit"} => ref[p] # None

SavesInv == TypeOK /\ NextIdFree /\ AwayUnbound /\ InsideLinked /\ BindsListed

\* No InstanceId is the absence of one, and id 0 is one.
LEMMA IdFacts == /\ None \notin InstanceId /\ None # 0
                 /\ 0 \in InstanceId
                 /\ InstanceId \subseteq Int
  BY SavesAssumption DEF None, InstanceId

\* ScheduleReset keeps the type of the queue.
LEMMA ScheduleResetType ==
  ASSUME NEW add \in BOOLEAN, NEW i, NEW ev \in [InstanceId -> Nat]
  PROVE  ScheduleReset(add, i, ev) \in [InstanceId -> Nat]
<1>1. \A n \in Nat : (IF add THEN n + 1 ELSE IF n > 0 THEN n - 1 ELSE 0) \in Nat
  OBVIOUS
<1>2. CASE EventId(i) \in InstanceId
  BY <1>1, <1>2 DEF ScheduleReset
<1>3. CASE EventId(i) \notin InstanceId
  BY <1>3 DEF ScheduleReset
<1> QED BY <1>2, <1>3

\* SetResetSchedule keeps the type of the queue.
LEMMA SetResetScheduleType ==
  ASSUME NEW on \in BOOLEAN, NEW i, NEW r, NEW s, NEW ev \in [InstanceId -> Nat]
  PROVE  SetResetSchedule(on, i, r, s, ev) \in [InstanceId -> Nat]
  BY ScheduleResetType DEF SetResetSchedule

\* The queue that LoadInstances builds has its type.
LEMMA LoadedEventsType ==
  ASSUME NEW kept \in SUBSET InstanceId
  PROVE  [e \in InstanceId |-> Cardinality({i \in kept : EventId(i) = e})] \in [InstanceId -> Nat]
<1>1. IsFiniteSet(InstanceId)
  BY FS_Interval, SavesAssumption DEF InstanceId
<1>2. \A e \in InstanceId : Cardinality({i \in kept : EventId(i) = e}) \in Nat
  <2> SUFFICES ASSUME NEW e \in InstanceId
               PROVE  Cardinality({i \in kept : EventId(i) = e}) \in Nat
    OBVIOUS
  <2>1. {i \in kept : EventId(i) = e} \subseteq InstanceId
    OBVIOUS
  <2>2. IsFiniteSet({i \in kept : EventId(i) = e})
    BY <1>1, <2>1, FS_Subset
  <2> QED BY <2>2, FS_CardinalityType
<1> QED BY <1>2

LEMMA InitSavesInv == Init => SavesInv
  BY IdFacts, SavesAssumption DEF Init, SavesInv, TypeOK, NextIdFree, AwayUnbound, InsideLinked, BindsListed, InstanceId

\* Entering adds the player to the save of the map, if it has one.
LEMMA AddPlayerBinds ==
  ASSUME TypeOK, AwayUnbound, InsideLinked, BindsListed,
         NEW p \in Player, NEW i \in InstanceId, st[p] = "world",
         bind[p] \in {None, i}, AddPlayerToMap(p, i)
  PROVE  /\ saves' \subseteq InstanceId /\ row' \subseteq InstanceId
         /\ playerList' \in [InstanceId -> SUBSET Player]
         /\ bind' \in [Player -> InstanceId \cup {None}]
         /\ charRow' \in [Player -> SUBSET InstanceId]
         /\ events' \in [InstanceId -> Nat]
         /\ maps' \subseteq InstanceId /\ unloadTimer' \subseteq InstanceId
         /\ st' \in [Player -> {"offline", "loading", "world", "inside", "transit"}]
         /\ ref' \in [Player -> InstanceId \cup {None}]
         /\ AwayUnbound' /\ InsideLinked' /\ BindsListed'
<1> USE DEF AddPlayerToMap
<1>1. EventsWithSave(i) \in [InstanceId -> Nat]
  BY ScheduleResetType DEF EventsWithSave, TypeOK
<1>2. events' \in [InstanceId -> Nat]
  BY <1>1, SetResetScheduleType
<1>3. /\ st' \in [Player -> {"offline", "loading", "world", "inside", "transit"}]
      /\ ref' \in [Player -> InstanceId \cup {None}]
      /\ maps' \subseteq InstanceId /\ unloadTimer' \subseteq InstanceId
      /\ saves' \subseteq InstanceId /\ row' \subseteq InstanceId
  BY DEF TypeOK, AddInstanceSave
<1>4. /\ playerList' \in [InstanceId -> SUBSET Player]
      /\ bind' \in [Player -> InstanceId \cup {None}]
      /\ charRow' \in [Player -> SUBSET InstanceId]
  BY DEF TypeOK, BindToInstance
<1>5. AwayUnbound' /\ InsideLinked'
  BY IdFacts DEF TypeOK, AwayUnbound, InsideLinked, BindToInstance
<1>6. BindsListed'
  <2>1. CASE i # 0 /\ bind[p] = None
    BY <2>1, IdFacts DEF TypeOK, BindsListed, BindToInstance, AddInstanceSave, Creates
  <2>2. CASE bind[p] = i
    BY <2>2, IdFacts DEF TypeOK, BindsListed, BindToInstance, AddInstanceSave, Creates
  <2>3. CASE i = 0 /\ bind[p] = None
    BY <2>3, IdFacts DEF TypeOK, BindsListed, BindToInstance, AddInstanceSave, Creates
  <2> QED BY <2>1, <2>2, <2>3
<1> QED BY <1>2, <1>3, <1>4, <1>5, <1>6

\* A player that leaves its save leaves the binds consistent.
LEMMA RemovePlayerBinds ==
  ASSUME TypeOK, BindsListed, NEW p \in Player, bind[p] # None,
         RemovePlayer(p, bind[p]), bind' = [bind EXCEPT ![p] = None]
  PROVE  /\ BindsListed' /\ saves' \subseteq InstanceId
         /\ playerList' \in [InstanceId -> SUBSET Player]
         /\ bind' \in [Player -> InstanceId \cup {None}]
<1> DEFINE i == bind[p]
<1>1. i \in InstanceId
  BY DEF TypeOK
<1>2. /\ saves' \subseteq InstanceId
      /\ playerList' \in [InstanceId -> SUBSET Player]
      /\ bind' \in [Player -> InstanceId \cup {None}]
  BY <1>1 DEF TypeOK, RemovePlayer, UnloadIfEmpty
<1>3. \A q \in Player : bind'[q] # None => bind'[q] \in saves'
  <2> SUFFICES ASSUME NEW q \in Player, bind'[q] # None PROVE bind'[q] \in saves'
    OBVIOUS
  <2>1. q # p /\ bind'[q] = bind[q] /\ bind[q] \in saves
    BY DEF TypeOK, BindsListed
  <2>2. CASE bind[q] = i
    BY <1>1, <2>1, <2>2 DEF BindsListed, RemovePlayer, UnloadIfEmpty
  <2>3. CASE bind[q] # i
    BY <2>1, <2>3 DEF RemovePlayer, UnloadIfEmpty
  <2> QED BY <2>2, <2>3
<1>4. \A q \in Player, j \in InstanceId : q \in playerList'[j] <=> bind'[q] = j
  BY <1>1, IdFacts DEF TypeOK, BindsListed, RemovePlayer
<1>5. \A j \in saves' : playerList'[j] # {}
  BY <1>1 DEF TypeOK, BindsListed, RemovePlayer, UnloadIfEmpty
<1> QED BY <1>2, <1>3, <1>4, <1>5 DEF BindsListed

\* The candidate of GenerateInstanceId is free, and so is the next one.
LEMMA GenerateKeepsFree ==
  ASSUME TypeOK, NextIdFree, GenerateInstanceId
  PROVE  /\ next \in InstanceId /\ ids' \subseteq InstanceId
         /\ next' \in 0 .. (MaxId + 1) /\ NextIdFree'
  BY SavesAssumption DEF TypeOK, NextIdFree, GenerateInstanceId, LowestUnused, InstanceId

\* The timer set by RemovePlayerFromMap or Reset is the timer of a map id.
LEMMA TimerTypes ==
  ASSUME TypeOK, NEW i \in InstanceId
  PROVE  /\ ArmUnload(i) \subseteq InstanceId
         /\ ResetMap(i) => unloadTimer' \subseteq InstanceId
  BY DEF TypeOK, ArmUnload, ResetMap

\* Every step keeps the invariant.
LEMMA NextSavesInv == SavesInv /\ [Next]_vars => SavesInv'
<1> SUFFICES ASSUME SavesInv, [Next]_vars PROVE SavesInv'
  OBVIOUS
<1>0. TypeOK /\ NextIdFree /\ AwayUnbound /\ InsideLinked /\ BindsListed
  BY DEF SavesInv
<1> USE DEF SavesInv
<1>1. ASSUME NEW p \in Player, EnterBound(p) PROVE SavesInv'
  <2>1. bind[p] \in InstanceId /\ st[p] = "world"
    BY <1>0, <1>1 DEF TypeOK, EnterBound
  <2>2. AddPlayerToMap(p, bind[p]) /\ UNCHANGED <<ids, next, answer, restarts>>
    BY <1>1 DEF EnterBound
  <2> QED BY <1>0, <2>1, <2>2, AddPlayerBinds DEF TypeOK, NextIdFree
<1>2. ASSUME NEW p \in Player, EnterNew(p) PROVE SavesInv'
  <2>1. /\ bind[p] = None /\ st[p] = "world" /\ GenerateInstanceId
        /\ AddPlayerToMap(p, next) /\ UNCHANGED <<answer, restarts>>
    BY <1>2 DEF EnterNew
  <2>2. /\ next \in InstanceId /\ ids' \subseteq InstanceId
        /\ next' \in 0 .. (MaxId + 1) /\ NextIdFree'
    BY <1>0, <2>1, GenerateKeepsFree
  <2> HIDE DEF SavesInv
  <2>3. TypeOK' /\ AwayUnbound' /\ InsideLinked' /\ BindsListed'
    BY <1>0, <2>1, <2>2, AddPlayerBinds DEF TypeOK
  <2> QED BY <2>2, <2>3 DEF SavesInv
<1>3. ASSUME NEW p \in Player, EnterNewDenied(p) PROVE SavesInv'
  <2>1. GenerateInstanceId
    BY <1>3 DEF EnterNewDenied
  <2> QED BY <1>0, <1>3, <2>1, GenerateKeepsFree
          DEF EnterNewDenied, TypeOK, AwayUnbound, InsideLinked, BindsListed, saveVars, mapVars, rowVars
<1>4. ASSUME NEW p \in Player, TeleportOut(p) PROVE SavesInv'
  <2>1. events' \in [InstanceId -> Nat]
    BY <1>0, <1>4, SetResetScheduleType DEF TeleportOut, TypeOK
  <2>2. unloadTimer' \subseteq InstanceId
    BY <1>0, <1>4 DEF TeleportOut, TypeOK, InsideLinked, ArmUnload
  <2>3. /\ st' = [st EXCEPT ![p] = "transit"] /\ st[p] = "inside"
        /\ UNCHANGED <<ids, next, saves, playerList, maps, bind, ref, answer, row, charRow, restarts>>
    BY <1>4 DEF TeleportOut, idVars, saveVars, rowVars
  <2> HIDE DEF SavesInv
  <2>4. TypeOK' /\ NextIdFree'
    BY <1>0, <2>1, <2>2, <2>3 DEF TypeOK, NextIdFree
  <2>5. AwayUnbound' /\ InsideLinked' /\ BindsListed'
    BY <1>0, <2>3 DEF TypeOK, AwayUnbound, InsideLinked, BindsListed
  <2> QED BY <2>4, <2>5 DEF SavesInv
<1>5. ASSUME NEW p \in Player, WorldportAck(p) PROVE SavesInv'
  BY <1>0, <1>5
     DEF WorldportAck, TypeOK, NextIdFree, AwayUnbound, InsideLinked, BindsListed, idVars, saveVars, mapVars, rowVars
<1>6. ASSUME NEW p \in Player, LogoutPlayer(p) PROVE SavesInv'
  <2>1. events' \in [InstanceId -> Nat]
    <3>1. events \in [InstanceId -> Nat]
      BY <1>0 DEF TypeOK
    <3>2. \/ events' = events
          \/ events' = SetResetSchedule(TRUE, ref[p], ref', saves', events)
      BY <1>6 DEF LogoutPlayer
    <3> QED BY <3>1, <3>2, ScheduleResetType DEF SetResetSchedule
  <2>2. unloadTimer' \subseteq InstanceId
    <3>1. unloadTimer \subseteq InstanceId BY <1>0 DEF TypeOK
    <3>2. ref[p] # None => ref[p] \in InstanceId BY <1>0 DEF TypeOK
    <3>3. unloadTimer' = unloadTimer \/ (ref[p] # None /\ unloadTimer' = ArmUnload(ref[p]))
      BY <1>6 DEF LogoutPlayer
    <3> QED BY <3>1, <3>2, <3>3 DEF ArmUnload
  <2>3. /\ BindsListed' /\ saves' \subseteq InstanceId
        /\ playerList' \in [InstanceId -> SUBSET Player]
        /\ bind' \in [Player -> InstanceId \cup {None}]
    <3>1. CASE bind[p] = None
      <4>1. UNCHANGED <<saves, playerList>> /\ bind' = bind
        BY <1>0, <1>6, <3>1 DEF LogoutPlayer, TypeOK, saveVars
      <4> QED BY <1>0, <4>1 DEF TypeOK, BindsListed
    <3>2. CASE bind[p] # None
      BY <1>0, <1>6, <3>2, RemovePlayerBinds DEF LogoutPlayer
    <3> QED BY <3>1, <3>2
  <2>4. AwayUnbound' /\ InsideLinked'
    BY <1>0, <1>6 DEF LogoutPlayer, TypeOK, AwayUnbound, InsideLinked
  <2> QED BY <1>0, <1>6, <2>1, <2>2, <2>3, <2>4
          DEF LogoutPlayer, TypeOK, NextIdFree, idVars, rowVars
<1>7. ASSUME NEW p \in Player, LoginQuery(p) PROVE SavesInv'
  BY <1>0, <1>7
     DEF LoginQuery, BoundRows, TypeOK, NextIdFree, AwayUnbound, InsideLinked, BindsListed,
         idVars, saveVars, mapVars, rowVars
<1>8. ASSUME NEW p \in Player, LoginCallback(p) PROVE SavesInv'
  <2>1. bind[p] = None /\ AwayUnbound' /\ InsideLinked'
    BY <1>0, <1>8 DEF LoginCallback, TypeOK, AwayUnbound, InsideLinked, saveVars
  <2>2. \/ UNCHANGED <<saves, playerList, bind>>
        \/ \E i \in InstanceId :
             /\ saves' = saves \cup {i}
             /\ playerList' = [playerList EXCEPT ![i] = @ \cup {p}]
             /\ bind' = [bind EXCEPT ![p] = i]
    BY <1>0, <1>8 DEF LoginCallback, BoundRows, TypeOK, saveVars
  <2>3. /\ BindsListed' /\ saves' \subseteq InstanceId
        /\ playerList' \in [InstanceId -> SUBSET Player]
        /\ bind' \in [Player -> InstanceId \cup {None}]
    <3>1. CASE UNCHANGED <<saves, playerList, bind>>
      BY <1>0, <3>1 DEF TypeOK, BindsListed
    <3>2. ASSUME NEW i \in InstanceId,
                 saves' = saves \cup {i},
                 playerList' = [playerList EXCEPT ![i] = @ \cup {p}],
                 bind' = [bind EXCEPT ![p] = i]
          PROVE  /\ BindsListed' /\ saves' \subseteq InstanceId
                 /\ playerList' \in [InstanceId -> SUBSET Player]
                 /\ bind' \in [Player -> InstanceId \cup {None}]
      BY <1>0, <2>1, <3>2, IdFacts DEF TypeOK, BindsListed
    <3> QED BY <2>2, <3>1, <3>2
  <2> QED BY <1>0, <1>8, <2>1, <2>3
          DEF LoginCallback, TypeOK, NextIdFree, idVars, mapVars, rowVars
<1>9. ASSUME NEW p \in Player, ResetInstances(p) PROVE SavesInv'
  <2>1. /\ BindsListed' /\ saves' \subseteq InstanceId
        /\ playerList' \in [InstanceId -> SUBSET Player]
        /\ bind' \in [Player -> InstanceId \cup {None}]
    BY <1>0, <1>9, RemovePlayerBinds DEF ResetInstances
  <2>2. unloadTimer' \subseteq InstanceId
    BY <1>0, <1>9, TimerTypes DEF ResetInstances, TypeOK
  <2> QED BY <1>0, <1>9, <2>1, <2>2
          DEF ResetInstances, DeleteInstanceFromDB, TypeOK, NextIdFree, AwayUnbound, InsideLinked, idVars
<1>10. ASSUME NEW e \in InstanceId, Update(e) PROVE SavesInv'
  <2>1. /\ saves' \subseteq InstanceId /\ playerList' \in [InstanceId -> SUBSET Player]
        /\ bind' \in [Player -> InstanceId \cup {None}]
    BY <1>0, <1>10 DEF Update, TypeOK
  <2>2. BindsListed'
    <3>1. \A q \in Player : bind'[q] = IF bind[q] = e THEN None ELSE bind[q]
      BY <1>0, <1>10 DEF Update, TypeOK, BindsListed
    <3>2. playerList'[e] = {} /\ \A j \in InstanceId \ {e} : playerList'[j] = playerList[j]
      BY <1>0, <1>10, IdFacts DEF Update, TypeOK, BindsListed
    <3>3. saves' = saves \ {e}
      BY <1>10 DEF Update
    <3> QED BY <1>0, <3>1, <3>2, <3>3, IdFacts DEF TypeOK, BindsListed
  <2>3. unloadTimer' \subseteq InstanceId
    BY <1>0, <1>10, TimerTypes DEF Update
  <2>4. /\ ids' \subseteq InstanceId /\ next' \in 0 .. (MaxId + 1) /\ NextIdFree'
    BY <1>0, <1>10, SavesAssumption DEF Update, FreeInstanceId, TypeOK, NextIdFree, InstanceId
  <2>5. events' \in [InstanceId -> Nat]
    BY <1>0, <1>10 DEF Update, TypeOK
  <2>6. AwayUnbound' /\ InsideLinked'
    BY <1>0, <1>10 DEF Update, TypeOK, AwayUnbound, InsideLinked
  <2> QED BY <1>0, <1>10, <2>1, <2>2, <2>3, <2>4, <2>5, <2>6
          DEF Update, DeleteInstanceFromDB, TypeOK
<1>11. ASSUME NEW i \in InstanceId, DestroyInstance(i) PROVE SavesInv'
  BY <1>0, <1>11
     DEF DestroyInstance, TypeOK, NextIdFree, AwayUnbound, InsideLinked, BindsListed, idVars, saveVars, rowVars
<1>12. ASSUME Restart PROVE SavesInv'
  <2>1. PICK expired \in SUBSET row, late \in SUBSET row : LoadInstances(expired, late)
    BY <1>12 DEF Restart
  <2> DEFINE kept == {i \in row \ expired : \E p \in Player : i \in charRow[p]}
  <2>2. kept \subseteq InstanceId
    BY <1>0 DEF TypeOK
  <2>3. events' \in [InstanceId -> Nat]
    <3>1. kept \ late \in SUBSET InstanceId
      BY <2>2
    <3> HIDE DEF kept
    <3>2. events' = [e \in InstanceId |-> Cardinality({i \in kept \ late : EventId(i) = e})]
      BY <2>1 DEF LoadInstances, kept
    <3> QED BY <3>1, <3>2, LoadedEventsType
  <2>4. /\ ids' \subseteq InstanceId /\ next' \in 0 .. (MaxId + 1) /\ NextIdFree'
        /\ row' \subseteq InstanceId /\ charRow' \in [Player -> SUBSET InstanceId]
    BY <1>0, <2>1, <2>2, SavesAssumption DEF LoadInstances, LowestUnused, TypeOK, NextIdFree
  <2>5. restarts' \in 0 .. MaxRestarts
    BY <1>0, <1>12, SavesAssumption DEF Restart, TypeOK
  <2>6. AwayUnbound' /\ InsideLinked' /\ BindsListed'
    BY <1>12, IdFacts DEF Restart, AwayUnbound, InsideLinked, BindsListed
  <2> QED BY <1>12, <2>3, <2>4, <2>5, <2>6 DEF Restart, TypeOK
<1>13. CASE UNCHANGED vars
  BY <1>0, <1>13 DEF vars, TypeOK, NextIdFree, AwayUnbound, InsideLinked, BindsListed
<1> QED BY <1>1, <1>2, <1>3, <1>4, <1>5, <1>6, <1>7, <1>8, <1>9, <1>10, <1>11, <1>12, <1>13
       DEF Next

\* The inductive invariant of the instance saves: types, the free candidate,
\* and the agreement of binds and saves.
THEOREM SavesInvariant == Spec => []SavesInv
<1>1. Init => SavesInv
  BY InitSavesInv
<1>2. SavesInv /\ [Next]_vars => SavesInv'
  BY NextSavesInv
<1> QED BY <1>1, <1>2, PTL DEF Spec

\* GenerateInstanceId never hands out an id that is in use, although it does
\* not look the candidate up.
THEOREM GeneratedIdsFree == Spec => []NextIdFree
<1>1. SavesInv => NextIdFree
  BY DEF SavesInv
<1> QED BY <1>1, SavesInvariant, PTL

\* No save is deleted under a player that is bound to it, and no save is kept
\* that nobody is bound to.
THEOREM BindsAlwaysListed == Spec => []BindsListed
<1>1. SavesInv => BindsListed
  BY DEF SavesInv
<1> QED BY <1>1, SavesInvariant, PTL

\* Type correctness of the instance saves.
THEOREM SavesTypes == Spec => []TypeOK
<1>1. SavesInv => TypeOK
  BY DEF SavesInv
<1> QED BY <1>1, SavesInvariant, PTL

-----------------------------------------------------------------------------
(***************************************************************************)
(* Loaded maps.  At most one player is linked to a map, so the player that *)
(* leaves is the last one and starts the timer; the timer of a map that is *)
(* left by a teleport runs before the link is cut.                         *)
(***************************************************************************)

LinkedOnce == \A p, q \in Player : ref[p] # None /\ ref[p] = ref[q] => p = q
LinkedInside == \A p \in Player : st[p] \in {"offline", "loading", "world"} => ref[p] = None
TransitArmed == \A p \in Player : st[p] = "transit" => ref[p] \in unloadTimer

LinkInv == LinkedOnce /\ LinkedInside /\ TransitArmed /\ EmptyMapUnloads

\* The only player linked to a map starts its timer.
LEMMA LastArms ==
  ASSUME LinkedOnce, NEW p \in Player, ref[p] # None
  PROVE  ArmUnload(ref[p]) = unloadTimer \cup {ref[p]}
<1>1. {q \in Player : ref[q] = ref[p]} = {p} BY DEF LinkedOnce
<1>2. Cardinality({p}) = 1 BY FS_Singleton
<1> QED BY <1>1, <1>2 DEF ArmUnload

\* A player enters a map nobody is linked to.
LEMMA EnterLinks ==
  ASSUME TypeOK, LinkInv, NEW p \in Player, NEW i \in InstanceId, st[p] = "world",
         ~HavePlayers(i, ref), AddPlayerToMap(p, i)
  PROVE  LinkInv'
<1>1. /\ st'[p] = "inside" /\ ref'[p] = i
      /\ \A q \in Player \ {p} : st'[q] = st[q] /\ ref'[q] = ref[q]
      /\ maps' = maps \cup {i} /\ unloadTimer' = unloadTimer \ {i}
  BY DEF AddPlayerToMap, TypeOK
<1>2. \A q \in Player : ref[q] # i BY DEF HavePlayers
<1>3. ref[p] = None BY DEF LinkInv, LinkedInside
<1>4. LinkedOnce' BY <1>1, <1>2 DEF LinkInv, LinkedOnce
<1>5. LinkedInside' BY <1>1 DEF LinkInv, LinkedInside
<1>6. TransitArmed' BY <1>1, <1>2 DEF LinkInv, TransitArmed
<1>7. EmptyMapUnloads'
  <2> SUFFICES ASSUME NEW j \in maps' PROVE HavePlayers(j, ref') \/ j \in unloadTimer'
    BY DEF EmptyMapUnloads
  <2>1. CASE j = i BY <1>1, <2>1 DEF HavePlayers
  <2>2. CASE j # i
    <3>1. HavePlayers(j, ref) \/ j \in unloadTimer BY <1>1, <2>2 DEF LinkInv, EmptyMapUnloads
    <3>2. CASE j \in unloadTimer BY <1>1, <2>2, <3>2
    <3>3. ASSUME NEW q \in Player, ref[q] = j PROVE HavePlayers(j, ref')
      <4>1. maps \subseteq InstanceId BY DEF TypeOK
      <4>2. j # None BY <1>1, <2>2, <4>1, IdFacts
      <4> QED BY <1>1, <1>3, <3>3, <4>2 DEF HavePlayers
    <3> QED BY <3>1, <3>2, <3>3 DEF HavePlayers
  <2> QED BY <2>1, <2>2
<1> QED BY <1>4, <1>5, <1>6, <1>7 DEF LinkInv

\* Steps that only start timers.
LEMMA TimersOnly ==
  ASSUME LinkInv, UNCHANGED <<ref, maps>>, unloadTimer \subseteq unloadTimer',
         \A p \in Player : \/ st'[p] = st[p]
                           \/ ref[p] = None /\ st'[p] # "transit"
                           \/ st'[p] = "transit" /\ ref[p] \in unloadTimer'
  PROVE  LinkInv'
<1>1. LinkedOnce' /\ EmptyMapUnloads' BY DEF LinkInv, LinkedOnce, EmptyMapUnloads
<1>2. TransitArmed' BY DEF LinkInv, TransitArmed
<1>3. LinkedInside' BY DEF LinkInv, LinkedInside
<1> QED BY <1>1, <1>2, <1>3 DEF LinkInv

\* Steps that cut the link of p to a map whose timer runs.
LEMMA CutLink ==
  ASSUME TypeOK, LinkInv, NEW p \in Player, maps' = maps, unloadTimer \subseteq unloadTimer',
         ref[p] = None \/ ref[p] \in unloadTimer',
         ref' = [ref EXCEPT ![p] = None],
         st'[p] \in {"world", "offline"}, \A q \in Player \ {p} : st'[q] = st[q]
  PROVE  LinkInv'
<1>1. ref'[p] = None /\ \A q \in Player \ {p} : ref'[q] = ref[q] BY DEF TypeOK
<1>2. LinkedOnce' /\ LinkedInside' /\ TransitArmed'
  BY <1>1 DEF LinkInv, LinkedOnce, LinkedInside, TransitArmed
<1>3. EmptyMapUnloads'
  <2> SUFFICES ASSUME NEW j \in maps, j \notin unloadTimer' PROVE HavePlayers(j, ref')
    BY DEF EmptyMapUnloads
  <2>1. PICK q \in Player : ref[q] = j BY DEF LinkInv, EmptyMapUnloads, HavePlayers
  <2>2. j # None BY IdFacts DEF TypeOK
  <2> QED BY <1>1, <2>1, <2>2 DEF HavePlayers
<1> QED BY <1>2, <1>3 DEF LinkInv

\* Every step keeps links and timers in order.
LEMMA NextLinkInv == SavesInv /\ LinkInv /\ [Next]_vars => LinkInv'
<1> SUFFICES ASSUME SavesInv, LinkInv, [Next]_vars PROVE LinkInv' OBVIOUS
<1>0. TypeOK /\ NextIdFree /\ InsideLinked BY DEF SavesInv
<1>1. ASSUME NEW p \in Player, EnterBound(p) PROVE LinkInv'
  BY <1>0, <1>1, EnterLinks DEF EnterBound, TypeOK
<1>2. ASSUME NEW p \in Player, EnterNew(p) PROVE LinkInv'
  <2>1. next \in InstanceId BY <1>0, <1>2, GenerateKeepsFree DEF EnterNew
  <2> QED BY <1>0, <1>2, <2>1, EnterLinks DEF EnterNew
<1>3. ASSUME NEW p \in Player, TeleportOut(p) PROVE LinkInv'
  <2>1. ref[p] # None BY <1>0, <1>3 DEF TeleportOut, InsideLinked
  <2>2. unloadTimer' = unloadTimer \cup {ref[p]}
    BY <1>3, <2>1, LastArms DEF TeleportOut, LinkInv
  <2>3. /\ UNCHANGED <<ref, maps>> /\ st'[p] = "transit"
        /\ \A q \in Player \ {p} : st'[q] = st[q]
    BY <1>0, <1>3 DEF TeleportOut, TypeOK
  <2> QED BY <2>2, <2>3, TimersOnly
<1>4. ASSUME NEW p \in Player, WorldportAck(p) PROVE LinkInv'
  <2>1. ref[p] \in unloadTimer BY <1>4 DEF WorldportAck, LinkInv, TransitArmed
  <2>2. /\ UNCHANGED <<maps, unloadTimer>> /\ ref' = [ref EXCEPT ![p] = None]
        /\ st'[p] = "world" /\ \A q \in Player \ {p} : st'[q] = st[q]
    BY <1>0, <1>4 DEF WorldportAck, TypeOK, mapVars
  <2> QED BY <1>0, <2>1, <2>2, CutLink
<1>5. ASSUME NEW p \in Player, LogoutPlayer(p) PROVE LinkInv'
  <2>1. /\ maps' = maps /\ ref' = [ref EXCEPT ![p] = None]
        /\ st'[p] = "offline" /\ \A q \in Player \ {p} : st'[q] = st[q]
    BY <1>0, <1>5 DEF LogoutPlayer, TypeOK
  <2>2. CASE ref[p] = None
    <3>1. unloadTimer' = unloadTimer BY <1>5, <2>2 DEF LogoutPlayer
    <3> QED BY <1>0, <2>1, <2>2, <3>1, CutLink
  <2>3. CASE ref[p] # None
    <3>1. unloadTimer' = unloadTimer \cup {ref[p]}
      BY <1>5, <2>3, LastArms DEF LogoutPlayer, LinkInv
    <3> QED BY <1>0, <2>1, <3>1, CutLink
  <2> QED BY <2>2, <2>3
<1>6. ASSUME NEW p \in Player, LoginQuery(p) \/ LoginCallback(p) PROVE LinkInv'
  <2>1. ref[p] = None /\ st'[p] # "transit"
    BY <1>0, <1>6 DEF LoginQuery, LoginCallback, TypeOK, LinkInv, LinkedInside
  <2>2. UNCHANGED <<ref, maps, unloadTimer>> /\ \A q \in Player \ {p} : st'[q] = st[q]
    BY <1>0, <1>6 DEF LoginQuery, LoginCallback, TypeOK, mapVars
  <2> QED BY <2>1, <2>2, TimersOnly
<1>7. CASE \/ \E p \in Player : EnterNewDenied(p) \/ ResetInstances(p)
           \/ \E i \in InstanceId : Update(i)
           \/ UNCHANGED vars
  <2>1. UNCHANGED <<ref, maps, st>> /\ unloadTimer \subseteq unloadTimer'
    BY <1>7 DEF EnterNewDenied, ResetInstances, Update, ResetMap, mapVars, vars
  <2> QED BY <2>1, TimersOnly
<1>8. ASSUME NEW i \in InstanceId, DestroyInstance(i) PROVE LinkInv'
  <2>1. /\ UNCHANGED <<ref, st>> /\ maps' = maps \ {i} /\ unloadTimer' = unloadTimer \ {i}
        /\ \A q \in Player : ref[q] # i
    BY <1>8 DEF DestroyInstance, HavePlayers
  <2> QED BY <2>1 DEF LinkInv, LinkedOnce, LinkedInside, TransitArmed, EmptyMapUnloads
<1>9. CASE Restart
  BY <1>9 DEF Restart, LinkInv, LinkedOnce, LinkedInside, TransitArmed, EmptyMapUnloads
<1> QED BY <1>1, <1>2, <1>3, <1>4, <1>5, <1>6, <1>7, <1>8, <1>9 DEF Next

\* The links of the players and the timers of the maps they leave stay in order.
THEOREM LinkInvariant == Spec => []LinkInv
<1>1. Init => LinkInv
  BY DEF Init, LinkInv, LinkedOnce, LinkedInside, TransitArmed, EmptyMapUnloads
<1>2. SavesInv /\ LinkInv /\ [Next]_vars => LinkInv' BY NextLinkInv
<1> QED BY <1>1, <1>2, SavesInvariant, PTL DEF Spec

\* A loaded map that everybody has left always has its unload timer running, for
\* every order of teleports, acknowledgements, logouts and resets.
THEOREM EmptyMapsAlwaysUnload == Spec => []EmptyMapUnloads
<1>1. LinkInv => EmptyMapUnloads BY DEF LinkInv
<1> QED BY <1>1, LinkInvariant, PTL

-----------------------------------------------------------------------------
(***************************************************************************)
(* Stored instances.  The login callback sees the rows of its own moment   *)
(* (no reset between query and callback), ids fit into the reset event,    *)
(* and LoadInstances schedules every row it keeps.  Without the first two, *)
(* ids are shared or freed wrongly, without the last a row is never reset: *)
(* the runs that expect a violation show it.                               *)
(***************************************************************************)

\* Loaded saves have a row, rows a registered id; id 0 is none.
RowsRegistered ==
  /\ saves \subseteq row /\ row \subseteq ids
  /\ 0 \notin ids /\ next # 0 /\ events[0] = 0

\* Who refers to a row, who is bound to it and who is linked to its map agree.
RowsOwned ==
  /\ \A p \in Player : /\ charRow[p] \subseteq row
                       /\ bind[p] # None => bind[p] \in charRow[p]
                       /\ ref[p] \in row => bind[p] = ref[p]
  /\ \A p, q \in Player : p # q => charRow[p] \cap charRow[q] = {}

StoredInv == RowsRegistered /\ RowsOwned

\* The reset event of an id that fits is that of the id itself.
LEMMA EventIdSame ==
  ASSUME IdWidth > MaxId, NEW i \in InstanceId
  PROVE  EventId(i) = i
<1>1. i \in Nat /\ i < IdWidth /\ IdWidth \in Nat BY SavesAssumption DEF InstanceId
<1> QED BY <1>1 DEF EventId

\* No two players are bound to the same save.
LEMMA BoundOnce ==
  ASSUME RowsOwned, NEW p \in Player, NEW q \in Player, bind[p] # None, bind[p] = bind[q]
  PROVE  p = q
  BY DEF RowsOwned

\* Entering leaves the queue alone but for the reset of a new save: the player
\* is linked already when SetResetSchedule(false) looks for players.
LEMMA EnterSchedule ==
  ASSUME TypeOK, NEW p \in Player, NEW i \in InstanceId, AddPlayerToMap(p, i)
  PROVE  events' = EventsWithSave(i)
<1>1. ref'[p] = i BY DEF AddPlayerToMap, TypeOK
<1>2. HavePlayers(i, ref') BY <1>1 DEF HavePlayers
<1> QED BY <1>2 DEF AddPlayerToMap, SetResetSchedule

\* A player that logs out inside its instance was the only one bound to the save:
\* the save goes first, so that SetResetSchedule(true) finds none.
LEMMA LogoutSchedule ==
  ASSUME TypeOK, BindsListed, StoredInv, NEW p \in Player, LogoutPlayer(p)
  PROVE  events' = events
<1>1. CASE ref[p] = None BY <1>1 DEF LogoutPlayer
<1>2. CASE ref[p] # None
  <2>1. events' = SetResetSchedule(TRUE, ref[p], ref', saves', events)
    BY <1>2 DEF LogoutPlayer
  <2>2. ref[p] \notin saves'
    <3>1. CASE bind[p] = None
      <4>1. saves' = saves BY <1>2, <3>1 DEF LogoutPlayer, saveVars
      <4> QED BY <1>2, <3>1, <4>1 DEF StoredInv, RowsRegistered, RowsOwned
    <3>2. CASE bind[p] # None
      <4>1. saves' = UnloadIfEmpty(p, bind[p]) BY <3>2 DEF LogoutPlayer, RemovePlayer
      <4>2. bind[p] \in InstanceId BY <3>2 DEF TypeOK
      <4>3. playerList[bind[p]] \subseteq {p}
        BY <3>2, <4>2, BoundOnce DEF BindsListed, StoredInv, TypeOK
      <4>4. saves' = saves \ {bind[p]} BY <4>1, <4>3 DEF UnloadIfEmpty
      <4> QED BY <1>2, <4>4 DEF StoredInv, RowsRegistered, RowsOwned
    <3> QED BY <3>1, <3>2
  <2> QED BY <2>1, <2>2 DEF SetResetSchedule
<1> QED BY <1>1, <1>2

\* The first entry: a fresh id gets its save, its row and its bind.
LEMMA EnterNewStored ==
  ASSUME TypeOK, NextIdFree, LinkInv, StoredInv, IdWidth > MaxId, NEW p \in Player, EnterNew(p)
  PROVE  /\ StoredInv'
         /\ next \in InstanceId /\ next \notin ids /\ next # 0
         /\ row' = row \cup {next} /\ ids' = ids \cup {next}
         /\ events' = [events EXCEPT ![next] = @ + 1]
<1>1. /\ bind[p] = None /\ GenerateInstanceId /\ AddPlayerToMap(p, next)
      /\ ~HavePlayers(next, ref)
  BY DEF EnterNew
<1>2. next \in InstanceId BY <1>1, GenerateKeepsFree
<1>3. next \notin ids /\ next # 0 /\ Creates(next)
  BY DEF NextIdFree, StoredInv, RowsRegistered, Creates
<1>4. /\ row' = row \cup {next} /\ saves' = saves \cup {next}
      /\ bind' = [bind EXCEPT ![p] = next] /\ charRow' = [charRow EXCEPT ![p] = @ \cup {next}]
      /\ ref' = [ref EXCEPT ![p] = next]
  BY <1>1, <1>3 DEF AddPlayerToMap, AddInstanceSave, BindToInstance
<1>5. ids' = ids \cup {next} /\ next' # 0
  BY <1>1, <1>2 DEF GenerateInstanceId, InstanceId
<1>6. events' = [events EXCEPT ![next] = @ + 1]
  BY <1>1, <1>2, <1>3, EnterSchedule, EventIdSame DEF EventsWithSave, ScheduleReset
<1>7. RowsRegistered'
  BY <1>3, <1>4, <1>5, <1>6, IdFacts DEF StoredInv, RowsRegistered, TypeOK
<1>8. RowsOwned'
  <2>1. /\ bind'[p] = next /\ charRow'[p] = charRow[p] \cup {next} /\ ref'[p] = next
        /\ \A q \in Player \ {p} : /\ bind'[q] = bind[q] /\ charRow'[q] = charRow[q]
                                   /\ ref'[q] = ref[q]
    BY <1>4 DEF TypeOK
  <2>2. \A q \in Player : next \notin charRow[q] /\ ref[q] # next
    BY <1>1, <1>3 DEF StoredInv, RowsRegistered, RowsOwned, HavePlayers
  <2> QED BY <1>4, <2>1, <2>2 DEF StoredInv, RowsOwned
<1> QED BY <1>2, <1>3, <1>4, <1>5, <1>6, <1>7, <1>8 DEF StoredInv

\* Every step keeps the stored instances in order.
LEMMA NextStoredInv ==
  ASSUME ~LoginRace, IdWidth > MaxId, SavesInv, LinkInv, StoredInv, [Next]_vars
  PROVE  StoredInv'
<1>0. TypeOK /\ NextIdFree /\ AwayUnbound /\ BindsListed BY DEF SavesInv
<1>1. ASSUME NEW p \in Player, EnterBound(p) PROVE StoredInv'
  <2>1. /\ bind[p] \in saves /\ AddPlayerToMap(p, bind[p]) /\ bind[p] # None
        /\ UNCHANGED <<ids, next>>
    BY <1>0, <1>1 DEF EnterBound, BindsListed
  <2>2. UNCHANGED <<saves, row, bind, charRow>> /\ ref' = [ref EXCEPT ![p] = bind[p]]
    BY <2>1 DEF AddPlayerToMap, AddInstanceSave, Creates, BindToInstance
  <2>3. events' = events
    BY <1>0, <2>1, EnterSchedule DEF EventsWithSave, Creates, TypeOK
  <2> QED BY <1>0, <2>1, <2>2, <2>3 DEF StoredInv, RowsRegistered, RowsOwned, TypeOK
<1>2. ASSUME NEW p \in Player, EnterNew(p) PROVE StoredInv'
  BY <1>0, <1>2, EnterNewStored
<1>3. ASSUME NEW p \in Player, EnterNewDenied(p) PROVE StoredInv'
  <2>1. /\ UNCHANGED <<saves, row, charRow, bind, ref, events>>
        /\ ids' = ids \cup {next} /\ next' # 0
    BY <1>0, <1>3 DEF EnterNewDenied, GenerateInstanceId, saveVars, rowVars, TypeOK
  <2> QED BY <2>1 DEF StoredInv, RowsRegistered, RowsOwned
<1>4. ASSUME NEW p \in Player, TeleportOut(p) PROVE StoredInv'
  <2>1. HavePlayers(ref[p], ref) BY DEF HavePlayers
  <2>2. UNCHANGED <<ids, next, saves, row, charRow, bind, ref, events>>
    BY <1>4, <2>1 DEF TeleportOut, SetResetSchedule, idVars, saveVars, rowVars
  <2> QED BY <2>2 DEF StoredInv, RowsRegistered, RowsOwned
<1>5. ASSUME NEW p \in Player, WorldportAck(p) PROVE StoredInv'
  <2>1. /\ UNCHANGED <<ids, next, saves, row, charRow, bind, events>>
        /\ ref' = [ref EXCEPT ![p] = None]
    BY <1>5 DEF WorldportAck, idVars, saveVars, rowVars
  <2>2. None \notin row BY <1>0, IdFacts DEF TypeOK
  <2> QED BY <1>0, <2>1, <2>2 DEF StoredInv, RowsRegistered, RowsOwned, TypeOK
<1>6. ASSUME NEW p \in Player, LogoutPlayer(p) PROVE StoredInv'
  <2>1. events' = events BY <1>0, <1>6, LogoutSchedule
  <2>2. /\ UNCHANGED <<ids, next, row, charRow>> /\ saves' \subseteq saves
        /\ ref' = [ref EXCEPT ![p] = None] /\ bind' = [bind EXCEPT ![p] = None]
    BY <1>6 DEF LogoutPlayer, RemovePlayer, UnloadIfEmpty, idVars, saveVars, rowVars
  <2>3. None \notin row BY <1>0, IdFacts DEF TypeOK
  <2> QED BY <1>0, <2>1, <2>2, <2>3 DEF StoredInv, RowsRegistered, RowsOwned, TypeOK
<1>7. ASSUME NEW p \in Player, LoginQuery(p) PROVE StoredInv'
  <2>1. UNCHANGED <<ids, next, saves, row, charRow, bind, ref, events>>
    BY <1>7 DEF LoginQuery, idVars, saveVars, rowVars
  <2> QED BY <2>1 DEF StoredInv, RowsRegistered, RowsOwned
<1>8. ASSUME NEW p \in Player, LoginCallback(p) PROVE StoredInv'
  <2>1. UNCHANGED <<ids, next, row, charRow, ref, events>>
    BY <1>8 DEF LoginCallback, idVars, rowVars
  <2>2. ref[p] = None BY <1>8 DEF LoginCallback, LinkInv, LinkedInside
  <2>3. None \notin row BY <1>0, IdFacts DEF TypeOK
  <2>4. CASE UNCHANGED <<saves, bind>>
    BY <2>1, <2>4 DEF StoredInv, RowsRegistered, RowsOwned
  <2>5. ASSUME NEW i \in charRow[p] \cap row, saves' = saves \cup {i},
               bind' = [bind EXCEPT ![p] = i]
        PROVE  StoredInv'
    BY <1>0, <2>1, <2>2, <2>3, <2>5 DEF StoredInv, RowsRegistered, RowsOwned, TypeOK
  <2> QED BY <1>8, <2>4, <2>5 DEF LoginCallback, BoundRows, saveVars
<1>9. ASSUME NEW p \in Player, ResetInstances(p) PROVE StoredInv'
  <2> DEFINE i == bind[p]
  <2>1. /\ i # None /\ UNCHANGED <<ids, next, ref, events>> /\ row' = row \ {i}
        /\ charRow' = [q \in Player |-> charRow[q] \ {i}]
        /\ bind' = [bind EXCEPT ![p] = None] /\ saves' = UnloadIfEmpty(p, i)
        /\ \A q \in Player : ref[q] # i
    BY <1>9 DEF ResetInstances, DeleteInstanceFromDB, RemovePlayer, HavePlayers, idVars
  <2>2. i \in InstanceId BY <1>0, <2>1 DEF TypeOK
  <2>3. \A q \in Player \ {p} : bind[q] # i BY <2>1, BoundOnce DEF StoredInv
  <2>4. playerList[i] \subseteq {p} BY <1>0, <2>2, <2>3 DEF BindsListed, TypeOK
  <2>5. saves' = saves \ {i} BY <2>1, <2>4 DEF UnloadIfEmpty
  <2>6. bind'[p] = None /\ \A q \in Player \ {p} : bind'[q] = bind[q] BY <1>0, <2>1 DEF TypeOK
  <2> HIDE DEF i
  <2>7. RowsRegistered' BY <2>1, <2>5 DEF StoredInv, RowsRegistered
  <2>8. \A q \in Player : ref'[q] \in row' => bind'[q] = ref'[q]
    BY <2>1, <2>6 DEF StoredInv, RowsOwned, i
  <2> QED BY <2>1, <2>3, <2>6, <2>7, <2>8 DEF StoredInv, RowsOwned
<1>10. ASSUME NEW e \in InstanceId, Update(e) PROVE StoredInv'
  <2>1. /\ events[e] > 0 /\ events' = [events EXCEPT ![e] = @ - 1]
        /\ saves' = saves \ {e} /\ row' = row \ {e} /\ ids' = ids \ {e}
        /\ charRow' = [q \in Player |-> charRow[q] \ {e}]
        /\ next' = (IF e < next THEN e ELSE next) /\ UNCHANGED ref
    BY <1>10 DEF Update, DeleteInstanceFromDB, FreeInstanceId
  <2>2. e # 0 BY <2>1 DEF StoredInv, RowsRegistered
  <2>3. \A q \in Player : bind'[q] = IF bind[q] = e THEN None ELSE bind[q]
    BY <1>0, <1>10 DEF Update, TypeOK, BindsListed
  <2>4. RowsRegistered' BY <1>0, <2>1, <2>2, IdFacts DEF StoredInv, RowsRegistered, TypeOK
  <2>5. RowsOwned' BY <2>1, <2>3 DEF StoredInv, RowsOwned
  <2> QED BY <2>4, <2>5 DEF StoredInv
<1>11. ASSUME NEW i \in InstanceId, DestroyInstance(i) PROVE StoredInv'
  <2>1. UNCHANGED <<ids, next, saves, row, charRow, bind, ref, events>>
    BY <1>11 DEF DestroyInstance, idVars, saveVars, rowVars
  <2> QED BY <2>1 DEF StoredInv, RowsRegistered, RowsOwned
<1>12. CASE Restart
  <2>1. PICK expired \in SUBSET row, late \in SUBSET row : LoadInstances(expired, late)
    BY <1>12 DEF Restart
  <2> DEFINE kept == {i \in row \ expired : \E p \in Player : i \in charRow[p]}
  <2>2. /\ row' = kept /\ ids' = kept /\ charRow' = [p \in Player |-> charRow[p] \cap kept]
        /\ next' \in 1 .. (MaxId + 1)
        /\ events' = [e \in InstanceId |-> Cardinality({i \in kept \ late : EventId(i) = e})]
    BY <2>1 DEF LoadInstances
  <2>3. kept \subseteq row /\ 0 \notin kept BY DEF StoredInv, RowsRegistered
  <2>4. {i \in kept \ late : EventId(i) = 0} = {}
    <3>1. \A i \in kept : EventId(i) = i BY <1>0, <2>3, EventIdSame DEF TypeOK
    <3> QED BY <2>3, <3>1
  <2> HIDE DEF kept
  <2>5. events'[0] = 0 BY <2>2, <2>4, IdFacts, FS_EmptySet
  <2>6. next' # 0 BY <2>2, SavesAssumption
  <2>7. saves' = {} /\ \A p \in Player : bind'[p] = None /\ ref'[p] = None
    BY <1>12 DEF Restart
  <2>8. None \notin row' BY <1>0, <2>2, <2>3, IdFacts DEF TypeOK
  <2> QED BY <2>2, <2>3, <2>5, <2>6, <2>7, <2>8 DEF StoredInv, RowsRegistered, RowsOwned
<1>13. CASE UNCHANGED vars
  BY <1>13 DEF vars, StoredInv, RowsRegistered, RowsOwned
<1> QED BY <1>1, <1>2, <1>3, <1>4, <1>5, <1>6, <1>7, <1>8, <1>9, <1>10, <1>11, <1>12, <1>13
       DEF Next

\* Rows, ids, binds and links agree along every behaviour.
THEOREM StoredInvariant ==
  ASSUME ~LoginRace, IdWidth > MaxId
  PROVE  Spec => []StoredInv
<1>1. Init => StoredInv
  <2>1. None \notin {} OBVIOUS
  <2> QED BY IdFacts DEF Init, StoredInv, RowsRegistered, RowsOwned
<1>2. SavesInv /\ LinkInv /\ StoredInv /\ [Next]_vars => StoredInv' BY NextStoredInv
<1> QED BY <1>1, <1>2, SavesInvariant, LinkInvariant, PTL DEF Spec

\* A solo instance belongs to one player, in m_boundInstances and in the table
\* character_instance, when logins are answered without a reset in between.
THEOREM InstancesPrivate ==
  ASSUME ~LoginRace, IdWidth > MaxId
  PROVE  Spec => []SoloPrivate
<1>1. StoredInv => SoloPrivate
  BY DEF StoredInv, RowsOwned, SoloPrivate, BoundRows
<1> QED BY <1>1, StoredInvariant, PTL

\* Every step keeps exactly one reset pending for a stored instance.
LEMMA NextResetPending ==
  ASSUME ~LoginRace, ~LateRows, IdWidth > MaxId,
         SavesInv, LinkInv, StoredInv, ResetPendingOnce, [Next]_vars
  PROVE  ResetPendingOnce'
<1>0. TypeOK /\ NextIdFree /\ BindsListed BY DEF SavesInv
<1>a. \A i \in InstanceId : EventId(i) = i BY EventIdSame
<1>b. \A i \in InstanceId : /\ i \in row => i \in ids /\ events[i] = 1
                            /\ events[i] > 0 => i \in ids /\ events[i] = 1
  BY <1>a DEF ResetPendingOnce
<1>c. SUFFICES \A i \in InstanceId : /\ i \in row' => i \in ids' /\ events'[i] = 1
                                     /\ events'[i] > 0 => i \in ids' /\ events'[i] = 1
  BY <1>a DEF ResetPendingOnce
<1> DEFINE Goal == \A i \in InstanceId : /\ i \in row' => i \in ids' /\ events'[i] = 1
                                         /\ events'[i] > 0 => i \in ids' /\ events'[i] = 1
<1>1. CASE events' = events /\ row' \subseteq row /\ ids \subseteq ids' BY <1>b, <1>1
<1>2. ASSUME NEW p \in Player, EnterBound(p) PROVE Goal
  <2>1. bind[p] \in saves /\ AddPlayerToMap(p, bind[p]) /\ ids' = ids
    BY <1>0, <1>2 DEF EnterBound, BindsListed
  <2>2. row' = row BY <2>1 DEF AddPlayerToMap, AddInstanceSave, Creates
  <2>3. events' = events
    BY <1>0, <2>1, EnterSchedule DEF EventsWithSave, Creates, TypeOK
  <2> QED BY <1>1, <2>1, <2>2, <2>3
<1>3. ASSUME NEW p \in Player, EnterNew(p) PROVE Goal
  <2>1. /\ next \in InstanceId /\ next \notin ids
        /\ row' = row \cup {next} /\ ids' = ids \cup {next}
        /\ events' = [events EXCEPT ![next] = @ + 1]
    BY <1>0, <1>3, EnterNewStored
  <2>2. events[next] = 0 BY <1>0, <1>b, <2>1 DEF TypeOK
  <2> QED BY <1>0, <1>b, <2>1, <2>2 DEF TypeOK
<1>4. ASSUME NEW p \in Player, EnterNewDenied(p) PROVE Goal
  BY <1>1, <1>4 DEF EnterNewDenied, GenerateInstanceId, rowVars
<1>5. ASSUME NEW p \in Player, TeleportOut(p) PROVE Goal
  <2>1. HavePlayers(ref[p], ref) BY DEF HavePlayers
  <2> QED BY <1>1, <1>5, <2>1 DEF TeleportOut, SetResetSchedule, idVars, rowVars
<1>6. ASSUME NEW p \in Player, LogoutPlayer(p) PROVE Goal
  <2>1. events' = events BY <1>0, <1>6, LogoutSchedule
  <2> QED BY <1>1, <1>6, <2>1 DEF LogoutPlayer, idVars, rowVars
<1>7. ASSUME NEW p \in Player, WorldportAck(p) \/ LoginQuery(p) \/ LoginCallback(p) PROVE Goal
  BY <1>1, <1>7 DEF WorldportAck, LoginQuery, LoginCallback, idVars, rowVars
<1>8. ASSUME NEW p \in Player, ResetInstances(p) PROVE Goal
  BY <1>1, <1>8 DEF ResetInstances, DeleteInstanceFromDB, idVars
<1>9. ASSUME NEW e \in InstanceId, Update(e) PROVE Goal
  <2>1. /\ events[e] > 0 /\ events' = [events EXCEPT ![e] = @ - 1]
        /\ row' = row \ {e} /\ ids' = ids \ {e}
    BY <1>9 DEF Update, DeleteInstanceFromDB, FreeInstanceId
  <2>2. events'[e] = 0 /\ \A i \in InstanceId \ {e} : events'[i] = events[i]
    BY <1>0, <1>b, <2>1 DEF TypeOK
  <2> QED BY <1>b, <2>1, <2>2
<1>10. ASSUME NEW i \in InstanceId, DestroyInstance(i) PROVE Goal
  BY <1>1, <1>10 DEF DestroyInstance, idVars, rowVars
<1>11. ASSUME Restart PROVE Goal
  <2>1. PICK expired \in SUBSET row : LoadInstances(expired, {}) BY <1>11 DEF Restart
  <2> DEFINE kept == {i \in row \ expired : \E p \in Player : i \in charRow[p]}
  <2>2. /\ row' = kept /\ ids' = kept
        /\ events' = [e \in InstanceId |-> Cardinality({i \in kept \ {} : EventId(i) = e})]
    BY <2>1 DEF LoadInstances
  <2>3. kept \subseteq InstanceId BY <1>0 DEF TypeOK
  <2> HIDE DEF kept
  <2>4. ASSUME NEW e \in kept PROVE events'[e] = 1
    <3>1. {i \in kept \ {} : EventId(i) = e} = {e} BY <1>a, <2>3
    <3> QED BY <2>2, <2>3, <3>1, FS_Singleton
  <2>5. ASSUME NEW e \in InstanceId \ kept PROVE events'[e] = 0
    <3>1. {i \in kept \ {} : EventId(i) = e} = {} BY <1>a, <2>3
    <3> QED BY <2>2, <3>1, FS_EmptySet
  <2>6. ASSUME NEW i \in InstanceId
        PROVE  /\ i \in row' => i \in ids' /\ events'[i] = 1
               /\ events'[i] > 0 => i \in ids' /\ events'[i] = 1
    <3>1. CASE i \in kept BY <2>2, <2>4, <3>1
    <3>2. CASE i \notin kept
      <4>1. events'[i] = 0 BY <2>5, <3>2
      <4>2. i \notin row' BY <2>2, <3>2
      <4> QED BY <4>1, <4>2
    <3> QED BY <3>1, <3>2
  <2> QED BY <2>6
<1>12. CASE UNCHANGED vars BY <1>1, <1>12 DEF vars
<1> QED BY <1>2, <1>3, <1>4, <1>5, <1>6, <1>7, <1>8, <1>9, <1>10, <1>11, <1>12 DEF Next

\* The id of a stored instance is registered with exactly one reset pending, and
\* no reset is pending for an id that was given back, through every order of
\* entries, logouts, resets and restarts.
THEOREM ResetsPendOnce ==
  ASSUME ~LoginRace, ~LateRows, IdWidth > MaxId
  PROVE  Spec => []ResetPendingOnce
<1>1. Init => ResetPendingOnce
  BY DEF Init, ResetPendingOnce
<1>2. SavesInv /\ LinkInv /\ StoredInv /\ ResetPendingOnce /\ [Next]_vars => ResetPendingOnce'
  BY NextResetPending
<1> QED BY <1>1, <1>2, SavesInvariant, LinkInvariant, StoredInvariant, PTL DEF Spec
=============================================================================
