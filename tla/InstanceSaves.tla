---------------------------- MODULE InstanceSaves ----------------------------
(***************************************************************************)
(* The life of the solo instances of one normal dungeon: the instance ids  *)
(* of MapManager, the saves and the reset queue of InstanceSaveManager,    *)
(* the loaded copies of MapInstanced, the binds of the players, and the    *)
(* rows of the tables instance and character_instance.                     *)
(*                                                                         *)
(* A player passes through offline, loading (the login query is under      *)
(* way), world (outside the dungeon), inside, and transit (taken off the   *)
(* map by a far teleport that the client has not acknowledged).  ref[p]    *)
(* is the map that p is linked to, Player::m_mapRef: the link is made by   *)
(* SetMap BEFORE AddPlayerToMap and cut by ResetMap AFTER                  *)
(* RemovePlayerFromMap, and HavePlayers() looks at the links.              *)
(*                                                                         *)
(* Reset times are abstracted: any scheduled event may be the next one     *)
(* that is due.  Groups, permanent binds and the global resets of raids    *)
(* are outside this module.                                                *)
(***************************************************************************)
EXTENDS Integers, FiniteSets

CONSTANTS
    Player,       \* the characters
    MaxId,        \* bound on the instance ids that are handed out
    IdWidth,      \* instance ids kept apart by a reset event: 2^16 in the code
    LoginRace,    \* may a reset run between a login query and its callback?
    LateRows,     \* may a reset time be reached while the server starts?
    MaxRestarts,  \* bound on the restarts of the server
    MaxEvents     \* bound on the pending reset events of one id

ASSUME SavesAssumption ==
    /\ MaxId \in Nat \ {0} /\ IdWidth \in Nat \ {0} 
    /\ MaxRestarts \in Nat /\ MaxEvents \in Nat \ {0}
    /\ LoginRace \in BOOLEAN /\ LateRows \in BOOLEAN

None == -1
InstanceId == 0 .. MaxId

VARIABLES
    ids, next,           \* MapManager::m_InstanceIDs and m_NextInstanceID
    saves, playerList,   \* m_instanceSaveById and the list of each save
    events,              \* m_resetTimeQueue: number of events per truncated id
    maps, unloadTimer,   \* m_InstancedMaps; those whose m_unloadTimer runs
    st, bind, ref,       \* players: status, m_boundInstances, m_mapRef
    answer,              \* result of the login query of a loading player
    row, charRow,        \* tables instance and character_instance
    restarts

idVars == <<ids, next>>
saveVars == <<saves, playerList>>
mapVars == <<maps, unloadTimer>>
rowVars == <<row, charRow>>
vars == <<ids, next, saves, playerList, events, maps, unloadTimer,
          st, bind, ref, answer, row, charRow, restarts>>

-----------------------------------------------------------------------------
(***************************************************************************)
(* MapManager: the pool of instance ids.                                   *)
(***************************************************************************)

\* n is the lowest id from low on that is not in used.
LowestUnused(n, low, used) ==
    n \notin used /\ \A k \in low .. (n - 1) : k \in used

\* Mutant: the next candidate is not looked up.
GenerateInstanceIdNoScan ==
    /\ next <= MaxId
    /\ ids' = ids \cup {next}
    /\ next' = next + 1

\* The candidate is handed out without being looked up; the next candidate is
\* the lowest unregistered id above it.
GenerateInstanceId ==
    /\ next <= MaxId
    /\ ids' = ids \cup {next}
    /\ next' \in (next + 1) .. (MaxId + 1)
    /\ LowestUnused(next', next + 1, ids)

FreeInstanceId(i) ==
    /\ next' = IF i < next THEN i ELSE next
    /\ ids' = ids \ {i}

-----------------------------------------------------------------------------
(***************************************************************************)
(* InstanceSaveManager: the reset queue and the saves.                     *)
(***************************************************************************)

\* InstResetEvent keeps the instance id in 16 bits.
EventId(i) == i % IdWidth

ScheduleReset(add, i, ev) ==
    [ev EXCEPT ![EventId(i)] = IF add THEN @ + 1 ELSE IF @ > 0 THEN @ - 1 ELSE 0]

\* Map::HavePlayers, over the links r.
HavePlayers(i, r) == \E p \in Player : r[p] = i

\* Mutant: neither the players nor the queue are looked at.
SetResetScheduleBlind(on, i, r, s, ev) ==
    IF i \in s THEN [ev EXCEPT ![EventId(i)] = IF on THEN @ + 1 ELSE @ - 1] ELSE ev

\* InstanceMap::SetResetSchedule with the links r and the saves s of the
\* moment of the call.
SetResetSchedule(on, i, r, s, ev) ==
    IF ~HavePlayers(i, r) /\ i \in s THEN ScheduleReset(on, i, ev) ELSE ev

\* Mutant: an empty save is not unloaded.
RemovePlayerKeep(p, i) ==
    playerList' = [playerList EXCEPT ![i] = @ \ {p}] /\ UNCHANGED saves

\* UnloadIfEmpty: the saves once p has left the list of the save of i.
UnloadIfEmpty(p, i) == IF playerList[i] \subseteq {p} THEN saves \ {i} ELSE saves

\* InstanceSave::RemovePlayer: p leaves the save of i, which goes if empty.
RemovePlayer(p, i) ==
    /\ playerList' = [playerList EXCEPT ![i] = @ \ {p}]
    /\ saves' = UnloadIfEmpty(p, i)

\* DeleteInstanceFromDB: the row and every reference to it.
DeleteInstanceFromDB(i) ==
    /\ row' = row \ {i}
    /\ charRow' = [p \in Player |-> charRow[p] \ {i}]

-----------------------------------------------------------------------------
Init ==
    /\ ids = {} /\ next = 1
    /\ saves = {} /\ playerList = [i \in InstanceId |-> {}]
    /\ events = [i \in InstanceId |-> 0]
    /\ maps = {} /\ unloadTimer = {}
    /\ st = [p \in Player |-> "offline"]
    /\ bind = [p \in Player |-> None]
    /\ ref = [p \in Player |-> None]
    /\ answer = [p \in Player |-> {}]
    /\ row = {} /\ charRow = [p \in Player |-> {}]
    /\ restarts = 0

\* AddInstanceSave, called by AddPlayerToMap, makes a save for an id that has
\* none (never for id 0), inserts its row and schedules its reset.
Creates(i) == i # 0 /\ i \notin saves

AddInstanceSave(i) ==
    /\ saves' = IF Creates(i) THEN saves \cup {i} ELSE saves
    /\ row' = IF Creates(i) THEN row \cup {i} ELSE row

EventsWithSave(i) == IF Creates(i) THEN ScheduleReset(TRUE, i, events) ELSE events

\* Player::BindToInstance of a player without a bind; no save, no bind.
BindToInstance(p, i) ==
    IF i # 0 /\ bind[p] = None
    THEN /\ bind' = [bind EXCEPT ![p] = i]
         /\ playerList' = [playerList EXCEPT ![i] = @ \cup {p}]
         /\ charRow' = [charRow EXCEPT ![p] = @ \cup {i}]
    ELSE UNCHANGED <<bind, playerList, charRow>>

\* InstanceMap::AddPlayerToMap.  SetMap has linked p to the map already when
\* SetResetSchedule(false) looks for players.
AddPlayerToMap(p, i) ==
    /\ st' = [st EXCEPT ![p] = "inside"]
    /\ ref' = [ref EXCEPT ![p] = i]
    /\ AddInstanceSave(i)
    /\ BindToInstance(p, i)
    /\ events' = SetResetSchedule(FALSE, i, ref', saves', EventsWithSave(i))
    /\ maps' = maps \cup {i}
    /\ unloadTimer' = unloadTimer \ {i}

\* CreateInstanceForPlayer with a solo bind: the map of the save is found or
\* created; CanEnter turns a player without a group away when somebody is in.
EnterBound(p) ==
    /\ st[p] = "world" /\ bind[p] # None
    /\ ~HavePlayers(bind[p], ref)
    /\ AddPlayerToMap(p, bind[p])
    /\ UNCHANGED <<ids, next, answer, restarts>>

\* CreateInstanceForPlayer without a bind: a fresh id, whose map may exist.
EnterNew(p) ==
    /\ st[p] = "world" /\ bind[p] = None
    /\ GenerateInstanceId
    /\ ~HavePlayers(next, ref)
    /\ AddPlayerToMap(p, next)
    /\ UNCHANGED <<answer, restarts>>

\* The same, turned away by CanEnter: the id stays registered.
EnterNewDenied(p) ==
    /\ st[p] = "world" /\ bind[p] = None
    /\ GenerateInstanceId
    /\ HavePlayers(next, ref)
    /\ UNCHANGED <<saveVars, events, mapVars, st, bind, ref, answer, rowVars, restarts>>

\* Mutant: the timer is started for the player after the last one.
ArmUnloadLate(i) ==
    IF {q \in Player : ref[q] = i} = {} THEN unloadTimer \cup {i} ELSE unloadTimer

\* The unload timer that RemovePlayerFromMap starts for the last player of i.
ArmUnload(i) ==
    IF Cardinality({q \in Player : ref[q] = i}) = 1
    THEN unloadTimer \cup {i} ELSE unloadTimer

\* Player::TeleportTo another map: InstanceMap::RemovePlayerFromMap(p, false),
\* with p still linked to the map.
TeleportOut(p) ==
    /\ st[p] = "inside"
    /\ st' = [st EXCEPT ![p] = "transit"]
    /\ unloadTimer' = ArmUnload(ref[p])
    /\ events' = SetResetSchedule(TRUE, ref[p], ref, saves, events)
    /\ UNCHANGED <<idVars, saveVars, maps, bind, ref, answer, rowVars, restarts>>

\* HandleMoveWorldportAckOpcode at the other end: ResetMap cuts the link.
WorldportAck(p) ==
    /\ st[p] = "transit"
    /\ st' = [st EXCEPT ![p] = "world"]
    /\ ref' = [ref EXCEPT ![p] = None]
    /\ UNCHANGED <<idVars, saveVars, events, mapVars, bind, answer, rowVars, restarts>>

\* WorldSession::LogoutPlayer (a pending teleport is finished first, which is
\* WorldportAck): CleanupsBeforeDelete leaves the save, then the map is left
\* with RemovePlayerFromMap(p, true), which deletes the player and its link.
LogoutPlayer(p) ==
    /\ st[p] \in {"world", "inside"}
    /\ st' = [st EXCEPT ![p] = "offline"]
    /\ bind' = [bind EXCEPT ![p] = None]
    /\ ref' = [ref EXCEPT ![p] = None]
    /\ IF bind[p] = None THEN UNCHANGED saveVars ELSE RemovePlayer(p, bind[p])
    /\ IF ref[p] = None THEN UNCHANGED <<unloadTimer, events>>
       ELSE /\ unloadTimer' = ArmUnload(ref[p])
            /\ events' = SetResetSchedule(TRUE, ref[p], ref', saves', events)
            /\ events'[EventId(ref[p])] <= MaxEvents
    /\ UNCHANGED <<idVars, maps, answer, rowVars, restarts>>

\* The login query: character_instance LEFT JOIN instance.
BoundRows(p) == charRow[p] \cap row

LoginQuery(p) ==
    /\ st[p] = "offline"
    /\ st' = [st EXCEPT ![p] = "loading"]
    /\ answer' = [answer EXCEPT ![p] = BoundRows(p)]
    /\ UNCHANGED <<idVars, saveVars, events, mapVars, bind, ref, rowVars, restarts>>

\* Player::_LoadBoundInstances: the save of a row is found or created, neither
\* scheduled nor registered; of several rows the last one stays bound.
LoginCallback(p) ==
    LET rows == IF LoginRace THEN answer[p] ELSE BoundRows(p)
    IN  /\ st[p] = "loading"
        /\ st' = [st EXCEPT ![p] = "world"]
        /\ answer' = [answer EXCEPT ![p] = {}]
        /\ \/ /\ rows = {}
              /\ UNCHANGED <<saveVars, bind>>
           \/ \E i \in rows :
                /\ saves' = saves \cup {i}
                /\ playerList' = [playerList EXCEPT ![i] = @ \cup {p}]
                /\ bind' = [bind EXCEPT ![p] = i]
        /\ UNCHANGED <<idVars, events, mapVars, ref, rowVars, restarts>>

\* The map of i is told to reset: InstanceMap::Reset of an empty map makes it
\* unload at the next update.
ResetMap(i) ==
    unloadTimer' = IF i \in maps /\ ~HavePlayers(i, ref)
                   THEN unloadTimer \cup {i} ELSE unloadTimer

\* Mutant: the id is freed although its reset is still scheduled.
ResetInstancesFree(p) ==
    /\ st[p] \in {"world", "inside"} /\ bind[p] # None
    /\ ~HavePlayers(bind[p], ref)
    /\ ResetMap(bind[p]) /\ DeleteInstanceFromDB(bind[p])
    /\ bind' = [bind EXCEPT ![p] = None]
    /\ RemovePlayer(p, bind[p]) /\ FreeInstanceId(bind[p])
    /\ UNCHANGED <<events, maps, st, ref, answer, restarts>>

\* Player::ResetInstances, refused while somebody is linked to the map.  The
\* id stays registered and the reset stays scheduled.
ResetInstances(p) ==
    /\ st[p] \in {"world", "inside"} /\ bind[p] # None
    /\ ~HavePlayers(bind[p], ref)
    /\ ResetMap(bind[p])
    /\ DeleteInstanceFromDB(bind[p])
    /\ bind' = [bind EXCEPT ![p] = None]
    /\ RemovePlayer(p, bind[p])
    /\ UNCHANGED <<idVars, events, maps, st, ref, answer, restarts>>

\* InstanceSaveManager::Update, one due event: _ResetInstance unbinds the
\* players, deletes the save and its rows, resets the map and frees the id.
Update(e) ==
    /\ events[e] > 0
    /\ events' = [events EXCEPT ![e] = @ - 1]
    /\ bind' = [p \in Player |-> IF e \in saves /\ p \in playerList[e]
                                 THEN None ELSE bind[p]]
    /\ playerList' = [playerList EXCEPT ![e] = IF e \in saves THEN {} ELSE @]
    /\ saves' = saves \ {e}
    /\ DeleteInstanceFromDB(e)
    /\ ResetMap(e)
    /\ FreeInstanceId(e)
    /\ UNCHANGED <<maps, st, ref, answer, restarts>>

\* MapInstanced::Update: DestroyInstance when the timer has run out; a map
\* that a player is linked to is kept.
DestroyInstance(i) ==
    /\ i \in unloadTimer /\ ~HavePlayers(i, ref)
    /\ maps' = maps \ {i}
    /\ unloadTimer' = unloadTimer \ {i}
    /\ UNCHANGED <<idVars, saveVars, events, st, bind, ref, answer, rowVars, restarts>>

\* Mutants: the rows are loaded without moving the candidate; without being
\* scheduled.
LoadInstancesFromOne(expired, late) ==
    LET kept == row \ expired
    IN  /\ row' = kept /\ charRow' = [p \in Player |-> charRow[p] \cap kept]
        /\ ids' = kept /\ next' = 1
        /\ events' = [e \in InstanceId |-> Cardinality({i \in kept \ late : EventId(i) = e})]

LoadInstancesUnscheduled(expired, late) ==
    LET kept == row \ expired
    IN  /\ row' = kept /\ charRow' = [p \in Player |-> charRow[p] \cap kept]
        /\ ids' = kept
        /\ next' \in 1 .. (MaxId + 1) /\ LowestUnused(next', 1, kept)
        /\ events' = [e \in InstanceId |-> 0]

\* LoadInstances after the end of the process: expired rows and rows nobody
\* refers to are deleted, the ids of the others registered.  LoadResetTimes
\* reads them in ascending order and moves the candidate, which starts at 1,
\* past every id that it meets: it ends at the lowest unused id.  The reset of a
\* row is scheduled only if its time has not come yet: a row whose time comes
\* between the two statements is kept and not scheduled.
LoadInstances(expired, late) ==
    LET kept == {i \in row \ expired : \E p \in Player : i \in charRow[p]}
    IN  /\ row' = kept
        /\ charRow' = [p \in Player |-> charRow[p] \cap kept]
        /\ ids' = kept
        /\ next' \in 1 .. (MaxId + 1)
        /\ LowestUnused(next', 1, kept)
        /\ events' = [e \in InstanceId |-> Cardinality({i \in kept \ late : EventId(i) = e})]

Restart ==
    /\ restarts < MaxRestarts
    /\ restarts' = restarts + 1
    /\ \E expired \in SUBSET row : \E late \in SUBSET (row \ expired) :
          /\ LateRows \/ late = {}
          /\ LoadInstances(expired, late)
    /\ saves' = {} /\ playerList' = [i \in InstanceId |-> {}]
    /\ maps' = {} /\ unloadTimer' = {}
    /\ st' = [p \in Player |-> "offline"]
    /\ bind' = [p \in Player |-> None]
    /\ ref' = [p \in Player |-> None]
    /\ answer' = [p \in Player |-> {}]

Next ==
    \/ \E p \in Player :
          \/ EnterBound(p) \/ EnterNew(p) \/ EnterNewDenied(p)
          \/ TeleportOut(p) \/ WorldportAck(p) \/ LogoutPlayer(p)
          \/ LoginQuery(p) \/ LoginCallback(p) \/ ResetInstances(p)
    \/ \E i \in InstanceId : Update(i) \/ DestroyInstance(i)
    \/ Restart

\* World::Update calls InstanceSaveManager::Update and the update of the maps
\* in every tick: an event that stays due is processed and a map whose timer
\* runs is destroyed.
Fairness == \A i \in InstanceId : WF_vars(Update(i)) /\ WF_vars(DestroyInstance(i))

Spec == Init /\ [][Next]_vars /\ Fairness

-----------------------------------------------------------------------------
(***************************************************************************)
(* Properties.                                                             *)
(***************************************************************************)

\* Every variable has its type.
TypeOK ==
    /\ ids \subseteq InstanceId /\ next \in 0 .. (MaxId + 1)
    /\ saves \subseteq InstanceId
    /\ playerList \in [InstanceId -> SUBSET Player]
    /\ events \in [InstanceId -> Nat]
    /\ maps \subseteq InstanceId /\ unloadTimer \subseteq InstanceId
    /\ st \in [Player -> {"offline", "loading", "world", "inside", "transit"}]
    /\ bind \in [Player -> InstanceId \cup {None}]
    /\ ref \in [Player -> InstanceId \cup {None}]
    /\ answer \in [Player -> SUBSET InstanceId]
    /\ row \subseteq InstanceId /\ charRow \in [Player -> SUBSET InstanceId]
    /\ restarts \in 0 .. MaxRestarts

\* GenerateInstanceId hands out m_NextInstanceID without looking it up: it
\* must never be an id that is in use, through every order of allocations,
\* resets and restarts.
NextIdFree == next \notin ids

\* The two directions of a bind agree: a player is on the list of exactly the
\* save that it is bound to, and that save is loaded.  A save that dies with
\* players on its list aborts the server (~InstanceSave), a bind to a dead
\* save is a dangling pointer.
BindsListed ==
    /\ \A p \in Player : bind[p] # None => bind[p] \in saves
    /\ \A p \in Player, i \in InstanceId : p \in playerList[i] <=> bind[p] = i
    /\ \A i \in saves : playerList[i] # {}

\* The id of a stored instance is registered and exactly one reset of it is
\* pending; no reset is pending for an id that was given back.  A second or a
\* left-over event would reset the next owner of the id.
ResetPendingOnce ==
    \A i \in InstanceId :
        /\ i \in row => i \in ids /\ events[EventId(i)] = 1
        /\ events[i] > 0 => i \in ids /\ events[i] = 1

\* A solo instance belongs to one player, in memory and in the tables.
SoloPrivate ==
    \A p, q \in Player : p # q =>
        /\ bind[p] = None \/ bind[p] # bind[q]
        /\ BoundRows(p) \cap BoundRows(q) = {}

\* A loaded map without players always has its unload timer running: nothing
\* else would ever destroy it.
EmptyMapUnloads == \A i \in maps : HavePlayers(i, ref) \/ i \in unloadTimer

\* Every stored instance is reset in the end, whatever its player does.
EveryInstanceReset == \A i \in InstanceId : (i \in row) ~> (i \notin row)

\* Map.cpp: "the reset time is only scheduled when there are no payers
\* inside": the reset never hits an instance with players.
ResetOnlyEmpty ==
    [][\A e \in InstanceId : events'[e] < events[e] /\ row' # row
          => ~HavePlayers(e, ref)]_vars

\* MapInstanced.cpp: without a bind "the instance will be created for the
\* first time": the player does not walk into a copy that was used before.
FreshInstance ==
    [][\A p \in Player : bind[p] = None /\ st'[p] = "inside" /\ st[p] = "world"
          => ref'[p] \notin maps]_vars
=============================================================================
