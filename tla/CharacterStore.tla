--------------------------- MODULE CharacterStore ---------------------------
(***************************************************************************)
(* The write-behind store under the characters: what a player in the world *)
(* holds in memory (Player::m_items, the coinage field), the rows of the   *)
(* character database, and the queue of the asynchronous transactions      *)
(* between the two.                                                        *)
(*                                                                         *)
(* A transaction is the function from the rows it writes to the values it  *)
(* writes: every statement the modelled handlers append is an absolute     *)
(* write (UPDATE ... SET money = ?, REPLACE, DELETE), never an increment.  *)
(* A login is a query in the same queue; the player enters the world with  *)
(* its answer.  The threads of the pool take the entries in order and may  *)
(* finish them in any order, so one of the first Workers entries is the    *)
(* next to take effect.  A crash loses the memory and the queue.           *)
(*                                                                         *)
(* Handlers run to completion on the world thread (PROCESS_THREADUNSAFE),  *)
(* so one handler is one action.                                           *)
(***************************************************************************)
EXTENDS Integers, Sequences, FiniteSets, SequencesExt

CONSTANTS
    Player, Item,
    Nobody,       \* no player: the value of a missing row
    InitOwner,    \* Item -> Player: the inventories at the start
    InitMoney,    \* Player -> Nat
    BagSize,      \* Player -> Nat: slots of the inventory
    Limited,      \* the items of an entry with a maximum count
    Limit,        \* that maximum: ItemTemplate::MaxCount
    MaxMoney,     \* MAX_MONEY_AMOUNT
    Workers,      \* CharacterDatabase.WorkerThreads
    MaxQueue,     \* bound on the transactions under way
    MaxCrashes    \* bound on the crashes of the server

ASSUME StoreAssumption ==
    /\ IsFiniteSet(Player) /\ IsFiniteSet(Item)
    /\ Nobody \notin Player /\ Player \cap Item = {} /\ Nobody \notin Item
    /\ InitOwner \in [Item -> Player] /\ InitMoney \in [Player -> Nat]
    /\ BagSize \in [Player -> Nat] /\ Limited \subseteq Item
    /\ Limit \in Nat /\ MaxMoney \in Nat /\ MaxCrashes \in Nat
    /\ Workers \in Nat \ {0} /\ MaxQueue \in Nat

VARIABLES
    online,       \* players in the world
    inv, money,   \* their inventory and money; empty while offline
    db, queue,    \* the tables and the entries not yet executed
    crashes

storeVars == <<online, inv, money, db, queue, crashes>>

-----------------------------------------------------------------------------
\* Rows are functions: f ++ g has the values of f and, where f has none, of g.
f ++ g == [r \in DOMAIN f \cup DOMAIN g |-> IF r \in DOMAIN f THEN f[r] ELSE g[r]]
Write(r, v) == [x \in {r} |-> v]

\* The rows: characters.money of p, and the character_inventory row of item i,
\* whose key is the item and whose value is the character.
GoldRow(p) == <<"gold", p>>
ItemRow(i) == <<"item", i>>

\* SaveGoldToDB for the players ps, whose money is m.
GoldRows(ps, m) == [r \in {GoldRow(p) : p \in ps} |-> m[r[2]]]
\* The statements of _SaveInventory for the items is that p has newly got.
ItemRows(is, p) == [r \in {ItemRow(i) : i \in is} |-> p]

Query(p) == [load |-> p, rows |-> [r \in {} |-> r]]
Loading(p) == \E k \in DOMAIN queue : queue[k].load = p

\* CommitTransaction: the transaction goes to the end of the queue.
Commit(rows) ==
    /\ Len(queue) < MaxQueue
    /\ queue' = Append(queue, [load |-> Nobody, rows |-> rows])

\* The value that row r has once every queued transaction is executed.
Latest(r) ==
    LET writers == {k \in DOMAIN queue : r \in DOMAIN queue[k].rows}
    IN  IF writers = {} THEN db[r]
        ELSE queue[CHOOSE k \in writers : \A l \in writers : l <= k].rows[r]

-----------------------------------------------------------------------------
(***************************************************************************)
(* Money and bags.                                                         *)
(***************************************************************************)

\* Player::ModifyMoney with a negative amount stops at 0, with a positive one
\* at the gold limit.
Paid(m, d) == IF m > d THEN m - d ELSE 0
Received(m, d) == IF m < MaxMoney - d THEN m + d ELSE MaxMoney

\* Mutant: the item itself is forgotten in the count.
CanTakeOneTooMany(i, bag) ==
    i \in Limited => Cardinality((bag \ {i}) \cap Limited) <= Limit

\* CanTakeMoreSimilarItems: i itself is not counted.
CanTakeMoreSimilarItems(i, bag) ==
    i \in Limited => Cardinality((bag \ {i}) \cap Limited) + 1 <= Limit

\* CanStoreItem of one item of stack size one in the bag of p.
CanStoreItem(p, bag, i) ==
    CanTakeMoreSimilarItems(i, bag) /\ Cardinality(bag) < BagSize[p]

-----------------------------------------------------------------------------
(***************************************************************************)
(* Login, logout, saves and crashes.  Modules that extend this one add     *)
(* what they keep for a player.                                            *)
(***************************************************************************)

StoreInit ==
    /\ online = Player
    /\ inv = [p \in Player |-> {i \in Item : InitOwner[i] = p}]
    /\ money = InitMoney
    /\ queue = <<>>
    /\ crashes = 0

\* The rows that the characters own at the start.
InitRows ==
    [r \in {GoldRow(p) : p \in Player} |-> InitMoney[r[2]]]
        ++ [r \in {ItemRow(i) : i \in Item} |-> InitOwner[r[2]]]

\* LoginPlayer sends the query holder.
LoginPlayer(p) ==
    /\ p \notin online /\ ~Loading(p)
    /\ Len(queue) < MaxQueue
    /\ queue' = Append(queue, Query(p))
    /\ UNCHANGED <<online, inv, money, db, crashes>>

\* Executed k-th entry: a worker has finished one of the entries taken first.
Finish(k) ==
    /\ k \in DOMAIN queue /\ k <= Workers
    /\ queue' = RemoveAt(queue, k)

\* The query holder of p is answered: LoadFromDB builds the player, who enters
\* the world.
LoadFromDB(p, k) ==
    /\ Finish(k) /\ queue[k].load = p
    /\ online' = online \cup {p}
    /\ inv' = [inv EXCEPT ![p] = {i \in Item : db[ItemRow(i)] = p}]
    /\ money' = [money EXCEPT ![p] = IF db[GoldRow(p)] > MaxMoney
                                     THEN MaxMoney ELSE db[GoldRow(p)]]
    /\ UNCHANGED <<db, crashes>>

\* A transaction is executed as a whole.
Execute(k) ==
    /\ Finish(k) /\ queue[k].load = Nobody
    /\ db' = queue[k].rows ++ db
    /\ UNCHANGED <<online, inv, money, crashes>>

\* Mutant: the player is saved and stays in memory.
LogoutPlayerKept(p, more) ==
    /\ p \in online
    /\ Commit(GoldRows({p}, money) ++ more)
    /\ online' = online \ {p}
    /\ UNCHANGED <<inv, money, db, crashes>>

\* LogoutPlayer: SaveToDB, then the player leaves the memory.  The transaction
\* holds the rows in more besides the money: the inventory has no unsaved
\* change, because every handler that moves an item saves it.
LogoutPlayer(p, more) ==
    /\ p \in online
    /\ Commit(GoldRows({p}, money) ++ more)
    /\ online' = online \ {p}
    /\ inv' = [inv EXCEPT ![p] = {}]
    /\ money' = [money EXCEPT ![p] = 0]
    /\ UNCHANGED <<db, crashes>>

Crash ==
    /\ crashes < MaxCrashes
    /\ online' = {} /\ queue' = <<>> /\ crashes' = crashes + 1
    /\ inv' = [p \in Player |-> {}]
    /\ money' = [p \in Player |-> 0]
    /\ UNCHANGED db

StoreTypeOK ==
    /\ online \subseteq Player
    /\ inv \in [Player -> SUBSET Item]
    /\ money \in [Player -> 0 .. MaxMoney]
    /\ \A p \in Player \ online : inv[p] = {} /\ money[p] = 0
    /\ crashes \in 0 .. MaxCrashes
    /\ Len(queue) <= MaxQueue

=============================================================================
